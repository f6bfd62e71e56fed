------------------------ MODULE AgentRequests_proofs ------------------------
(***************************************************************************)
(* Proofs about AgentRequests: type correctness, the life of a busy       *)
(* marker, what the registry does and does not guarantee about two turns  *)
(* of one session, and which turns a compaction may lose, for every set of*)
(* sessions and any number of requests.                                   *)
(***************************************************************************)
EXTENDS AgentRequests, TLAPS

\* A request's kind and session are those of the call it is in.
Placed ==
  \A r \in Requests :
    /\ pc[r] \in TurnStates => kind[r] = "turn"
    /\ pc[r] \in SumStates => kind[r] = "summarize"
    /\ pc[r] \in TurnStates \cup SumStates => sess[r] \in Sessions

\* Run is called by one goroutine, and between its check and its store nobody
\* marks the session.
CheckedStaysFree ==
  \A r \in Requests : pc[r] = "entering" =>
    /\ active[<<sess[r], "turn">>] = None
    /\ \A q \in Requests : pc[q] = "entering" => q = r

\* A turn at work holds its session's marker until it is cancelled or the
\* marker is deleted under it.
WorkingIsMarked ==
  \A r \in Requests :
    pc[r] \in Working /\ r \notin dead \cup erased => active[<<sess[r], "turn">>] = r

\* A turn and a summary of one session that are in progress at one time.
MeetingsAreMixed ==
  \A q, r \in Requests :
    pc[q] \in TurnStates /\ pc[r] \in SumStates /\ sess[q] = sess[r] => q \in mixed

\* A request whose message is stored has come that far.
PostedHaveRun ==
  \A s \in Sessions : \A i \in DOMAIN log[s] :
    pc[log[s][i]] \notin {"idle", "entering", "started",
                         "sum_entering", "sum_started", "sum_listed"}

\* A summary being written knows every turn its session has, but for those
\* that ran beside it.
ListedKnows ==
  \A r \in Requests : pc[r] = "sum_listed" =>
    \A i \in DOMAIN log[sess[r]] :
      LET q == log[sess[r]][i] IN kind[q] = "turn" => q \in recall[r] \cup mixed

\* A summary stored in a session knows every turn before it, but for those.
PostedKnows ==
  \A s \in Sessions : \A j \in DOMAIN log[s] : \A i \in 1 .. j - 1 :
    kind[log[s][j]] = "summarize" /\ kind[log[s][i]] = "turn"
      => log[s][i] \in recall[log[s][j]] \cup mixed

\* A summary whose Summarize saved it, or none.
Saved(q) == q # None => kind[q] = "summarize" /\ pc[q] \in {"sum_ended", "closed"}

\* What a session is cut at, or a turn may cut it at when it saves the row it
\* read, is a summary.
CutsAreSummaries ==
  /\ \A s \in Sessions : Saved(summary[s])
  /\ \A r \in Requests : Saved(row[r])

\* A request that was mixed has been made.
MixedHaveRun == \A q \in mixed : pc[q] # "idle"

\* Two requests of one session met there.
HasMixed(s) == \E q \in mixed : sess[q] = s

\* The row a turn is about to save has the session's cut, unless a compaction
\* saved a new one beside it.
RowsAreCurrent ==
  \A r \in Requests :
    pc[r] = "reconciling" /\ row[r] # summary[sess[r]] => HasMixed(sess[r])

IInv ==
  /\ TypeOK
  /\ Placed
  /\ MarkerHasLiveOwner
  /\ CheckedStaysFree
  /\ WorkingIsMarked
  /\ MeetingsAreMixed
  /\ PostedHaveRun
  /\ ListedKnows
  /\ PostedKnows
  /\ CutsAreSummaries
  /\ MixedHaveRun
  /\ RowsAreCurrent

\* The initial states satisfy the inductive invariant.
LEMMA InitIInv == Init => IInv
<1> SUFFICES ASSUME Init PROVE IInv
  OBVIOUS
<1>1. TypeOK
  BY RequestsAssumption DEF Init, TypeOK, Keys, Kinds, Requests, EventBuffer
<1>2. Placed
  BY DEF Init, Placed, TurnStates, SumStates
<1>3. MarkerHasLiveOwner
  BY DEF Init, MarkerHasLiveOwner
<1>4. CheckedStaysFree
  BY DEF Init, CheckedStaysFree
<1>5. WorkingIsMarked
  BY DEF Init, WorkingIsMarked, Working
<1>6. MeetingsAreMixed
  BY DEF Init, MeetingsAreMixed, TurnStates
<1>7. PostedHaveRun /\ PostedKnows
  <2>1. \A s \in Sessions : DOMAIN log[s] = {}
    BY DEF Init
  <2> QED
    BY <2>1 DEF PostedHaveRun, PostedKnows
<1>8. ListedKnows
  BY DEF Init, ListedKnows
<1>9. CutsAreSummaries
  BY DEF Init, CutsAreSummaries, Saved
<1>10. MixedHaveRun /\ RowsAreCurrent
  BY DEF Init, MixedHaveRun, RowsAreCurrent
<1> QED
  BY <1>1, <1>2, <1>3, <1>4, <1>5, <1>6, <1>7, <1>8, <1>9, <1>10 DEF IInv

\* Every step preserves type correctness.
LEMMA NextTypeOK == TypeOK /\ Placed /\ [Next]_vars => TypeOK'
<1> SUFFICES ASSUME TypeOK, Placed, [Next]_vars PROVE TypeOK'
  OBVIOUS
<1> USE DEF TypeOK, store, history
<1>1. ASSUME NEW r \in Requests, NEW s \in Sessions, RunCheck(r, s)
      PROVE TypeOK'
  BY <1>1 DEF RunCheck, Goto, InProgress, Kinds, TurnStates
<1>2. ASSUME NEW r \in Requests, NEW s \in Sessions, SummarizeCheck(r, s)
      PROVE TypeOK'
  BY <1>2 DEF SummarizeCheck, Goto, InProgress, Kinds, SumStates
<1>3. ASSUME NEW r \in Requests, RunStore(r) \/ SummarizeStore(r)
      PROVE TypeOK'
  <2>1. active' \in [Keys -> Requests \cup {None}]
    BY <1>3 DEF RunStore, SummarizeStore
  <2>2. CASE RunStore(r)
    BY <2>1, <2>2 DEF RunStore, Goto, TurnStates
  <2>3. CASE SummarizeStore(r)
    BY <2>1, <2>3 DEF SummarizeStore, Goto, SumStates
  <2> QED
    BY <1>3, <2>2, <2>3
<1>4. ASSUME NEW r \in Requests, PostUserMessage(r) \/ SummarizePost(r)
      PROVE TypeOK'
  <2>1. sess[r] \in Sessions
    BY <1>4 DEF PostUserMessage, SummarizePost, Goto, Placed, TurnStates, SumStates
  <2>2. Append(log[sess[r]], r) \in Seq(Requests)
    BY <2>1
  <2>3. log' \in [Sessions -> Seq(Requests)]
    BY <1>4, <2>1, <2>2 DEF PostUserMessage, SummarizePost
  <2>4. CASE PostUserMessage(r)
    BY <2>3, <2>4 DEF PostUserMessage, Goto, TurnStates
  <2>5. CASE SummarizePost(r)
    BY <2>3, <2>5 DEF SummarizePost, Goto, SumStates
  <2> QED
    BY <1>4, <2>4, <2>5
<1>5. ASSUME NEW r \in Requests, TurnReturns(r) \/ CloseEvents(r)
      PROVE TypeOK'
  BY <1>5 DEF TurnReturns, CloseEvents, Goto, TurnStates
<1>6. ASSUME NEW r \in Requests, TurnPanics(r) \/ Deliver(r)
      PROVE TypeOK'
  <2>1. events' \in [Requests -> 0 .. EventBuffer]
    <3>1. events[r] < EventBuffer /\ events' = [events EXCEPT ![r] = @ + 1]
      BY <1>6 DEF TurnPanics, Deliver
    <3>2. events[r] + 1 \in 0 .. EventBuffer
      BY <3>1 DEF EventBuffer
    <3> QED
      BY <3>1, <3>2
  <2>2. pc' \in [Requests -> {"idle", "closed"} \cup TurnStates \cup SumStates]
    BY <1>6 DEF TurnPanics, Deliver, Goto, TurnStates
  <2> QED
    BY <1>6, <2>1, <2>2 DEF TurnPanics, Deliver
<1>7. ASSUME NEW r \in Requests, Release(r) \/ DeferredRelease(r) \/ SummarizeRelease(r)
      PROVE TypeOK'
  <2>1. Key(r) \in Keys
    BY <1>7 DEF Release, DeferredRelease, SummarizeRelease, Goto, Key, Keys, Placed,
                TurnStates, SumStates
  <2>2. active' \in [Keys -> Requests \cup {None}] /\ erased' \subseteq Requests
    BY <1>7, <2>1 DEF Release, DeferredRelease, SummarizeRelease, DeleteMarker
  <2>3. pc' \in [Requests -> {"idle", "closed"} \cup TurnStates \cup SumStates]
    BY <1>7 DEF Release, DeferredRelease, SummarizeRelease, Goto, TurnStates, SumStates
  <2> QED
    BY <1>7, <2>2, <2>3 DEF Release, DeferredRelease, SummarizeRelease
<1>8. ASSUME NEW r \in Requests, SummarizeList(r)
      PROVE TypeOK'
  <2>1. log[sess[r]] \in Seq(Requests)
    BY <1>8 DEF SummarizeList, Goto, Placed, SumStates
  <2>2. ToSet(log[sess[r]]) \subseteq Requests
    BY <2>1 DEF ToSet
  <2> QED
    BY <1>8, <2>2 DEF SummarizeList, Goto, SumStates
<1>9. ASSUME NEW r \in Requests, SummarizeSave(r) \/ SummarizeFails(r)
      PROVE TypeOK'
  <2>1. CASE SummarizeSave(r)
    BY <2>1 DEF SummarizeSave, Goto, SumStates
  <2>2. CASE SummarizeFails(r)
    BY <2>2 DEF SummarizeFails, SumStates
  <2> QED
    BY <1>9, <2>1, <2>2
<1>13. ASSUME NEW r \in Requests, ReadRow(r) \/ SaveRow(r)
      PROVE TypeOK'
  <2>1. sess[r] \in Sessions
    BY <1>13 DEF ReadRow, SaveRow, Goto, Placed, TurnStates
  <2>2. CASE ReadRow(r)
    BY <2>1, <2>2 DEF ReadRow, Goto, TurnStates
  <2>3. CASE SaveRow(r)
    BY <2>1, <2>3 DEF SaveRow, Goto, TurnStates
  <2> QED
    BY <1>13, <2>2, <2>3
<1>10. ASSUME NEW s \in Sessions, Cancel(s)
      PROVE TypeOK'
  BY <1>10 DEF Cancel, Keys, Kinds
<1>11. CASE UpdateModel
  BY <1>11, RequestsAssumption DEF UpdateModel
<1>12. CASE UNCHANGED vars
  BY <1>12 DEF vars
<1> QED
  BY <1>1, <1>2, <1>3, <1>4, <1>5, <1>6, <1>7, <1>8, <1>9, <1>10, <1>11, <1>12,
     <1>13
  DEF Next, TurnStep, SummarizeStep

\* Every step keeps a request's kind and session those of its call.
LEMMA NextPlaced == TypeOK /\ Placed /\ [Next]_vars => Placed'
<1> SUFFICES ASSUME TypeOK, Placed, [Next]_vars PROVE Placed'
  OBVIOUS
<1> USE DEF TypeOK, Placed, Goto, TurnStates, SumStates, Kinds
<1>1. ASSUME NEW r \in Requests, NEW s \in Sessions, RunCheck(r, s) \/ SummarizeCheck(r, s)
      PROVE Placed'
  <2>1. \A q \in Requests \ {r} : pc'[q] = pc[q] /\ sess'[q] = sess[q] /\ kind'[q] = kind[q]
    BY <1>1 DEF RunCheck, SummarizeCheck
  <2>2. /\ sess'[r] = s
        /\ \/ pc'[r] = "entering" /\ kind'[r] = "turn"
           \/ pc'[r] = "sum_entering" /\ kind'[r] = "summarize"
    BY <1>1 DEF RunCheck, SummarizeCheck
  <2> QED
    BY <2>1, <2>2
<1>2. ASSUME NEW r \in Requests, TurnStep(r) \/ TurnPanics(r) \/ ReadRow(r) \/ SaveRow(r)
      PROVE Placed'
  BY <1>2 DEF TurnStep, TurnPanics, ReadRow, SaveRow, RunStore, PostUserMessage, TurnReturns,
              Working, Release, Deliver, DeferredRelease, CloseEvents
<1>3. ASSUME NEW r \in Requests, SummarizeStep(r)
      PROVE Placed'
  BY <1>3 DEF SummarizeStep, SummarizeStore, SummarizeList, SummarizePost, SummarizeSave,
              SummarizeFails, SummarizeRelease
<1>4. ASSUME NEW s \in Sessions, Cancel(s)
      PROVE Placed'
  BY <1>4 DEF Cancel
<1>5. CASE UpdateModel
  BY <1>5 DEF UpdateModel
<1>6. CASE UNCHANGED vars
  BY <1>6 DEF vars
<1> QED
  BY <1>1, <1>2, <1>3, <1>4, <1>5, <1>6 DEF Next

\* Every step leaves each marker with a live owner: a request that stops
\* holding its key deletes the marker it may still have there.
LEMMA NextMarker ==
  TypeOK /\ Placed /\ MarkerHasLiveOwner /\ [Next]_vars => MarkerHasLiveOwner'
<1> SUFFICES ASSUME TypeOK, Placed, MarkerHasLiveOwner, [Next]_vars PROVE MarkerHasLiveOwner'
  OBVIOUS
<1> USE RequestsAssumption DEF TypeOK, MarkerHasLiveOwner, Key, Goto, Holding
<1>1. ASSUME NEW r \in Requests, NEW s \in Sessions, RunCheck(r, s) \/ SummarizeCheck(r, s)
      PROVE MarkerHasLiveOwner'
  <2>1. \A k \in Keys : active[k] # r
    <3>1. pc[r] = "idle" /\ r # None
      BY <1>1 DEF RunCheck, SummarizeCheck
    <3> QED
      BY <3>1
  <2>2. active' = active
    BY <1>1 DEF RunCheck, SummarizeCheck
  <2>3. \A q \in Requests \ {r} : pc'[q] = pc[q] /\ sess'[q] = sess[q] /\ kind'[q] = kind[q]
    BY <1>1 DEF RunCheck, SummarizeCheck
  <2> QED
    BY <2>1, <2>2, <2>3
<1>2. ASSUME NEW r \in Requests, RunStore(r) \/ SummarizeStore(r)
      PROVE MarkerHasLiveOwner'
  <2>1. active' = [active EXCEPT ![Key(r)] = r] /\ sess' = sess /\ kind' = kind
    BY <1>2 DEF RunStore, SummarizeStore
  <2>2. \A q \in Requests \ {r} : pc'[q] = pc[q]
    BY <1>2 DEF RunStore, SummarizeStore
  <2>3. pc'[r] \in Holding
    BY <1>2 DEF RunStore, SummarizeStore
  <2>4. \A k \in Keys : active'[k] = r \/ active'[k] = active[k]
    BY <2>1
  <2>5. \A k \in Keys : active'[k] = r => k = Key(r)
    <3>1. pc[r] \notin Holding
      BY <1>2 DEF RunStore, SummarizeStore
    <3>2. \A k \in Keys : active[k] # r
      BY <3>1
    <3> QED
      BY <2>1, <3>2
  <2> QED
    BY <2>1, <2>2, <2>3, <2>4, <2>5
<1>3. ASSUME NEW r \in Requests,
             Release(r) \/ DeferredRelease(r) \/ SummarizeRelease(r)
      PROVE MarkerHasLiveOwner'
  <2>1. active' = [active EXCEPT ![Key(r)] = None] /\ sess' = sess /\ kind' = kind
    BY <1>3 DEF Release, DeferredRelease, SummarizeRelease, DeleteMarker
  <2>2. \A k \in Keys : active'[k] # None => active'[k] = active[k] /\ k # Key(r)
    BY <2>1
  <2>3. \A k \in Keys : active'[k] # None => active'[k] # r
    BY <2>2
  <2>4. \A q \in Requests \ {r} : pc'[q] = pc[q]
    BY <1>3 DEF Release, DeferredRelease, SummarizeRelease
  <2> QED
    BY <2>1, <2>2, <2>3, <2>4
<1>4. ASSUME NEW r \in Requests,
             \/ PostUserMessage(r) \/ TurnReturns(r) \/ TurnPanics(r) \/ ReadRow(r) \/ SaveRow(r)
             \/ SummarizeList(r) \/ SummarizePost(r) \/ SummarizeSave(r) \/ SummarizeFails(r)
      PROVE MarkerHasLiveOwner'
  <2>1. active' = active /\ sess' = sess /\ kind' = kind
    BY <1>4 DEF PostUserMessage, TurnReturns, TurnPanics, ReadRow, SaveRow, SummarizeList,
                SummarizePost, SummarizeSave, SummarizeFails
  <2>2. pc'[r] \in Holding /\ \A q \in Requests \ {r} : pc'[q] = pc[q]
    BY <1>4 DEF PostUserMessage, TurnReturns, TurnPanics, ReadRow, SaveRow, SummarizeList,
                SummarizePost, SummarizeSave, SummarizeFails
  <2> QED
    BY <2>1, <2>2
<1>5. ASSUME NEW r \in Requests, Deliver(r) \/ CloseEvents(r)
      PROVE MarkerHasLiveOwner'
  <2>1. active' = active /\ sess' = sess /\ kind' = kind
    BY <1>5 DEF Deliver, CloseEvents
  <2>2. pc[r] \notin Holding /\ \A q \in Requests \ {r} : pc'[q] = pc[q]
    BY <1>5 DEF Deliver, CloseEvents
  <2> QED
    BY <2>1, <2>2
<1>6. ASSUME NEW s \in Sessions, Cancel(s)
      PROVE MarkerHasLiveOwner'
  BY <1>6 DEF Cancel
<1>7. CASE UpdateModel
  BY <1>7 DEF UpdateModel
<1>8. CASE UNCHANGED vars
  BY <1>8 DEF vars
<1> QED
  BY <1>1, <1>2, <1>3, <1>4, <1>5, <1>6, <1>7, <1>8 DEF Next, TurnStep, SummarizeStep

\* Every step leaves a session that Run has found free unmarked until Run
\* stores its marker.
LEMMA NextFree ==
  TypeOK /\ Placed /\ CheckedStaysFree /\ [Next]_vars => CheckedStaysFree'
<1> SUFFICES ASSUME TypeOK, Placed, CheckedStaysFree, [Next]_vars PROVE CheckedStaysFree'
  OBVIOUS
<1> USE DEF TypeOK, Placed, CheckedStaysFree, Key, Goto
<1>1. ASSUME NEW r \in Requests, NEW s \in Sessions, RunCheck(r, s) \/ SummarizeCheck(r, s)
      PROVE CheckedStaysFree'
  <2>1. active' = active
    BY <1>1 DEF RunCheck, SummarizeCheck
  <2>2. \A q \in Requests \ {r} : pc'[q] = pc[q] /\ sess'[q] = sess[q]
    BY <1>1 DEF RunCheck, SummarizeCheck
  <2>3. CASE RunCheck(r, s)
    <3>1. sess'[r] = s /\ active[<<s, "turn">>] = None
      BY <2>3 DEF RunCheck, IsSessionBusy
    <3>2. \A q \in Requests \ {r} : pc'[q] # "entering"
      BY <2>2, <2>3 DEF RunCheck
    <3> QED
      BY <2>1, <3>1, <3>2
  <2>4. CASE SummarizeCheck(r, s)
    <3>1. pc'[r] # "entering"
      BY <2>4 DEF SummarizeCheck
    <3> QED
      BY <2>1, <2>2, <3>1
  <2> QED
    BY <1>1, <2>3, <2>4
<1>2. ASSUME NEW r \in Requests, RunStore(r)
      PROVE CheckedStaysFree'
  BY <1>2 DEF RunStore
<1>3. ASSUME NEW r \in Requests, SummarizeStore(r)
      PROVE CheckedStaysFree'
  <2>1. Key(r)[2] = "summarize"
    BY <1>3 DEF SummarizeStore, SumStates
  <2>2. \A s \in Sessions : active'[<<s, "turn">>] = active[<<s, "turn">>]
    BY <1>3, <2>1 DEF SummarizeStore, Keys, Kinds
  <2>3. \A q \in Requests : pc'[q] = "entering" => pc[q] = "entering" /\ sess'[q] \in Sessions
    BY <1>3 DEF SummarizeStore, TurnStates
  <2> QED
    BY <1>3, <2>2, <2>3 DEF SummarizeStore
<1>4. ASSUME NEW r \in Requests,
             Release(r) \/ DeferredRelease(r) \/ SummarizeRelease(r)
      PROVE CheckedStaysFree'
  <2>1. \A k \in Keys : active'[k] \in {active[k], None}
    BY <1>4 DEF Release, DeferredRelease, SummarizeRelease, DeleteMarker
  <2>2. \A q \in Requests : pc'[q] = "entering" => pc[q] = "entering" /\ sess'[q] \in Sessions
    BY <1>4 DEF Release, DeferredRelease, SummarizeRelease, TurnStates
  <2>3. \A q \in Requests : sess'[q] = sess[q]
    BY <1>4 DEF Release, DeferredRelease, SummarizeRelease
  <2> QED
    BY <2>1, <2>2, <2>3 DEF Keys, Kinds
<1>5. ASSUME NEW r \in Requests,
             \/ PostUserMessage(r) \/ TurnReturns(r) \/ TurnPanics(r) \/ ReadRow(r) \/ SaveRow(r)
             \/ Deliver(r) \/ CloseEvents(r) \/ SummarizeList(r) \/ SummarizePost(r)
             \/ SummarizeSave(r) \/ SummarizeFails(r)
      PROVE CheckedStaysFree'
  <2>1. active' = active /\ sess' = sess
    BY <1>5 DEF PostUserMessage, TurnReturns, TurnPanics, ReadRow, SaveRow, Deliver, CloseEvents,
                SummarizeList, SummarizePost, SummarizeSave, SummarizeFails
  <2>2. pc'[r] # "entering" /\ \A q \in Requests \ {r} : pc'[q] = pc[q]
    BY <1>5 DEF PostUserMessage, TurnReturns, TurnPanics, ReadRow, SaveRow, Deliver, CloseEvents,
                SummarizeList, SummarizePost, SummarizeSave, SummarizeFails
  <2> QED
    BY <2>1, <2>2
<1>6. ASSUME NEW s \in Sessions, Cancel(s)
      PROVE CheckedStaysFree'
  BY <1>6 DEF Cancel, Keys, Kinds, TurnStates
<1>7. CASE UpdateModel
  BY <1>7 DEF UpdateModel
<1>8. CASE UNCHANGED vars
  BY <1>8 DEF vars
<1> QED
  BY <1>1, <1>2, <1>3, <1>4, <1>5, <1>6, <1>7, <1>8 DEF Next, TurnStep, SummarizeStep

\* Every step leaves a turn at work marked, unless it cancels the turn or
\* records the turn's marker as erased.
LEMMA NextMarked ==
  TypeOK /\ Placed /\ CheckedStaysFree /\ WorkingIsMarked /\ [Next]_vars => WorkingIsMarked'
<1> SUFFICES ASSUME TypeOK, Placed, CheckedStaysFree, WorkingIsMarked, [Next]_vars,
                    NEW q \in Requests, pc'[q] \in Working, q \notin dead' \cup erased'
             PROVE  active'[<<sess'[q], "turn">>] = q
  BY DEF WorkingIsMarked
<1> USE RequestsAssumption DEF TypeOK, Goto
<1> DEFINE Marked == pc[q] \in Working => active[<<sess[q], "turn">>] = q
<1>1. dead \subseteq dead' /\ erased \subseteq erased' => Marked
  BY DEF WorkingIsMarked
<1>2. ASSUME NEW r \in Requests, NEW s \in Sessions, RunCheck(r, s) \/ SummarizeCheck(r, s)
      PROVE active'[<<sess'[q], "turn">>] = q
  <2>1. r # q
    BY <1>2 DEF RunCheck, SummarizeCheck, Working
  <2>2. active' = active /\ sess'[q] = sess[q] /\ pc'[q] = pc[q] /\ dead' = dead /\ erased' = erased
    BY <1>2, <2>1 DEF RunCheck, SummarizeCheck
  <2> QED
    BY <1>1, <2>2
<1>3. ASSUME NEW r \in Requests, RunStore(r)
      PROVE active'[<<sess'[q], "turn">>] = q
  <2>1. Key(r) = <<sess[r], "turn">> /\ Key(r) \in Keys
    BY <1>3 DEF RunStore, Key, Keys, Kinds, Placed, TurnStates
  <2>2. CASE q = r
    BY <1>3, <2>1, <2>2 DEF RunStore
  <2>3. CASE q # r
    <3>1. pc[q] \in Working /\ sess' = sess /\ active[<<sess[q], "turn">>] = q
      BY <1>1, <1>3, <2>3 DEF RunStore, history
    <3>2. sess[q] # sess[r]
      BY <1>3, <3>1 DEF RunStore, CheckedStaysFree
    <3> QED
      BY <1>3, <2>1, <3>1, <3>2 DEF RunStore
  <2> QED
    BY <2>2, <2>3
<1>4. ASSUME NEW r \in Requests, SummarizeStore(r)
      PROVE active'[<<sess'[q], "turn">>] = q
  <2>1. Key(r) = <<sess[r], "summarize">> /\ r # q
    BY <1>4 DEF SummarizeStore, Key, Placed, SumStates, Working
  <2>2. pc[q] \in Working /\ sess' = sess /\ active[<<sess[q], "turn">>] = q
    BY <1>1, <1>4, <2>1 DEF SummarizeStore, history
  <2>3. <<sess[q], "turn">> \in Keys
    BY <2>2 DEF Keys, Kinds, Placed, Working, TurnStates
  <2> QED
    BY <1>4, <2>1, <2>2, <2>3 DEF SummarizeStore
<1>5. ASSUME NEW r \in Requests,
             Release(r) \/ DeferredRelease(r) \/ SummarizeRelease(r)
      PROVE active'[<<sess'[q], "turn">>] = q
  <2>1. r # q
    BY <1>5 DEF Release, DeferredRelease, SummarizeRelease, Working
  <2>2. /\ pc'[q] = pc[q] /\ sess' = sess
        /\ active' = [active EXCEPT ![Key(r)] = None]
        /\ erased' = erased \cup ({active[Key(r)]} \ {r, None})
        /\ dead \subseteq dead'
    BY <1>5, <2>1 DEF Release, DeferredRelease, SummarizeRelease, DeleteMarker
  <2>3. active[<<sess[q], "turn">>] = q /\ <<sess[q], "turn">> \in Keys
    BY <1>1, <2>2 DEF Keys, Kinds, Placed, Working, TurnStates
  <2>4. Key(r) # <<sess[q], "turn">>
    BY <2>1, <2>2, <2>3
  <2> QED
    BY <2>2, <2>3, <2>4
<1>6. ASSUME NEW r \in Requests,
             \/ PostUserMessage(r) \/ TurnReturns(r) \/ TurnPanics(r) \/ ReadRow(r) \/ SaveRow(r)
             \/ Deliver(r) \/ CloseEvents(r) \/ SummarizeList(r) \/ SummarizePost(r)
             \/ SummarizeSave(r) \/ SummarizeFails(r)
      PROVE active'[<<sess'[q], "turn">>] = q
  <2>1. active' = active /\ sess' = sess /\ dead \subseteq dead' /\ erased' = erased
    BY <1>6 DEF PostUserMessage, TurnReturns, TurnPanics, ReadRow, SaveRow, Deliver, CloseEvents,
                SummarizeList, SummarizePost, SummarizeSave, SummarizeFails, history
  <2>2. pc[q] \in Working
    BY <1>6 DEF PostUserMessage, TurnReturns, TurnPanics, ReadRow, SaveRow, Working, Deliver,
                CloseEvents, SummarizeList, SummarizePost, SummarizeSave, SummarizeFails
  <2> QED
    BY <1>1, <2>1, <2>2
<1>7. ASSUME NEW s \in Sessions, Cancel(s)
      PROVE active'[<<sess'[q], "turn">>] = q
  <2>1. pc' = pc /\ sess' = sess /\ dead \subseteq dead' /\ erased' = erased
    BY <1>7 DEF Cancel, history
  <2>2. active[<<sess[q], "turn">>] = q /\ <<sess[q], "turn">> \in Keys
    BY <1>1, <2>1 DEF Keys, Kinds, Placed, Working, TurnStates
  <2>3. sess[q] # s
    BY <1>7, <2>2 DEF Cancel, Kinds
  <2> QED
    BY <1>7, <2>1, <2>2, <2>3 DEF Cancel
<1>8. CASE UpdateModel
  BY <1>1, <1>8 DEF UpdateModel, history
<1>9. CASE UNCHANGED vars
  BY <1>1, <1>9 DEF vars, history
<1> QED
  BY <1>2, <1>3, <1>4, <1>5, <1>6, <1>7, <1>8, <1>9 DEF Next, TurnStep, SummarizeStep

\* Steps of a request that has been made leave its session and kind alone.
CallStep(r) == TurnStep(r) \/ TurnPanics(r) \/ ReadRow(r) \/ SaveRow(r) \/ SummarizeStep(r)

LEMMA CallStepFixes ==
  ASSUME TypeOK, NEW r \in Requests, CallStep(r)
  PROVE  /\ sess' = sess /\ kind' = kind /\ mixed' = mixed
         /\ pc[r] \in TurnStates \cup SumStates
         /\ pc'[r] \in TurnStates \cup SumStates \cup {"closed"}
         /\ pc[r] \in TurnStates <=> pc[r] \notin SumStates
         /\ pc'[r] \in TurnStates => pc[r] \in TurnStates
         /\ pc'[r] \in SumStates => pc[r] \in SumStates
         /\ \A q \in Requests \ {r} : pc'[q] = pc[q]
  BY DEF CallStep, TypeOK, TurnStep, SummarizeStep, RunStore, PostUserMessage, TurnReturns,
         TurnPanics, ReadRow, SaveRow, Release, Deliver, DeferredRelease, CloseEvents,
         SummarizeStore, SummarizeList, SummarizePost, SummarizeSave, SummarizeFails,
         SummarizeRelease, DeleteMarker, Goto, Working, TurnStates, SumStates, history

\* Every step that lets a turn and a summary of one session meet records the
\* turn as mixed.
LEMMA NextMeetings ==
  TypeOK /\ Placed /\ MeetingsAreMixed /\ [Next]_vars => MeetingsAreMixed'
<1> SUFFICES ASSUME TypeOK, Placed, MeetingsAreMixed, [Next]_vars,
                    NEW q \in Requests, NEW r \in Requests,
                    pc'[q] \in TurnStates, pc'[r] \in SumStates, sess'[q] = sess'[r]
             PROVE  q \in mixed'
  BY DEF MeetingsAreMixed
<1>1. ASSUME NEW c \in Requests, NEW s \in Sessions, RunCheck(c, s)
      PROVE q \in mixed'
  <2>1. r # c /\ pc'[r] = pc[r] /\ sess'[r] = sess[r]
    BY <1>1 DEF RunCheck, Goto, TypeOK, SumStates
  <2>2. CASE q = c
    <3>1. sess'[c] = s /\ r \in InProgress(s, SumStates)
      BY <1>1, <2>1, <2>2 DEF RunCheck, TypeOK, InProgress
    <3> QED
      BY <1>1, <2>2, <3>1 DEF RunCheck
  <2>3. CASE q # c
    <3>1. pc'[q] = pc[q] /\ sess'[q] = sess[q]
      BY <1>1, <2>3 DEF RunCheck, Goto, TypeOK
    <3> QED
      BY <1>1, <2>1, <3>1 DEF RunCheck, MeetingsAreMixed
  <2> QED
    BY <2>2, <2>3
<1>2. ASSUME NEW c \in Requests, NEW s \in Sessions, SummarizeCheck(c, s)
      PROVE q \in mixed'
  <2>1. q # c /\ pc'[q] = pc[q] /\ sess'[q] = sess[q]
    BY <1>2 DEF SummarizeCheck, Goto, TypeOK, TurnStates
  <2>2. CASE r = c
    <3>1. sess'[c] = s /\ q \in InProgress(s, TurnStates)
      BY <1>2, <2>1, <2>2 DEF SummarizeCheck, TypeOK, InProgress
    <3> QED
      BY <1>2, <3>1 DEF SummarizeCheck
  <2>3. CASE r # c
    <3>1. pc'[r] = pc[r] /\ sess'[r] = sess[r]
      BY <1>2, <2>3 DEF SummarizeCheck, Goto, TypeOK
    <3> QED
      BY <1>2, <2>1, <3>1 DEF SummarizeCheck, MeetingsAreMixed
  <2> QED
    BY <2>2, <2>3
<1>3. ASSUME NEW c \in Requests, CallStep(c)
      PROVE q \in mixed'
  BY <1>3, CallStepFixes DEF MeetingsAreMixed
<1>4. ASSUME NEW s \in Sessions, Cancel(s)
      PROVE q \in mixed'
  BY <1>4 DEF Cancel, history, MeetingsAreMixed
<1>5. CASE UpdateModel
  BY <1>5 DEF UpdateModel, history, MeetingsAreMixed
<1>6. CASE UNCHANGED vars
  BY <1>6 DEF vars, history, MeetingsAreMixed
<1> QED
  BY <1>1, <1>2, <1>3, <1>4, <1>5, <1>6 DEF Next, CallStep

\* A message is stored by the one request that made it, at the end of its
\* session's transcript; every other step leaves the transcripts alone.
LEMMA LogOnlyGrows ==
  ASSUME TypeOK, Placed, [Next]_vars
  PROVE  \/ log' = log
         \/ \E r \in Requests :
              /\ PostUserMessage(r) \/ SummarizePost(r)
              /\ sess[r] \in Sessions
              /\ log' = [log EXCEPT ![sess[r]] = Append(@, r)]
              /\ UNCHANGED <<sess, kind, mixed, recall, summary>>
<1> USE DEF TypeOK, store, history, vars
<1>1. ASSUME NEW r \in Requests, PostUserMessage(r) \/ SummarizePost(r)
      PROVE /\ sess[r] \in Sessions
            /\ log' = [log EXCEPT ![sess[r]] = Append(@, r)]
            /\ UNCHANGED <<sess, kind, mixed, recall, summary>>
  BY <1>1 DEF PostUserMessage, SummarizePost, Goto, Placed, TurnStates, SumStates
<1>2. ASSUME NEW r \in Requests,
             \/ RunStore(r) \/ TurnReturns(r) \/ Release(r) \/ Deliver(r)
             \/ DeferredRelease(r) \/ CloseEvents(r) \/ TurnPanics(r) \/ ReadRow(r) \/ SaveRow(r)
             \/ SummarizeStore(r) \/ SummarizeList(r) \/ SummarizeSave(r)
             \/ SummarizeFails(r) \/ SummarizeRelease(r)
      PROVE log' = log
  BY <1>2 DEF RunStore, TurnReturns, Release, Deliver, DeferredRelease, CloseEvents, TurnPanics,
              ReadRow, SaveRow,
              SummarizeStore, SummarizeList, SummarizeSave, SummarizeFails, SummarizeRelease
<1>3. ASSUME NEW r \in Requests, NEW s \in Sessions, RunCheck(r, s) \/ SummarizeCheck(r, s)
      PROVE log' = log
  BY <1>3 DEF RunCheck, SummarizeCheck
<1>4. ASSUME NEW s \in Sessions, Cancel(s)
      PROVE log' = log
  BY <1>4 DEF Cancel
<1>5. CASE UpdateModel
  BY <1>5 DEF UpdateModel
<1> QED
  BY <1>1, <1>2, <1>3, <1>4, <1>5 DEF Next, TurnStep, SummarizeStep

\* What a transcript with one more message holds where.
LEMMA AppendedAt ==
  ASSUME TypeOK, NEW r \in Requests, sess[r] \in Sessions,
         log' = [log EXCEPT ![sess[r]] = Append(@, r)]
  PROVE  \A s \in Sessions :
           /\ log[s] \in Seq(Requests) /\ DOMAIN log[s] = 1 .. Len(log[s])
           /\ \A i \in DOMAIN log[s] : log[s][i] \in Requests /\ log'[s][i] = log[s][i]
           /\ s # sess[r] => log'[s] = log[s]
           /\ s = sess[r] => /\ DOMAIN log'[s] = 1 .. Len(log[s]) + 1
                             /\ log'[s][Len(log[s]) + 1] = r
<1> TAKE s \in Sessions
<1>1. log[s] \in Seq(Requests)
  BY DEF TypeOK
<1>2. DOMAIN log[s] = 1 .. Len(log[s]) /\ \A i \in DOMAIN log[s] : log[s][i] \in Requests
  BY <1>1
<1>3. CASE s # sess[r]
  BY <1>1, <1>2, <1>3 DEF TypeOK
<1>4. CASE s = sess[r]
  <2>1. log'[s] = Append(log[s], r)
    BY <1>4 DEF TypeOK
  <2>2. /\ DOMAIN log'[s] = 1 .. Len(log[s]) + 1
        /\ log'[s][Len(log[s]) + 1] = r
        /\ \A i \in 1 .. Len(log[s]) : log'[s][i] = log[s][i]
    BY <1>1, <2>1
  <2> QED
    BY <1>1, <1>2, <1>4, <2>2
<1> QED
  BY <1>3, <1>4

\* A request posts once, after it has come that far.
LEMMA NextPostedHaveRun ==
  TypeOK /\ Placed /\ PostedHaveRun /\ [Next]_vars => PostedHaveRun'
<1> SUFFICES ASSUME TypeOK, Placed, PostedHaveRun, [Next]_vars
             PROVE  PostedHaveRun'
  OBVIOUS
<1> DEFINE Before == {"idle", "entering", "started", "sum_entering", "sum_started", "sum_listed"}
<1>1. \A q \in Requests : pc[q] \notin Before => pc'[q] \notin Before
  <2> USE DEF TypeOK, Goto
  <2>1. ASSUME NEW c \in Requests, NEW s \in Sessions, RunCheck(c, s) \/ SummarizeCheck(c, s)
        PROVE \A q \in Requests : pc[q] \notin Before => pc'[q] \notin Before
    BY <2>1 DEF RunCheck, SummarizeCheck
  <2>2. ASSUME NEW c \in Requests, CallStep(c)
        PROVE \A q \in Requests : pc[q] \notin Before => pc'[q] \notin Before
    BY <2>2 DEF CallStep, TurnStep, SummarizeStep, RunStore, PostUserMessage, TurnReturns,
         TurnPanics, ReadRow, SaveRow, Release, Deliver, DeferredRelease, CloseEvents,
         SummarizeStore, SummarizeList, SummarizePost, SummarizeSave, SummarizeFails,
         SummarizeRelease, Working
  <2>3. ASSUME NEW s \in Sessions, Cancel(s)
        PROVE pc' = pc
    BY <2>3 DEF Cancel
  <2>4. CASE UpdateModel
    BY <2>4 DEF UpdateModel
  <2>5. CASE UNCHANGED vars
    BY <2>5 DEF vars
  <2> QED
    BY <2>1, <2>2, <2>3, <2>4, <2>5 DEF Next, CallStep
<1>2. CASE log' = log
  BY <1>1, <1>2 DEF PostedHaveRun, TypeOK
<1>3. ASSUME NEW r \in Requests, PostUserMessage(r) \/ SummarizePost(r), sess[r] \in Sessions,
             log' = [log EXCEPT ![sess[r]] = Append(@, r)]
      PROVE PostedHaveRun'
  <2>1. pc'[r] \notin Before
    BY <1>3 DEF PostUserMessage, SummarizePost, Goto, TypeOK
  <2> SUFFICES ASSUME NEW s \in Sessions, NEW i \in DOMAIN log'[s]
               PROVE  pc'[log'[s][i]] \notin Before
    BY DEF PostedHaveRun
  <2>2. CASE i \in DOMAIN log[s]
    <3>1. log'[s][i] = log[s][i] /\ log[s][i] \in Requests
      BY <1>3, <2>2, AppendedAt
    <3>2. pc[log[s][i]] \notin Before
      BY <2>2 DEF PostedHaveRun
    <3> QED
      BY <1>1, <3>1, <3>2
  <2>3. CASE i \notin DOMAIN log[s]
    <3>1. log'[s][i] = r
      BY <1>3, <2>3, AppendedAt
    <3> QED
      BY <2>1, <3>1
  <2> QED
    BY <2>2, <2>3
<1> QED
  BY <1>2, <1>3, LogOnlyGrows

\* A request whose message is stored keeps its kind and what it recalls.
LEMMA PostedAreFixed ==
  ASSUME TypeOK, Placed, PostedHaveRun, [Next]_vars, NEW s \in Sessions, NEW i \in DOMAIN log[s]
  PROVE  /\ log[s][i] \in Requests
         /\ kind'[log[s][i]] = kind[log[s][i]]
         /\ recall'[log[s][i]] = recall[log[s][i]]
<1> DEFINE q == log[s][i]
<1>1. q \in Requests
  BY DEF TypeOK
<1>2. pc[q] \notin {"idle", "sum_started"}
  BY DEF PostedHaveRun
<1> HIDE DEF q
<1> USE DEF TypeOK, store, history, vars
<1>3. ASSUME NEW c \in Requests, NEW t \in Sessions, RunCheck(c, t) \/ SummarizeCheck(c, t)
      PROVE kind'[q] = kind[q] /\ recall'[q] = recall[q]
  <2>1. c # q
    BY <1>2, <1>3 DEF RunCheck, SummarizeCheck, Goto
  <2> QED
    BY <1>1, <1>3, <2>1 DEF RunCheck, SummarizeCheck
<1>4. ASSUME NEW c \in Requests, SummarizeList(c)
      PROVE kind'[q] = kind[q] /\ recall'[q] = recall[q]
  <2>1. c # q
    BY <1>2, <1>4 DEF SummarizeList, Goto
  <2> QED
    BY <1>1, <1>4, <2>1 DEF SummarizeList
<1>5. ASSUME NEW c \in Requests, CallStep(c), ~SummarizeList(c)
      PROVE kind' = kind /\ recall' = recall
  BY <1>5 DEF CallStep, TurnStep, SummarizeStep, RunStore, PostUserMessage, TurnReturns,
         TurnPanics, ReadRow, SaveRow, Release, Deliver, DeferredRelease, CloseEvents,
         SummarizeStore, SummarizePost, SummarizeSave, SummarizeFails, SummarizeRelease
<1>6. ASSUME NEW t \in Sessions, Cancel(t)
      PROVE kind' = kind /\ recall' = recall
  BY <1>6 DEF Cancel
<1>7. ASSUME UpdateModel \/ UNCHANGED vars
      PROVE kind' = kind /\ recall' = recall
  BY <1>7 DEF UpdateModel
<1>8. ASSUME NEW c \in Requests,
             TurnStep(c) \/ TurnPanics(c) \/ ReadRow(c) \/ SaveRow(c) \/ SummarizeStep(c)
      PROVE kind'[q] = kind[q] /\ recall'[q] = recall[q]
  BY <1>4, <1>5, <1>8 DEF CallStep
<1>9. kind'[q] = kind[q] /\ recall'[q] = recall[q]
  BY <1>3, <1>6, <1>7, <1>8 DEF Next
<1> QED
  BY <1>1, <1>9 DEF q

\* What is mixed stays so.
LEMMA MixedOnlyGrows ==
  ASSUME [Next]_vars, TypeOK
  PROVE  mixed \subseteq mixed'
<1>1. ASSUME NEW c \in Requests, NEW s \in Sessions, RunCheck(c, s) \/ SummarizeCheck(c, s)
      PROVE mixed \subseteq mixed'
  BY <1>1 DEF RunCheck, SummarizeCheck
<1>2. ASSUME NEW s \in Sessions, Cancel(s)
      PROVE mixed \subseteq mixed'
  BY <1>2 DEF Cancel, history
<1> QED
  BY <1>1, <1>2, CallStepFixes DEF Next, CallStep, UpdateModel, vars, history

\* A summary lists the whole transcript; a turn that posts before the summary
\* does is one that ran beside it.
LEMMA NextListedKnows ==
  TypeOK /\ Placed /\ MeetingsAreMixed /\ PostedHaveRun /\ ListedKnows /\ [Next]_vars
    => ListedKnows'
<1> SUFFICES ASSUME TypeOK, Placed, MeetingsAreMixed, PostedHaveRun, ListedKnows, [Next]_vars,
                    NEW r \in Requests, pc'[r] = "sum_listed",
                    NEW i \in DOMAIN log'[sess'[r]], kind'[log'[sess'[r]][i]] = "turn"
             PROVE  log'[sess'[r]][i] \in recall'[r] \cup mixed'
  BY DEF ListedKnows
<1> DEFINE Comes == /\ pc[r] \in {"sum_started", "sum_listed"}
                    /\ sess[r] \in Sessions /\ sess'[r] = sess[r]
                    /\ pc[r] = "sum_listed" => recall'[r] = recall[r]
                    /\ pc[r] = "sum_started" => SummarizeList(r)
<1>1. Comes
  <2> USE DEF TypeOK, Goto, Placed, SumStates, store, history
  <2>1. ASSUME NEW c \in Requests, NEW s \in Sessions, RunCheck(c, s) \/ SummarizeCheck(c, s)
        PROVE Comes
    BY <2>1 DEF RunCheck, SummarizeCheck
  <2>2. ASSUME NEW c \in Requests, CallStep(c), ~SummarizeList(c)
        PROVE Comes
    BY <2>2 DEF CallStep, TurnStep, SummarizeStep, RunStore, PostUserMessage, TurnReturns,
         TurnPanics, ReadRow, SaveRow, Release, Deliver, DeferredRelease, CloseEvents,
         SummarizeStore, SummarizePost, SummarizeSave, SummarizeFails, SummarizeRelease
  <2>3. ASSUME NEW c \in Requests, SummarizeList(c)
        PROVE Comes
    BY <2>3 DEF SummarizeList
  <2>4. ASSUME NEW s \in Sessions, Cancel(s)
        PROVE Comes
    BY <2>4 DEF Cancel
  <2>5. CASE UpdateModel
    BY <2>5 DEF UpdateModel
  <2>6. CASE UNCHANGED vars
    BY <2>6 DEF vars
  <2> QED
    BY <2>1, <2>2, <2>3, <2>4, <2>5, <2>6 DEF Next, CallStep
<1> DEFINE s == sess[r]
<1>2. CASE SummarizeList(r)
  <2>1. log' = log /\ recall'[r] = {log[s][j] : j \in DOMAIN log[s]}
    BY <1>2 DEF SummarizeList, TypeOK, ToSet
  <2> QED
    BY <1>1, <2>1
<1>3. CASE pc[r] = "sum_listed" /\ i \in DOMAIN log[s]
  <2>1. log'[s][i] = log[s][i]
    BY <1>1, <1>3, LogOnlyGrows, AppendedAt
  <2>2. kind[log[s][i]] = "turn"
    BY <1>1, <1>3, <2>1, PostedAreFixed
  <2>3. log[s][i] \in recall[r] \cup mixed
    BY <1>3, <2>2 DEF ListedKnows
  <2> QED
    BY <1>1, <1>3, <2>1, <2>3, MixedOnlyGrows
<1>4. CASE pc[r] = "sum_listed" /\ i \notin DOMAIN log[s]
  <2>1. PICK q \in Requests : /\ PostUserMessage(q) \/ SummarizePost(q)
                              /\ sess[q] \in Sessions
                              /\ log' = [log EXCEPT ![sess[q]] = Append(@, q)]
                              /\ kind' = kind /\ mixed' = mixed
    BY <1>1, <1>4, LogOnlyGrows
  <2>2. s = sess[q] /\ log'[s][i] = q
    BY <1>1, <1>4, <2>1, AppendedAt
  <2>3. kind[q] = "turn"
    BY <1>1, <2>1, <2>2
  <2>4. pc[q] = "started"
    BY <2>1, <2>3 DEF PostUserMessage, SummarizePost, Goto, Placed, SumStates
  <2>5. q \in mixed
    BY <1>4, <2>2, <2>4 DEF MeetingsAreMixed, TurnStates, SumStates
  <2> QED
    BY <1>1, <2>1, <2>2, <2>5
<1> QED
  BY <1>1, <1>2, <1>3, <1>4

\* A summary is stored behind turns it knows, and what is stored stays.
LEMMA NextPostedKnows ==
  TypeOK /\ Placed /\ PostedHaveRun /\ ListedKnows /\ PostedKnows /\ [Next]_vars => PostedKnows'
<1> SUFFICES ASSUME TypeOK, Placed, PostedHaveRun, ListedKnows, PostedKnows, [Next]_vars,
                    NEW s \in Sessions, NEW j \in DOMAIN log'[s], NEW i \in 1 .. j - 1,
                    kind'[log'[s][j]] = "summarize", kind'[log'[s][i]] = "turn"
             PROVE  log'[s][i] \in recall'[log'[s][j]] \cup mixed'
  BY DEF PostedKnows
<1>1. /\ DOMAIN log[s] = 1 .. Len(log[s]) /\ Len(log[s]) \in Nat
      /\ \A k \in DOMAIN log[s] : log'[s][k] = log[s][k]
  <2>1. log[s] \in Seq(Requests)
    BY DEF TypeOK
  <2> QED
    BY <2>1, LogOnlyGrows, AppendedAt
<1>2. CASE j \in DOMAIN log[s]
  <2>1. i \in DOMAIN log[s]
    BY <1>1, <1>2
  <2>2. /\ kind[log[s][j]] = "summarize" /\ kind[log[s][i]] = "turn"
        /\ recall'[log[s][j]] = recall[log[s][j]]
    BY <1>1, <1>2, <2>1, PostedAreFixed
  <2>3. log[s][i] \in recall[log[s][j]] \cup mixed
    BY <1>2, <2>2 DEF PostedKnows
  <2> QED
    BY <1>1, <1>2, <2>1, <2>2, <2>3, MixedOnlyGrows
<1>3. CASE j \notin DOMAIN log[s]
  <2>1. PICK q \in Requests : /\ PostUserMessage(q) \/ SummarizePost(q)
                              /\ sess[q] \in Sessions
                              /\ log' = [log EXCEPT ![sess[q]] = Append(@, q)]
                              /\ kind' = kind /\ mixed' = mixed /\ recall' = recall
    BY <1>3, LogOnlyGrows
  <2>2. s = sess[q] /\ log'[s][j] = q /\ j = Len(log[s]) + 1
    BY <1>1, <1>3, <2>1, AppendedAt
  <2>3. i \in DOMAIN log[s] /\ kind[log[s][i]] = "turn"
    BY <1>1, <2>1, <2>2
  <2>4. pc[q] = "sum_listed"
    BY <2>1, <2>2 DEF PostUserMessage, SummarizePost, Goto, Placed, TurnStates
  <2>5. log[s][i] \in recall[q] \cup mixed
    BY <2>2, <2>3, <2>4 DEF ListedKnows
  <2> QED
    BY <1>1, <2>1, <2>2, <2>3, <2>5
<1> QED
  BY <1>2, <1>3

\* Only a summary that has been stored becomes a session's cut.
LEMMA NextCuts ==
  TypeOK /\ Placed /\ CutsAreSummaries /\ [Next]_vars => CutsAreSummaries'
<1> SUFFICES ASSUME TypeOK, Placed, CutsAreSummaries, [Next]_vars
             PROVE  CutsAreSummaries'
  OBVIOUS
<1> USE RequestsAssumption DEF TypeOK, Goto, store, history, vars
<1>1. \A q \in Requests \cup {None} : Saved(q) => Saved(q)'
  <2>1. ASSUME NEW c \in Requests, NEW s \in Sessions, RunCheck(c, s) \/ SummarizeCheck(c, s),
               NEW q \in Requests, pc[q] \in {"sum_ended", "closed"}
        PROVE kind'[q] = kind[q] /\ pc'[q] \in {"sum_ended", "closed"}
    BY <2>1 DEF RunCheck, SummarizeCheck
  <2>2. ASSUME NEW c \in Requests, CallStep(c),
               NEW q \in Requests, pc[q] \in {"sum_ended", "closed"}
        PROVE kind'[q] = kind[q] /\ pc'[q] \in {"sum_ended", "closed"}
    <3>1. kind' = kind
      BY <2>2, CallStepFixes
    <3> QED
      BY <2>2, <3>1 DEF CallStep, TurnStep, SummarizeStep, RunStore, PostUserMessage, TurnReturns,
         TurnPanics, ReadRow, SaveRow, Release, Deliver, DeferredRelease, CloseEvents,
         SummarizeStore, Working, SummarizeList, SummarizePost, SummarizeSave, SummarizeFails,
         SummarizeRelease
  <2>3. ASSUME NEW s \in Sessions, Cancel(s)
        PROVE kind' = kind /\ pc' = pc
    BY <2>3 DEF Cancel
  <2>4. CASE UpdateModel
    BY <2>4 DEF UpdateModel, Saved
  <2>5. CASE UNCHANGED vars
    BY <2>5 DEF Saved
  <2> QED
    BY <2>1, <2>2, <2>3, <2>4, <2>5 DEF Next, CallStep, Saved
<1>2. CASE summary' = summary /\ row' = row
  BY <1>1, <1>2 DEF CutsAreSummaries
<1>3. ASSUME NEW c \in Requests, SummarizeSave(c)
      PROVE CutsAreSummaries'
  <2>1. /\ \A s \in Sessions : summary'[s] = c \/ summary'[s] = summary[s]
        /\ row' = row
    BY <1>3 DEF SummarizeSave
  <2>2. kind[c] = "summarize" /\ kind' = kind /\ pc'[c] = "sum_ended"
    BY <1>3 DEF SummarizeSave, Placed, SumStates
  <2>3. Saved(c)'
    BY <2>2 DEF Saved
  <2> QED
    BY <1>1, <2>1, <2>3 DEF CutsAreSummaries
<1>4. ASSUME NEW c \in Requests, ReadRow(c)
      PROVE CutsAreSummaries'
  <2>1. sess[c] \in Sessions
    BY <1>4 DEF ReadRow, Placed, TurnStates
  <2>2. /\ \A r \in Requests : row'[r] \in {row[r], summary[sess[c]]}
        /\ summary' = summary
    BY <1>4 DEF ReadRow
  <2> QED
    BY <1>1, <2>1, <2>2 DEF CutsAreSummaries
<1>5. ASSUME NEW c \in Requests, SaveRow(c)
      PROVE CutsAreSummaries'
  <2>1. /\ \A s \in Sessions : summary'[s] \in {summary[s], row[c]}
        /\ row' = row
    BY <1>5 DEF SaveRow
  <2> QED
    BY <1>1, <2>1 DEF CutsAreSummaries
<1>6. \/ summary' = summary /\ row' = row
      \/ \E c \in Requests : SummarizeSave(c) \/ ReadRow(c) \/ SaveRow(c)
  BY DEF Next, TurnStep, SummarizeStep, RunCheck, SummarizeCheck, RunStore, PostUserMessage,
         TurnReturns, TurnPanics, Release, Deliver, DeferredRelease, CloseEvents, SummarizeStore,
         SummarizeList, SummarizePost, SummarizeFails, SummarizeRelease, Cancel, UpdateModel
<1> QED
  BY <1>2, <1>3, <1>4, <1>5, <1>6

\* A request that was mixed has been made, and keeps its session.
LEMMA NextMixedHaveRun ==
  ASSUME TypeOK, MixedHaveRun, [Next]_vars
  PROVE  /\ MixedHaveRun'
         /\ \A s \in Sessions : HasMixed(s) => \E q \in mixed' : sess'[q] = s
<1> DEFINE Ran ==
      /\ \A q \in Requests : pc[q] # "idle" => pc'[q] # "idle" /\ sess'[q] = sess[q]
      /\ \A q \in mixed' : q \in mixed \/ pc'[q] # "idle"
<1>1. Ran
  <2>1. ASSUME NEW c \in Requests, NEW s \in Sessions, RunCheck(c, s)
        PROVE Ran
    <3>1. \A q \in Requests \ {c} : pc'[q] = pc[q] /\ sess'[q] = sess[q]
      BY <2>1 DEF RunCheck, Goto, TypeOK
    <3>2. pc[c] = "idle" /\ pc'[c] = "entering" /\ mixed' \subseteq mixed \cup {c}
      BY <2>1 DEF RunCheck, Goto, TypeOK
    <3> QED
      BY <3>1, <3>2
  <2>2. ASSUME NEW c \in Requests, NEW s \in Sessions, SummarizeCheck(c, s)
        PROVE Ran
    <3>1. \A q \in Requests \ {c} : pc'[q] = pc[q] /\ sess'[q] = sess[q]
      BY <2>2 DEF SummarizeCheck, Goto, TypeOK
    <3>2. pc[c] = "idle" /\ mixed' \subseteq mixed \cup InProgress(s, TurnStates)
      BY <2>2 DEF SummarizeCheck, Goto
    <3>3. \A q \in InProgress(s, TurnStates) : q \in Requests \ {c} /\ pc[q] # "idle"
      BY <3>2 DEF InProgress, TurnStates
    <3> QED
      BY <3>1, <3>2, <3>3
  <2>3. ASSUME NEW c \in Requests, CallStep(c)
        PROVE Ran
    BY <2>3, CallStepFixes DEF TurnStates, SumStates
  <2>4. ASSUME UpdateModel \/ UNCHANGED vars \/ \E s \in Sessions : Cancel(s)
        PROVE Ran
    <3>1. pc' = pc /\ sess' = sess /\ mixed' = mixed
      BY <2>4 DEF UpdateModel, Cancel, vars, history
    <3> QED
      BY <3>1
  <2> QED
    BY <2>1, <2>2, <2>3, <2>4 DEF Next, CallStep
<1>2. mixed \subseteq mixed' /\ mixed \subseteq Requests
  BY MixedOnlyGrows DEF TypeOK
<1>3. MixedHaveRun'
  BY <1>1, <1>2 DEF MixedHaveRun
<1>4. \A s \in Sessions : HasMixed(s) => \E q \in mixed' : sess'[q] = s
  BY <1>1, <1>2 DEF HasMixed, MixedHaveRun
<1> QED
  BY <1>3, <1>4

\* A row that was read stays current but where a Summarize saves beside it, or
\* another turn puts back the row it read beside one.
LEMMA NextRowsAreCurrent ==
  ASSUME TypeOK, Placed, MeetingsAreMixed, MixedHaveRun, RowsAreCurrent, [Next]_vars
  PROVE  RowsAreCurrent'
<1> SUFFICES ASSUME NEW r \in Requests, pc'[r] = "reconciling", row'[r] # summary'[sess'[r]]
             PROVE  \E q \in mixed' : sess'[q] = sess'[r]
  BY DEF RowsAreCurrent, HasMixed
<1> DEFINE Stayed == /\ pc[r] = "reconciling" /\ row'[r] = row[r]
                     /\ sess[r] \in Sessions /\ sess'[r] = sess[r]
<1>1. Stayed
  <2> USE DEF TypeOK, Placed, Goto, TurnStates, store
  <2>1. ASSUME NEW c \in Requests, NEW s \in Sessions, RunCheck(c, s) \/ SummarizeCheck(c, s)
        PROVE Stayed
    BY <2>1 DEF RunCheck, SummarizeCheck
  <2>2. ASSUME NEW c \in Requests, ReadRow(c)
        PROVE Stayed
    <3>1. c # r
      <4>1. row'[c] = summary'[sess'[c]]
        BY <2>2 DEF ReadRow
      <4> QED
        BY <4>1
    <3> QED
      BY <2>2, <3>1 DEF ReadRow
  <2>3. ASSUME NEW c \in Requests, CallStep(c), ~ReadRow(c)
        PROVE Stayed
    <3>1. sess' = sess
      BY <2>3, CallStepFixes
    <3>2. pc[r] = "reconciling" /\ row' = row
      BY <2>3 DEF CallStep, TurnStep, SummarizeStep, RunStore, PostUserMessage, TurnReturns,
         TurnPanics, SaveRow, Release, Deliver, DeferredRelease, CloseEvents, SummarizeStore,
         SummarizeList, SummarizePost, SummarizeSave, SummarizeFails, SummarizeRelease
    <3> QED
      BY <3>1, <3>2
  <2>4. ASSUME UpdateModel \/ UNCHANGED vars \/ \E s \in Sessions : Cancel(s)
        PROVE Stayed
    BY <2>4 DEF UpdateModel, Cancel, vars
  <2> QED
    BY <2>1, <2>2, <2>3, <2>4 DEF Next, CallStep
<1>2. CASE HasMixed(sess[r])
  BY <1>1, <1>2, NextMixedHaveRun
<1>3. CASE ~HasMixed(sess[r])
  <2>1. row[r] = summary[sess[r]] /\ summary'[sess[r]] # summary[sess[r]]
    BY <1>1, <1>3 DEF RowsAreCurrent
  <2>2. \E c \in Requests : SummarizeSave(c) \/ SaveRow(c)
    BY <2>1 DEF Next, TurnStep, SummarizeStep, RunCheck, SummarizeCheck, RunStore,
       PostUserMessage, TurnReturns, TurnPanics, ReadRow, Release, Deliver, DeferredRelease,
       CloseEvents, SummarizeStore, SummarizeList, SummarizePost, SummarizeFails,
       SummarizeRelease, Cancel, UpdateModel, vars, store
  <2>3. ASSUME NEW c \in Requests, SummarizeSave(c)
        PROVE FALSE
    <3>1. sess[c] = sess[r] /\ pc[c] \in SumStates
      BY <1>1, <2>1, <2>3 DEF SummarizeSave, Goto, SumStates, TypeOK
    <3>2. r \in mixed
      BY <1>1, <3>1 DEF MeetingsAreMixed, TurnStates
    <3> QED
      BY <1>3, <3>2 DEF HasMixed
  <2>4. ASSUME NEW c \in Requests, SaveRow(c)
        PROVE FALSE
    <3>1. sess[c] = sess[r] /\ pc[c] = "reconciling" /\ row[c] # summary[sess[c]]
      BY <1>1, <2>1, <2>4 DEF SaveRow, Goto, TypeOK
    <3> QED
      BY <1>3, <3>1 DEF RowsAreCurrent
  <2> QED
    BY <2>2, <2>3, <2>4
<1> QED
  BY <1>2, <1>3

\* The inductive invariant holds in every reachable state.
LEMMA SpecIInv == Spec => []IInv
<1>1. IInv /\ [Next]_vars => IInv'
  BY NextTypeOK, NextPlaced, NextMarker, NextFree, NextMarked, NextMeetings, NextPostedHaveRun,
     NextListedKnows, NextPostedKnows, NextCuts, NextMixedHaveRun, NextRowsAreCurrent DEF IInv
<1> QED
  BY InitIInv, <1>1, PTL DEF Spec

\* Type correctness.
THEOREM TypeCorrect == Spec => []TypeOK
<1>1. IInv => TypeOK
  BY DEF IInv
<1> QED
  BY SpecIInv, <1>1, PTL

\* A busy marker never outlives its request: whatever marker is set belongs to
\* a request that still has a Delete of it ahead (agent.go 304-319).
THEOREM MarkersAreOwned == Spec => []MarkerHasLiveOwner
<1>1. IInv => MarkerHasLiveOwner
  BY DEF IInv
<1> QED
  BY SpecIInv, <1>1, PTL

\* Two turns work on one session at once only after a cancellation or after the
\* teardown of a third turn deleted the marker of one of them (agent.go 298-336).
THEOREM OverlapIsExplained == Spec => []OverlapNeedsCancelOrErasure
<1>1. IInv => OverlapNeedsCancelOrErasure
  BY DEF IInv, WorkingIsMarked, OverlapNeedsCancelOrErasure
<1> QED
  BY SpecIInv, <1>1, PTL

\* Compaction loses no turn but one that ran beside the summary: whatever a
\* session's next prompt neither contains nor has summarized ran while the
\* session was being summarized (agent.go 365-404, 1069-1195).
THEOREM CompactionIsExplained == Spec => []CompactionKeepsTurns
<1>1. IInv => CompactionKeepsTurns
  <2> SUFFICES ASSUME IInv, NEW s \in Sessions, NEW q \in ToSet(log[s]) \ Window(s),
                      kind[q] = "turn"
               PROVE  q \in mixed
    BY DEF CompactionKeepsTurns
  <2>1. log[s] \in Seq(Requests) /\ DOMAIN log[s] = 1 .. Len(log[s]) /\ Len(log[s]) \in Nat
    BY DEF IInv, TypeOK
  <2>2. summary[s] \in ToSet(log[s])
    BY DEF Window
  <2> DEFINE at == CHOOSE i \in 1 .. Len(log[s]) : log[s][i] = summary[s]
  <2>3. at \in 1 .. Len(log[s]) /\ log[s][at] = summary[s]
    BY <2>1, <2>2 DEF ToSet
  <2>4. Window(s) = recall[summary[s]] \cup {log[s][i] : i \in at .. Len(log[s])}
    BY <2>2 DEF Window
  <2> HIDE DEF at
  <2>5. PICK i \in 1 .. Len(log[s]) : log[s][i] = q
    BY <2>1 DEF ToSet
  <2>6. i \in 1 .. at - 1
    BY <2>1, <2>3, <2>4, <2>5
  <2>7. summary[s] # None /\ kind[summary[s]] = "summarize"
    <3>1. summary[s] \in Requests
      BY <2>1, <2>3
    <3> QED
      BY <3>1, RequestsAssumption DEF IInv, CutsAreSummaries, Saved
  <2> QED
    BY <2>1, <2>3, <2>4, <2>5, <2>6, <2>7 DEF IInv, PostedKnows
<1> QED
  BY SpecIInv, <1>1, PTL

\* A turn's save of its totals moves the cut of its session only where a turn of
\* it ran beside a Summarize (agent.go 1002-1018 and 1181-1195).
THEOREM CompactionsStand == Spec => CompactionStands
<1> DEFINE Stands == \A r \in Requests :
             SaveRow(r) /\ summary'[sess[r]] # summary[sess[r]]
               => \E q \in mixed : sess[q] = sess[r]
<1>1. IInv => Stands
  <2> SUFFICES ASSUME IInv, NEW r \in Requests, SaveRow(r),
                      summary'[sess[r]] # summary[sess[r]]
               PROVE  HasMixed(sess[r])
    BY DEF HasMixed
  <2>1. pc[r] = "reconciling" /\ sess[r] \in Sessions
    BY DEF SaveRow, Goto, IInv, Placed, TurnStates
  <2>2. row[r] # summary[sess[r]]
    BY <2>1 DEF SaveRow, IInv, TypeOK
  <2> QED
    BY <2>1, <2>2 DEF IInv, RowsAreCurrent
<1>2. IInv /\ [Next]_vars => [Stands]_vars
  BY <1>1
<1> QED
  BY SpecIInv, <1>2, PTL DEF Spec, CompactionStands

\* No turn at work has its provider replaced, unless it was cancelled or lost
\* its marker (agent.go 1025).
THEOREM ModelIsSteady == Spec => ModelSteadyUnderTurns
<1> DEFINE Steady == model' # model =>
             \A r \in Requests : pc[r] \in Working => r \in dead \cup erased
<1>1. IInv /\ [Next]_vars => [Steady]_vars
  <2> SUFFICES ASSUME IInv, Next, model' # model, NEW r \in Requests, pc[r] \in Working,
                      r \notin dead \cup erased
               PROVE  FALSE
    OBVIOUS
  <2>1. UpdateModel
    BY DEF Next, TurnStep, SummarizeStep, RunCheck, RunStore, PostUserMessage, TurnReturns,
           TurnPanics, ReadRow, SaveRow, Release, Deliver, DeferredRelease, CloseEvents,
           SummarizeCheck, SummarizeStore, SummarizeList, SummarizePost, SummarizeSave,
           SummarizeFails, SummarizeRelease, Cancel
  <2>2. active[<<sess[r], "turn">>] = r /\ <<sess[r], "turn">> \in Keys
    BY DEF IInv, WorkingIsMarked, Placed, Working, TurnStates, Keys, Kinds
  <2> QED
    BY <2>1, <2>2, RequestsAssumption DEF UpdateModel, IsBusy
<1> QED
  BY SpecIInv, <1>1, PTL DEF Spec, ModelSteadyUnderTurns
==============================================================================
