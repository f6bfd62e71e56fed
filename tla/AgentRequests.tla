---------------------------- MODULE AgentRequests ----------------------------
(***************************************************************************)
(* The request registry of the coder agent: internal/llm/agent/agent.go,   *)
(* Run, Cancel, IsSessionBusy, Update and Summarize, and the goroutine each *)
(* Run or Summarize starts.  A session is busy while activeRequests holds a *)
(* cancel function under its key; that marker is all that keeps two turns  *)
(* of one session apart.                                                    *)
(*                                                                         *)
(* A request r is one call of Run (kind "turn") or Summarize (kind          *)
(* "summarize"), from the call to the end of its goroutine.  Run, Cancel    *)
(* and Update are called by the one goroutine of the terminal UI            *)
(* (internal/tui/page/chat.go, internal/tui/tui.go); Summarize by a command *)
(* goroutine of its own (tui.go, startCompactSessionMsg).                   *)
(***************************************************************************)
EXTENDS Naturals, FiniteSets, Sequences, SequencesExt

CONSTANTS Sessions,    \* session ids
          MaxRequests, \* bound on the calls of Run and Summarize
          None,        \* no request, no session
          MaxUpdates   \* bound on model changes

\* Accepted calls of Run and Summarize, numbered in the order they were made.
Requests == 1 .. MaxRequests

ASSUME RequestsAssumption ==
  /\ MaxRequests \in Nat
  /\ None \notin Sessions \cup Requests
  /\ MaxUpdates \in Nat

VARIABLES
  active,   \* activeRequests: the request whose cancel function is stored
  pc,       \* where each request's code is
  sess,     \* the session a request was made for
  kind,     \* "turn" or "summarize"
  dead,     \* requests whose context is cancelled
  events,   \* events in the buffered result channel of a turn
  model,    \* how often Update replaced the provider
  log,      \* per session, whose message each stored message is
  summary,  \* per session, the request whose message is its SummaryMessageID
  row,      \* per turn, the SummaryMessageID of the session row it read last
  recall,   \* the messages a summary was written from
  erased,   \* history: requests whose marker another request deleted
  mixed     \* history: turns in progress together with a Summarize of their session

store   == <<log, summary, row, recall>>
history == <<erased, mixed>>
vars    == <<active, pc, sess, kind, dead, events, model, store, history>>

Kinds == {"turn", "summarize"}
Keys  == Sessions \X Kinds

\* Steps of Run before its goroutine starts, and of the goroutine.
TurnStates == {"entering", "started", "generating", "reconciling", "returned",
               "released", "delivered", "panicked", "deferred"}
\* Steps of Summarize before and in its goroutine.
SumStates == {"sum_entering", "sum_started", "sum_listed", "sum_posted", "sum_ended"}

\* processGeneration is running: model calls and tools of r may run.
Working == {"started", "generating", "reconciling"}

Key(r) == <<sess[r], kind[r]>>

\* Mutant of EventBuffer: an unbuffered channel.
Unbuffered == 0

EventBuffer == 1    \* make(chan AgentEvent, 1)
------------------------------------------------------------------------------
Init ==
  /\ active = [k \in Keys |-> None]
  /\ pc = [r \in Requests |-> "idle"]
  /\ sess = [r \in Requests |-> None]
  /\ kind = [r \in Requests |-> "turn"]
  /\ dead = {}
  /\ events = [r \in Requests |-> 0]
  /\ model = 0
  /\ log = [s \in Sessions |-> <<>>]
  /\ summary = [s \in Sessions |-> None]
  /\ row = [r \in Requests |-> None]
  /\ recall = [r \in Requests |-> {}]
  /\ erased = {}
  /\ mixed = {}

\* The next call to be made.
Fresh(r) == pc[r] = "idle" /\ \A q \in 1 .. r - 1 : pc[q] # "idle"

IsSessionBusy(s) == active[<<s, "turn">>] # None

IsBusy == \E k \in Keys : active[k] # None

Goto(r, from, to) ==
  /\ pc[r] = from
  /\ pc' = [pc EXCEPT ![r] = to]

InProgress(s, states) == {q \in Requests : sess[q] = s /\ pc[q] \in states}

\* sync.Map.Delete: whoever stored the marker, it is gone.
DeleteMarker(k, r) ==
  /\ active' = [active EXCEPT ![k] = None]
  /\ erased' = erased \cup ({active[k]} \ {r, None})

\* The messages a turn's prompt is built from: everything, or everything from
\* the summary message on, the summary standing for what it was written from.
Window(s) ==
  IF summary[s] \in ToSet(log[s])
    THEN LET at == CHOOSE i \in 1 .. Len(log[s]) : log[s][i] = summary[s]
         IN  recall[summary[s]] \cup {log[s][i] : i \in at .. Len(log[s])}
    ELSE ToSet(log[s])
------------------------------------------------------------------------------
\* Mutant of RunCheck: the busy check is dropped.
RunCheckNoBusy(r, s) ==
  /\ Fresh(r)
  /\ Goto(r, "idle", "entering")
  /\ \A q \in Requests : pc[q] # "entering"
  /\ sess' = [sess EXCEPT ![r] = s]
  /\ kind' = [kind EXCEPT ![r] = "turn"]
  /\ mixed' = mixed \cup (IF InProgress(s, SumStates) = {} THEN {} ELSE {r})
  /\ UNCHANGED <<active, dead, events, model, store, erased>>

\* Run up to its busy check.  Only the UI goroutine calls Run, so no other
\* Run is between its check and its store.
RunCheck(r, s) ==
  /\ Fresh(r)
  /\ Goto(r, "idle", "entering")
  /\ \A q \in Requests : pc[q] # "entering"
  /\ ~IsSessionBusy(s)
  /\ sess' = [sess EXCEPT ![r] = s]
  /\ kind' = [kind EXCEPT ![r] = "turn"]
  /\ mixed' = mixed \cup (IF InProgress(s, SumStates) = {} THEN {} ELSE {r})
  /\ UNCHANGED <<active, dead, events, model, store, erased>>

\* Run stores the cancel function and starts the goroutine.
RunStore(r) ==
  /\ Goto(r, "entering", "started")
  /\ active' = [active EXCEPT ![Key(r)] = r]
  /\ UNCHANGED <<sess, kind, dead, events, model, store, history>>

\* processGeneration reads the history, then createUserMessage stores the
\* prompt; both use the request's context, so neither works once it is dead.
PostUserMessage(r) ==
  /\ Goto(r, "started", "generating")
  /\ r \notin dead
  /\ log' = [log EXCEPT ![sess[r]] = Append(@, r)]
  /\ UNCHANGED <<active, sess, kind, dead, events, model, summary, row, recall, history>>

\* Mutant of ReadRow: the row that the request before had of its session is
\* kept and used again.
ReadRowKept(r) ==
  /\ Goto(r, "generating", "reconciling")
  /\ row' = [row EXCEPT ![r] =
       IF r > 1 /\ sess[r - 1] = sess[r] THEN row[r - 1] ELSE summary[sess[r]]]
  /\ UNCHANGED <<active, sess, kind, dead, events, model, log, summary, recall, history>>

\* reconcileSession reads the session's row to put new totals in it.
ReadRow(r) ==
  /\ Goto(r, "generating", "reconciling")
  /\ row' = [row EXCEPT ![r] = summary[sess[r]]]
  /\ UNCHANGED <<active, sess, kind, dead, events, model, log, summary, recall, history>>

\* It saves the whole row, the SummaryMessageID it read included, also over
\* that of a Summarize which saved in between.
SaveRow(r) ==
  /\ Goto(r, "reconciling", "generating")
  /\ summary' = [summary EXCEPT ![sess[r]] = row[r]]
  /\ UNCHANGED <<active, sess, kind, dead, events, model, log, row, recall, history>>

\* processGeneration returns: an answer, an error or a cancellation.
TurnReturns(r) ==
  /\ pc[r] \in Working
  /\ pc' = [pc EXCEPT ![r] = "returned"]
  /\ UNCHANGED <<active, sess, kind, dead, events, model, store, history>>

\* A panic in the turn: RecoverPanic sends the error event, then the deferred
\* cancel runs.
TurnPanics(r) ==
  /\ pc[r] \in Working
  /\ events[r] < EventBuffer
  /\ pc' = [pc EXCEPT ![r] = "panicked"]
  /\ events' = [events EXCEPT ![r] = @ + 1]
  /\ dead' = dead \cup {r}
  /\ UNCHANGED <<active, sess, kind, model, store, history>>

\* The normal path's own Delete of the busy marker.
Release(r) ==
  /\ Goto(r, "returned", "released")
  /\ DeleteMarker(Key(r), r)
  /\ UNCHANGED <<sess, kind, dead, events, model, store, mixed>>

\* cancel(), Publish, and the hand-off of the result to the caller's channel.
\* No consumer has to be there: the UI drops the channel Run returns.
Deliver(r) ==
  /\ Goto(r, "released", "delivered")
  /\ events[r] < EventBuffer
  /\ events' = [events EXCEPT ![r] = @ + 1]
  /\ dead' = dead \cup {r}
  /\ UNCHANGED <<active, sess, kind, model, store, history>>

\* Mutant of DeferredRelease: no deferred Delete, as before the safety net.
NoDeferredDelete(r) ==
  /\ pc[r] \in {"delivered", "panicked"}
  /\ pc' = [pc EXCEPT ![r] = "deferred"]
  /\ UNCHANGED <<active, sess, kind, dead, events, model, store, history>>

\* The deferred Delete, on the normal path and after a panic.
DeferredRelease(r) ==
  /\ pc[r] \in {"delivered", "panicked"}
  /\ pc' = [pc EXCEPT ![r] = "deferred"]
  /\ DeleteMarker(Key(r), r)
  /\ UNCHANGED <<sess, kind, dead, events, model, store, mixed>>

\* The deferred close(events): the consumer learns that the turn is over.
CloseEvents(r) ==
  /\ Goto(r, "deferred", "closed")
  /\ UNCHANGED <<active, sess, kind, dead, events, model, store, history>>
------------------------------------------------------------------------------
\* Summarize up to its busy check, which looks at the turn's marker alone.
SummarizeCheck(r, s) ==
  /\ Fresh(r)
  /\ Goto(r, "idle", "sum_entering")
  /\ ~IsSessionBusy(s)
  /\ sess' = [sess EXCEPT ![r] = s]
  /\ kind' = [kind EXCEPT ![r] = "summarize"]
  /\ mixed' = mixed \cup InProgress(s, TurnStates)
  /\ UNCHANGED <<active, dead, events, model, store, erased>>

SummarizeStore(r) ==
  /\ Goto(r, "sum_entering", "sum_started")
  /\ active' = [active EXCEPT ![Key(r)] = r]
  /\ UNCHANGED <<sess, kind, dead, events, model, store, history>>

\* Mutant of SummarizeList: only the messages after the last summary are listed.
SummarizeListTail(r) ==
  /\ Goto(r, "sum_started", "sum_listed")
  /\ r \notin dead
  /\ log[sess[r]] # <<>>
  /\ recall' = [recall EXCEPT ![r] =
       LET l == log[sess[r]]
       IN  {l[i] : i \in {j \in DOMAIN l : \A k \in j .. Len(l) : l[k] # summary[sess[r]]}}]
  /\ UNCHANGED <<active, sess, kind, dead, events, model, log, summary, row, history>>

\* The whole transcript is listed; an empty one is an error.
SummarizeList(r) ==
  /\ Goto(r, "sum_started", "sum_listed")
  /\ r \notin dead
  /\ log[sess[r]] # <<>>
  /\ recall' = [recall EXCEPT ![r] = ToSet(log[sess[r]])]
  /\ UNCHANGED <<active, sess, kind, dead, events, model, log, summary, row, history>>

\* The summary came back and is stored as a message of the same session.
SummarizePost(r) ==
  /\ Goto(r, "sum_listed", "sum_posted")
  /\ r \notin dead
  /\ log' = [log EXCEPT ![sess[r]] = Append(@, r)]
  /\ UNCHANGED <<active, sess, kind, dead, events, model, summary, row, recall, history>>

\* The session is saved with the new SummaryMessageID.
SummarizeSave(r) ==
  /\ Goto(r, "sum_posted", "sum_ended")
  /\ r \notin dead
  /\ summary' = [summary EXCEPT ![sess[r]] = r]
  /\ UNCHANGED <<active, sess, kind, dead, events, model, log, row, recall, history>>

\* Any failing call, one on a cancelled context included, ends it early.
SummarizeFails(r) ==
  /\ pc[r] \in {"sum_started", "sum_listed", "sum_posted"}
  /\ pc' = [pc EXCEPT ![r] = "sum_ended"]
  /\ UNCHANGED <<active, sess, kind, dead, events, model, store, history>>

\* The deferred cancel and Delete of the summarize marker.
SummarizeRelease(r) ==
  /\ Goto(r, "sum_ended", "closed")
  /\ DeleteMarker(Key(r), r)
  /\ dead' = dead \cup {r}
  /\ UNCHANGED <<sess, kind, events, model, store, mixed>>
------------------------------------------------------------------------------
\* Cancel: LoadAndDelete of both keys of the session, cancelling what it finds.
Cancel(s) ==
  /\ \E k \in Kinds : active[<<s, k>>] # None
  /\ dead' = dead \cup ({active[<<s, k>>] : k \in Kinds} \ {None})
  /\ active' = [k \in Keys |-> IF k[1] = s THEN None ELSE active[k]]
  /\ UNCHANGED <<pc, sess, kind, events, model, store, history>>

\* Mutant of UpdateModel: the busy check is dropped.
UpdateModelBusy ==
  /\ \A q \in Requests : pc[q] # "entering"
  /\ model < MaxUpdates
  /\ model' = model + 1
  /\ UNCHANGED <<active, pc, sess, kind, dead, events, store, history>>

\* Update(agentName, modelID): refused while any marker is set.  It runs on the
\* UI goroutine, so never inside a Run.
UpdateModel ==
  /\ ~IsBusy
  /\ \A q \in Requests : pc[q] # "entering"
  /\ model < MaxUpdates
  /\ model' = model + 1
  /\ UNCHANGED <<active, pc, sess, kind, dead, events, store, history>>
------------------------------------------------------------------------------
TurnStep(r) ==
  \/ RunStore(r) \/ PostUserMessage(r) \/ TurnReturns(r) \/ Release(r)
  \/ Deliver(r) \/ DeferredRelease(r) \/ CloseEvents(r)

SummarizeStep(r) ==
  \/ SummarizeStore(r) \/ SummarizeList(r) \/ SummarizePost(r)
  \/ SummarizeSave(r) \/ SummarizeFails(r) \/ SummarizeRelease(r)

Next ==
  \/ \E r \in Requests :
       \/ \E s \in Sessions : RunCheck(r, s) \/ SummarizeCheck(r, s)
       \/ TurnStep(r) \/ TurnPanics(r) \/ ReadRow(r) \/ SaveRow(r) \/ SummarizeStep(r)
  \/ \E s \in Sessions : Cancel(s)
  \/ UpdateModel

Spec == Init /\ [][Next]_vars

\* A goroutine that can run runs; model calls and tools come back, and a turn
\* makes finitely many of them.  The user's own steps (Run, Summarize, Cancel,
\* Update) and panics are never required.
Fairness ==
  \A r \in Requests : WF_vars(TurnStep(r)) /\ WF_vars(SummarizeStep(r))

FairSpec == Spec /\ Fairness
------------------------------------------------------------------------------
TypeOK ==
  /\ active \in [Keys -> Requests \cup {None}]
  /\ pc \in [Requests -> {"idle", "closed"} \cup TurnStates \cup SumStates]
  /\ sess \in [Requests -> Sessions \cup {None}]
  /\ kind \in [Requests -> Kinds]
  /\ dead \subseteq Requests
  /\ events \in [Requests -> 0 .. EventBuffer]
  /\ model \in 0 .. MaxUpdates
  /\ log \in [Sessions -> Seq(Requests)]
  /\ summary \in [Sessions -> Requests \cup {None}]
  /\ row \in [Requests -> Requests \cup {None}]
  /\ recall \in [Requests -> SUBSET Requests]
  /\ erased \subseteq Requests
  /\ mixed \subseteq Requests

\* Between the store of a marker and the request's own first Delete of it.
Holding == {"started", "generating", "reconciling", "returned", "panicked",
            "sum_started", "sum_listed", "sum_posted", "sum_ended"}

\* A busy marker never outlives its request, on the normal path, after a panic
\* or after a cancellation: whatever marker is set belongs to a request made
\* for that key that still has a Delete of it ahead (agent.go 304-319, 1057-1061).
MarkerHasLiveOwner ==
  \A k \in Keys : active[k] # None =>
    Key(active[k]) = k /\ pc[active[k]] \in Holding

\* Two turns work on one session at once only if one of them was cancelled or
\* lost its marker to the teardown of an earlier turn: the unlocked check and
\* store of Run (agent.go 298-304) never let two in by themselves.
OverlapNeedsCancelOrErasure ==
  \A q, r \in Requests :
    /\ q # r
    /\ sess[q] = sess[r]
    /\ pc[q] \in Working
    /\ pc[r] \in Working
    => (dead \cup erased) \cap {q, r} # {}

\* The provider is replaced under no turn at work, but for one that was
\* cancelled or lost its marker (agent.go 1025, "cannot change model while
\* processing requests").
ModelSteadyUnderTurns ==
  [][model' # model =>
       \A r \in Requests : pc[r] \in Working => r \in dead \cup erased]_vars

\* What the next prompt of a session would neither contain nor have summarized
\* is a turn that ran while its session was being summarized: nothing else is
\* ever lost to compaction (agent.go 365-404, 1069-1195).
CompactionKeepsTurns ==
  \A s \in Sessions : \A q \in ToSet(log[s]) \ Window(s) :
    kind[q] = "turn" => q \in mixed

\* The save of a turn's totals moves its session's cut, and so undoes a
\* compaction, only where a turn of that session ran beside a Summarize: the
\* SummaryMessageID in the row it saves whole is otherwise the one the session
\* has (agent.go 1002-1018 and 1181-1195).
CompactionStands ==
  [][\A r \in Requests :
       SaveRow(r) /\ summary'[sess[r]] # summary[sess[r]]
         => \E q \in mixed : sess[q] = sess[r]]_vars

\* Every accepted Run and Summarize ends, its marker deleted and its channel
\* closed, whether or not anybody reads the result (agent.go 294-297).
RequestsEnd ==
  \A r \in Requests : pc[r] \in {"entering", "sum_entering"} ~> pc[r] = "closed"

\* agent.go 311-312: "Delete and cancel are both idempotent, so running twice
\* on the normal path is harmless": the second Delete of a turn that ended
\* normally deletes no other request's marker.
SecondDeleteHarmless ==
  [][\A r \in Requests :
       pc[r] = "delivered" /\ pc'[r] = "deferred" => erased' = erased]_vars
==============================================================================
