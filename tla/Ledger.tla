-------------------------------- MODULE Ledger --------------------------------
(***************************************************************************)
(* What is spent and what the books say: the ledger of model calls,         *)
(* internal/cost, the rows of the sessions, internal/session, and those who *)
(* write them, internal/llm/agent/agent.go.  A turn opens a record for each *)
(* call, closes it, and derives its session's totals from the ledger, which  *)
(* it reads before it writes the row, with the request's context.  The      *)
(* goroutine that finds a title and a compaction write the row as well.     *)
(*                                                                         *)
(* Every call that is charged costs 1.  A subagent is a turn of a session   *)
(* of its own, made by a tool of the turn that waits for it.  Once a turn   *)
(* is cancelled its session takes the next, whatever the old one still does *)
(* (AgentRequests).                                                         *)
(***************************************************************************)
EXTENDS Naturals, FiniteSets, Sequences

CONSTANTS Turns, Sessions,
          UserSessions, \* those a user opens; the others are for subagents
          None,         \* no session, no turn
          MaxCalls,     \* bound on the model calls
          Budget,       \* calls a task may make unasked
          MaxFaults     \* bound on the statements the database fails

ASSUME LedgerAssumption ==
  /\ None \notin Turns \cup Sessions
  /\ IsFiniteSet(Sessions)
  /\ UserSessions \subseteq Sessions
  /\ MaxCalls \in Nat
  /\ Budget \in Nat \ {0}
  /\ MaxFaults \in Nat

VARIABLES
  calls,    \* model_calls, in the order of started_at
  cost,     \* the stored cost of each session, for all its totals
  parent,   \* parent_session_id
  pc,       \* where a turn is
  sess,     \* its session
  of,       \* the turn a subagent's turn works for
  call,     \* the record its tracker points to, 0 when it was not written
  dead,     \* turns whose request was cancelled
  detached, \* turns that close a call without the request's context
  held,     \* what reconcileSession has read
  title,    \* the goroutine that finds a session's title
  compact,  \* the compaction of a session
  copy,     \* the row the compaction has read
  auto,     \* sessions in which nobody is asked for permission
  granted,  \* the spending each session was allowed to go beyond for good
  faults,   \* statements the database failed
  spoilt,   \* history: a session's totals are not those of its last turn's end
  answered, \* history: calls whose answer was complete
  lost,     \* history: calls whose end was not written, or that panicked
  approved, \* history: the spending the user just let a task go beyond
  unread    \* history: turns that go on as their spending could not be read

books == <<calls, cost, parent>>
who   == <<sess, of>>
sides == <<title, compact, copy>>
leave == <<auto, granted, approved, unread>>
ghost == <<faults, spoilt, answered, lost>>
vars  == <<books, pc, who, call, dead, detached, held, sides, leave, ghost>>

Ids == 1 .. MaxCalls

Call == [turn : Turns, sess : Sessions, cost : 0 .. 1,
         status : {"started", "completed", "failed", "cancelled"}]

States == {"idle", "loop", "budget", "ask", "open", "stream", "finish", "totals", "save",
           "tools", "over"}

Init ==
  /\ calls = <<>>
  /\ cost = [s \in Sessions |-> 0]
  /\ parent = [s \in Sessions |-> None]
  /\ pc = [t \in Turns |-> "idle"]
  /\ sess = [t \in Turns |-> None]
  /\ of = [t \in Turns |-> None]
  /\ call = [t \in Turns |-> 0]
  /\ dead = {}
  /\ detached = {}
  /\ held = [t \in Turns |-> 0]
  /\ title = [s \in Sessions |-> "none"]
  /\ compact = [s \in Sessions |-> "none"]
  /\ copy = [s \in Sessions |-> 0]
  /\ auto = {}
  /\ granted = {}
  /\ faults = 0
  /\ spoilt = [s \in Sessions |-> FALSE]
  /\ answered = {}
  /\ lost = {}
  /\ approved = [t \in Turns |-> 0]
  /\ unread = {}

Goto(t, from, to) ==
  /\ pc[t] = from
  /\ pc' = [pc EXCEPT ![t] = to]

InProgress(t) == pc[t] \notin {"idle", "over"}

Dead(t) == t \in dead \/ of[t] \in dead

\* The context of a database call of the turn is dead.
Cut(t) == Dead(t) /\ t \notin detached

\* A statement fails though its context is alive: a database that is locked, or
\* full.
Fault ==
  /\ faults < MaxFaults
  /\ faults' = faults + 1
------------------------------------------------------------------------------
CallsOf(s) == {i \in DOMAIN calls : calls[i].sess = s}

Charged(is) == Cardinality({i \in is : calls[i].cost = 1 /\ calls[i].status # "started"})

ChildrenOf(s) == {c \in Sessions : parent[c] = s}

\* The stored costs of a session's children, of which each has its own calls.
ChildCost(s) ==
  Cardinality({p \in ChildrenOf(s) \X Ids : p[2] <= cost[p[1]]})

SessionTotals(s) == Charged(CallsOf(s)) + ChildCost(s)

\* The recursive query: the task's calls, and those of its subagents' tasks.
TaskTotals(t) ==
  Charged({i \in DOMAIN calls : calls[i].turn = t \/ of[calls[i].turn] = t})

\* FinishCall: no row is an error, and so is a failed statement; both are only
\* logged.
FinishCall(i, status, charge) ==
  \/ /\ calls' = IF i = 0 THEN calls
                  ELSE [calls EXCEPT ![i] = [@ EXCEPT !.status = status, !.cost = charge]]
     /\ UNCHANGED <<faults, lost>>
  \/ /\ i # 0
     /\ Fault
     /\ lost' = lost \cup {i}
     /\ UNCHANGED calls

\* sessionModeLocked, over the session and the one it is linked to.
AutoApproved(t) == {sess[t], parent[sess[t]]} \cap auto # {}

\* hasSessionGrant: the session and the spending are those of the grant.
Granted(t) == <<sess[t], TaskTotals(t)>> \in granted
------------------------------------------------------------------------------
\* Run, and processGeneration up to its loop.  The first turn of a session asks
\* for a title.
Begin(t, s) ==
  /\ Goto(t, "idle", "loop")
  /\ auto = {}
  /\ s \in UserSessions
  /\ \A u \in Turns : sess[u] = s => ~InProgress(u) \/ Dead(u)
  /\ sess' = [sess EXCEPT ![t] = s]
  /\ title' = [title EXCEPT ![s] = IF @ = "none" THEN "asking" ELSE @]
  /\ UNCHANGED <<books, of, call, dead, detached, held, compact, copy, leave, ghost>>

\* RunNonInteractive: one turn, which approves everything unasked.  Without
\* --yes it is denied everything.
BeginHeadless(t, s) ==
  /\ s \in UserSessions
  /\ \A u \in Turns : sess[u] = None
  /\ auto' = {s}
  /\ Goto(t, "idle", "loop")
  /\ sess' = [sess EXCEPT ![t] = s]
  /\ title' = [title EXCEPT ![s] = "asking"]
  /\ UNCHANGED <<books, of, call, dead, detached, held, compact, copy, granted, approved,
                 unread, ghost>>

\* The agent tool: a session for the call, and a turn in it.
Delegate(t, u, c) ==
  /\ pc[t] = "tools"
  /\ of[t] = None
  /\ ~Dead(t)
  /\ \A v \in Turns : of[v] = t => ~InProgress(v)
  /\ c \notin UserSessions
  /\ \A v \in Turns : sess[v] # c
  /\ Goto(u, "idle", "loop")
  /\ sess' = [sess EXCEPT ![u] = c]
  /\ of' = [of EXCEPT ![u] = t]
  /\ parent' = [parent EXCEPT ![c] = sess[t]]
  /\ UNCHANGED <<calls, cost, call, dead, detached, held, sides, leave, ghost>>

Cancel(t) ==
  /\ InProgress(t)
  /\ of[t] = None
  /\ t \notin dead
  /\ dead' = dead \cup {t}
  /\ UNCHANGED <<books, pc, who, call, detached, held, sides, leave, ghost>>

\* The loop's check for cancellation.
CheckDone(t) ==
  /\ Goto(t, "loop", IF Dead(t) THEN "over" ELSE "budget")
  /\ UNCHANGED <<books, who, call, dead, detached, held, sides, leave, ghost>>

\* Mutant of BudgetStop: asked only once the ceiling is passed.
BudgetStopLate(t) ==
  /\ ~Dead(t)
  /\ Goto(t, "budget", IF TaskTotals(t) > Budget THEN "ask" ELSE "open")
  /\ UNCHANGED <<books, who, call, dead, detached, held, sides, leave, ghost>>

\* The governor in its mode "on".
BudgetStop(t) ==
  /\ ~Dead(t)
  /\ Goto(t, "budget", IF TaskTotals(t) >= Budget THEN "ask" ELSE "open")
  /\ UNCHANGED <<books, who, call, dead, detached, held, sides, leave, ghost>>

\* currentAssessment: without the totals there is no assessment, and no stop.
BudgetUnread(t) ==
  /\ Goto(t, "budget", "open")
  /\ IF Dead(t) THEN UNCHANGED faults ELSE Fault
  /\ unread' = unread \cup {t}
  /\ UNCHANGED <<books, who, call, dead, detached, held, sides, auto, granted, approved,
                 spoilt, answered, lost>>

\* The request for permission, whatever became of the turn's own request.
PassUnasked(t) ==
  /\ Goto(t, "ask", "open")
  /\ AutoApproved(t) \/ Granted(t)
  /\ UNCHANGED <<books, who, call, dead, detached, held, sides, leave, ghost>>

Answer(t, how) ==
  /\ Goto(t, "ask", IF how = "deny" THEN "over" ELSE "open")
  /\ ~AutoApproved(t) /\ ~Granted(t)
  /\ approved' = IF how = "deny" THEN approved ELSE [approved EXCEPT ![t] = TaskTotals(t)]
  /\ granted' = IF how = "session" THEN granted \cup {<<sess[t], TaskTotals(t)>>} ELSE granted
  /\ UNCHANGED <<books, who, call, dead, detached, held, sides, auto, unread, ghost>>

\* startCall: without its row the call is made all the same.
StartCall(t) ==
  /\ Goto(t, "open", "stream")
  /\ \/ /\ IF Dead(t) THEN UNCHANGED faults ELSE Fault
        /\ call' = [call EXCEPT ![t] = 0]
        /\ UNCHANGED calls
     \/ /\ ~Dead(t)
        /\ Len(calls) < MaxCalls
        /\ calls' = Append(calls, [turn |-> t, sess |-> sess[t], cost |-> 0,
                                   status |-> "started"])
        /\ call' = [call EXCEPT ![t] = Len(calls) + 1]
        /\ UNCHANGED faults
  /\ approved' = [approved EXCEPT ![t] = 0]
  /\ unread' = unread \ {t}
  /\ UNCHANGED <<cost, parent, who, dead, detached, held, sides, auto, granted,
                 spoilt, answered, lost>>

\* Mutant of Abort: the record is closed with the request's context.
AbortWithRequest(t) ==
  /\ Goto(t, "stream", "over")
  /\ IF Dead(t) THEN UNCHANGED <<calls, faults, lost>> ELSE FinishCall(call[t], "failed", 0)
  /\ UNCHANGED <<cost, parent, who, call, dead, detached, held, sides, leave, spoilt, answered>>

\* abortCall: the provider's error, or the request's cancellation.
Abort(t) ==
  /\ Goto(t, "stream", "over")
  /\ FinishCall(call[t], IF Dead(t) THEN "cancelled" ELSE "failed", 0)
  /\ UNCHANGED <<cost, parent, who, call, dead, detached, held, sides, leave, spoilt, answered>>

\* An error event without an error, as copilot sends one when its token is
\* refused (Stream): the turn is left, and not its record.
Panic(t) ==
  /\ Goto(t, "stream", "over")
  /\ lost' = lost \cup ({call[t]} \ {0})
  /\ UNCHANGED <<books, who, call, dead, detached, held, sides, leave, faults, spoilt, answered>>

\* EventComplete, taken and stored before the request is cancelled.
Complete(t) ==
  /\ Goto(t, "stream", "finish")
  /\ ~Dead(t)
  /\ answered' = answered \cup ({call[t]} \ {0})
  /\ UNCHANGED <<books, who, call, dead, detached, held, sides, leave, faults, spoilt, lost>>

\* The stream ends without an event to say so: finalizeCallIfOpen.
EndStream(t) ==
  /\ Goto(t, "stream", "finish")
  /\ detached' = detached \cup {t}
  /\ UNCHANGED <<books, who, call, dead, held, sides, leave, ghost>>

\* completeCall: the tracker is final, whether or not the record could be closed.
CompleteCall(t) ==
  /\ Goto(t, "finish", "totals")
  /\ IF Cut(t) THEN UNCHANGED <<calls, faults, lost>>
     ELSE FinishCall(call[t], "completed", IF t \in detached THEN 0 ELSE 1)
  /\ UNCHANGED <<cost, parent, who, call, dead, detached, held, sides, leave, spoilt, answered>>
------------------------------------------------------------------------------
\* reconcileSession; an error ends the turn, and is only logged when the stream
\* ended of itself.
Fail(t) ==
  /\ pc[t] \in {"totals", "save"}
  /\ IF Cut(t) THEN UNCHANGED <<faults, spoilt>>
     ELSE Fault /\ spoilt' = [spoilt EXCEPT ![sess[t]] = TRUE]
  /\ pc' = [pc EXCEPT ![t] = IF t \in detached THEN "tools" ELSE "over"]
  /\ held' = [held EXCEPT ![t] = 0]
  /\ detached' = detached \ {t}
  /\ UNCHANGED <<books, who, call, dead, sides, leave, answered, lost>>

ReadTotals(t) ==
  /\ ~Cut(t)
  /\ Goto(t, "totals", "save")
  /\ held' = [held EXCEPT ![t] = SessionTotals(sess[t])]
  /\ UNCHANGED <<books, who, call, dead, detached, sides, leave, ghost>>

SaveTotals(t) ==
  /\ ~Cut(t)
  /\ Goto(t, "save", "tools")
  /\ cost' = [cost EXCEPT ![sess[t]] = held[t]]
  /\ held' = [held EXCEPT ![t] = 0]
  /\ detached' = detached \ {t}
  /\ spoilt' = [spoilt EXCEPT ![sess[t]] = Dead(t)]
  /\ UNCHANGED <<calls, parent, who, call, dead, sides, leave, faults, answered, lost>>

\* The tools have run: another call, or the end of the turn.
EndTools(t, to) ==
  /\ Goto(t, "tools", to)
  /\ to \in {"loop", "over"}
  /\ \A v \in Turns : of[v] = t => ~InProgress(v)
  /\ UNCHANGED <<books, who, call, dead, detached, held, sides, leave, ghost>>
------------------------------------------------------------------------------
\* Mutant of SetTitle: the row as the goroutine first read it is saved.
SaveTitle(s) ==
  /\ title[s] = "asking"
  /\ cost' = [cost EXCEPT ![s] = 0]
  /\ title' = [title EXCEPT ![s] = "set"]
  /\ UNCHANGED <<calls, parent, pc, who, call, dead, detached, held, compact, copy, leave, ghost>>

\* generateTitle: the title alone.
SetTitle(s) ==
  /\ title[s] = "asking"
  /\ title' = [title EXCEPT ![s] = "set"]
  /\ UNCHANGED <<books, pc, who, call, dead, detached, held, compact, copy, leave, ghost>>

\* Summarize, once a session here: the session it asked for is free.
Summarize(s) ==
  /\ compact[s] = "none"
  /\ auto = {}
  /\ \E t \in Turns : sess[t] = s
  /\ s \in UserSessions
  /\ \A t \in Turns : sess[t] = s => ~InProgress(t) \/ Dead(t)
  /\ compact' = [compact EXCEPT ![s] = "asking"]
  /\ UNCHANGED <<books, pc, who, call, dead, detached, held, title, copy, leave, ghost>>

ReadSession(s) ==
  /\ compact[s] = "asking"
  /\ compact' = [compact EXCEPT ![s] = "read"]
  /\ copy' = [copy EXCEPT ![s] = cost[s]]
  /\ UNCHANGED <<books, pc, who, call, dead, detached, held, title, leave, ghost>>

SaveSummary(s) ==
  /\ compact[s] = "read"
  /\ compact' = [compact EXCEPT ![s] = "over"]
  /\ cost' = [cost EXCEPT ![s] = copy[s] + 1]
  /\ copy' = [copy EXCEPT ![s] = 0]
  /\ spoilt' = [spoilt EXCEPT ![s] = TRUE]
  /\ UNCHANGED <<calls, parent, pc, who, call, dead, detached, held, title, leave,
                 faults, answered, lost>>

\* An error or a cancellation.
FailSummary(s) ==
  /\ compact[s] \in {"asking", "read"}
  /\ compact' = [compact EXCEPT ![s] = "over"]
  /\ copy' = [copy EXCEPT ![s] = 0]
  /\ UNCHANGED <<books, pc, who, call, dead, detached, held, title, leave, ghost>>
------------------------------------------------------------------------------
Reconcile(t) ==
  \/ Fail(t) \/ ReadTotals(t) \/ SaveTotals(t)

Turn(t) ==
  \/ CheckDone(t) \/ BudgetStop(t) \/ BudgetUnread(t)
  \/ PassUnasked(t) \/ \E how \in {"deny", "once", "session"} : Answer(t, how)
  \/ StartCall(t) \/ Abort(t) \/ Panic(t) \/ Complete(t) \/ EndStream(t) \/ CompleteCall(t)
  \/ Reconcile(t)
  \/ \E to \in {"loop", "over"} : EndTools(t, to)

Next ==
  \/ \E t \in Turns :
       \/ \E s \in Sessions : Begin(t, s) \/ BeginHeadless(t, s)
       \/ \E u \in Turns, c \in Sessions : Delegate(t, u, c)
       \/ Turn(t)
       \/ Cancel(t)
  \/ \E s \in Sessions :
       SetTitle(s) \/ Summarize(s) \/ ReadSession(s) \/ SaveSummary(s) \/ FailSummary(s)

Spec == Init /\ [][Next]_vars
------------------------------------------------------------------------------
TypeOK ==
  /\ calls \in Seq(Call) /\ Len(calls) <= MaxCalls
  /\ cost \in [Sessions -> Nat]
  /\ parent \in [Sessions -> Sessions \cup {None}]
  /\ pc \in [Turns -> States]
  /\ sess \in [Turns -> Sessions \cup {None}]
  /\ of \in [Turns -> Turns \cup {None}]
  /\ call \in [Turns -> 0 .. MaxCalls]
  /\ dead \subseteq Turns
  /\ detached \subseteq Turns
  /\ held \in [Turns -> Nat]
  /\ title \in [Sessions -> {"none", "asking", "set"}]
  /\ compact \in [Sessions -> {"none", "asking", "read", "over"}]
  /\ copy \in [Sessions -> Nat]
  /\ auto \subseteq Sessions
  /\ granted \subseteq Sessions \X (0 .. MaxCalls)
  /\ faults \in 0 .. MaxFaults
  /\ spoilt \in [Sessions -> BOOLEAN]
  /\ answered \subseteq Ids
  /\ lost \subseteq Ids
  /\ approved \in [Turns -> 0 .. MaxCalls]
  /\ unread \subseteq Turns

\* The latest call of a session and its children is the session's own, and
\* its turn is over with it.
LastCall(s, i) ==
  /\ i \in CallsOf(s)
  /\ \A j \in DOMAIN calls : j > i => calls[j].sess # s /\ parent[calls[j].sess] # s

\* cost/store.go 13-14: "totals reconcile from call to task to session".  Once
\* the turn of a session's last call is over, and ran to its end, the stored
\* cost is that of the ledger and of the children, whatever came between: but
\* for compactions, of which the ledger knows nothing, a cancelled turn that
\* closes a call on a context of its own, and totals the database would not read
\* or save (agent.go 998-1022, 1185-1195; cost/store.go 145-166).
TotalsReconcile ==
  \A s \in Sessions, i \in DOMAIN calls :
    /\ LastCall(s, i)
    /\ pc[calls[i].turn] = "over" /\ ~Dead(calls[i].turn)
    /\ calls[i].status = "completed"
    /\ ~spoilt[s]
    => cost[s] = Charged(CallsOf(s)) + ChildCost(s)

\* agent.go 557-559: "so it never remains in the `started` state".  A call is
\* open while its turn streams it; it stays open only when the request was
\* cancelled between its answer and the record of it, when that record could not
\* be written, or when the agent panicked on the stream: an abort and a stream
\* without an end close it whatever became of the request (agent.go 321, 640-655,
\* 814-846, 884-891, 906-913; copilot.go 519-537).
OpenOnlyIfCut ==
  \A i \in DOMAIN calls :
    LET t == calls[i].turn
    IN calls[i].status = "started" =>
         \/ call[t] = i /\ pc[t] \in {"stream", "finish"}
         \/ i \in answered /\ Dead(t)
         \/ i \in lost

\* A task, subagents included, starts a call beyond its budget only when the
\* user was asked at that very spending, or allowed it for the session; when
\* nobody is to be asked there; or when the spending could not be read
\* (agent.go 921-980; permission.go 145-204).  A call whose end is not in the
\* ledger is not counted.
OverBudgetOnlyIfApproved ==
  [][\A t \in Turns :
       Len(calls') > Len(calls) /\ calls'[Len(calls')].turn = t /\ TaskTotals(t) >= Budget =>
         approved[t] = TaskTotals(t) \/ Granted(t) \/ AutoApproved(t) \/ t \in unread]_vars
==============================================================================
