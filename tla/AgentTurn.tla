------------------------------ MODULE AgentTurn -------------------------------
(***************************************************************************)
(* One call of processGeneration, internal/llm/agent/agent.go: the loop of  *)
(* rounds of a user's request, each one model response streamed into an     *)
(* assistant message (Transcript) and the tool calls it asked for           *)
(* (ToolBatch).  The request's context may be cancelled at any moment, the   *)
(* stream may fail or close early, and a database write may fail.            *)
(***************************************************************************)
EXTENDS Transcript, ToolBatch

CONSTANT MaxRounds  \* bound on the responses of a request

ASSUME AgentTurnAssumption == MaxRounds \in Nat \ {0}

VARIABLES
  pc,        \* where processGeneration is
  mem,       \* its messages in memory, oldest first; the last is current
  completed, \* EventComplete was received in this round
  err,       \* the error RunTurn returns: context.Canceled or another
  event      \* what processGeneration returned

loop == <<pc, mem, completed, err, event>>
vars == <<transcript, dead, batch, loop>>

States == {"start", "check", "create", "stream", "schedule", "store", "reconcile",
           "look", "abort", "rescue", "flush", "tools", "record", "decide",
           "validate", "done"}

Init ==
  /\ TranscriptInit
  /\ dead = FALSE
  /\ BatchInit
  /\ pc = "start"
  /\ mem = <<>>
  /\ completed = FALSE
  /\ err = "none"
  /\ event = "none"

\* The current assistant message.
cur == Len(mem)
Current == mem[cur]
Set(msg) == mem' = [mem EXCEPT ![cur] = msg]

Goto(from, to) ==
  /\ pc = from
  /\ pc' = to

Return(from, e) ==
  /\ Goto(from, "done")
  /\ event' = e

\* RunTurn's error.
Abort(from, e) ==
  /\ Goto(from, "abort")
  /\ err' = e

Canceled(msg) == [msg EXCEPT !.fin = "canceled"]

\* messages.Update, logged when it fails; detached is context.Background().
UpdateLogged(msg, ctxDead) ==
  \/ ~ctxDead /\ Update(cur, msg)
  \/ UpdateFails(cur, ctxDead)

detached == FALSE
------------------------------------------------------------------------------
\* Up to the user's message; nothing of a failed start is kept.
BeginTurn ==
  \/ /\ ~dead
     /\ Goto("start", "check")
     /\ UNCHANGED <<transcript, dead, batch, mem, completed, err, event>>
  \/ /\ Return("start", "error")
     /\ IF dead THEN UNCHANGED faults ELSE Fault
     /\ UNCHANGED <<rows, seen, pending, writing, dead, batch, mem, completed, err>>

\* Before each round: cancellation, then the budget, whose question may be
\* answered either way.
CheckCancelled ==
  /\ dead
  /\ Return("check", "error")
  /\ UNCHANGED <<transcript, dead, batch, mem, completed, err>>

BudgetStop ==
  /\ ~dead
  /\ Return("check", "error")
  /\ UNCHANGED <<transcript, dead, batch, mem, completed, err>>

StartRound ==
  /\ ~dead
  /\ Len(mem) < MaxRounds
  /\ Goto("check", "create")
  /\ UNCHANGED <<transcript, dead, batch, mem, completed, err, event>>

CreateAssistant ==
  /\ ~dead
  /\ Goto("create", "stream")
  /\ CreateMessage
  /\ mem' = Append(mem, Blank)
  /\ completed' = FALSE
  /\ UNCHANGED <<dead, batch, err, event>>

\* Create failed: the finish marker goes to a message without id, to no row.
CreateFails ==
  /\ Return("create", IF dead THEN "cancelled" ELSE "error")
  /\ IF dead THEN UNCHANGED faults ELSE Fault
  /\ UNCHANGED <<rows, seen, pending, writing, dead, batch, mem, completed, err>>
------------------------------------------------------------------------------
\* An event of the stream; processEvent looks at the context first.
Delivered == pc = "stream" /\ ~completed /\ ~dead

\* EventContentDelta, EventThinkingDelta, EventToolUseStart: UpdateStreamed.
Delta(msg) ==
  /\ Delivered
  /\ Goto("stream", "schedule")
  /\ Set(msg)
  /\ PublishStreamed(cur, msg)
  /\ UNCHANGED <<dead, batch, completed, err, event>>

\* Later rounds are given fewer calls, a bound and nothing of the code's.
CallBound == MaxCalls \div cur

MoreText == [Current EXCEPT !.text = @ + 1]

ContentDelta ==
  /\ Delivered
  /\ Current.text < MaxText
  /\ Delta(MoreText)

ToolUseStart(k) ==
  /\ Delivered
  /\ Len(Current.calls) < CallBound
  /\ Delta([Current EXCEPT !.calls = Append(@, k)])

ScheduleDelta ==
  /\ Goto("schedule", "look")
  /\ Schedule(cur, Current)
  /\ UNCHANGED <<dead, batch, mem, completed, err, event>>

\* EventToolUseStop marks a call in place; EventComplete sets the calls and the
\* finish marker.  Both are then written directly.
ToolUseStop ==
  /\ Delivered
  /\ Current.calls # <<>> /\ Current.text < MaxText
  /\ Goto("stream", "store")
  /\ Set(MoreText)
  /\ UNCHANGED <<transcript, dead, batch, completed, err, event>>

Complete(cs, f) ==
  /\ Delivered
  /\ Len(cs) <= CallBound
  /\ Goto("stream", "store")
  /\ Set([Current EXCEPT !.calls = cs, !.fin = f])
  /\ completed' = TRUE
  /\ UNCHANGED <<transcript, dead, batch, err, event>>

Store ==
  /\ ~dead
  /\ Goto("store", IF completed THEN "reconcile" ELSE "look")
  /\ Update(cur, Current)
  /\ UNCHANGED <<dead, batch, mem, completed, err, event>>

StoreFails ==
  /\ Abort("store", IF dead THEN "cancelled" ELSE "failed")
  /\ UpdateFails(cur, dead)
  /\ UNCHANGED <<dead, batch, mem, completed, event>>

\* completeCall: the session's totals; without a ledger there is nothing to do.
Reconcile ==
  /\ Goto("reconcile", "look")
  /\ UNCHANGED <<transcript, dead, batch, mem, completed, err, event>>

ReconcileFails ==
  /\ Abort("reconcile", IF dead THEN "cancelled" ELSE "failed")
  /\ IF dead THEN UNCHANGED faults ELSE Fault
  /\ UNCHANGED <<rows, seen, pending, writing, dead, batch, mem, completed, event>>

\* EventError, and any event of a dead request.
StreamError ==
  /\ pc = "stream" /\ ~completed
  /\ Abort("stream", IF dead THEN "cancelled" ELSE "failed")
  /\ UNCHANGED <<transcript, dead, batch, mem, completed, event>>

\* The event was processed; the context is looked at once more.
LookAlive ==
  /\ ~dead
  /\ Goto("look", "stream")
  /\ UNCHANGED <<transcript, dead, batch, mem, completed, err, event>>

LookDead ==
  /\ dead
  /\ Goto("look", "rescue")
  /\ err' = "cancelled"
  /\ Set(Canceled(Current))
  /\ UpdateLogged(Canceled(Current), detached)
  /\ UNCHANGED <<dead, batch, completed, event>>

\* processEvent failed: the marker is written with the request's own context.
AbortRound ==
  /\ pc = "abort"
  /\ IF err = "cancelled"
     THEN Goto("abort", "rescue") /\ UNCHANGED event
     ELSE Return("abort", "error")
  /\ Set(Canceled(Current))
  /\ UpdateLogged(Canceled(Current), dead)
  /\ UNCHANGED <<dead, batch, completed, err>>

\* Mutant of Rescue: with the request's context.
RescueWithContext ==
  /\ Return("rescue", "cancelled")
  /\ Set(Canceled(Current))
  /\ UpdateLogged(Canceled(Current), dead)
  /\ UNCHANGED <<dead, batch, completed, err>>

\* processGeneration, on a cancelled round, writes the marker detached from it.
Rescue ==
  /\ Return("rescue", "cancelled")
  /\ Set(Canceled(Current))
  /\ UpdateLogged(Canceled(Current), detached)
  /\ UNCHANGED <<dead, batch, completed, err>>
------------------------------------------------------------------------------
\* The provider closes the channel, after EventComplete or, at the end of its
\* input, without it.
CloseStream ==
  /\ Goto("stream", "flush")
  /\ UNCHANGED <<transcript, dead, batch, mem, completed, err, event>>

Flush ==
  /\ Goto("flush", "tools")
  /\ FlushStreamed(cur)
  /\ StartBatch(Current.calls)
  /\ UNCHANGED <<dead, mem, completed, err, event>>

ToolStep ==
  /\ pc = "tools"
  /\ BatchStep
  /\ UNCHANGED <<transcript, loop>>

ToolsDone ==
  /\ phase = "done"
  /\ Goto("tools", "record")
  /\ LeaveBatch
  /\ UNCHANGED <<transcript, dead, mem, completed, err, event>>

ToolsCancelled ==
  /\ phase = "cancelled"
  /\ Goto("tools", "record")
  /\ LeaveBatch
  /\ Set(Canceled(Current))
  /\ UpdateLogged(Canceled(Current), detached)
  /\ UNCHANGED <<dead, completed, err, event>>

\* The tool message, detached from the request; none when there were no calls.
RecordResults ==
  \/ /\ Goto("record", "decide")
     /\ UNCHANGED <<transcript, dead, batch, mem, completed, err, event>>
  \/ /\ Return("record", "error")
     /\ Current.calls # <<>>
     /\ Fault
     /\ UNCHANGED <<rows, seen, pending, writing, dead, batch, mem, completed, err>>

NextRound ==
  /\ Goto("decide", "check")
  /\ Current.fin = "tool_use" /\ Current.calls # <<>>
  /\ UNCHANGED <<transcript, dead, batch, mem, completed, err, event>>

LastRound ==
  /\ Goto("decide", "validate")
  /\ ~(Current.fin = "tool_use" /\ Current.calls # <<>>)
  /\ UNCHANGED <<transcript, dead, batch, mem, completed, err, event>>

\* validateTaskIfNeeded may add a report to the message.
Respond ==
  /\ Return("validate", "response")
  /\ UNCHANGED <<transcript, dead, batch, mem, completed, err>>

RespondWithReport ==
  /\ pc = "validate"
  /\ Current.text < MaxText
  /\ Return("validate", "response")
  /\ Set(MoreText)
  /\ UpdateLogged(MoreText, detached)
  /\ UNCHANGED <<dead, batch, completed, err>>
------------------------------------------------------------------------------
\* Cancel, or the end of the program's context.
Cancel ==
  /\ pc # "done"
  /\ ~dead
  /\ dead' = TRUE
  /\ UNCHANGED <<transcript, batch, loop>>

StreamStep ==
  \/ ContentDelta \/ \E k \in Kinds : ToolUseStart(k)
  \/ ScheduleDelta \/ ToolUseStop
  \/ \E cs \in CallSeqs, f \in {"tool_use", "end_turn"} : Complete(cs, f)
  \/ Store \/ StoreFails \/ Reconcile \/ ReconcileFails \/ StreamError
  \/ LookAlive \/ LookDead \/ AbortRound \/ Rescue \/ CloseStream

AgentStep ==
  \/ BeginTurn \/ CheckCancelled \/ BudgetStop \/ StartRound
  \/ CreateAssistant \/ CreateFails
  \/ StreamStep
  \/ Flush \/ ToolStep \/ ToolsDone \/ ToolsCancelled \/ RecordResults
  \/ NextRound \/ LastRound \/ Respond \/ RespondWithReport

Timer == TimerStep(mem) /\ UNCHANGED <<dead, batch, loop>>

Next == AgentStep \/ Timer \/ Cancel

Spec == Init /\ [][Next]_vars

\* The agent's goroutine and the timer's run; the stream's next event, its end
\* and the end of a tool are steps of the agent's, which waits for them.
Fairness == WF_vars(AgentStep) /\ WF_vars(Timer)

FairSpec == Spec /\ Fairness
------------------------------------------------------------------------------
TypeOK ==
  /\ TranscriptTypeOK
  /\ BatchTypeOK
  /\ pc \in States
  /\ mem \in Seq(Message) /\ Len(mem) = Len(rows)
  /\ completed \in BOOLEAN
  /\ err \in {"none", "cancelled", "failed"}
  /\ event \in {"none", "response", "cancelled", "error"}

\* A coalesced write never lands after a newer direct one: the text on disk
\* never goes back, and a finish marker on disk, or on screen, stays
\* (streaming.go 29-38, 109-115; message.go 116-120).
NeverReverts ==
  [][\A m \in DOMAIN rows :
       /\ rows[m].text <= rows'[m].text
       /\ rows[m].fin # "none" => rows'[m].fin # "none"
       /\ seen[m].fin # "none" => seen'[m].fin # "none"]_vars

\* A provider's error was being recorded when the request was cancelled: the
\* marker's write, tied to the request, fails and is not repeated.
ErrorOvertaken(m) ==
  m = cur /\ event = "error" /\ dead /\ mem[m].fin = "canceled"

\* When the turn is over and no write failed, disk and screen show each message
\* as the agent has it, and nothing waits to be written (agent.go 557-560).
TranscriptSettles ==
  pc = "done" /\ faults = 0 =>
    \A m \in DOMAIN mem :
      /\ m \notin DOMAIN pending
      /\ \/ rows[m] = mem[m] /\ seen[m] = mem[m]
         \/ ErrorOvertaken(m)

\* However the turn ended, every message it made has its finish marker on disk
\* (agent.go 596-602), but for a stream that closed without EventComplete.
FinishLands ==
  pc = "done" /\ faults = 0 =>
    \A m \in DOMAIN rows :
      \/ rows[m].fin # "none"
      \/ ErrorOvertaken(m)
      \/ m = cur /\ ~completed /\ event = "response"

\* The request comes to its end, whatever is cancelled, fails or is refused.
TurnEnds == <>(pc = "done")
==============================================================================
