------------------------------ MODULE Transcript ------------------------------
(***************************************************************************)
(* The message service as one agent turn uses it, internal/message:         *)
(* messages are created and updated durably, while the updates made by the  *)
(* deltas of a stream are published at once and written later, by a timer,  *)
(* the last one standing for all (streaming.go).  Two goroutines meet here:  *)
(* the agent's, whose calls are the operators, and the timer's, TimerStep.  *)
(*                                                                         *)
(* The content of a message is abstracted to what the properties tell apart: *)
(* how many changes its text has had, its tool calls, and its finish marker. *)
(***************************************************************************)
EXTENDS Naturals, Sequences, Functions

CONSTANTS MaxCalls, \* bound on the tool calls of a message
          MaxText,  \* bound on the changes of a message's text
          MaxFaults \* bound on the database writes that fail

ASSUME TranscriptAssumption ==
  MaxCalls \in Nat /\ MaxText \in Nat /\ MaxFaults \in Nat

VARIABLES
  rows,    \* the messages table: the turn's assistant messages, oldest first
  seen,    \* the version of each that was published last
  pending, \* streamWriter.pending: the coalesced write of each message
  writing, \* what the timer's flush writes while it holds streamWriter.mu
  faults   \* writes that failed

transcript == <<rows, seen, pending, writing, faults>>

Kinds    == {"read", "effect"}
CallSeqs == UNION {[1 .. n -> Kinds] : n \in 0 .. MaxCalls}
Finishes == {"none", "tool_use", "end_turn", "canceled"}
Message  == [text : 0 .. MaxText, calls : CallSeqs, fin : Finishes]
Blank    == [text |-> 0, calls |-> <<>>, fin |-> "none"]

TranscriptInit ==
  /\ rows = <<>>
  /\ seen = <<>>
  /\ pending = <<>>
  /\ writing = {}
  /\ faults = 0

MuFree == writing = {}

\* discardLocked; also the delete of flushLocked.
Discard(id) == pending' = Restrict(pending, DOMAIN pending \ {id})

Fault ==
  /\ faults < MaxFaults
  /\ faults' = faults + 1

\* Create of an assistant message.
CreateMessage ==
  /\ rows' = Append(rows, Blank)
  /\ seen' = Append(seen, Blank)
  /\ UNCHANGED <<pending, writing, faults>>

\* Mutant of Update: the pending write of the message survives.
UpdateKeepsPending(id, msg) ==
  /\ MuFree
  /\ rows' = [rows EXCEPT ![id] = msg]
  /\ seen' = [seen EXCEPT ![id] = msg]
  /\ UNCHANGED <<pending, writing, faults>>

\* Update: discard, write and publish, all under mu.
Update(id, msg) ==
  /\ MuFree
  /\ Discard(id)
  /\ rows' = [rows EXCEPT ![id] = msg]
  /\ seen' = [seen EXCEPT ![id] = msg]
  /\ UNCHANGED <<writing, faults>>

\* Update whose write fails: what it would have superseded is gone all the same.
\* A dead context makes it fail, a fault of the database may.
UpdateFails(id, dead) ==
  /\ MuFree
  /\ Discard(id)
  /\ IF dead THEN UNCHANGED faults ELSE Fault
  /\ UNCHANGED <<rows, seen, writing>>

\* The two steps of UpdateStreamed: publish, then schedule under mu.
PublishStreamed(id, msg) ==
  /\ seen' = [seen EXCEPT ![id] = msg]
  /\ UNCHANGED <<rows, pending, writing, faults>>

Schedule(id, msg) ==
  /\ MuFree
  /\ pending' = [m \in DOMAIN pending \cup {id} |-> IF m = id THEN msg ELSE pending[m]]
  /\ UNCHANGED <<rows, seen, writing, faults>>

\* A pending write shares its parts with the agent's message: text changed in
\* place up to the moment of the write is written with it, parts added since
\* are not.  now is the agent's message.
Racing(msg, now) == {[msg EXCEPT !.text = n] : n \in msg.text .. now.text}

Persist(id, msg) ==
  \/ /\ rows' = [rows EXCEPT ![id] = msg]
     /\ seen' = [seen EXCEPT ![id] = msg]
     /\ UNCHANGED faults
  \/ Fault /\ UNCHANGED <<rows, seen>>

\* Mutant of FlushStreamed: left to the timer.
NoFlush(id) == UNCHANGED transcript

\* FlushStreamed, called by the agent: nothing to do when nothing is pending.
FlushStreamed(id) ==
  /\ MuFree
  /\ Discard(id)
  /\ IF id \in DOMAIN pending
     THEN Persist(id, pending[id])
     ELSE UNCHANGED <<rows, seen, faults>>
  /\ UNCHANGED writing

\* The timer of a pending write: flush takes mu and the entry, then writes and
\* publishes, and releases mu.
FlushTake(id) ==
  /\ MuFree
  /\ id \in DOMAIN pending
  /\ writing' = {<<id, pending[id]>>}
  /\ Discard(id)
  /\ UNCHANGED <<rows, seen, faults>>

FlushWrite(now) ==
  \E w \in writing :
    \E msg \in Racing(w[2], now[w[1]]) :
      /\ Persist(w[1], msg)
      /\ writing' = {}
      /\ UNCHANGED pending

TimerStep(now) ==
  \/ \E id \in DOMAIN pending : FlushTake(id)
  \/ FlushWrite(now)

TranscriptTypeOK ==
  /\ rows \in Seq(Message)
  /\ seen \in Seq(Message) /\ Len(seen) = Len(rows)
  /\ DOMAIN pending \subseteq DOMAIN rows
  /\ \A id \in DOMAIN pending : pending[id] \in Message
  /\ writing \subseteq (DOMAIN rows) \X Message
  /\ faults \in 0 .. MaxFaults
==============================================================================
