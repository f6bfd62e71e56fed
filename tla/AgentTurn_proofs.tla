--------------------------- MODULE AgentTurn_proofs ---------------------------
(***************************************************************************)
(* Proofs about AgentTurn, for any bounds on calls, text, faults, rounds  *)
(* and parallel tools: the safety of tool batches, and of the transcript  *)
(* under coalesced writes up to where the turn ends. The last part is     *)
(* about Stream, from which a turn reads, for any number of attempts and  *)
(* deltas.                                                                *)
(***************************************************************************)
EXTENDS AgentTurn, Answer, FiniteSetTheorems, TLAPS

------------------------------------------------------------------------------
\* Tool batches.

\* Which slots are filled, and which calls may be running, at each point of
\* executeToolCalls.
SlotsFilled ==
  /\ phase \in {"off", "loop"} => DOMAIN results = 1 .. next - 1 /\ running = {}
  /\ phase = "off" => next = 1 /\ end = 1
  /\ phase = "batch" =>
       /\ next < end
       /\ 1 .. next - 1 \subseteq DOMAIN results
       /\ DOMAIN results \subseteq 1 .. end - 1
       /\ running \subseteq Slots \ DOMAIN results
  /\ phase \in {"done", "cancelled"} => DOMAIN results = DOMAIN calls /\ running = {}

\* What is taken together is one effectful call, with no denial before it, or
\* read-only calls.
Homogeneous ==
  phase = "batch" =>
    \/ end = next + 1 /\ calls[next] = "effect" /\ ~stopped
    \/ \A j \in Slots : calls[j] = "read"

\* A denial among the calls that are over is remembered.
Remembered ==
  \A i \in DOMAIN results : i < next /\ results[i].says = "denied" => stopped

OwnResults == \A i \in DOMAIN results : results[i].call = i

Semaphore == IsFiniteSet(running) /\ Cardinality(running) <= MaxParallel

BatchInv ==
  /\ BatchTypeOK
  /\ SlotsFilled
  /\ Homogeneous
  /\ Remembered
  /\ OwnResults
  /\ Semaphore

LEMMA BatchInitially == Init => BatchInv
<1> SUFFICES ASSUME Init PROVE BatchInv
  OBVIOUS
<1> USE DEF Init, BatchInit
<1>0. <<>> \in Seq({"read", "effect"}) /\ DOMAIN calls = {} /\ DOMAIN results = {} /\ Len(calls) = 0
  OBVIOUS
<1>1. BatchTypeOK
  <2>1. dead \in BOOLEAN /\ stopped \in BOOLEAN
    OBVIOUS
  <2>2. next \in 1 .. Len(calls) + 1 /\ end \in 1 .. Len(calls) + 1
    BY <1>0
  <2>3. calls \in Seq({"read", "effect"}) /\ running \subseteq DOMAIN calls
    BY <1>0
  <2>4. DOMAIN results \subseteq DOMAIN calls /\ \A i \in DOMAIN results : results[i] \in Result
    BY <1>0
  <2> QED
    BY <2>1, <2>2, <2>3, <2>4 DEF BatchTypeOK
<1>2. SlotsFilled
  BY <1>0 DEF SlotsFilled
<1>3. Homogeneous /\ Remembered /\ OwnResults
  BY <1>0 DEF Homogeneous, Remembered, OwnResults
<1>4. Semaphore
  BY FS_EmptySet, ToolBatchAssumption DEF Semaphore
<1> QED
  BY <1>1, <1>2, <1>3, <1>4 DEF BatchInv

\* Filling the slots of some calls keeps the types of the results, and gives
\* each call its own.
LEMMA FillKeeps ==
  ASSUME BatchTypeOK, OwnResults, NEW S \in SUBSET DOMAIN calls,
         NEW says \in Outcomes \cup Placeholders, Fill(S, says)
  PROVE  /\ DOMAIN results' = DOMAIN results \cup S
         /\ \A i \in DOMAIN results' : results'[i] \in Result
         /\ \A i \in DOMAIN results' : results'[i].call = i
         /\ \A i \in S : results'[i].says = says
         /\ \A i \in DOMAIN results \ S : results'[i] = results[i]
<1>1. DOMAIN calls \subseteq Nat \ {0}
  BY DEF BatchTypeOK
<1>2. \A i \in S : [call |-> i, says |-> says] \in Result
  BY <1>1 DEF Result
<1> QED
  BY <1>1, <1>2 DEF Fill, BatchTypeOK, OwnResults

LEMMA BatchEffects ==
  ASSUME BatchInv
  PROVE  BatchComplete /\ EffectsRunAlone /\ DenialStopsEffects
<1> USE DEF BatchInv
<1>1. BatchComplete
  BY DEF BatchComplete, SlotsFilled, OwnResults
<1>2. \A i \in running : calls[i] = "effect" => phase = "batch" /\ i = next /\ end = next + 1 /\ ~stopped
  BY DEF SlotsFilled, Homogeneous, Slots, BatchTypeOK
<1>3. EffectsRunAlone
  BY <1>2 DEF EffectsRunAlone, Semaphore, SlotsFilled, Slots, BatchTypeOK
<1>4. DenialStopsEffects
  <2> SUFFICES ASSUME NEW i \in running, calls[i] = "effect", NEW j \in DOMAIN results
               PROVE  results[j].says # "denied"
    BY DEF DenialStopsEffects
  <2>1. phase = "batch" /\ i = next /\ end = next + 1 /\ ~stopped
    BY <1>2
  <2>2. j < next
    BY <2>1 DEF SlotsFilled, Slots, BatchTypeOK
  <2> QED
    BY <2>1, <2>2 DEF Remembered
<1> QED
  BY <1>1, <1>3, <1>4
------------------------------------------------------------------------------
\* The messages in memory.

\* While a round is on there is a current message.
MemOK ==
  /\ mem \in Seq(Message)
  /\ pc \in States
  /\ pc \notin {"start", "check", "create", "done"} => mem # <<>>

LEMMA CallSeqsAre == CallSeqs \subseteq Seq(Kinds) /\ <<>> \in CallSeqs
<1>1. ASSUME NEW n \in 0 .. MaxCalls, NEW s \in [1 .. n -> Kinds]
      PROVE  s \in Seq(Kinds)
  BY DEF CallSeqs
<1>2. <<>> \in [1 .. 0 -> Kinds] /\ 0 \in 0 .. MaxCalls
  BY TranscriptAssumption
<1> QED
  BY <1>1, <1>2 DEF CallSeqs

\* A sequence of calls that is short enough may be longer by one.
LEMMA OneMoreCall ==
  ASSUME NEW s \in CallSeqs, NEW k \in Kinds, Len(s) < MaxCalls
  PROVE  Append(s, k) \in CallSeqs
<1>1. s \in Seq(Kinds)
  BY CallSeqsAre
<1>2. Append(s, k) \in [1 .. Len(s) + 1 -> Kinds]
  <2>1. Append(s, k) \in Seq(Kinds) /\ Len(Append(s, k)) = Len(s) + 1
    BY <1>1
  <2>2. \A t \in Seq(Kinds) : t \in [1 .. Len(t) -> Kinds]
    OBVIOUS
  <2> QED
    BY <2>1, <2>2
<1>3. Len(s) + 1 \in 0 .. MaxCalls
  BY <1>1, TranscriptAssumption
<1> QED
  BY <1>2, <1>3 DEF CallSeqs

LEMMA CallBoundIsLess ==
  ASSUME mem \in Seq(Message), mem # <<>>
  PROVE  CallBound \in Nat /\ CallBound <= MaxCalls
<1>1. cur \in Nat \ {0}
  BY DEF cur
<1> QED
  BY <1>1, TranscriptAssumption DEF CallBound

\* The changes the agent makes to its current message.
LEMMA MessageChanges ==
  ASSUME MemOK, mem # <<>>
  PROVE  /\ Current \in Message
         /\ Canceled(Current) \in Message
         /\ Current.text < MaxText => MoreText \in Message
         /\ \A cs \in CallSeqs, f \in {"tool_use", "end_turn"} :
              [Current EXCEPT !.calls = cs, !.fin = f] \in Message
         /\ \A k \in Kinds : Len(Current.calls) < CallBound =>
              [Current EXCEPT !.calls = Append(@, k)] \in Message
<1>1. Current \in Message
  BY DEF MemOK, Current, cur
<1>2. Current.text < MaxText => MoreText \in Message
  BY <1>1, TranscriptAssumption DEF Message, MoreText
<1>3. Canceled(Current) \in Message
  BY <1>1 DEF Message, Canceled, Finishes
<1>4. ASSUME NEW cs \in CallSeqs, NEW f \in {"tool_use", "end_turn"}
      PROVE  [Current EXCEPT !.calls = cs, !.fin = f] \in Message
  BY <1>1 DEF Message, Finishes
<1>5. ASSUME NEW k \in Kinds, Len(Current.calls) < CallBound
      PROVE  [Current EXCEPT !.calls = Append(@, k)] \in Message
  <2>1. Current.calls \in CallSeqs
    BY <1>1 DEF Message
  <2>2. Len(Current.calls) \in Nat
    BY <2>1, CallSeqsAre
  <2>3. Len(Current.calls) < MaxCalls
    BY <1>5, <2>2, CallBoundIsLess, TranscriptAssumption DEF MemOK
  <2>4. Append(Current.calls, k) \in CallSeqs
    BY <2>1, <2>3, OneMoreCall
  <2> QED
    BY <1>1, <2>4 DEF Message
<1> QED
  BY <1>1, <1>2, <1>3, <1>4, <1>5

LEMMA SetKeeps ==
  ASSUME MemOK, mem # <<>>, NEW msg \in Message, Set(msg)
  PROVE  mem' \in Seq(Message) /\ Len(mem') = Len(mem) /\ mem' # <<>>
BY DEF MemOK, Set, cur

LEMMA MemInitially == Init => MemOK
BY DEF Init, MemOK, States

LEMMA MemStep == MemOK /\ [Next]_vars => MemOK'
<1> SUFFICES ASSUME MemOK, [Next]_vars PROVE MemOK'
  OBVIOUS
<1> USE DEF MemOK, States, Goto, Return, Abort
<1>1. CASE BeginTurn
  BY <1>1 DEF BeginTurn
<1>2. CASE CheckCancelled \/ BudgetStop \/ StartRound \/ CreateFails
  BY <1>2 DEF CheckCancelled, BudgetStop, StartRound, CreateFails
<1>3. CASE CreateAssistant
  <2>1. Blank \in Message
    BY CallSeqsAre, TranscriptAssumption DEF Blank, Message, Finishes
  <2> QED
    BY <1>3, <2>1 DEF CreateAssistant
<1>4. CASE ContentDelta
  <2>1. MoreText \in Message
    BY <1>4, MessageChanges DEF ContentDelta, Delivered
  <2> QED
    BY <1>4, <2>1, SetKeeps DEF ContentDelta, Delta, Delivered
<1>5. ASSUME NEW k \in Kinds, ToolUseStart(k) PROVE MemOK'
  <2>1. [Current EXCEPT !.calls = Append(@, k)] \in Message
    BY <1>5, MessageChanges DEF ToolUseStart, Delivered
  <2> QED
    BY <1>5, <2>1, SetKeeps DEF ToolUseStart, Delta, Delivered
<1>6. CASE ToolUseStop
  <2>1. MoreText \in Message
    BY <1>6, MessageChanges DEF ToolUseStop, Delivered
  <2> QED
    BY <1>6, <2>1, SetKeeps DEF ToolUseStop, Delivered
<1>7. ASSUME NEW cs \in CallSeqs, NEW f \in {"tool_use", "end_turn"}, Complete(cs, f)
      PROVE  MemOK'
  <2>1. [Current EXCEPT !.calls = cs, !.fin = f] \in Message
    BY <1>7, MessageChanges DEF Complete, Delivered
  <2> QED
    BY <1>7, <2>1, SetKeeps DEF Complete, Delivered
<1>8. CASE ScheduleDelta \/ Store \/ StoreFails \/ Reconcile \/ ReconcileFails
           \/ StreamError \/ LookAlive \/ CloseStream
  BY <1>8 DEF ScheduleDelta, Store, StoreFails, Reconcile, ReconcileFails,
              StreamError, LookAlive, CloseStream
<1>9. CASE LookDead \/ AbortRound \/ Rescue \/ ToolsCancelled
  <2>1. mem # <<>> /\ Set(Canceled(Current)) /\ pc' \in {"rescue", "done", "record"}
    BY <1>9 DEF LookDead, AbortRound, Rescue, ToolsCancelled
  <2>2. Canceled(Current) \in Message
    BY <2>1, MessageChanges
  <2> QED
    BY <2>1, <2>2, SetKeeps
<1>10. CASE Flush \/ ToolStep \/ ToolsDone \/ RecordResults \/ NextRound \/ LastRound
            \/ Respond
  BY <1>10 DEF Flush, ToolStep, ToolsDone, RecordResults, NextRound, LastRound,
               Respond, loop
<1>11. CASE RespondWithReport
  <2>1. MoreText \in Message
    BY <1>11, MessageChanges DEF RespondWithReport
  <2> QED
    BY <1>11, <2>1, SetKeeps DEF RespondWithReport
<1>12. CASE Timer \/ Cancel \/ UNCHANGED vars
  BY <1>12 DEF Timer, Cancel, vars, loop
<1> QED
  BY <1>1, <1>2, <1>3, <1>4, <1>5, <1>6, <1>7, <1>8, <1>9, <1>10, <1>11, <1>12
     DEF Next, AgentStep, StreamStep
------------------------------------------------------------------------------
\* The steps of a batch.

LEMMA StartBatchKeeps ==
  ASSUME BatchInv, NEW cs \in Seq(Kinds), StartBatch(cs), dead' \in BOOLEAN
  PROVE  BatchInv'
<1> USE DEF BatchInv, StartBatch
<1>1. BatchTypeOK'
  <2>1. DOMAIN results = {} /\ running = {} /\ next = 1 /\ end = 1
    BY DEF SlotsFilled
  <2> QED
    BY <2>1 DEF BatchTypeOK, Kinds
<1> QED
  BY <1>1 DEF SlotsFilled, Homogeneous, Remembered, OwnResults, Semaphore

LEMMA LeaveBatchKeeps ==
  ASSUME BatchInv, LeaveBatch, dead' \in BOOLEAN
  PROVE  BatchInv'
<1> USE DEF BatchInv, LeaveBatch
<1>0. running' = {} /\ DOMAIN calls' = {} /\ DOMAIN results' = {} /\ Len(calls') = 0
      /\ calls' \in Seq({"read", "effect"})
  BY DEF SlotsFilled
<1>1. BatchTypeOK'
  <2>1. stopped' \in BOOLEAN
    OBVIOUS
  <2>2. next' \in 1 .. Len(calls') + 1 /\ end' \in 1 .. Len(calls') + 1
    BY <1>0
  <2>3. \A i \in DOMAIN results' : results'[i] \in Result
    BY <1>0
  <2> QED
    BY <1>0, <2>1, <2>2, <2>3 DEF BatchTypeOK
<1>2. SlotsFilled' /\ Homogeneous' /\ Remembered' /\ OwnResults'
  BY <1>0 DEF SlotsFilled, Homogeneous, Remembered, OwnResults
<1> QED
  BY <1>1, <1>2 DEF Semaphore

LEMMA BatchStands ==
  ASSUME BatchInv, UNCHANGED batch, dead' \in BOOLEAN
  PROVE  BatchInv'
BY DEF BatchInv, batch, BatchTypeOK, SlotsFilled, Slots, Homogeneous, Remembered,
       OwnResults, Semaphore

LEMMA BatchStepKeeps ==
  ASSUME BatchInv, BatchStep
  PROVE  BatchInv'
<1> USE DEF BatchInv
<1>0. /\ Len(calls) \in Nat
      /\ DOMAIN calls = 1 .. Len(calls)
      /\ next \in 1 .. Len(calls) + 1
      /\ end \in 1 .. Len(calls) + 1
  BY DEF BatchTypeOK
<1>1. CASE CancelRest
  <2>1. next .. Len(calls) \subseteq DOMAIN calls
    BY <1>0
  <2>2. Fill(next .. Len(calls), "cancelled") /\ "cancelled" \in Outcomes \cup Placeholders
    BY <1>1 DEF CancelRest, Placeholders
  <2>3. /\ DOMAIN results' = DOMAIN results \cup next .. Len(calls)
        /\ \A i \in DOMAIN results' : results'[i] \in Result /\ results'[i].call = i
        /\ \A i \in next .. Len(calls) : results'[i].says = "cancelled"
        /\ \A i \in DOMAIN results \ (next .. Len(calls)) : results'[i] = results[i]
    BY <2>1, <2>2, FillKeeps
  <2>4. /\ phase = "loop" /\ phase' = "cancelled"
        /\ UNCHANGED <<calls, next, end, running, stopped, dead>>
    BY <1>1 DEF CancelRest, AtCall, BatchStep
  <2>5. DOMAIN results = 1 .. next - 1 /\ running = {}
    BY <2>4 DEF SlotsFilled
  <2>6. DOMAIN results' = DOMAIN calls
    BY <1>0, <2>3, <2>5
  <2>7. BatchTypeOK'
    BY <2>3, <2>4, <2>6 DEF BatchTypeOK
  <2>8. SlotsFilled' /\ Homogeneous' /\ OwnResults'
    BY <2>3, <2>4, <2>5, <2>6 DEF SlotsFilled, Homogeneous, OwnResults
  <2>9. Remembered'
    BY <1>0, <2>3, <2>4, <2>5 DEF Remembered
  <2> QED
    BY <2>4, <2>7, <2>8, <2>9 DEF Semaphore
<1>2. CASE SkipEffect
  <2>1. /\ phase = "loop" /\ next <= Len(calls) /\ next' = next + 1 /\ end' = next + 1
        /\ UNCHANGED <<phase, calls, running, stopped, dead>>
        /\ Fill({next}, "stopped")
    BY <1>2 DEF SkipEffect, AtCall, BatchStep
  <2>2. {next} \subseteq DOMAIN calls /\ "stopped" \in Outcomes \cup Placeholders
    BY <1>0, <2>1 DEF Placeholders
  <2>3. /\ DOMAIN results' = DOMAIN results \cup {next}
        /\ \A i \in DOMAIN results' : results'[i] \in Result /\ results'[i].call = i
        /\ results'[next].says = "stopped"
        /\ \A i \in DOMAIN results \ {next} : results'[i] = results[i]
    <3>1. /\ DOMAIN results' = DOMAIN results \cup {next}
          /\ \A i \in DOMAIN results' : results'[i] \in Result
          /\ \A i \in DOMAIN results' : results'[i].call = i
          /\ \A i \in {next} : results'[i].says = "stopped"
          /\ \A i \in DOMAIN results \ {next} : results'[i] = results[i]
      BY <2>1, <2>2, FillKeeps
    <3> QED
      BY <3>1
  <2>4. DOMAIN results = 1 .. next - 1 /\ running = {}
    BY <2>1 DEF SlotsFilled
  <2>5. DOMAIN results' = 1 .. next' - 1
    BY <1>0, <2>1, <2>3, <2>4
  <2>6. BatchTypeOK'
    BY <1>0, <2>1, <2>2, <2>3 DEF BatchTypeOK
  <2>7. SlotsFilled' /\ Homogeneous' /\ OwnResults'
    BY <2>1, <2>3, <2>4, <2>5 DEF SlotsFilled, Homogeneous, OwnResults
  <2>8. Remembered'
    BY <1>0, <2>1, <2>3, <2>4 DEF Remembered
  <2> QED
    BY <2>1, <2>6, <2>7, <2>8 DEF Semaphore
<1>3. CASE TakeCalls
  <2>1. /\ phase = "loop" /\ phase' = "batch" /\ end' \in RunEnds(next)
        /\ ~(stopped /\ calls[next] = "effect")
        /\ UNCHANGED <<calls, results, next, running, stopped, dead>>
    BY <1>3 DEF TakeCalls, AtCall, BatchStep
  <2>2. end' \in next + 1 .. Len(calls) + 1
    BY <2>1 DEF RunEnds
  <2>3. DOMAIN results = 1 .. next - 1 /\ running = {}
    BY <2>1 DEF SlotsFilled
  <2>4. BatchTypeOK'
    BY <1>0, <2>1, <2>2 DEF BatchTypeOK
  <2>5. SlotsFilled'
    <3>1. next' < end' /\ DOMAIN results' = 1 .. next' - 1 /\ running' = {}
      BY <1>0, <2>1, <2>2, <2>3
    <3>2. 1 .. next' - 1 \subseteq DOMAIN results' /\ DOMAIN results' \subseteq 1 .. end' - 1
      <4>1. next' \in Nat /\ end' \in Nat
        BY <1>0, <2>1, <2>2
      <4>2. \A a, b \in Nat : a < b => 1 .. a - 1 \subseteq 1 .. b - 1
        OBVIOUS
      <4>3. 1 .. next' - 1 \subseteq 1 .. end' - 1
        BY <3>1, <4>1, <4>2, Zenon
      <4> QED
        BY <3>1, <4>3, Zenon
    <3> QED
      BY <2>1, <3>1, <3>2 DEF SlotsFilled
  <2>6. Homogeneous'
    BY <1>0, <2>1, <2>2 DEF Homogeneous, RunEnds, Slots
  <2>7. Remembered' /\ OwnResults' /\ Semaphore'
    BY <2>1 DEF Remembered, OwnResults, Semaphore
  <2> QED
    BY <2>4, <2>5, <2>6, <2>7
<1>4. ASSUME NEW i \in DOMAIN calls, RunCall(i)
      PROVE  BatchInv'
  <2>1. /\ phase = "batch" /\ i \in Slots \ (running \cup DOMAIN results)
        /\ Cardinality(running) < MaxParallel /\ running' = running \cup {i}
        /\ UNCHANGED <<phase, calls, results, next, end, stopped, dead>>
    BY <1>4 DEF RunCall, BatchStep
  <2>2. BatchTypeOK'
    BY <1>4, <2>1 DEF BatchTypeOK
  <2>3. SlotsFilled'
    BY <2>1 DEF SlotsFilled, Slots
  <2>4. Homogeneous' /\ Remembered' /\ OwnResults'
    BY <2>1 DEF Homogeneous, Slots, Remembered, OwnResults
  <2>5. Semaphore'
    <3>1. IsFiniteSet(running') /\ Cardinality(running') = Cardinality(running) + 1
      BY <2>1, FS_AddElement DEF Semaphore
    <3>2. Cardinality(running) \in Nat
      BY FS_CardinalityType DEF Semaphore
    <3> QED
      BY <2>1, <3>1, <3>2, ToolBatchAssumption DEF Semaphore
  <2> QED
    BY <2>2, <2>3, <2>4, <2>5
<1>5. ASSUME NEW i \in DOMAIN calls, NEW says \in Outcomes, EndCall(i, says)
      PROVE  BatchInv'
  <2>1. /\ i \in running /\ Fill({i}, says) /\ running' = running \ {i}
        /\ UNCHANGED <<phase, calls, next, end, stopped, dead>>
    BY <1>5 DEF EndCall, BatchStep
  <2>2. phase = "batch" /\ i \in Slots \ DOMAIN results /\ ~(i < next)
    <3>1. phase = "batch"
      BY <2>1 DEF SlotsFilled, BatchTypeOK
    <3>2. i \in Slots \ DOMAIN results
      BY <2>1, <3>1 DEF SlotsFilled
    <3> QED
      BY <1>0, <3>1, <3>2 DEF Slots
  <2>3. /\ DOMAIN results' = DOMAIN results \cup {i}
        /\ \A j \in DOMAIN results' : results'[j] \in Result /\ results'[j].call = j
        /\ \A j \in DOMAIN results \ {i} : results'[j] = results[j]
    <3>1. {i} \in SUBSET DOMAIN calls /\ says \in Outcomes \cup Placeholders
      OBVIOUS
    <3>2. /\ DOMAIN results' = DOMAIN results \cup {i}
          /\ \A j \in DOMAIN results' : results'[j] \in Result
          /\ \A j \in DOMAIN results' : results'[j].call = j
          /\ \A j \in DOMAIN results \ {i} : results'[j] = results[j]
      BY <2>1, <3>1, FillKeeps
    <3> QED
      BY <3>2
  <2>4. BatchTypeOK'
    BY <2>1, <2>3 DEF BatchTypeOK
  <2>5. SlotsFilled'
    BY <1>0, <2>1, <2>2, <2>3 DEF SlotsFilled, Slots
  <2>6. Homogeneous' /\ OwnResults'
    BY <2>1, <2>3 DEF Homogeneous, Slots, OwnResults
  <2>7. Remembered'
    BY <2>1, <2>2, <2>3 DEF Remembered
  <2>8. Semaphore'
    <3>1. IsFiniteSet(running') /\ Cardinality(running') = Cardinality(running) - 1
      BY <2>1, FS_RemoveElement DEF Semaphore
    <3>2. Cardinality(running) \in Nat
      BY FS_CardinalityType DEF Semaphore
    <3> QED
      BY <3>1, <3>2, ToolBatchAssumption DEF Semaphore
  <2> QED
    BY <2>4, <2>5, <2>6, <2>7, <2>8
<1>6. CASE Join
  <2>1. /\ phase = "batch" /\ phase' = "loop" /\ Slots \subseteq DOMAIN results
        /\ stopped' = (stopped \/ \E i \in Slots : results[i].says = "denied")
        /\ next' = end
        /\ UNCHANGED <<calls, results, end, running, dead>>
    BY <1>6 DEF Join, BatchStep
  <2>2. /\ next < end
        /\ DOMAIN results = 1 .. end - 1
        /\ running = {}
    <3>1. /\ next < end
          /\ 1 .. next - 1 \subseteq DOMAIN results
          /\ DOMAIN results \subseteq 1 .. end - 1
          /\ running \subseteq Slots \ DOMAIN results
      BY <2>1 DEF SlotsFilled
    <3>2. 1 .. end - 1 \subseteq 1 .. next - 1 \cup Slots
      BY <1>0 DEF Slots
    <3> QED
      BY <2>1, <3>1, <3>2
  <2>3. BatchTypeOK'
    BY <1>0, <2>1 DEF BatchTypeOK
  <2>4. SlotsFilled' /\ Homogeneous' /\ OwnResults' /\ Semaphore'
    BY <2>1, <2>2 DEF SlotsFilled, Homogeneous, OwnResults, Semaphore
  <2>5. Remembered'
    <3> SUFFICES ASSUME NEW i \in DOMAIN results, i < end, results[i].says = "denied"
                 PROVE  stopped'
      BY <2>1 DEF Remembered
    <3>1. CASE i < next
      BY <2>1, <3>1 DEF Remembered
    <3>2. CASE ~(i < next)
      <4>1. i \in Slots
        BY <1>0, <2>2, <3>2 DEF Slots
      <4> QED
        BY <2>1, <4>1
    <3> QED
      BY <3>1, <3>2
  <2> QED
    BY <2>3, <2>4, <2>5
<1>7. CASE EndBatch
  <2>1. /\ phase = "loop" /\ next > Len(calls) /\ phase' = "done"
        /\ UNCHANGED <<calls, results, next, end, running, stopped, dead>>
    BY <1>7 DEF EndBatch, BatchStep
  <2>2. DOMAIN results = DOMAIN calls /\ running = {}
    BY <1>0, <2>1 DEF SlotsFilled
  <2>3. SlotsFilled' /\ Homogeneous' /\ Remembered' /\ OwnResults'
    BY <2>1, <2>2 DEF SlotsFilled, Homogeneous, Remembered, OwnResults
  <2>4. BatchTypeOK' /\ Semaphore'
    BY <2>1 DEF BatchTypeOK, Semaphore
  <2> QED
    BY <2>3, <2>4
<1> QED
  BY <1>1, <1>2, <1>3, <1>4, <1>5, <1>6, <1>7 DEF BatchStep

LEMMA BatchKept == MemOK /\ BatchInv /\ [Next]_vars => BatchInv'
<1> SUFFICES ASSUME MemOK, BatchInv, [Next]_vars PROVE BatchInv'
  OBVIOUS
<1>1. dead \in BOOLEAN
  BY DEF BatchInv, BatchTypeOK
<1>2. CASE Flush
  <2>1. Current.calls \in Seq(Kinds)
    BY <1>2, MessageChanges, CallSeqsAre DEF Flush, Goto, MemOK, Message
  <2> QED
    BY <1>1, <1>2, <2>1, StartBatchKeeps DEF Flush
<1>3. CASE ToolStep
  BY <1>3, BatchStepKeeps DEF ToolStep
<1>4. CASE ToolsDone \/ ToolsCancelled
  BY <1>1, <1>4, LeaveBatchKeeps DEF ToolsDone, ToolsCancelled
<1>5. CASE UNCHANGED batch /\ dead' \in BOOLEAN
  BY <1>5, BatchStands
<1>6. CASE \/ BeginTurn \/ CheckCancelled \/ BudgetStop \/ StartRound
           \/ CreateAssistant \/ CreateFails \/ StreamStep
           \/ RecordResults \/ NextRound \/ LastRound \/ Respond \/ RespondWithReport
  <2>1. UNCHANGED <<dead, batch>>
    BY <1>6
       DEF BeginTurn, CheckCancelled, BudgetStop, StartRound, CreateAssistant, CreateFails,
           StreamStep, ContentDelta, ToolUseStart, Delta, ScheduleDelta, ToolUseStop, Complete,
           Store, StoreFails, Reconcile, ReconcileFails, StreamError, LookAlive, LookDead,
           AbortRound, Rescue, CloseStream, RecordResults, NextRound, LastRound, Respond,
           RespondWithReport
  <2> QED
    BY <1>1, <1>5, <2>1
<1>7. CASE Timer \/ Cancel \/ UNCHANGED vars
  BY <1>1, <1>5, <1>7 DEF Timer, Cancel, vars
<1> QED
  BY <1>2, <1>3, <1>4, <1>6, <1>7 DEF Next, AgentStep

\* Spec => []BatchInv: the batch invariant, with the messages it takes calls from.
THEOREM BatchesHold == Spec => [](MemOK /\ BatchInv)
<1>1. Init => MemOK /\ BatchInv
  BY MemInitially, BatchInitially
<1>2. (MemOK /\ BatchInv) /\ [Next]_vars => (MemOK /\ BatchInv)'
  BY MemStep, BatchKept
<1> QED
  BY <1>1, <1>2, PTL DEF Spec

\* In every behaviour of the turn an effectful call runs alone, and read-only
\* ones at most MaxParallel at a time (toolbatch.go 13-18, 95-98, 142-143).
THEOREM EffectsAreAlone == Spec => []EffectsRunAlone
<1>1. BatchInv => EffectsRunAlone
  BY BatchEffects
<1> QED
  BY <1>1, BatchesHold, PTL

\* In every behaviour of the turn no effectful call runs once a call of the same
\* response was denied (toolbatch.go 146-150).
THEOREM DenialsAreFinal == Spec => []DenialStopsEffects
<1>1. BatchInv => DenialStopsEffects
  BY BatchEffects
<1> QED
  BY <1>1, BatchesHold, PTL

\* In every behaviour of the turn a batch that is over, to its end or cancelled,
\* has one result per call, each call's own (toolbatch.go 92-93, 140, 152-161).
THEOREM BatchesAreComplete == Spec => []BatchComplete
<1>1. BatchInv => BatchComplete
  BY BatchEffects
<1> QED
  BY <1>1, BatchesHold, PTL
------------------------------------------------------------------------------
\* The transcript.

\* A write that waits for message m: it carries no finish marker and there is
\* none to undo, and its text is between the disk's and the agent's.
Waits(m, msg) ==
  /\ msg.fin = "none" /\ rows[m].fin = "none" /\ seen[m].fin = "none"
  /\ rows[m].text <= msg.text /\ msg.text <= mem[m].text

\* Disk and screen are never ahead of the agent, and a message waits to be
\* written in one place.
Behind ==
  \A m \in DOMAIN rows :
    /\ rows[m].text <= mem[m].text
    /\ mem[m].fin = "none" => rows[m].fin = "none" /\ seen[m].fin = "none"
    /\ m \in DOMAIN pending => Waits(m, pending[m])
    /\ \A w \in writing : w[1] = m => m \notin DOMAIN pending /\ Waits(m, w[2])

\* The current message has no finish marker before EventComplete, and nothing
\* is scheduled after it.
Open ==
  /\ ~completed /\ pc \in {"stream", "schedule", "store", "reconcile", "look"} =>
       Current.fin = "none"
  /\ pc = "schedule" => ~completed

\* The types, with a message in memory for each row.
DiskOK ==
  /\ TranscriptTypeOK
  /\ mem \in Seq(Message) /\ Len(mem) = Len(rows)
  /\ Behind

\* The step NeverReverts allows.
Forward ==
  \A m \in DOMAIN rows :
    /\ rows[m].text <= rows'[m].text
    /\ rows[m].fin # "none" => rows'[m].fin # "none"
    /\ seen[m].fin # "none" => seen'[m].fin # "none"

\* Messages in memory are changed by adding to them.
Grows ==
  /\ mem' \in Seq(Message) /\ Len(mem') = Len(mem)
  /\ \A m \in DOMAIN mem :
       /\ mem[m].text <= mem'[m].text
       /\ mem'[m].fin = "none" => mem[m].fin = "none"

\* msg is the current message with something added.
Added(msg) ==
  /\ msg \in Message
  /\ Current.text <= msg.text
  /\ msg.fin = "none" => Current.fin = "none"

LEMMA Domains ==
  ASSUME DiskOK
  PROVE  /\ DOMAIN mem = DOMAIN rows /\ DOMAIN seen = DOMAIN rows
         /\ DOMAIN rows = 1 .. Len(rows) /\ Len(rows) \in Nat
         /\ \A m \in DOMAIN rows :
              rows[m] \in Message /\ seen[m] \in Message /\ mem[m] \in Message
BY DEF DiskOK, TranscriptTypeOK

LEMMA Texts == \A msg \in Message : msg.text \in Int
BY TranscriptAssumption DEF Message

LEMMA SetGrows ==
  ASSUME DiskOK, mem # <<>>, NEW msg, Added(msg), Set(msg)
  PROVE  Grows /\ cur \in DOMAIN mem /\ mem'[cur] = msg
                /\ \A m \in DOMAIN mem \ {cur} : mem'[m] = mem[m]
<1>1. cur \in DOMAIN mem
  BY DEF cur, DiskOK
<1>2. mem' \in Seq(Message) /\ Len(mem') = Len(mem) /\ mem'[cur] = msg
      /\ \A m \in DOMAIN mem \ {cur} : mem'[m] = mem[m]
  BY <1>1 DEF Set, Added, DiskOK
<1>3. ASSUME NEW m \in DOMAIN mem
      PROVE  mem[m].text <= mem'[m].text /\ (mem'[m].fin = "none" => mem[m].fin = "none")
  <2>1. CASE m = cur
    BY <1>2, <2>1 DEF Added, Current
  <2>2. CASE m # cur
    <3>1. mem'[m] = mem[m] /\ mem[m].text \in Int
      BY <1>2, <2>2, Domains, Texts
    <3> QED
      BY <3>1
  <2> QED
    BY <2>1, <2>2
<1> QED
  BY <1>1, <1>2, <1>3 DEF Grows

LEMMA StandGrows ==
  ASSUME DiskOK, UNCHANGED mem
  PROVE  Grows
BY Domains, Texts DEF Grows, DiskOK

\* Rows and screen stand, and no write is added to those that wait.
LEMMA DiskStands ==
  ASSUME DiskOK, Grows, UNCHANGED <<rows, seen, writing>>, faults' \in 0 .. MaxFaults,
         DOMAIN pending' \subseteq DOMAIN pending,
         \A m \in DOMAIN pending' : pending'[m] = pending[m]
  PROVE  DiskOK' /\ Forward
<1>1. Forward
  BY Domains, Texts DEF Forward
<1>2. TranscriptTypeOK'
  BY DEF DiskOK, TranscriptTypeOK
<1>3. Behind'
  <2> SUFFICES ASSUME NEW m \in DOMAIN rows
               PROVE  /\ rows[m].text <= mem'[m].text
                      /\ mem'[m].fin = "none" => rows[m].fin = "none" /\ seen[m].fin = "none"
                      /\ (m \in DOMAIN pending => Waits(m, pending[m]))'
                      /\ (\A w \in writing : w[1] = m => m \notin DOMAIN pending /\ Waits(m, w[2]))'
    BY DEF Behind
  <2>1. /\ mem[m].text <= mem'[m].text
        /\ mem'[m].fin = "none" => mem[m].fin = "none"
        /\ mem'[m] \in Message
    BY Domains DEF Grows
  <2>2. rows[m].text \in Int /\ mem[m].text \in Int /\ mem'[m].text \in Int
    BY <2>1, Domains, Texts
  <2>3. ASSUME NEW msg \in Message, Waits(m, msg)
        PROVE  Waits(m, msg)'
    BY <2>1, <2>2, <2>3, Texts DEF Waits
  <2>4. /\ rows[m].text <= mem[m].text
        /\ mem[m].fin = "none" => rows[m].fin = "none" /\ seen[m].fin = "none"
    BY DEF DiskOK, Behind
  <2>5. (m \in DOMAIN pending => Waits(m, pending[m]))'
    BY <2>3 DEF DiskOK, Behind, TranscriptTypeOK
  <2>6. (\A w \in writing : w[1] = m => m \notin DOMAIN pending /\ Waits(m, w[2]))'
    BY <2>3 DEF DiskOK, Behind, TranscriptTypeOK
  <2> QED
    BY <2>1, <2>2, <2>4, <2>5, <2>6
<1> QED
  BY <1>1, <1>2, <1>3 DEF DiskOK, Grows

LEMMA DiscardIs ==
  ASSUME NEW id, Discard(id)
  PROVE  /\ DOMAIN pending' = DOMAIN pending \ {id}
         /\ \A m \in DOMAIN pending' : pending'[m] = pending[m]
BY DEF Discard, Restrict

LEMMA FaultIs ==
  ASSUME DiskOK, Fault \/ UNCHANGED faults
  PROVE  faults' \in 0 .. MaxFaults
BY TranscriptAssumption DEF DiskOK, TranscriptTypeOK, Fault

LEMMA UpdateFailsKeeps ==
  ASSUME DiskOK, Grows, NEW ctx, UpdateFails(cur, ctx)
  PROVE  DiskOK' /\ Forward
<1>1. faults' \in 0 .. MaxFaults
  BY FaultIs DEF UpdateFails
<1>2. DOMAIN pending' \subseteq DOMAIN pending /\ \A m \in DOMAIN pending' : pending'[m] = pending[m]
  BY DiscardIs DEF UpdateFails
<1> QED
  BY <1>1, <1>2, DiskStands DEF UpdateFails

LEMMA Unwritten ==
  ASSUME DiskOK, Grows, UNCHANGED <<rows, seen, pending, writing>>, Fault \/ UNCHANGED faults
  PROVE  DiskOK' /\ Forward
BY FaultIs, DiskStands

\* A direct write, with the message in memory set to what is written: what
\* waited for it is discarded, and rows, screen and memory agree on it.
LEMMA UpdateKeeps ==
  ASSUME DiskOK, mem # <<>>, NEW msg, Added(msg), Set(msg), Update(cur, msg)
  PROVE  DiskOK' /\ Forward
<1>1. Grows /\ cur \in DOMAIN mem /\ mem'[cur] = msg
            /\ \A m \in DOMAIN mem \ {cur} : mem'[m] = mem[m]
  BY SetGrows
<1>2. cur \in DOMAIN rows /\ cur \in DOMAIN seen /\ msg \in Message
  BY <1>1, Domains DEF Added
<1>3. /\ rows' = [rows EXCEPT ![cur] = msg] /\ seen' = [seen EXCEPT ![cur] = msg]
      /\ UNCHANGED <<writing, faults>> /\ writing = {}
      /\ DOMAIN pending' = DOMAIN pending \ {cur}
      /\ \A m \in DOMAIN pending' : pending'[m] = pending[m]
  BY DiscardIs DEF Update, MuFree
<1>4. /\ rows' \in Seq(Message) /\ seen' \in Seq(Message)
      /\ Len(rows') = Len(rows) /\ Len(seen') = Len(seen)
      /\ DOMAIN rows' = DOMAIN rows
      /\ rows'[cur] = msg /\ seen'[cur] = msg
      /\ \A m \in DOMAIN rows \ {cur} : rows'[m] = rows[m] /\ seen'[m] = seen[m]
  BY <1>2, <1>3, Domains DEF DiskOK, TranscriptTypeOK
<1>5. TranscriptTypeOK'
  BY <1>3, <1>4 DEF DiskOK, TranscriptTypeOK
<1>6. Current.text <= msg.text /\ (msg.fin = "none" => Current.fin = "none")
      /\ Current = mem[cur] /\ msg.text \in Int /\ rows[cur].text \in Int /\ mem[cur].text \in Int
  BY <1>2, Domains, Texts DEF Added, Current
<1>7. Forward
  <2> SUFFICES ASSUME NEW m \in DOMAIN rows
               PROVE  /\ rows[m].text <= rows'[m].text
                      /\ rows[m].fin # "none" => rows'[m].fin # "none"
                      /\ seen[m].fin # "none" => seen'[m].fin # "none"
    BY DEF Forward
  <2>1. CASE m = cur
    <3>1. rows[cur].text <= mem[cur].text
          /\ (mem[cur].fin = "none" => rows[cur].fin = "none" /\ seen[cur].fin = "none")
      BY <1>2 DEF DiskOK, Behind
    <3> QED
      BY <1>4, <1>6, <2>1, <3>1
  <2>2. CASE m # cur
    BY <1>4, <2>2, Domains, Texts
  <2> QED
    BY <2>1, <2>2
<1>8. Behind'
  <2> SUFFICES ASSUME NEW m \in DOMAIN rows
               PROVE  /\ rows'[m].text <= mem'[m].text
                      /\ mem'[m].fin = "none" => rows'[m].fin = "none" /\ seen'[m].fin = "none"
                      /\ (m \in DOMAIN pending => Waits(m, pending[m]))'
    BY <1>3, <1>4 DEF Behind
  <2>1. CASE m = cur
    BY <1>1, <1>3, <1>4, <1>6, <2>1
  <2>2. CASE m # cur
    <3>1. rows'[m] = rows[m] /\ seen'[m] = seen[m] /\ mem'[m] = mem[m]
      BY <1>1, <1>4, <2>2, Domains
    <3> QED
      BY <1>3, <3>1 DEF DiskOK, Behind, Waits
  <2> QED
    BY <2>1, <2>2
<1> QED
  BY <1>1, <1>4, <1>5, <1>7, <1>8 DEF DiskOK, Grows

LEMMA CurrentIsAdded ==
  ASSUME DiskOK, mem # <<>>
  PROVE  Added(Current) /\ Added(Canceled(Current)) /\ Set(Current) = (mem' = mem)
<1>1. cur \in DOMAIN mem /\ Current \in Message
  BY DEF DiskOK, cur, Current
<1>2. Added(Current)
  BY <1>1, Texts DEF Added
<1>3. Canceled(Current) \in Message /\ Canceled(Current).text = Current.text
      /\ Canceled(Current).fin = "canceled"
  BY <1>1 DEF Canceled, Message, Finishes
<1>4. Added(Canceled(Current))
  BY <1>1, <1>3, Texts DEF Added
<1>5. [mem EXCEPT ![cur] = Current] = mem
  BY <1>1 DEF DiskOK, Current
<1> QED
  BY <1>2, <1>4, <1>5 DEF Set

LEMMA MoreTextIsAdded ==
  ASSUME DiskOK, mem # <<>>, Current.text < MaxText
  PROVE  Added(MoreText) /\ MoreText.fin = Current.fin
<1>1. cur \in DOMAIN mem /\ Current \in Message
  BY DEF DiskOK, cur, Current
<1>2. MoreText \in Message /\ MoreText.text = Current.text + 1 /\ MoreText.fin = Current.fin
  BY <1>1, TranscriptAssumption DEF MoreText, Message
<1> QED
  BY <1>1, <1>2, Texts DEF Added

\* UpdateLogged of what the message is set to.
LEMMA UpdateLoggedKeeps ==
  ASSUME DiskOK, mem # <<>>, NEW msg, Added(msg), Set(msg), NEW ctx, UpdateLogged(msg, ctx)
  PROVE  DiskOK' /\ Forward
BY UpdateKeeps, UpdateFailsKeeps, SetGrows DEF UpdateLogged

\* A delta: the screen is given the message, which is still open.
LEMMA DeltaKeeps ==
  ASSUME DiskOK, mem # <<>>, Current.fin = "none",
         NEW msg, Added(msg), msg.fin = "none", Set(msg), PublishStreamed(cur, msg)
  PROVE  DiskOK' /\ Forward
<1>1. Grows /\ cur \in DOMAIN mem /\ mem'[cur] = msg
            /\ \A m \in DOMAIN mem \ {cur} : mem'[m] = mem[m]
  BY SetGrows
<1>2. cur \in DOMAIN rows /\ cur \in DOMAIN seen /\ msg \in Message
  BY <1>1, Domains DEF Added
<1>3. /\ seen' = [seen EXCEPT ![cur] = msg] /\ UNCHANGED <<rows, pending, writing, faults>>
      /\ seen' \in Seq(Message) /\ Len(seen') = Len(seen)
      /\ seen'[cur] = msg
      /\ \A m \in DOMAIN rows \ {cur} : seen'[m] = seen[m]
  BY <1>2, Domains DEF PublishStreamed, DiskOK, TranscriptTypeOK
<1>4. TranscriptTypeOK'
  BY <1>3 DEF DiskOK, TranscriptTypeOK
<1>5. rows[cur].fin = "none" /\ seen[cur].fin = "none"
  BY <1>2 DEF DiskOK, Behind, Current
<1>6. Forward
  BY <1>3, <1>5, Domains, Texts DEF Forward
<1>7. \A m \in DOMAIN rows : seen[m].fin = "none" => seen'[m].fin = "none"
  BY <1>3
<1>8. Behind'
  <2> SUFFICES ASSUME NEW m \in DOMAIN rows
               PROVE  /\ rows[m].text <= mem'[m].text
                      /\ mem'[m].fin = "none" => rows[m].fin = "none" /\ seen'[m].fin = "none"
                      /\ (m \in DOMAIN pending => Waits(m, pending[m]))'
                      /\ (\A w \in writing : w[1] = m => m \notin DOMAIN pending /\ Waits(m, w[2]))'
    BY <1>3 DEF Behind
  <2>1. /\ mem[m].text <= mem'[m].text
        /\ mem'[m].fin = "none" => mem[m].fin = "none"
        /\ mem'[m] \in Message
    BY <1>1, Domains DEF Grows
  <2>2. rows[m].text \in Int /\ mem[m].text \in Int /\ mem'[m].text \in Int
    BY <2>1, Domains, Texts
  <2>3. ASSUME NEW w \in Message, Waits(m, w)
        PROVE  Waits(m, w)'
    BY <1>3, <1>7, <2>1, <2>2, <2>3, Texts DEF Waits
  <2>4. /\ rows[m].text <= mem[m].text
        /\ mem[m].fin = "none" => rows[m].fin = "none" /\ seen[m].fin = "none"
    BY DEF DiskOK, Behind
  <2>5. (m \in DOMAIN pending => Waits(m, pending[m]))'
    BY <1>3, <2>3 DEF DiskOK, Behind, TranscriptTypeOK
  <2>6. (\A w \in writing : w[1] = m => m \notin DOMAIN pending /\ Waits(m, w[2]))'
    BY <1>3, <2>3 DEF DiskOK, Behind, TranscriptTypeOK
  <2> QED
    BY <1>7, <2>1, <2>2, <2>4, <2>5, <2>6
<1> QED
  BY <1>1, <1>3, <1>4, <1>6, <1>8 DEF DiskOK, Grows

LEMMA ScheduleKeeps ==
  ASSUME DiskOK, mem # <<>>, Current.fin = "none", Schedule(cur, Current), UNCHANGED mem
  PROVE  DiskOK' /\ Forward
<1>1. cur \in DOMAIN mem /\ Current \in Message /\ cur \in DOMAIN rows
  BY Domains DEF DiskOK, cur, Current
<1>2. /\ DOMAIN pending' = DOMAIN pending \cup {cur}
      /\ pending'[cur] = Current
      /\ \A m \in DOMAIN pending \ {cur} : pending'[m] = pending[m]
  BY DEF Schedule
<1>3. UNCHANGED <<rows, seen, writing, faults>> /\ writing = {}
  BY DEF Schedule, MuFree
<1>4. TranscriptTypeOK'
  BY <1>1, <1>2, <1>3 DEF DiskOK, TranscriptTypeOK
<1>5. Waits(cur, Current)
  BY <1>1, Domains, Texts DEF DiskOK, Behind, Waits, Current
<1>6. \A m \in DOMAIN pending' : Waits(m, pending[m])'
  BY <1>2, <1>3, <1>4, <1>5 DEF DiskOK, Behind, Waits, TranscriptTypeOK
<1>7. Behind'
  BY <1>3, <1>6 DEF DiskOK, Behind
<1>8. Forward
  BY <1>3, Domains, Texts DEF Forward
<1> QED
  BY <1>3, <1>4, <1>7, <1>8 DEF DiskOK

\* A pending write lands, and the entry is gone.  FlushStreamed writes what the
\* entry holds; the timer, what the agent has since added to it.
LEMMA LandingKeeps ==
  ASSUME DiskOK, UNCHANGED mem, NEW id \in DOMAIN rows, NEW msg \in Message, Waits(id, msg),
         Persist(id, msg),
         DOMAIN pending' = DOMAIN pending \ {id},
         \A m \in DOMAIN pending' : pending'[m] = pending[m],
         writing' = {}
  PROVE  DiskOK' /\ Forward
<1>1. CASE Fault /\ UNCHANGED <<rows, seen>>
  <2>1. faults' \in 0 .. MaxFaults
    BY <1>1, FaultIs
  <2>2. Forward
    BY <1>1, Domains, Texts DEF Forward
  <2>3. TranscriptTypeOK'
    BY <1>1, <2>1 DEF DiskOK, TranscriptTypeOK
  <2>4. Behind'
    BY <1>1 DEF DiskOK, Behind, Waits
  <2> QED
    BY <1>1, <2>2, <2>3, <2>4 DEF DiskOK
<1>2. CASE /\ rows' = [rows EXCEPT ![id] = msg] /\ seen' = [seen EXCEPT ![id] = msg]
           /\ UNCHANGED faults
  <2>1. /\ rows' \in Seq(Message) /\ seen' \in Seq(Message)
        /\ Len(rows') = Len(rows) /\ Len(seen') = Len(seen)
        /\ DOMAIN rows' = DOMAIN rows
        /\ rows'[id] = msg /\ seen'[id] = msg
        /\ \A m \in DOMAIN rows \ {id} : rows'[m] = rows[m] /\ seen'[m] = seen[m]
    BY <1>2, Domains DEF DiskOK, TranscriptTypeOK
  <2>2. TranscriptTypeOK'
    BY <1>2, <2>1 DEF DiskOK, TranscriptTypeOK
  <2>3. Forward
    <3> SUFFICES ASSUME NEW m \in DOMAIN rows
                 PROVE  /\ rows[m].text <= rows'[m].text
                        /\ rows[m].fin # "none" => rows'[m].fin # "none"
                        /\ seen[m].fin # "none" => seen'[m].fin # "none"
      BY DEF Forward
    <3>1. CASE m = id
      BY <2>1, <3>1 DEF Waits
    <3>2. CASE m # id
      BY <2>1, <3>2, Domains, Texts
    <3> QED
      BY <3>1, <3>2
  <2>4. Behind'
    <3> SUFFICES ASSUME NEW m \in DOMAIN rows
                 PROVE  /\ rows'[m].text <= mem[m].text
                        /\ mem[m].fin = "none" => rows'[m].fin = "none" /\ seen'[m].fin = "none"
                        /\ (m \in DOMAIN pending => Waits(m, pending[m]))'
      BY <2>1 DEF Behind
    <3>1. CASE m = id
      BY <2>1, <3>1 DEF Waits
    <3>2. CASE m # id
      <4>1. rows'[m] = rows[m] /\ seen'[m] = seen[m]
        BY <2>1, <3>2
      <4> QED
        BY <4>1 DEF DiskOK, Behind, Waits
    <3> QED
      BY <3>1, <3>2
  <2> QED
    BY <2>1, <2>2, <2>3, <2>4 DEF DiskOK
<1> QED
  BY <1>1, <1>2 DEF Persist

LEMMA FlushStreamedKeeps ==
  ASSUME DiskOK, UNCHANGED mem, FlushStreamed(cur)
  PROVE  DiskOK' /\ Forward
<1>1. /\ writing = {} /\ writing' = {}
      /\ DOMAIN pending' = DOMAIN pending \ {cur}
      /\ \A m \in DOMAIN pending' : pending'[m] = pending[m]
  BY DiscardIs DEF FlushStreamed, MuFree
<1>2. CASE cur \in DOMAIN pending
  <2>1. cur \in DOMAIN rows /\ pending[cur] \in Message /\ Waits(cur, pending[cur])
    BY <1>2 DEF DiskOK, TranscriptTypeOK, Behind
  <2>2. Persist(cur, pending[cur])
    BY <1>2 DEF FlushStreamed
  <2> QED
    BY <1>1, <2>1, <2>2, LandingKeeps
<1>3. CASE cur \notin DOMAIN pending
  <2>1. UNCHANGED <<rows, seen, faults, writing>> /\ faults' \in 0 .. MaxFaults
    BY <1>1, <1>3 DEF FlushStreamed, DiskOK, TranscriptTypeOK
  <2> QED
    BY <1>1, <2>1, StandGrows, DiskStands
<1> QED
  BY <1>2, <1>3

LEMMA TimerKeeps ==
  ASSUME DiskOK, UNCHANGED mem, TimerStep(mem)
  PROVE  DiskOK' /\ Forward
<1>1. ASSUME NEW id \in DOMAIN pending, FlushTake(id)
      PROVE  DiskOK' /\ Forward
  <2>1. /\ writing' = {<<id, pending[id]>>}
        /\ UNCHANGED <<rows, seen, faults>>
        /\ DOMAIN pending' = DOMAIN pending \ {id}
        /\ \A m \in DOMAIN pending' : pending'[m] = pending[m]
    BY <1>1, DiscardIs DEF FlushTake
  <2>2. id \in DOMAIN rows /\ pending[id] \in Message /\ Waits(id, pending[id])
    BY DEF DiskOK, TranscriptTypeOK, Behind
  <2>3. TranscriptTypeOK'
    BY <2>1, <2>2 DEF DiskOK, TranscriptTypeOK
  <2>4. Forward
    BY <2>1, Domains, Texts DEF Forward
  <2>5. Behind'
    BY <2>1, <2>2 DEF DiskOK, Behind, Waits
  <2> QED
    BY <2>1, <2>3, <2>4, <2>5 DEF DiskOK
<1>2. ASSUME NEW w \in writing, NEW msg \in Racing(w[2], mem[w[1]]),
             Persist(w[1], msg), writing' = {}, UNCHANGED pending
      PROVE  DiskOK' /\ Forward
  <2>1. w[1] \in DOMAIN rows /\ w[2] \in Message /\ Waits(w[1], w[2])
        /\ w[1] \notin DOMAIN pending /\ mem[w[1]] \in Message
    BY Domains DEF DiskOK, TranscriptTypeOK, Behind
  <2>2. PICK n \in w[2].text .. mem[w[1]].text : msg = [w[2] EXCEPT !.text = n]
    BY DEF Racing
  <2>3. n \in 0 .. MaxText /\ w[2].text <= n /\ n <= mem[w[1]].text
    BY <2>1, <2>2, TranscriptAssumption DEF Message
  <2>4. msg \in Message /\ msg.fin = w[2].fin /\ msg.text = n
    BY <2>1, <2>2, <2>3 DEF Message
  <2>5. Waits(w[1], msg)
    BY <2>1, <2>3, <2>4, Domains, Texts DEF Waits
  <2>6. DOMAIN pending' = DOMAIN pending \ {w[1]} /\ \A m \in DOMAIN pending' : pending'[m] = pending[m]
    BY <1>2, <2>1
  <2> QED
    BY <1>2, <2>1, <2>4, <2>5, <2>6, LandingKeeps
<1> QED
  BY <1>1, <1>2 DEF TimerStep, FlushWrite

LEMMA CreateKeeps ==
  ASSUME DiskOK, CreateMessage, mem' = Append(mem, Blank)
  PROVE  DiskOK' /\ Forward
<1>1. Blank \in Message /\ Blank.text = 0 /\ Blank.fin = "none"
  BY CallSeqsAre, TranscriptAssumption DEF Blank, Message, Finishes
<1>2. /\ rows' = Append(rows, Blank) /\ seen' = Append(seen, Blank)
      /\ UNCHANGED <<pending, writing, faults>>
  BY DEF CreateMessage
<1>3. /\ rows' \in Seq(Message) /\ seen' \in Seq(Message) /\ mem' \in Seq(Message)
      /\ Len(rows') = Len(rows) + 1 /\ Len(seen') = Len(rows) + 1 /\ Len(mem') = Len(rows) + 1
  BY <1>1, <1>2 DEF DiskOK, TranscriptTypeOK
<1>4. \A m \in DOMAIN rows : rows'[m] = rows[m] /\ seen'[m] = seen[m] /\ mem'[m] = mem[m]
  BY <1>1, <1>2, Domains DEF DiskOK, TranscriptTypeOK
<1>5. DOMAIN rows' = DOMAIN rows \cup {Len(rows) + 1} /\ Len(rows) + 1 \notin DOMAIN rows
  BY <1>3, Domains
<1>6. rows'[Len(rows) + 1] = Blank /\ seen'[Len(rows) + 1] = Blank /\ mem'[Len(rows) + 1] = Blank
  BY <1>1, <1>2 DEF DiskOK, TranscriptTypeOK
<1>7. TranscriptTypeOK'
  BY <1>2, <1>3, <1>5 DEF DiskOK, TranscriptTypeOK
<1>8. Forward
  BY <1>4, Domains, Texts DEF Forward
<1>9. Behind'
  <2> SUFFICES ASSUME NEW m \in DOMAIN rows'
               PROVE  /\ rows'[m].text <= mem'[m].text
                      /\ mem'[m].fin = "none" => rows'[m].fin = "none" /\ seen'[m].fin = "none"
                      /\ (m \in DOMAIN pending => Waits(m, pending[m]))'
                      /\ (\A w \in writing : w[1] = m => m \notin DOMAIN pending /\ Waits(m, w[2]))'
    BY DEF Behind
  <2>1. CASE m \in DOMAIN rows
    <3>1. rows'[m] = rows[m] /\ seen'[m] = seen[m] /\ mem'[m] = mem[m]
      BY <1>4, <2>1
    <3> QED
      BY <1>2, <2>1, <3>1 DEF DiskOK, Behind, Waits
  <2>2. CASE m = Len(rows) + 1
    BY <1>1, <1>2, <1>5, <1>6, <2>2 DEF DiskOK, TranscriptTypeOK
  <2> QED
    BY <1>5, <2>1, <2>2
<1> QED
  BY <1>3, <1>7, <1>8, <1>9 DEF DiskOK
------------------------------------------------------------------------------
\* The steps of a turn.

Scalars ==
  /\ completed \in BOOLEAN
  /\ err \in {"none", "cancelled", "failed"}
  /\ event \in {"none", "response", "cancelled", "error"}

TurnInv == MemOK /\ BatchInv /\ DiskOK /\ Open /\ Scalars

LEMMA TurnInitially == Init => TurnInv
<1> SUFFICES ASSUME Init PROVE TurnInv
  OBVIOUS
<1>1. rows = <<>> /\ seen = <<>> /\ pending = <<>> /\ writing = {} /\ faults = 0 /\ mem = <<>>
  BY DEF Init, TranscriptInit
<1>2. DOMAIN rows = {} /\ DOMAIN pending = {} /\ Len(rows) = 0 /\ Len(seen) = 0 /\ Len(mem) = 0
      /\ rows \in Seq(Message) /\ seen \in Seq(Message) /\ mem \in Seq(Message)
  BY <1>1
<1>3. TranscriptTypeOK
  BY <1>1, <1>2, TranscriptAssumption DEF TranscriptTypeOK
<1>4. DiskOK
  BY <1>2, <1>3 DEF DiskOK, Behind
<1>5. Open /\ Scalars
  BY DEF Init, Open, Scalars
<1> QED
  BY <1>4, <1>5, MemInitially, BatchInitially DEF TurnInv

LEMMA ScalarsStep == Scalars /\ [Next]_vars => Scalars'
BY DEF Scalars, Next, vars, loop, AgentStep, StreamStep, Goto, Return, Abort,
       BeginTurn, CheckCancelled, BudgetStop, StartRound, CreateAssistant, CreateFails,
       ContentDelta, ToolUseStart, Delta, ScheduleDelta, ToolUseStop, Complete,
       Store, StoreFails, Reconcile, ReconcileFails, StreamError, LookAlive, LookDead,
       AbortRound, Rescue, CloseStream, Flush, ToolStep, ToolsDone, ToolsCancelled,
       RecordResults, NextRound, LastRound, Respond, RespondWithReport, Timer, Cancel

\* A round begins with a blank message, and only EventComplete, LookDead,
\* AbortRound, Rescue and a cancelled batch set a finish marker.
LEMMA OpenStep == MemOK /\ DiskOK /\ Open /\ [Next]_vars => Open'
<1> SUFFICES ASSUME MemOK, DiskOK, Open, [Next]_vars PROVE Open'
  OBVIOUS
<1> USE DEF Open, Goto, Return, Abort
<1>1. CASE CreateAssistant
  <2>1. Current' = Blank
    BY <1>1 DEF CreateAssistant, Current, cur, MemOK
  <2> QED
    BY <1>1, <2>1 DEF Blank, CreateAssistant
<1>2. CASE ContentDelta
  <2>1. MoreText.fin = Current.fin /\ Added(MoreText) /\ mem # <<>> /\ Set(MoreText)
    BY <1>2, MoreTextIsAdded DEF ContentDelta, Delta, Delivered, MemOK
  <2>2. Current' = MoreText
    BY <2>1, SetGrows DEF Current, Grows, cur
  <2> QED
    BY <1>2, <2>1, <2>2 DEF ContentDelta, Delta, Delivered
<1>3. ASSUME NEW k \in Kinds, ToolUseStart(k) PROVE Open'
  <2> DEFINE msg == [Current EXCEPT !.calls = Append(@, k)]
  <2>1. mem # <<>> /\ Set(msg) /\ pc = "stream" /\ ~completed
    BY <1>3 DEF ToolUseStart, Delta, Delivered, MemOK
  <2>2. msg \in Message /\ Current \in Message
    BY <1>3, <2>1, MessageChanges DEF ToolUseStart
  <2>3. msg.fin = Current.fin /\ msg.text = Current.text
    BY <2>2 DEF Message
  <2>4. Added(msg)
    BY <2>2, <2>3, Texts DEF Added
  <2> HIDE DEF msg
  <2>5. Current' = msg
    BY <2>1, <2>4, SetGrows DEF Current, Grows, cur
  <2>6. pc' = "schedule" /\ UNCHANGED completed
    BY <1>3 DEF ToolUseStart, Delta
  <2> QED
    BY <2>1, <2>3, <2>5, <2>6
<1>4. CASE ToolUseStop
  <2>1. MoreText.fin = Current.fin /\ Added(MoreText) /\ mem # <<>> /\ Set(MoreText)
    BY <1>4, MoreTextIsAdded DEF ToolUseStop, Delivered, MemOK
  <2>2. Current' = MoreText
    BY <2>1, SetGrows DEF Current, Grows, cur
  <2> QED
    BY <1>4, <2>1, <2>2 DEF ToolUseStop, Delivered
<1>5. ASSUME NEW cs \in CallSeqs, NEW f \in {"tool_use", "end_turn"}, Complete(cs, f) PROVE Open'
  BY <1>5 DEF Complete
<1>6. CASE pc' \notin {"stream", "schedule", "store", "reconcile", "look"}
  BY <1>6
<1>7. CASE /\ UNCHANGED <<mem, completed>>
           /\ pc \in {"stream", "schedule", "store", "reconcile", "look"}
           /\ pc' # "schedule"
  BY <1>7 DEF Current, cur
<1>8. CASE UNCHANGED <<mem, completed, pc>>
  BY <1>8 DEF Current, cur
<1>9. CASE ScheduleDelta \/ Store \/ Reconcile \/ LookAlive
  BY <1>7, <1>9 DEF ScheduleDelta, Store, Reconcile, LookAlive
<1> QED
  BY <1>1, <1>2, <1>3, <1>4, <1>5, <1>6, <1>8, <1>9
     DEF Next, vars, loop, AgentStep, StreamStep,
         BeginTurn, CheckCancelled, BudgetStop, StartRound, CreateFails,
         StoreFails, ReconcileFails, StreamError, LookDead,
         AbortRound, Rescue, CloseStream, Flush, ToolStep, ToolsDone, ToolsCancelled,
         RecordResults, NextRound, LastRound, Respond, RespondWithReport, Timer, Cancel

LEMMA DiskStep == MemOK /\ DiskOK /\ Open /\ [Next]_vars => DiskOK' /\ Forward
<1> SUFFICES ASSUME MemOK, DiskOK, Open, [Next]_vars PROVE DiskOK' /\ Forward
  OBVIOUS
<1> USE DEF Goto, Return, Abort
<1>1. CASE CreateAssistant
  BY <1>1, CreateKeeps DEF CreateAssistant
<1>2. CASE ContentDelta
  <2>1. Added(MoreText) /\ MoreText.fin = Current.fin /\ mem # <<>> /\ Current.fin = "none"
    BY <1>2, MoreTextIsAdded DEF ContentDelta, Delivered, MemOK, Open
  <2> QED
    BY <1>2, <2>1, DeltaKeeps DEF ContentDelta, Delta
<1>3. ASSUME NEW k \in Kinds, ToolUseStart(k) PROVE DiskOK' /\ Forward
  <2> DEFINE msg == [Current EXCEPT !.calls = Append(@, k)]
  <2>1. mem # <<>> /\ Set(msg) /\ PublishStreamed(cur, msg) /\ Current.fin = "none"
    BY <1>3 DEF ToolUseStart, Delta, Delivered, MemOK, Open
  <2>2. msg \in Message /\ Current \in Message
    BY <1>3, <2>1, MessageChanges DEF ToolUseStart
  <2>3. msg.fin = Current.fin /\ msg.text = Current.text
    BY <2>2 DEF Message
  <2>4. Added(msg)
    BY <2>2, <2>3, Texts DEF Added
  <2> HIDE DEF msg
  <2> QED
    BY <2>1, <2>3, <2>4, DeltaKeeps
<1>4. CASE ScheduleDelta
  <2>1. mem # <<>> /\ Current.fin = "none"
    BY <1>4 DEF ScheduleDelta, MemOK, Open
  <2> QED
    BY <1>4, <2>1, ScheduleKeeps DEF ScheduleDelta
<1>5. CASE ToolUseStop
  <2>1. Added(MoreText) /\ mem # <<>> /\ Set(MoreText) /\ UNCHANGED transcript
    BY <1>5, MoreTextIsAdded DEF ToolUseStop, Delivered, MemOK
  <2> QED
    BY <2>1, SetGrows, Unwritten DEF transcript
<1>6. ASSUME NEW cs \in CallSeqs, NEW f \in {"tool_use", "end_turn"}, Complete(cs, f)
      PROVE  DiskOK' /\ Forward
  <2> DEFINE msg == [Current EXCEPT !.calls = cs, !.fin = f]
  <2>1. mem # <<>> /\ Set(msg) /\ UNCHANGED transcript
    BY <1>6 DEF Complete, Delivered, MemOK
  <2>2. msg \in Message /\ Current \in Message
    BY <2>1, MessageChanges
  <2>3. msg.fin = f /\ msg.text = Current.text
    BY <2>2 DEF Message
  <2>4. Added(msg)
    BY <2>2, <2>3, Texts DEF Added
  <2> HIDE DEF msg
  <2> QED
    BY <2>1, <2>4, SetGrows, Unwritten DEF transcript
<1>7. CASE Store
  <2>1. mem # <<>> /\ Update(cur, Current) /\ UNCHANGED mem
    BY <1>7 DEF Store, MemOK
  <2> QED
    BY <2>1, CurrentIsAdded, UpdateKeeps
<1>8. CASE StoreFails
  BY <1>8, StandGrows, UpdateFailsKeeps DEF StoreFails
<1>9. CASE LookDead \/ AbortRound \/ Rescue \/ ToolsCancelled
  <2>1. /\ mem # <<>> /\ Set(Canceled(Current))
        /\ \E ctx : UpdateLogged(Canceled(Current), ctx)
    BY <1>9 DEF LookDead, AbortRound, Rescue, ToolsCancelled, MemOK
  <2> QED
    BY <2>1, CurrentIsAdded, UpdateLoggedKeeps
<1>10. CASE Flush
  BY <1>10, FlushStreamedKeeps DEF Flush
<1>11. CASE RespondWithReport
  <2>1. Added(MoreText) /\ mem # <<>>
    BY <1>11, MoreTextIsAdded DEF RespondWithReport, MemOK
  <2> QED
    BY <1>11, <2>1, UpdateLoggedKeeps DEF RespondWithReport
<1>12. CASE Timer
  BY <1>12, TimerKeeps DEF Timer, loop
<1>13. CASE /\ UNCHANGED <<rows, seen, pending, writing, mem>>
            /\ Fault \/ UNCHANGED faults
  BY <1>13, StandGrows, Unwritten
<1>14. CASE BeginTurn \/ CheckCancelled \/ BudgetStop \/ StartRound \/ CreateFails
            \/ Reconcile \/ ReconcileFails \/ StreamError \/ LookAlive \/ CloseStream
            \/ ToolStep \/ ToolsDone \/ RecordResults \/ NextRound \/ LastRound \/ Respond
            \/ Cancel \/ UNCHANGED vars
  BY <1>13, <1>14
     DEF BeginTurn, CheckCancelled, BudgetStop, StartRound, CreateFails, Reconcile,
         ReconcileFails, StreamError, LookAlive, CloseStream, ToolStep, ToolsDone,
         RecordResults, NextRound, LastRound, Respond, Cancel, vars, loop, transcript
<1> QED
  BY <1>1, <1>2, <1>3, <1>4, <1>5, <1>6, <1>7, <1>8, <1>9, <1>10, <1>11, <1>12, <1>14
     DEF Next, AgentStep, StreamStep

------------------------------------------------------------------------------
\* How a turn ends.

\* Nothing waits for message m, and disk and screen have it as the agent does.
Settled(m) ==
  /\ m \notin DOMAIN pending
  /\ \A w \in writing : w[1] # m
  /\ rows[m] = mem[m] /\ seen[m] = mem[m]

\* The agent's version of it waits for its timer, or the timer is writing it.
Waiting(m) ==
  /\ m \in DOMAIN pending /\ pending[m] = mem[m]
  /\ \A w \in writing : w[1] # m

Landing(m) ==
  /\ m \notin DOMAIN pending
  /\ \A w \in writing : w = <<m, mem[m]>>
  /\ writing # {}

\* Where the current message is settled while the turn goes on.
Quiet == {"start", "check", "create", "reconcile", "tools", "record", "decide", "validate"}

\* While no write has failed, earlier messages are settled, and the current one
\* is so too or on its way, but between a change and its write.
Tidy ==
  faults = 0 => \A m \in DOMAIN mem :
    /\ m # cur \/ pc \in Quiet => Settled(m)
    /\ pc \in {"stream", "look", "flush"} => Settled(m) \/ Waiting(m) \/ Landing(m)
    /\ pc = "done" => Settled(m) \/ (m \notin DOMAIN pending /\ ErrorOvertaken(m))

\* A message is left with its finish marker, but where the stream closed
\* without EventComplete.
Finished ==
  faults = 0 => \A m \in DOMAIN mem :
    /\ m # cur \/ completed \/ pc \in {"start", "check", "create", "rescue"} => mem[m].fin # "none"
    /\ pc = "done" => mem[m].fin # "none" \/ (~completed /\ event = "response" /\ m = cur)

\* A write that fails is counted.
LEMMA NoFault ==
  ASSUME DiskOK, faults' = 0
  PROVE  ~Fault /\ (UNCHANGED faults => faults = 0)
BY DEF DiskOK, TranscriptTypeOK, Fault

\* A count of failures that is zero was zero before.
LEMMA FaultsStay ==
  ASSUME DiskOK, [Next]_vars, faults' = 0
  PROVE  faults = 0
<1>1. Fault \/ UNCHANGED faults
  BY DEF Next, AgentStep, StreamStep, vars, transcript, BeginTurn, CheckCancelled, BudgetStop,
         StartRound, CreateAssistant, CreateMessage, CreateFails, ContentDelta, ToolUseStart,
         Delta, PublishStreamed, ScheduleDelta, Schedule, ToolUseStop, Complete, Store, Update,
         StoreFails, UpdateFails, Reconcile, ReconcileFails, StreamError, LookAlive, LookDead,
         UpdateLogged, AbortRound, Rescue, CloseStream, Flush, FlushStreamed, Persist, ToolStep,
         ToolsDone, ToolsCancelled, RecordResults, NextRound, LastRound, Respond,
         RespondWithReport, Timer, TimerStep, FlushTake, FlushWrite, Cancel
<1> QED
  BY <1>1, NoFault

\* A direct write settles its message.
LEMMA UpdateSettles ==
  ASSUME DiskOK, mem # <<>>, NEW msg \in Message, Set(msg), Update(cur, msg)
  PROVE  /\ Settled(cur)'
         /\ \A m \in DOMAIN mem \ {cur} : Settled(m) => Settled(m)'
         /\ UNCHANGED faults
<1>1. cur \in DOMAIN mem /\ cur \in DOMAIN rows /\ cur \in DOMAIN seen
      /\ Len(mem') = Len(mem) /\ cur' = cur
  BY Domains DEF cur, DiskOK, Set
<1>2. /\ mem' = [mem EXCEPT ![cur] = msg]
      /\ rows' = [rows EXCEPT ![cur] = msg] /\ seen' = [seen EXCEPT ![cur] = msg]
      /\ UNCHANGED <<writing, faults>> /\ writing = {}
      /\ DOMAIN pending' = DOMAIN pending \ {cur}
  BY DiscardIs DEF Update, MuFree, Set
<1>3. mem'[cur] = msg /\ rows'[cur] = msg /\ seen'[cur] = msg
  BY <1>1, <1>2
<1>4. Settled(cur)'
  BY <1>1, <1>2, <1>3 DEF Settled
<1>5. ASSUME NEW m \in DOMAIN mem \ {cur}, Settled(m) PROVE Settled(m)'
  <2>1. mem'[m] = mem[m] /\ rows'[m] = rows[m] /\ seen'[m] = seen[m]
    BY <1>2, <1>5, Domains
  <2> QED
    BY <1>2, <1>5, <2>1 DEF Settled
<1> QED
  BY <1>2, <1>4, <1>5

\* A direct write that fails by itself is counted; one that fails with its
\* context still leaves nothing waiting for its message.
LEMMA UpdateFailsLeaves ==
  ASSUME DiskOK, mem # <<>>, NEW msg \in Message, Set(msg), NEW ctx, UpdateFails(cur, ctx),
         faults' = 0
  PROVE  /\ ctx /\ faults = 0
         /\ cur \notin DOMAIN pending'
         /\ \A m \in DOMAIN mem \ {cur} : Settled(m) => Settled(m)'
<1>1. ctx /\ UNCHANGED faults
  BY NoFault DEF UpdateFails
<1>2. /\ mem' = [mem EXCEPT ![cur] = msg] /\ UNCHANGED <<rows, seen, writing>>
      /\ DOMAIN pending' = DOMAIN pending \ {cur}
  BY DiscardIs DEF UpdateFails, Set
<1>3. ASSUME NEW m \in DOMAIN mem \ {cur}, Settled(m) PROVE Settled(m)'
  <2>1. mem'[m] = mem[m]
    BY <1>2, <1>3
  <2> QED
    BY <1>2, <1>3, <2>1 DEF Settled
<1> QED
  BY <1>1, <1>2, <1>3

LEMMA UpdateLoggedTidies ==
  ASSUME DiskOK, mem # <<>>, NEW msg \in Message, Set(msg), NEW ctx, UpdateLogged(msg, ctx),
         faults' = 0
  PROVE  /\ faults = 0
         /\ Settled(cur)' \/ (ctx /\ cur \notin DOMAIN pending')
         /\ \A m \in DOMAIN mem \ {cur} : Settled(m) => Settled(m)'
BY UpdateSettles, UpdateFailsLeaves DEF UpdateLogged

\* The end of a stream writes what waits for its message, once the timer does
\* not.
LEMMA FlushSettles ==
  ASSUME DiskOK, mem # <<>>, UNCHANGED mem, FlushStreamed(cur), faults' = 0,
         Settled(cur) \/ Waiting(cur) \/ Landing(cur)
  PROVE  /\ faults = 0
         /\ Settled(cur)'
         /\ \A m \in DOMAIN mem \ {cur} : Settled(m) => Settled(m)'
<1>1. cur \in DOMAIN mem /\ cur \in DOMAIN rows /\ cur \in DOMAIN seen /\ cur' = cur
  BY Domains DEF cur, DiskOK
<1>2. /\ writing = {} /\ writing' = {}
      /\ DOMAIN pending' = DOMAIN pending \ {cur}
  BY DiscardIs DEF FlushStreamed, MuFree
<1>3. CASE cur \in DOMAIN pending
  <2>1. pending[cur] = mem[cur]
    BY <1>2, <1>3 DEF Settled, Waiting, Landing
  <2>2. /\ rows' = [rows EXCEPT ![cur] = mem[cur]] /\ seen' = [seen EXCEPT ![cur] = mem[cur]]
        /\ UNCHANGED faults
    BY <1>3, <2>1, NoFault DEF FlushStreamed, Persist
  <2>3. rows'[cur] = mem[cur] /\ seen'[cur] = mem[cur]
        /\ \A m \in DOMAIN mem \ {cur} : rows'[m] = rows[m] /\ seen'[m] = seen[m]
    BY <1>1, <2>2, Domains
  <2>4. Settled(cur)'
    BY <1>1, <1>2, <2>3 DEF Settled
  <2>5. \A m \in DOMAIN mem \ {cur} : Settled(m) => Settled(m)'
    BY <1>2, <2>3 DEF Settled
  <2> QED
    BY <2>2, <2>4, <2>5, NoFault
<1>4. CASE cur \notin DOMAIN pending
  <2>1. UNCHANGED <<rows, seen, faults>>
    BY <1>4 DEF FlushStreamed
  <2>2. Settled(cur)
    BY <1>2, <1>4 DEF Waiting, Landing
  <2> QED
    BY <1>1, <1>2, <2>1, <2>2, NoFault DEF Settled
<1> QED
  BY <1>3, <1>4

\* The timer moves a message that waits to the disk and touches no other.
LEMMA TimerTidies ==
  ASSUME DiskOK, UNCHANGED mem, TimerStep(mem), faults' = 0, NEW m \in DOMAIN mem
  PROVE  /\ faults = 0
         /\ Settled(m) => Settled(m)'
         /\ Waiting(m) => (Waiting(m) \/ Landing(m))'
         /\ Landing(m) => (Landing(m) \/ Settled(m))'
         /\ m \notin DOMAIN pending => m \notin DOMAIN pending'
<1>1. ASSUME NEW id \in DOMAIN pending, FlushTake(id)
      PROVE  /\ faults = 0
             /\ Settled(m) => Settled(m)'
             /\ Waiting(m) => (Waiting(m) \/ Landing(m))'
             /\ Landing(m) => (Landing(m) \/ Settled(m))'
             /\ m \notin DOMAIN pending => m \notin DOMAIN pending'
  <2>1. /\ writing' = {<<id, pending[id]>>} /\ writing = {}
        /\ UNCHANGED <<rows, seen, faults>>
        /\ DOMAIN pending' = DOMAIN pending \ {id}
        /\ \A n \in DOMAIN pending' : pending'[n] = pending[n]
    BY <1>1, DiscardIs DEF FlushTake, MuFree
  <2>2. faults = 0
    BY <2>1
  <2>3. CASE m = id
    BY <2>1, <2>2, <2>3 DEF Settled, Waiting, Landing
  <2>4. CASE m # id
    BY <2>1, <2>2, <2>4 DEF Settled, Waiting, Landing
  <2> QED
    BY <2>3, <2>4
<1>2. ASSUME NEW w \in writing, NEW msg \in Racing(w[2], mem[w[1]]),
             Persist(w[1], msg), writing' = {}, UNCHANGED pending
      PROVE  /\ faults = 0
             /\ Settled(m) => Settled(m)'
             /\ Waiting(m) => (Waiting(m) \/ Landing(m))'
             /\ Landing(m) => (Landing(m) \/ Settled(m))'
             /\ m \notin DOMAIN pending => m \notin DOMAIN pending'
  <2>1. /\ rows' = [rows EXCEPT ![w[1]] = msg] /\ seen' = [seen EXCEPT ![w[1]] = msg]
        /\ UNCHANGED faults
    BY <1>2, NoFault DEF Persist
  <2>2. m \in DOMAIN rows /\ m \in DOMAIN seen /\ mem[m] \in Message
    BY Domains
  <2>3. CASE m = w[1]
    <3>1. ~Settled(m) /\ ~Waiting(m)
      BY <2>3 DEF Settled, Waiting
    <3>2. ASSUME Landing(m) PROVE Settled(m)'
      <4>1. w[2] = mem[m]
        BY <2>3, <3>2 DEF Landing
      <4>2. msg = mem[m]
        <5>1. PICK n \in mem[m].text .. mem[m].text : msg = [mem[m] EXCEPT !.text = n]
          BY <1>2, <2>3, <4>1 DEF Racing
        <5>2. n = mem[m].text
          BY <5>1, <2>2, Texts
        <5> QED
          BY <5>1, <5>2, <2>2 DEF Message
      <4>3. rows'[m] = mem[m] /\ seen'[m] = mem[m]
        BY <2>1, <2>2, <2>3, <4>2
      <4> QED
        BY <1>2, <3>2, <4>3 DEF Landing, Settled
    <3> QED
      BY <1>2, <2>1, <3>1, <3>2
  <2>4. CASE m # w[1]
    <3>1. rows'[m] = rows[m] /\ seen'[m] = seen[m] /\ ~Landing(m)
      BY <2>1, <2>2, <2>4 DEF Landing
    <3> QED
      BY <1>2, <2>1, <3>1 DEF Settled, Waiting
  <2> QED
    BY <2>3, <2>4
<1> QED
  BY <1>1, <1>2 DEF TimerStep, FlushWrite

\* A message as it is made is settled.
LEMMA CreateSettles ==
  ASSUME DiskOK, CreateMessage, mem' = Append(mem, Blank)
  PROVE  /\ UNCHANGED faults
         /\ DOMAIN mem' = DOMAIN mem \cup {cur'}
         /\ Settled(cur)'
         /\ \A m \in DOMAIN mem : Settled(m) => Settled(m)'
<1>1. Blank \in Message
  BY CallSeqsAre, TranscriptAssumption DEF Blank, Message, Finishes
<1>2. /\ rows' = Append(rows, Blank) /\ seen' = Append(seen, Blank)
      /\ UNCHANGED <<pending, writing, faults>>
  BY DEF CreateMessage
<1>3. cur' = Len(mem) + 1 /\ Len(mem) = Len(rows) /\ Len(seen) = Len(rows)
      /\ rows \in Seq(Message) /\ seen \in Seq(Message) /\ mem \in Seq(Message)
  BY <1>1 DEF cur, DiskOK, TranscriptTypeOK
<1>4. rows'[cur'] = Blank /\ seen'[cur'] = Blank /\ mem'[cur'] = Blank
      /\ DOMAIN mem' = DOMAIN mem \cup {cur'}
  BY <1>1, <1>2, <1>3
<1>5. cur' \notin DOMAIN pending /\ \A w \in writing : w[1] # cur'
  BY <1>3 DEF DiskOK, TranscriptTypeOK
<1>6. Settled(cur)'
  BY <1>2, <1>4, <1>5 DEF Settled
<1>7. ASSUME NEW m \in DOMAIN mem, Settled(m) PROVE Settled(m)'
  <2>1. rows'[m] = rows[m] /\ seen'[m] = seen[m] /\ mem'[m] = mem[m]
    BY <1>1, <1>2, <1>3
  <2> QED
    BY <1>2, <1>7, <2>1 DEF Settled
<1> QED
  BY <1>2, <1>4, <1>6, <1>7

\* A change of the current message alone.
LEMMA SetLeaves ==
  ASSUME DiskOK, mem # <<>>, NEW msg \in Message, Set(msg)
  PROVE  /\ cur' = cur /\ cur \in DOMAIN mem /\ DOMAIN mem' = DOMAIN mem
         /\ mem'[cur] = msg
         /\ \A m \in DOMAIN mem \ {cur} : mem'[m] = mem[m]
BY DEF DiskOK, Set, cur

\* Every step leaves the messages of a turn settled, or their write on its way.
LEMMA TidyStep == MemOK /\ DiskOK /\ Tidy /\ [Next]_vars => Tidy'
<1> SUFFICES ASSUME MemOK, DiskOK, Tidy, [Next]_vars, faults' = 0 PROVE Tidy'
  BY DEF Tidy
<1> USE DEF Goto, Return, Abort
<1>1. CASE CreateAssistant
  <2>1. pc = "create" /\ pc' = "stream" /\ CreateMessage /\ mem' = Append(mem, Blank)
    BY <1>1 DEF CreateAssistant
  <2>2. \A m \in DOMAIN mem : Settled(m)
    BY <2>1, CreateSettles DEF Tidy, Quiet
  <2>3. \A m \in DOMAIN mem' : Settled(m)'
    BY <2>1, <2>2, CreateSettles
  <2> QED
    BY <2>1, <2>3 DEF Tidy
<1>2. ASSUME NEW msg \in Message, mem # <<>>, Set(msg),
             UNCHANGED <<rows, pending, writing, faults>>,
             \A m \in DOMAIN mem \ {cur} : seen'[m] = seen[m],
             pc' \in {"schedule", "store"}
      PROVE  Tidy'
  <2>1. ASSUME NEW m \in DOMAIN mem' \ {cur'} PROVE Settled(m)'
    <3>1. Settled(m)
      BY <1>2, <2>1, SetLeaves DEF Tidy
    <3> QED
      BY <1>2, <2>1, <3>1, SetLeaves DEF Settled
  <2> QED
    BY <1>2, <2>1 DEF Tidy, Quiet
<1>3. CASE ContentDelta
  <2>1. mem # <<>> /\ MoreText \in Message /\ Set(MoreText) /\ pc' = "schedule"
        /\ PublishStreamed(cur, MoreText)
    BY <1>3, MessageChanges DEF ContentDelta, Delta, Delivered, MemOK
  <2>2. \A m \in DOMAIN mem \ {cur} : seen'[m] = seen[m]
    BY <2>1, Domains DEF PublishStreamed
  <2> QED
    BY <1>2, <2>1, <2>2 DEF PublishStreamed
<1>4. ASSUME NEW k \in Kinds, ToolUseStart(k) PROVE Tidy'
  <2> DEFINE msg == [Current EXCEPT !.calls = Append(@, k)]
  <2>1. mem # <<>> /\ Set(msg) /\ pc' = "schedule" /\ PublishStreamed(cur, msg)
    BY <1>4 DEF ToolUseStart, Delta, Delivered, MemOK
  <2>2. msg \in Message
    BY <1>4, <2>1, MessageChanges DEF ToolUseStart
  <2> HIDE DEF msg
  <2>3. \A m \in DOMAIN mem \ {cur} : seen'[m] = seen[m]
    BY <2>1, Domains DEF PublishStreamed
  <2> QED
    BY <1>2, <2>1, <2>2, <2>3 DEF PublishStreamed
<1>5. CASE ToolUseStop
  <2>1. mem # <<>> /\ MoreText \in Message /\ Set(MoreText) /\ pc' = "store"
        /\ UNCHANGED transcript
    BY <1>5, MessageChanges DEF ToolUseStop, Delivered, MemOK
  <2> QED
    BY <1>2, <2>1 DEF transcript
<1>6. ASSUME NEW cs \in CallSeqs, NEW f \in {"tool_use", "end_turn"}, Complete(cs, f)
      PROVE  Tidy'
  <2> DEFINE msg == [Current EXCEPT !.calls = cs, !.fin = f]
  <2>1. mem # <<>> /\ Set(msg) /\ pc' = "store" /\ UNCHANGED transcript
    BY <1>6 DEF Complete, Delivered, MemOK
  <2>2. msg \in Message
    BY <2>1, MessageChanges
  <2> HIDE DEF msg
  <2> QED
    BY <1>2, <2>1, <2>2 DEF transcript
<1>7. CASE ScheduleDelta
  <2>1. /\ mem # <<>> /\ Schedule(cur, Current) /\ pc' = "look" /\ UNCHANGED mem
        /\ cur \in DOMAIN mem /\ cur' = cur
    BY <1>7 DEF ScheduleDelta, MemOK, DiskOK, cur
  <2>2. /\ DOMAIN pending' = DOMAIN pending \cup {cur}
        /\ pending'[cur] = mem[cur]
        /\ UNCHANGED <<rows, seen, writing, faults>> /\ writing = {}
    BY <2>1 DEF Schedule, MuFree, Current
  <2>3. Waiting(cur)'
    BY <2>1, <2>2 DEF Waiting
  <2>4. ASSUME NEW m \in DOMAIN mem \ {cur} PROVE Settled(m)'
    <3>1. Settled(m)
      BY <2>2, <2>4 DEF Tidy
    <3> QED
      BY <2>1, <2>2, <2>4, <3>1 DEF Settled
  <2> QED
    BY <2>1, <2>3, <2>4 DEF Tidy, Quiet
<1>8. CASE Store
  <2>1. /\ mem # <<>> /\ Update(cur, Current) /\ UNCHANGED mem /\ pc' \in {"reconcile", "look"}
        /\ Current \in Message /\ Set(Current)
    BY <1>8, CurrentIsAdded DEF Store, MemOK, Added
  <2>2. cur' = cur
    BY <2>1 DEF cur
  <2>3. \A m \in DOMAIN mem' : Settled(m)'
    BY <2>1, <2>2, UpdateSettles DEF Tidy
  <2> QED
    BY <2>1, <2>3 DEF Tidy
<1>9. CASE StoreFails
  <2>1. /\ mem # <<>> /\ UpdateFails(cur, dead) /\ UNCHANGED mem /\ pc' = "abort"
        /\ Current \in Message /\ Set(Current)
    BY <1>9, CurrentIsAdded DEF StoreFails, MemOK, Added
  <2>2. cur' = cur
    BY <2>1 DEF cur
  <2>3. \A m \in DOMAIN mem' \ {cur'} : Settled(m)'
    BY <2>1, <2>2, UpdateFailsLeaves DEF Tidy
  <2> QED
    BY <2>1, <2>3 DEF Tidy, Quiet
<1>10. ASSUME NEW msg \in Message, mem # <<>>, Set(msg), NEW ctx, UpdateLogged(msg, ctx), ~ctx
       PROVE  Tidy'
  <2>1. \A m \in DOMAIN mem' : Settled(m)'
    BY <1>10, SetLeaves, UpdateLoggedTidies DEF Tidy
  <2> QED
    BY <2>1 DEF Tidy
<1>11. CASE LookDead \/ Rescue \/ ToolsCancelled
  <2>1. mem # <<>> /\ Set(Canceled(Current)) /\ UpdateLogged(Canceled(Current), detached)
    BY <1>11 DEF LookDead, Rescue, ToolsCancelled, MemOK
  <2>2. Canceled(Current) \in Message
    BY <2>1, MessageChanges
  <2> QED
    BY <1>10, <2>1, <2>2 DEF detached
<1>12. CASE RespondWithReport
  <2>1. mem # <<>> /\ Set(MoreText) /\ UpdateLogged(MoreText, detached) /\ MoreText \in Message
    BY <1>12, MessageChanges DEF RespondWithReport, MemOK
  <2> QED
    BY <1>10, <2>1 DEF detached
<1>13. CASE AbortRound
  <2>1. /\ mem # <<>> /\ Set(Canceled(Current)) /\ UpdateLogged(Canceled(Current), dead)
        /\ Canceled(Current) \in Message
        /\ pc' = "rescue" \/ (pc' = "done" /\ event' = "error")
        /\ UNCHANGED dead
    BY <1>13, MessageChanges DEF AbortRound, MemOK
  <2>2. /\ cur' = cur /\ cur \in DOMAIN mem /\ DOMAIN mem' = DOMAIN mem
        /\ mem'[cur] = Canceled(Current)
    BY <2>1, SetLeaves
  <2>3. Canceled(Current).fin = "canceled"
    BY <2>1, MessageChanges DEF Canceled, Message
  <2>4. \A m \in DOMAIN mem \ {cur} : Settled(m)'
    BY <2>1, UpdateLoggedTidies DEF Tidy
  <2>5. Settled(cur)' \/ (dead /\ cur \notin DOMAIN pending')
    BY <2>1, UpdateLoggedTidies
  <2>6. pc' = "done" => Settled(cur)' \/ (cur \notin DOMAIN pending' /\ ErrorOvertaken(cur)')
    BY <2>1, <2>2, <2>3, <2>5 DEF ErrorOvertaken
  <2> QED
    BY <2>1, <2>2, <2>4, <2>6 DEF Tidy, Quiet
<1>14. CASE Flush
  <2>1. /\ mem # <<>> /\ FlushStreamed(cur) /\ UNCHANGED mem
        /\ pc = "flush" /\ pc' = "tools" /\ cur' = cur /\ cur \in DOMAIN mem
    BY <1>14 DEF Flush, MemOK, cur
  <2>2. faults = 0
    BY <2>1, NoFault DEF FlushStreamed, Persist
  <2>3. Settled(cur) \/ Waiting(cur) \/ Landing(cur)
    BY <2>1, <2>2 DEF Tidy
  <2>4. \A m \in DOMAIN mem' : Settled(m)'
    BY <2>1, <2>2, <2>3, FlushSettles DEF Tidy
  <2> QED
    BY <2>1, <2>4 DEF Tidy
<1>15. CASE Timer
  <2>1. TimerStep(mem) /\ UNCHANGED <<mem, pc, event, dead, cur>>
    BY <1>15 DEF Timer, loop, cur
  <2>2. \A m : ErrorOvertaken(m)' = ErrorOvertaken(m)
    BY <2>1 DEF ErrorOvertaken
  <2> SUFFICES ASSUME NEW m \in DOMAIN mem
               PROVE  /\ m # cur \/ pc \in Quiet => Settled(m)'
                      /\ pc \in {"stream", "look", "flush"} => (Settled(m) \/ Waiting(m) \/ Landing(m))'
                      /\ pc = "done" => Settled(m)' \/ (m \notin DOMAIN pending' /\ ErrorOvertaken(m))
    BY <2>1, <2>2 DEF Tidy
  <2>3. /\ faults = 0
        /\ Settled(m) => Settled(m)'
        /\ Waiting(m) => (Waiting(m) \/ Landing(m))'
        /\ Landing(m) => (Landing(m) \/ Settled(m))'
        /\ m \notin DOMAIN pending => m \notin DOMAIN pending'
    BY <2>1, TimerTidies
  <2> QED
    BY <2>3 DEF Tidy
<1>16. ASSUME UNCHANGED <<rows, seen, pending, writing, mem>>, Fault \/ UNCHANGED faults,
              \/ pc \in Quiet /\ pc' \in Quiet \cup {"done", "look", "abort"}
              \/ pc \in {"stream", "look"} /\ pc' \in {"stream", "flush", "abort"}
              \/ pc' = pc /\ (pc = "done" => UNCHANGED <<dead, event>>)
       PROVE  Tidy'
  <2>1. faults = 0
    BY <1>16, NoFault
  <2>2. \A m \in DOMAIN mem : /\ Settled(m)' = Settled(m)
                              /\ Waiting(m)' = Waiting(m)
                              /\ Landing(m)' = Landing(m)
    BY <1>16 DEF Settled, Waiting, Landing
  <2>3. cur' = cur
    BY <1>16 DEF cur
  <2>4. pc = "done" /\ pc' = pc => \A m : ErrorOvertaken(m)' = ErrorOvertaken(m)
    BY <1>16, <2>3 DEF ErrorOvertaken, Quiet
  <2> QED
    BY <1>16, <2>1, <2>2, <2>3, <2>4 DEF Tidy, Quiet
<1>17. CASE BeginTurn \/ CheckCancelled \/ BudgetStop \/ StartRound \/ CreateFails
            \/ Reconcile \/ ReconcileFails \/ ToolsDone \/ RecordResults \/ NextRound
            \/ LastRound \/ Respond
  BY <1>16, <1>17
     DEF BeginTurn, CheckCancelled, BudgetStop, StartRound, CreateFails, Reconcile,
         ReconcileFails, ToolsDone, RecordResults, NextRound, LastRound, Respond, transcript, Quiet
<1>18. CASE StreamError \/ LookAlive \/ CloseStream
  BY <1>16, <1>18 DEF StreamError, LookAlive, CloseStream, transcript
<1>19. CASE ToolStep \/ Cancel \/ UNCHANGED vars
  BY <1>16, <1>19 DEF ToolStep, Cancel, vars, loop, transcript
<1> QED
  BY <1>1, <1>3, <1>4, <1>5, <1>6, <1>7, <1>8, <1>9, <1>11, <1>12, <1>13, <1>14, <1>15,
     <1>17, <1>18, <1>19
     DEF Next, AgentStep, StreamStep

\* Every step leaves a finish marker on the messages the turn is done with.
LEMMA FinishedStep == MemOK /\ DiskOK /\ Finished /\ [Next]_vars => Finished'
<1> SUFFICES ASSUME MemOK, DiskOK, Finished, [Next]_vars, faults' = 0 PROVE Finished'
  BY DEF Finished
<1> faults = 0
  BY FaultsStay
<1>0. ~Fault
  BY NoFault
<1> USE DEF Goto, Return, Abort
<1>1. CASE CreateAssistant
  <2>1. pc = "create" /\ pc' = "stream" /\ ~completed' /\ mem' = Append(mem, Blank)
        /\ CreateMessage
    BY <1>1 DEF CreateAssistant
  <2>2. /\ DOMAIN mem' = DOMAIN mem \cup {cur'}
        /\ \A m \in DOMAIN mem : mem'[m] = mem[m]
    BY <2>1, CreateSettles DEF DiskOK
  <2> QED
    BY <2>1, <2>2 DEF Finished
<1>2. ASSUME NEW msg \in Message, mem # <<>>, Set(msg), msg.fin # "none" PROVE Finished'
  <2>1. \A m \in DOMAIN mem' : mem'[m].fin # "none"
    BY <1>2, SetLeaves DEF Finished
  <2> QED
    BY <2>1 DEF Finished
<1>3. ASSUME NEW msg \in Message, mem # <<>>, Set(msg),
             ~completed', pc' \in {"schedule", "store"}
      PROVE  Finished'
  BY <1>3, SetLeaves DEF Finished
<1>4. CASE ContentDelta \/ ToolUseStop
  <2>1. Set(MoreText) /\ ~completed' /\ pc' \in {"schedule", "store"}
        /\ pc = "stream" /\ Current.text < MaxText
    BY <1>4 DEF ContentDelta, ToolUseStop, Delta, Delivered
  <2>2. mem # <<>> /\ MoreText \in Message
    BY <2>1, MessageChanges DEF MemOK
  <2> QED
    BY <1>3, <2>1, <2>2
<1>5. ASSUME NEW k \in Kinds, ToolUseStart(k) PROVE Finished'
  <2> DEFINE msg == [Current EXCEPT !.calls = Append(@, k)]
  <2>1. mem # <<>> /\ Set(msg) /\ ~completed' /\ pc' = "schedule"
    BY <1>5 DEF ToolUseStart, Delta, Delivered, MemOK
  <2>2. msg \in Message
    BY <1>5, <2>1, MessageChanges DEF ToolUseStart
  <2> HIDE DEF msg
  <2> QED
    BY <1>3, <2>1, <2>2
<1>6. ASSUME NEW cs \in CallSeqs, NEW f \in {"tool_use", "end_turn"}, Complete(cs, f)
      PROVE  Finished'
  <2> DEFINE msg == [Current EXCEPT !.calls = cs, !.fin = f]
  <2>1. mem # <<>> /\ Set(msg)
    BY <1>6 DEF Complete, Delivered, MemOK
  <2>2. msg \in Message
    BY <2>1, MessageChanges
  <2>3. msg.fin # "none"
    BY <2>1, MessageChanges DEF Message
  <2> HIDE DEF msg
  <2> QED
    BY <1>2, <2>1, <2>2, <2>3
<1>7. CASE LookDead \/ AbortRound \/ Rescue \/ ToolsCancelled
  <2>1. mem # <<>> /\ Set(Canceled(Current))
    BY <1>7 DEF LookDead, AbortRound, Rescue, ToolsCancelled, MemOK
  <2>2. Canceled(Current) \in Message /\ Current \in Message
    BY <2>1, MessageChanges
  <2>3. Canceled(Current).fin # "none"
    BY <2>2 DEF Canceled, Message
  <2> QED
    BY <1>2, <2>1, <2>2, <2>3
<1>8. CASE RespondWithReport
  <2>1. mem # <<>> /\ Set(MoreText) /\ MoreText \in Message
        /\ event' = "response" /\ UNCHANGED completed /\ pc' = "done"
    BY <1>8, MessageChanges DEF RespondWithReport, MemOK
  <2>2. MoreText.fin = Current.fin
    BY <1>8, <2>1, MoreTextIsAdded DEF RespondWithReport
  <2>3. completed => MoreText.fin # "none"
    BY <2>1, <2>2, SetLeaves DEF Finished, Current
  <2>4. \A m \in DOMAIN mem \ {cur} : mem'[m].fin # "none"
    BY <2>1, SetLeaves DEF Finished
  <2> QED
    BY <2>1, <2>3, <2>4, SetLeaves DEF Finished
<1>9. CASE NextRound
  <2>1. Current.fin = "tool_use" /\ UNCHANGED <<mem, completed>> /\ pc' = "check"
    BY <1>9 DEF NextRound
  <2>2. \A m \in DOMAIN mem : mem[m].fin # "none"
    BY <2>1 DEF Finished, Current
  <2> QED
    BY <2>1, <2>2 DEF Finished
<1>10. ASSUME UNCHANGED <<mem, completed>>,
              \/ pc' \notin {"start", "check", "create", "rescue", "done"}
              \/ pc \in {"start", "check", "create", "rescue"}
              \/ pc' = "done" /\ event' = "response"
              \/ UNCHANGED <<pc, event>>
       PROVE  Finished'
  BY <1>10 DEF Finished, cur
<1>11. CASE RecordResults
  BY <1>0, <1>10, <1>11 DEF RecordResults
<1>12. CASE BeginTurn \/ CheckCancelled \/ BudgetStop \/ StartRound \/ CreateFails
  BY <1>10, <1>12 DEF BeginTurn, CheckCancelled, BudgetStop, StartRound, CreateFails
<1>13. CASE ScheduleDelta \/ Store \/ StoreFails \/ Reconcile \/ ReconcileFails
            \/ StreamError \/ LookAlive \/ CloseStream \/ Flush \/ ToolsDone \/ LastRound
            \/ Respond
  BY <1>10, <1>13
     DEF ScheduleDelta, Store, StoreFails, Reconcile, ReconcileFails, StreamError,
         LookAlive, CloseStream, Flush, ToolsDone, LastRound, Respond
<1>14. CASE ToolStep \/ Timer \/ Cancel \/ UNCHANGED vars
  BY <1>10, <1>14 DEF ToolStep, Timer, Cancel, vars, loop
<1> QED
  BY <1>1, <1>4, <1>5, <1>6, <1>7, <1>8, <1>9, <1>11, <1>12, <1>13, <1>14
     DEF Next, AgentStep, StreamStep

\* TurnInv holds in every state of every behaviour.
THEOREM TurnHolds == Spec => []TurnInv
<1>1. Init => TurnInv
  BY TurnInitially
<1>2. TurnInv /\ [Next]_vars => TurnInv'
  BY MemStep, BatchKept, DiskStep, OpenStep, ScalarsStep DEF TurnInv
<1> QED
  BY <1>1, <1>2, PTL DEF Spec

\* The state of a turn, its messages and its batch has the types TypeOK states:
\* in particular no write waits for a message that was not created.
THEOREM TypeCorrect == Spec => []TypeOK
<1>1. TurnInv => TypeOK
  BY DEF TurnInv, TypeOK, MemOK, BatchInv, DiskOK, Scalars
<1> QED
  BY <1>1, TurnHolds, PTL

\* No step of any behaviour takes back text that is on disk, or a finish marker
\* on disk or on screen, however the agent's writes and the timer's meet
\* (streaming.go 29-38, 109-115; message.go 116-120).
THEOREM DiskNeverReverts == Spec => NeverReverts
<1>1. TurnInv /\ [Next]_vars => Forward
  BY DiskStep DEF TurnInv
<1>2. TurnInv /\ [Next]_vars =>
        [\A m \in DOMAIN rows :
           /\ rows[m].text <= rows'[m].text
           /\ rows[m].fin # "none" => rows'[m].fin # "none"
           /\ seen[m].fin # "none" => seen'[m].fin # "none"]_vars
  BY <1>1 DEF Forward
<1> QED
  BY <1>2, TurnHolds, PTL DEF Spec, NeverReverts
\* Before the first round there is nothing to settle or to finish.
LEMMA NothingToSettle == Init => Tidy /\ Finished
BY DEF Init, Tidy, Finished

\* TurnInv keeps the messages settled, and marked as finished.
LEMMA TidyAlways == Spec => [](Tidy /\ Finished)
<1>1. TurnInv /\ Tidy /\ Finished /\ [Next]_vars => (Tidy /\ Finished)'
  BY TidyStep, FinishedStep DEF TurnInv
<1> QED
  BY <1>1, NothingToSettle, TurnHolds, PTL DEF Spec

\* A turn that is over, however it ended, has left disk and screen with each
\* message as the agent has it, unless a write failed; the one exception is a
\* provider's error overtaken by a cancellation (agent.go 557-560).
THEOREM DiskSettles == Spec => []TranscriptSettles
<1>1. DiskOK /\ Tidy => TranscriptSettles
  BY DEF Tidy, Settled, TranscriptSettles
<1>2. TurnInv /\ Tidy => TranscriptSettles
  BY <1>1 DEF TurnInv
<1> QED
  BY <1>2, TurnHolds, TidyAlways, PTL

\* And every message of it has its finish marker on disk, but for a last one
\* whose stream closed without EventComplete (agent.go 596-602).
THEOREM FinishesLand == Spec => []FinishLands
<1>1. ASSUME DiskOK, Tidy, Finished, pc = "done", faults = 0, NEW m \in DOMAIN rows
      PROVE  \/ rows[m].fin # "none"
             \/ ErrorOvertaken(m)
             \/ m = cur /\ ~completed /\ event = "response"
  <2>1. m \in DOMAIN mem
    BY <1>1, Domains
  <2>2. rows[m] = mem[m] \/ ErrorOvertaken(m)
    BY <1>1, <2>1 DEF Tidy, Settled
  <2> QED
    BY <1>1, <2>1, <2>2 DEF Finished
<1>2. TurnInv /\ Tidy /\ Finished => FinishLands
  BY <1>1 DEF TurnInv, FinishLands
<1> QED
  BY <1>2, TurnHolds, TidyAlways, PTL

------------------------------------------------------------------------------
(***************************************************************************)
(* The stream of one of the turn's model calls (Stream): every variable of  *)
(* it keeps its type, and a turn that goes on holds one attempt, whole, for *)
(* every number of retries and of text events.                              *)
(***************************************************************************)
S == INSTANCE Stream

\* The agent still listens.
Listening == listen \in {"range", "check"}

\* What an event on the channel says about the adapter that sends it.
OfferTrue ==
  /\ prov = "send" <=> offer # S!NoEvent
  /\ offer # S!NoEvent => offer \in S!Event
  /\ offer.kind = "text" => said > 0 /\ offer.then = "stream"
  /\ offer.kind = "call" => asked /\ offer.then = "stream"
  /\ offer.kind = "complete" =>
       /\ offer.then = "stream" <=> adapter = "anthropic"
       /\ offer.then = "stream" => sentStop
       /\ offer.then = "over" => chosen
  /\ offer.kind \in {"error", "nil"} => offer.then = "over"
  /\ offer.kind = "nil" => adapter = "copilot" /\ attempt > MaxRetries

\* The text of the attempt the agent has not taken yet.
Pending == IF offer.kind = "text" THEN 1 ELSE 0

\* What the agent holds is the attempt's, and all of it.
MessageTrue ==
  (Listening \/ listen = "ended") =>
    /\ Len(text) + Pending = said
    /\ \A i \in 1 .. Len(text) : text[i] = attempt
    /\ tools \subseteq {attempt}
    /\ tools # {} => asked

\* Without a choice nothing was said or asked, and only anthropic sends a stop.
ChoiceTrue ==
  /\ said > 0 \/ asked => chosen
  /\ ~chosen => text = <<>>
  /\ sentStop => adapter = "anthropic"
  /\ prov = "crashed" => adapter # "anthropic" /\ ~chosen

\* Where the goroutine is, and what has become of the call by then.
PlaceTrue ==
  /\ prov = "backoff" => S!Fresh /\ attempt =< MaxRetries
  /\ listen = "ended" => prov = "over"
  /\ (Listening \/ listen = "ended") => outcome \in {"none", "answered"}
  /\ outcome = "answered" /\ (Listening \/ listen = "ended") =>
       /\ sentStop \/ prov = "over"
       /\ asked <=> attempt \in tools
  /\ outcome = "answered" =>
       /\ Listening \/ listen = "ended"
       /\ adapter # "anthropic" => chosen
  /\ prov = "over" /\ outcome = "none" /\ (Listening \/ listen = "ended") =>
       adapter = "anthropic" \/ gone
  /\ outcome = "panicked" => prov = "over" /\ adapter = "copilot" /\ attempt > MaxRetries

StreamInv == S!TypeOK /\ OfferTrue /\ MessageTrue /\ ChoiceTrue /\ PlaceTrue

------------------------------------------------------------------------------

LEMMA StreamInitially == S!Init => StreamInv
<1> SUFFICES ASSUME S!Init PROVE StreamInv
  OBVIOUS
<1> USE DEF S!Init, S!Fresh, Listening
<1>1. S!TypeOK
  <2>1. attempt \in S!Attempts /\ said \in 0 .. MaxDeltas
    BY AnswerAssumption DEF S!Attempts
  <2>2. text \in Seq(S!Attempts) /\ tools \subseteq S!Attempts
    OBVIOUS
  <2> QED
    BY <2>1, <2>2 DEF S!TypeOK
<1>2. OfferTrue
  BY DEF OfferTrue, S!NoEvent
<1>3. MessageTrue
  BY DEF MessageTrue, Pending, S!NoEvent
<1>4. ChoiceTrue /\ PlaceTrue
  BY DEF ChoiceTrue, PlaceTrue
<1> QED
  BY <1>1, <1>2, <1>3, <1>4 DEF StreamInv

\* Every kind of offer, with the event it makes.
LEMMA OfferMakes ==
  ASSUME NEW kind \in {"text", "call", "complete", "error", "nil"},
         NEW then \in {"stream", "over"},
         S!Offer(kind, then)
  PROVE  /\ prov' = "send"
         /\ offer' \in S!Event
         /\ offer' # S!NoEvent
         /\ offer'.kind = kind
         /\ offer'.then = then
  BY DEF S!Offer, S!Event, S!NoEvent


\* Every action but Take keeps the invariant.
LEMMA StreamOthersKeep ==
  StreamInv /\ (S!Provide \/ S!Check \/ S!EndLoop \/ S!Cancel) => StreamInv'
<1> SUFFICES ASSUME StreamInv, S!Provide \/ S!Check \/ S!EndLoop \/ S!Cancel PROVE StreamInv'
  OBVIOUS
<1> USE AnswerAssumption DEF StreamInv, S!service, S!message
<1>1. CASE S!SendText
  <2> USE <1>1 DEF S!SendText
  <2>1. S!TypeOK'
    BY DEF S!TypeOK, S!Attempts, S!Offer, S!Event
  <2>2. OfferTrue'
    BY DEF OfferTrue, ChoiceTrue, S!Offer, S!Event, S!NoEvent, S!TypeOK
  <2>3. MessageTrue'
    BY DEF MessageTrue, OfferTrue, PlaceTrue, Pending, Listening, S!Offer, S!NoEvent, S!TypeOK, S!Fresh
  <2>4. ChoiceTrue'
    BY DEF ChoiceTrue, PlaceTrue, S!Fresh, S!Offer, S!TypeOK
  <2>5. PlaceTrue'
    BY DEF PlaceTrue, OfferTrue, MessageTrue, ChoiceTrue, Listening, S!Fresh, S!Offer, S!TypeOK, S!Attempts
  <2> QED
    BY <2>1, <2>2, <2>3, <2>4, <2>5
<1>2. CASE S!SendCall
  <2> USE <1>2 DEF S!SendCall
  <2>1. S!TypeOK'
    BY DEF S!TypeOK, S!Attempts, S!Offer, S!Event
  <2>2. OfferTrue'
    BY DEF OfferTrue, ChoiceTrue, S!Offer, S!Event, S!NoEvent, S!TypeOK
  <2>3. MessageTrue'
    BY DEF MessageTrue, OfferTrue, PlaceTrue, Pending, Listening, S!Offer, S!NoEvent, S!TypeOK, S!Fresh
  <2>4. ChoiceTrue'
    BY DEF ChoiceTrue, PlaceTrue, S!Fresh, S!Offer, S!TypeOK
  <2>5. PlaceTrue'
    BY DEF PlaceTrue, OfferTrue, MessageTrue, ChoiceTrue, Listening, S!Fresh, S!Offer, S!TypeOK, S!Attempts
  <2> QED
    BY <2>1, <2>2, <2>3, <2>4, <2>5
<1>3. CASE S!SendStop
  <2> USE <1>3 DEF S!SendStop
  <2>1. S!TypeOK'
    BY DEF S!TypeOK, S!Attempts, S!Offer, S!Event
  <2>2. OfferTrue'
    BY DEF OfferTrue, ChoiceTrue, S!Offer, S!Event, S!NoEvent, S!TypeOK
  <2>3. MessageTrue'
    BY DEF MessageTrue, OfferTrue, PlaceTrue, Pending, Listening, S!Offer, S!NoEvent, S!TypeOK, S!Fresh
  <2>4. ChoiceTrue'
    BY DEF ChoiceTrue, PlaceTrue, S!Fresh, S!Offer, S!TypeOK
  <2>5. PlaceTrue'
    BY DEF PlaceTrue, OfferTrue, MessageTrue, ChoiceTrue, Listening, S!Fresh, S!Offer, S!TypeOK, S!Attempts
  <2> QED
    BY <2>1, <2>2, <2>3, <2>4, <2>5
<1>4. CASE S!EndStream
  <2> USE <1>4 DEF S!EndStream
  <2>1. S!TypeOK'
    BY DEF S!TypeOK, S!Attempts, S!Offer, S!Event
  <2>2. OfferTrue'
    BY DEF OfferTrue, ChoiceTrue, S!Offer, S!Event, S!NoEvent, S!TypeOK
  <2>3. MessageTrue'
    BY DEF MessageTrue, OfferTrue, PlaceTrue, Pending, Listening, S!Offer, S!NoEvent, S!TypeOK, S!Fresh
  <2>4. ChoiceTrue'
    BY DEF ChoiceTrue, PlaceTrue, S!Fresh, S!Offer, S!TypeOK
  <2>5. PlaceTrue'
    BY DEF PlaceTrue, OfferTrue, MessageTrue, ChoiceTrue, Listening, S!Fresh, S!Offer, S!TypeOK, S!Attempts
  <2> QED
    BY <2>1, <2>2, <2>3, <2>4, <2>5
<1>5. CASE S!Fail
  <2> USE <1>5 DEF S!Fail
  <2>1. S!TypeOK'
    BY DEF S!TypeOK, S!Attempts, S!Offer, S!Event
  <2>2. OfferTrue'
    BY DEF OfferTrue, ChoiceTrue, S!Offer, S!Event, S!NoEvent, S!TypeOK
  <2>3. MessageTrue'
    BY DEF MessageTrue, OfferTrue, PlaceTrue, Pending, Listening, S!Offer, S!NoEvent, S!TypeOK, S!Fresh
  <2>4. ChoiceTrue'
    BY DEF ChoiceTrue, PlaceTrue, S!Fresh, S!Offer, S!TypeOK
  <2>5. PlaceTrue'
    BY DEF PlaceTrue, OfferTrue, MessageTrue, ChoiceTrue, Listening, S!Fresh, S!Offer, S!TypeOK, S!Attempts
  <2> QED
    BY <2>1, <2>2, <2>3, <2>4, <2>5
<1>6. CASE S!TurnDown
  <2> USE <1>6 DEF S!TurnDown
  <2>1. S!TypeOK'
    BY DEF S!TypeOK, S!Attempts, S!Offer, S!Event
  <2>2. OfferTrue'
    BY DEF OfferTrue, ChoiceTrue, S!Offer, S!Event, S!NoEvent, S!TypeOK
  <2>3. MessageTrue'
    BY DEF MessageTrue, OfferTrue, PlaceTrue, Pending, Listening, S!Offer, S!NoEvent, S!TypeOK, S!Fresh
  <2>4. ChoiceTrue'
    BY DEF ChoiceTrue, PlaceTrue, S!Fresh, S!Offer, S!TypeOK
  <2>5. PlaceTrue'
    BY DEF PlaceTrue, OfferTrue, MessageTrue, ChoiceTrue, Listening, S!Fresh, S!Offer, S!TypeOK, S!Attempts
  <2> QED
    BY <2>1, <2>2, <2>3, <2>4, <2>5
<1>7. CASE S!Unauthorized
  <2> USE <1>7 DEF S!Unauthorized
  <2>1. S!TypeOK'
    BY DEF S!TypeOK, S!Attempts, S!Offer, S!Event
  <2>2. OfferTrue'
    BY DEF OfferTrue, ChoiceTrue, S!Offer, S!Event, S!NoEvent, S!TypeOK
  <2>3. MessageTrue'
    BY DEF MessageTrue, OfferTrue, PlaceTrue, Pending, Listening, S!Offer, S!NoEvent, S!TypeOK, S!Fresh
  <2>4. ChoiceTrue'
    BY DEF ChoiceTrue, PlaceTrue, S!Fresh, S!Offer, S!TypeOK
  <2>5. PlaceTrue'
    BY DEF PlaceTrue, OfferTrue, MessageTrue, ChoiceTrue, Listening, S!Fresh, S!Offer, S!TypeOK, S!Attempts
  <2> QED
    BY <2>1, <2>2, <2>3, <2>4, <2>5
<1>8. CASE S!Retry
  <2> USE <1>8 DEF S!Retry
  <2>1. S!TypeOK'
    <3>1. attempt \in Nat /\ attempt >= 1 /\ attempt =< MaxRetries
      BY DEF S!TypeOK, S!Attempts, PlaceTrue
    <3>2. attempt' \in S!Attempts /\ said' \in 0 .. MaxDeltas
      BY <3>1 DEF S!Attempts
    <3> QED
      BY <3>2 DEF S!TypeOK
  <2>2. OfferTrue'
    BY DEF OfferTrue, ChoiceTrue, S!Offer, S!Event, S!NoEvent, S!TypeOK
  <2>3. MessageTrue'
    BY DEF MessageTrue, OfferTrue, PlaceTrue, Pending, Listening, S!Offer, S!NoEvent, S!TypeOK, S!Fresh
  <2>4. ChoiceTrue'
    BY DEF ChoiceTrue, PlaceTrue, S!Fresh, S!Offer, S!TypeOK
  <2>5. PlaceTrue'
    BY DEF PlaceTrue, OfferTrue, MessageTrue, ChoiceTrue, Listening, S!Fresh, S!Offer, S!TypeOK, S!Attempts
  <2> QED
    BY <2>1, <2>2, <2>3, <2>4, <2>5
<1>9. CASE S!GiveUp
  <2> USE <1>9 DEF S!GiveUp
  <2>1. S!TypeOK'
    BY DEF S!TypeOK, S!Attempts, S!Offer, S!Event
  <2>2. OfferTrue'
    BY DEF OfferTrue, ChoiceTrue, S!Offer, S!Event, S!NoEvent, S!TypeOK
  <2>3. MessageTrue'
    BY DEF MessageTrue, OfferTrue, PlaceTrue, Pending, Listening, S!Offer, S!NoEvent, S!TypeOK, S!Fresh
  <2>4. ChoiceTrue'
    BY DEF ChoiceTrue, PlaceTrue, S!Fresh, S!Offer, S!TypeOK
  <2>5. PlaceTrue'
    BY DEF PlaceTrue, OfferTrue, MessageTrue, ChoiceTrue, Listening, S!Fresh, S!Offer, S!TypeOK, S!Attempts
  <2> QED
    BY <2>1, <2>2, <2>3, <2>4, <2>5
<1>10. CASE S!Check
  <2> USE <1>10 DEF S!Check, S!Leave
  <2>1. S!TypeOK'
    BY DEF S!TypeOK, S!Attempts, S!Offer, S!Event
  <2>2. OfferTrue'
    BY DEF OfferTrue, ChoiceTrue, S!Offer, S!Event, S!NoEvent, S!TypeOK
  <2>3. MessageTrue'
    BY DEF MessageTrue, OfferTrue, PlaceTrue, Pending, Listening, S!Offer, S!NoEvent, S!TypeOK, S!Fresh
  <2>4. ChoiceTrue'
    BY DEF ChoiceTrue, PlaceTrue, S!Fresh, S!Offer, S!TypeOK
  <2>5. PlaceTrue'
    BY DEF PlaceTrue, OfferTrue, MessageTrue, ChoiceTrue, Listening, S!Fresh, S!Offer, S!TypeOK, S!Attempts
  <2> QED
    BY <2>1, <2>2, <2>3, <2>4, <2>5
<1>11. CASE S!EndLoop
  <2> USE <1>11 DEF S!EndLoop
  <2>1. S!TypeOK'
    BY DEF S!TypeOK, S!Attempts, S!Offer, S!Event
  <2>2. OfferTrue'
    BY DEF OfferTrue, ChoiceTrue, S!Offer, S!Event, S!NoEvent, S!TypeOK
  <2>3. MessageTrue'
    BY DEF MessageTrue, OfferTrue, PlaceTrue, Pending, Listening, S!Offer, S!NoEvent, S!TypeOK, S!Fresh
  <2>4. ChoiceTrue'
    BY DEF ChoiceTrue, PlaceTrue, S!Fresh, S!Offer, S!TypeOK
  <2>5. PlaceTrue'
    BY DEF PlaceTrue, OfferTrue, MessageTrue, ChoiceTrue, Listening, S!Fresh, S!Offer, S!TypeOK, S!Attempts
  <2> QED
    BY <2>1, <2>2, <2>3, <2>4, <2>5
<1>12. CASE S!Cancel
  <2> USE <1>12 DEF S!Cancel
  <2>1. S!TypeOK'
    BY DEF S!TypeOK, S!Attempts, S!Offer, S!Event
  <2>2. OfferTrue'
    BY DEF OfferTrue, ChoiceTrue, S!Offer, S!Event, S!NoEvent, S!TypeOK
  <2>3. MessageTrue'
    BY DEF MessageTrue, OfferTrue, PlaceTrue, Pending, Listening, S!Offer, S!NoEvent, S!TypeOK, S!Fresh
  <2>4. ChoiceTrue'
    BY DEF ChoiceTrue, PlaceTrue, S!Fresh, S!Offer, S!TypeOK
  <2>5. PlaceTrue'
    BY DEF PlaceTrue, OfferTrue, MessageTrue, ChoiceTrue, Listening, S!Fresh, S!Offer, S!TypeOK, S!Attempts
  <2> QED
    BY <2>1, <2>2, <2>3, <2>4, <2>5
<1>13. CASE S!SendChoice
  <2> USE <1>13 DEF S!SendChoice
  <2>1. S!TypeOK'
    BY DEF S!TypeOK, S!Attempts, S!Offer, S!Event
  <2>2. OfferTrue'
    BY DEF OfferTrue, ChoiceTrue, S!Offer, S!Event, S!NoEvent, S!TypeOK
  <2>3. MessageTrue'
    BY DEF MessageTrue, OfferTrue, PlaceTrue, Pending, Listening, S!Offer, S!NoEvent, S!TypeOK, S!Fresh
  <2>4. ChoiceTrue'
    BY DEF ChoiceTrue, PlaceTrue, S!Fresh, S!Offer, S!TypeOK
  <2>5. PlaceTrue'
    BY DEF PlaceTrue, OfferTrue, MessageTrue, ChoiceTrue, Listening, S!Fresh, S!Offer, S!TypeOK, S!Attempts
  <2> QED
    BY <2>1, <2>2, <2>3, <2>4, <2>5
<1> QED
  BY <1>1, <1>2, <1>3, <1>4, <1>5, <1>6, <1>7, <1>8, <1>9, <1>10, <1>11, <1>12, <1>13 DEF S!Provide

\* The agent takes an event: every kind in turn.
LEMMA StreamTakeKeeps == StreamInv /\ S!Take => StreamInv'
<1> SUFFICES ASSUME StreamInv, S!Take PROVE StreamInv'
  OBVIOUS
<1> USE AnswerAssumption DEF StreamInv, S!service, S!message, S!Take, S!Leave
<1>1. offer \in S!Event /\ prov = "send" /\ listen = "range"
  BY DEF OfferTrue
<1>2. S!TypeOK'
  <2>1. text' \in Seq(S!Attempts) /\ tools' \subseteq S!Attempts
    <3>1. attempt \in S!Attempts /\ text \in Seq(S!Attempts) /\ tools \subseteq S!Attempts
      BY DEF S!TypeOK
    <3>2. Append(text, attempt) \in Seq(S!Attempts)
      BY <3>1
    <3>3. CASE gone \/ offer.kind \in {"error", "nil"}
      BY <3>1, <3>3
    <3>4. CASE ~(gone \/ offer.kind \in {"error", "nil"})
      <4>1. text' \in {text, Append(text, attempt)}
        BY <3>4
      <4>2. tools' \in {tools \cup {attempt}, {attempt}, {}, tools}
        BY <3>4
      <4> QED
        BY <3>1, <3>2, <4>1, <4>2
    <3> QED
      BY <3>3, <3>4
  <2> QED
    BY <1>1, <2>1 DEF S!TypeOK, S!Event
<1>3. OfferTrue'
  BY <1>1 DEF OfferTrue, S!NoEvent, S!Event
<1>4. MessageTrue'
  <2>1. CASE gone \/ offer.kind \in {"error", "nil"}
    BY <2>1 DEF MessageTrue, Listening
  <2>2. CASE ~gone /\ offer.kind = "text"
    <3>1. text' = Append(text, attempt) /\ text \in Seq(S!Attempts)
      BY <2>2 DEF S!TypeOK
    <3>2. Len(text') = Len(text) + 1 /\ \A i \in 1 .. Len(text') : text'[i] = attempt
      BY <3>1, <1>1 DEF MessageTrue, Listening
    <3> QED
      BY <2>2, <3>1, <3>2, <1>1 DEF MessageTrue, OfferTrue, Pending, Listening, S!NoEvent, S!TypeOK
  <2>3. CASE ~gone /\ offer.kind \in {"call", "complete"}
    BY <2>3, <1>1 DEF MessageTrue, OfferTrue, Pending, Listening, S!NoEvent, S!TypeOK
  <2> QED
    BY <1>1, <2>1, <2>2, <2>3 DEF S!Event
<1>5. PlaceTrue'
  <2>1. CASE gone \/ offer.kind \in {"error", "nil"}
    BY <2>1, <1>1 DEF PlaceTrue, OfferTrue, Listening, S!Fresh, S!Event
  <2>2. CASE ~gone /\ offer.kind \in {"text", "call"}
    BY <2>2, <1>1 DEF PlaceTrue, OfferTrue, MessageTrue, ChoiceTrue, Listening, S!Fresh, S!TypeOK, S!Event
  <2>3. CASE ~gone /\ offer.kind = "complete"
    BY <2>3, <1>1 DEF PlaceTrue, OfferTrue, MessageTrue, ChoiceTrue, Listening, S!Fresh, S!TypeOK, S!Event
  <2> QED
    BY <1>1, <2>1, <2>2, <2>3 DEF S!Event
<1>6. ChoiceTrue'
  <2>1. text' \in {text, Append(text, attempt)} /\ UNCHANGED <<adapter, said, asked, sentStop, chosen>>
    OBVIOUS
  <2>2. text' # text => offer.kind = "text"
    BY <1>1
  <2>3. prov' # "crashed"
    BY <1>1 DEF S!Event
  <2> QED
    BY <2>1, <2>2, <2>3 DEF ChoiceTrue, OfferTrue
<1> QED
  BY <1>2, <1>3, <1>4, <1>5, <1>6

LEMMA StreamNext == StreamInv /\ [S!Next]_S!vars => StreamInv'
<1>1. StreamInv /\ S!Next => StreamInv'
  BY StreamOthersKeep, StreamTakeKeeps DEF S!Next, S!Consume
<1>2. StreamInv /\ UNCHANGED S!vars => StreamInv'
  BY DEF StreamInv, S!vars, S!service, S!message, S!TypeOK, OfferTrue, MessageTrue, ChoiceTrue, PlaceTrue,
         Listening,
         Pending, S!Fresh
<1> QED
  BY <1>1, <1>2
------------------------------------------------------------------------------
\* The inductive invariant: the agent holds what the attempt has sent, less the
\* event still on the channel (anthropic.go 272-390, agent.go 544-560).
THEOREM StreamHolds == S!Spec => []StreamInv
  BY StreamInitially, StreamNext, PTL DEF S!Spec

\* Every variable keeps its type, and the goroutine never counts more attempts
\* than maxRetries and one (anthropic.go 273-275, 411-413).
THEOREM StreamTypeCorrect == S!Spec => []S!TypeOK
<1>1. StreamInv => S!TypeOK
  BY DEF StreamInv
<1> QED
  BY <1>1, StreamHolds, PTL

\* A turn that goes on holds one attempt, whole, for every number of retries
\* and of text events; no openai or copilot stream without a choice passes for an
\* answer (anthropic.go 345-383, openai.go 307-353, copilot.go 488-533,
\* agent.go 544-560).
THEOREM AnswerIsWholeAlways == S!Spec => []AnswerIsWhole
<1>1. StreamInv => AnswerIsWhole
  BY DEF StreamInv, AnswerIsWhole, MessageTrue, OfferTrue, ChoiceTrue, PlaceTrue, Pending, Listening, S!NoEvent, S!TypeOK
<1> QED
  BY <1>1, StreamHolds, PTL
==============================================================================
