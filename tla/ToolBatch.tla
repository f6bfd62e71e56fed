------------------------------ MODULE ToolBatch -------------------------------
(***************************************************************************)
(* executeToolCalls and runReadOnlyBatch, internal/llm/agent/toolbatch.go:  *)
(* the tool calls of one model response run in order, consecutive read-only *)
(* calls side by side under a semaphore, effectful calls one at a time.     *)
(***************************************************************************)
EXTENDS Naturals, FiniteSets, Sequences

CONSTANT MaxParallel  \* maxParallelTools

ASSUME ToolBatchAssumption == MaxParallel \in Nat \ {0}

VARIABLES
  dead,    \* ctx.Err() != nil
  phase,   \* where executeToolCalls is
  calls,   \* the calls, "read" or "effect"
  results, \* a function on the slots filled: whose result, and what it says
  next,    \* i, the loop's index
  end,     \* the index after the calls taken together
  running, \* calls inside runToolCall
  stopped  \* effectfulStopped

batch == <<phase, calls, results, next, end, running, stopped>>

Outcomes == {"ok", "error", "denied"}      \* of a call that ran
Placeholders == {"cancelled", "stopped"}   \* cancelledResult
Result == [call : Nat \ {0}, says : Outcomes \cup Placeholders]

BatchInit ==
  /\ phase = "off"
  /\ calls = <<>>
  /\ results = <<>>
  /\ next = 1
  /\ end = 1
  /\ running = {}
  /\ stopped = FALSE

Slots == next .. end - 1

\* Fill the slots of S, each for its own call.
Fill(S, says) ==
  results' = [i \in DOMAIN results \cup S |->
                IF i \in S THEN [call |-> i, says |-> says] ELSE results[i]]

\* Mutant of RunEnds: a run may begin with a read-only call and go on with any.
RunEndsMixed(i) == {IF calls[i] = "effect" THEN i + 1 ELSE Len(calls) + 1}

\* Where the calls taken together at i end: after one effectful call, or after
\* the whole run of read-only ones.  It is one index.
RunEnds(i) ==
  {e \in i + 1 .. Len(calls) + 1 :
     \/ calls[i] = "effect" /\ e = i + 1
     \/ /\ \A j \in i .. e - 1 : calls[j] = "read"
        /\ e = Len(calls) + 1 \/ calls[e] = "effect"}

StartBatch(cs) ==
  /\ phase = "off"
  /\ phase' = "loop"
  /\ calls' = cs
  /\ UNCHANGED <<results, next, end, running, stopped>>

AtCall == phase = "loop" /\ next <= Len(calls)

\* Mutant of CancelRest: the call at hand gets no result.
CancelLater ==
  /\ AtCall
  /\ dead
  /\ Fill(next + 1 .. Len(calls), "cancelled")
  /\ phase' = "cancelled"
  /\ UNCHANGED <<calls, next, end, running, stopped>>

\* The request is dead: every call left gets a placeholder.
CancelRest ==
  /\ AtCall
  /\ dead
  /\ Fill(next .. Len(calls), "cancelled")
  /\ phase' = "cancelled"
  /\ UNCHANGED <<calls, next, end, running, stopped>>

\* After a denial effectful calls are passed over.
SkipEffect ==
  /\ AtCall
  /\ ~dead
  /\ stopped /\ calls[next] = "effect"
  /\ Fill({next}, "stopped")
  /\ next' = next + 1
  /\ end' = next + 1
  /\ UNCHANGED <<phase, calls, running, stopped>>

\* One effectful call, or a run of read-only ones, is taken.
TakeCalls ==
  /\ AtCall
  /\ ~dead
  /\ ~(stopped /\ calls[next] = "effect")
  /\ end' \in RunEnds(next)
  /\ phase' = "batch"
  /\ UNCHANGED <<calls, results, next, running, stopped>>

\* A call enters runToolCall, the semaphore permitting, and leaves it.
RunCall(i) ==
  /\ phase = "batch"
  /\ i \in Slots \ (running \cup DOMAIN results)
  /\ Cardinality(running) < MaxParallel
  /\ running' = running \cup {i}
  /\ UNCHANGED <<phase, calls, results, next, end, stopped>>

EndCall(i, says) ==
  /\ i \in running
  /\ Fill({i}, says)
  /\ running' = running \ {i}
  /\ UNCHANGED <<phase, calls, next, end, stopped>>

\* Mutant of Join: a denial in a read-only batch is forgotten.
JoinForgets ==
  /\ phase = "batch"
  /\ Slots \subseteq DOMAIN results
  /\ stopped' = (stopped \/ (calls[next] = "effect" /\ results[next].says = "denied"))
  /\ next' = end
  /\ phase' = "loop"
  /\ UNCHANGED <<calls, results, end, running>>

\* Mutant of Join: it waits for one call more than it started.
WaitTooMany ==
  /\ phase = "batch"
  /\ next .. end \subseteq DOMAIN results
  /\ stopped' = (stopped \/ \E i \in Slots : results[i].says = "denied")
  /\ next' = end
  /\ phase' = "loop"
  /\ UNCHANGED <<calls, results, end, running>>

\* All taken are done (wg.Wait); a denial among them stops effectful calls.
Join ==
  /\ phase = "batch"
  /\ Slots \subseteq DOMAIN results
  /\ stopped' = (stopped \/ \E i \in Slots : results[i].says = "denied")
  /\ next' = end
  /\ phase' = "loop"
  /\ UNCHANGED <<calls, results, end, running>>

EndBatch ==
  /\ phase = "loop"
  /\ next > Len(calls)
  /\ phase' = "done"
  /\ UNCHANGED <<calls, results, next, end, running, stopped>>

\* It returns; its variables are gone.
LeaveBatch ==
  /\ phase \in {"done", "cancelled"}
  /\ phase' = "off"
  /\ calls' = <<>>
  /\ results' = <<>>
  /\ next' = 1
  /\ end' = 1
  /\ stopped' = FALSE
  /\ UNCHANGED running

BatchStep ==
  /\ \/ CancelRest \/ SkipEffect \/ TakeCalls \/ Join \/ EndBatch
     \/ \E i \in DOMAIN calls : RunCall(i) \/ \E says \in Outcomes : EndCall(i, says)
  /\ UNCHANGED dead

BatchTypeOK ==
  /\ dead \in BOOLEAN
  /\ phase \in {"off", "loop", "batch", "done", "cancelled"}
  /\ calls \in Seq({"read", "effect"})
  /\ DOMAIN results \subseteq DOMAIN calls
  /\ \A i \in DOMAIN results : results[i] \in Result
  /\ next \in 1 .. Len(calls) + 1
  /\ end \in 1 .. Len(calls) + 1
  /\ running \subseteq DOMAIN calls
  /\ stopped \in BOOLEAN

\* A batch that is over has one result per call, in the calls' order: what the
\* model is told of a call is never the result of another (toolbatch.go 92-93,
\* 140, 152-161).
BatchComplete ==
  phase \in {"done", "cancelled"} =>
    /\ DOMAIN results = DOMAIN calls
    /\ \A i \in DOMAIN calls : results[i].call = i

\* An effectful call runs alone, and read-only ones at most MaxParallel at a
\* time (toolbatch.go 13-18, 95-98, 142-143).
EffectsRunAlone ==
  /\ Cardinality(running) <= MaxParallel
  /\ \A i \in running : calls[i] = "effect" => running = {i}

\* Once a call was denied no later effectful call of the same response runs
\* (toolbatch.go 146-150).
DenialStopsEffects ==
  \A i \in running : calls[i] = "effect" =>
    \A j \in DOMAIN results : results[j].says # "denied"
==============================================================================
