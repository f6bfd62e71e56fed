------------------------------- MODULE TaskLife -------------------------------
(***************************************************************************)
(* What a task promises whoever reads it back, with no contexts, caches or  *)
(* failed writes: it is compiled, runs and is closed, each at most once and *)
(* in that order; the verdict on a criterion only ever rises, from          *)
(* uncovered to blocked, so that a red criterion never turns green; and     *)
(* what is learnt from a task is learnt once, after it completed.           *)
(***************************************************************************)
EXTENDS Naturals

CONSTANTS Tasks, Criteria, Lessons

VARIABLES phase, verdict, learnt

vars == <<phase, verdict, learnt>>

Closed == {"completed", "failed", "cancelled"}

Rank == [v \in {"uncovered", "partly", "validated", "blocked"} |->
           CASE v = "uncovered" -> 0 [] v = "partly" -> 1
             [] v = "validated" -> 2 [] v = "blocked" -> 3]

Init ==
  /\ phase = [t \in Tasks |-> "none"]
  /\ verdict = [t \in Tasks |-> [c \in Criteria |-> "uncovered"]]
  /\ learnt = [t \in Tasks |-> {}]

Move(t, from, to) ==
  /\ phase[t] = from
  /\ phase' = [phase EXCEPT ![t] = to]
  /\ UNCHANGED <<verdict, learnt>>

Compile(t) == Move(t, "none", "compiled")
Start(t) == Move(t, "compiled", "running")
Close(t) == \E to \in Closed : Move(t, "running", to)

\* Evidence comes in, also after the task was closed.
Judge(t) ==
  /\ phase[t] # "none"
  /\ \E c \in Criteria, v \in DOMAIN Rank :
       /\ Rank[v] > Rank[verdict[t][c]]
       /\ verdict' = [verdict EXCEPT ![t][c] = v]
  /\ UNCHANGED <<phase, learnt>>

Learn(t) ==
  /\ phase[t] = "completed"
  /\ learnt[t] = {}
  /\ \E l \in SUBSET Lessons : learnt' = [learnt EXCEPT ![t] = l]
  /\ UNCHANGED <<phase, verdict>>

Next == \E t \in Tasks : Compile(t) \/ Start(t) \/ Close(t) \/ Judge(t) \/ Learn(t)

Spec == Init /\ [][Next]_vars
==============================================================================
