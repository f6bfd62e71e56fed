----------------------------- MODULE Tasks_proofs -----------------------------
(***************************************************************************)
(* Proofs about Tasks: its type invariant, what is left of a task that was*)
(* cut short, what its evidence, its report and a cached pass are worth,  *)
(* what is learnt from it, and that it keeps the promise of TaskLife, for *)
(* every number of tasks, sessions, trees, commands and criteria.         *)
(***************************************************************************)
EXTENDS Tasks, WellFoundedInduction, TLAPS

\* The request was cancelled, or a write failed by itself.
Cut(t) == Dead(t) \/ faults > 0

\* No time of a run, or of one being made, is beyond some bound.
Bounded ==
  \E b \in Nat : /\ \A r \in runs : r.at <= b
                 /\ \A t \in Tasks : intent[t].at <= b

Pending(t) == intent[t].step \in {"run", "record"}

\* How far a task has come shows in its row.
Place(t) ==
  /\ pc[t] = "idle" <=> kind[t] = "none"
  /\ kind[t] = "turn" => sess[t] # None
  /\ pc[t] \in {"idle", "insert"} => status[t] = "none"
  /\ pc[t] \in {"spec", "budget", "start"} => status[t] = "compiled"
  /\ pc[t] \in {"work", "plan", "validate", "finish", "fail"} =>
       status[t] = "running"
  /\ pc[t] \in {"snap", "learn"} => status[t] = "completed"
  /\ pc[t] = "untracked" => status[t] \in {"none", "compiled"}
  /\ learnt[t] # {} => pc[t] = "done" /\ status[t] = "completed"
  /\ pc[t] # "validate" => intent[t].step = "idle"
  /\ report[t] # {} => pc[t] \in {"finish", "snap", "learn", "done"}

PlaceTrue == \A t \in Tasks : Place(t)

\* A task is left open, or worked on without its row, only when cut short.
LeftOpen(t) ==
  /\ kind[t] \in {"turn", "sub"}
  /\ pc[t] = "untracked" \/ (pc[t] = "done" /\ status[t] \in Open)

OpenTrue == \A t \in Tasks : LeftOpen(t) => Cut(t)

\* Runs are told apart by their time, from each other and from those being made.
RunsTrue ==
  /\ \A r, q \in runs : r.at = q.at => r = q
  /\ \A t \in Tasks : Pending(t) =>
       /\ \A r \in runs : r.at # intent[t].at
       /\ \A u \in Tasks : Pending(u) /\ intent[u].at = intent[t].at => u = t

\* Evidence is of a run that was recorded.
EvidenceTrue ==
  /\ \A e \in evidence : \E r \in runs : r.at = e.run
  /\ \A t \in Tasks : At(t, "attach") => \E r \in runs : r.at = intent[t].at
  /\ \A t \in Tasks : intent[t].step \in {"cache", "run", "record"} => intent[t].crit = 1
  /\ \A t \in Tasks : At(t, "record") => intent[t].status # "none"

\* A failing run counts against every criterion its evidence has got to, and
\* that is every one unless the turn is still at it or was cut short.
Against(t, r, c) == \E e \in evidence : e.task = t /\ e.crit = c /\ e.run = r.at

FailuresCount ==
  \A t \in Tasks : \A r \in FailedRun(t) :
    \/ Cut(t)
    \/ \A c \in Criteria : Against(t, r, c) \/ (Attaching(r) /\ c >= intent[t].crit)

\* Lessons are commands with a passing run of the task.
LessonsTrue ==
  \A t \in Tasks : \A c \in learnt[t] \ {Episode} :
    \E r \in RunsOf(t) : r.cmd = c /\ r.status = "passed"

IInv ==
  /\ TypeOK /\ Bounded /\ PlaceTrue /\ OpenTrue /\ RunsTrue /\ EvidenceTrue
  /\ FailuresCount /\ LessonsTrue /\ ReportIsTrue

\* A session works on one turn at a time.
OneTurn ==
  \A t, u \in Tasks :
    kind[t] = "turn" /\ kind[u] = "turn" /\ sess[t] = sess[u] /\ ~Over(t) /\ ~Over(u) => t = u

\* One session edits, and nothing changes the tree behind its history.
Alone ==
  /\ ~foreign
  /\ \A s, z \in Sessions : recorded[s] # None /\ recorded[z] # None => s = z

\* Then the history is the tree, and so is the key a turn validates with: the
\* tree does not change under it, and a run's key tells what it ran on.
KeyIsTree(t) ==
  /\ kind[t] = "turn" /\ recorded[sess[t]] # None
  /\ intent[t].key = tree

TreeKept ==
  Alone =>
    /\ \A s \in Sessions : recorded[s] # None => recorded[s] = tree /\ s \in newest
    /\ \A t \in Tasks : pc[t] = "validate" => KeyIsTree(t)
    /\ \A r \in runs : r.key = r.tree
------------------------------------------------------------------------------
\* A set of numbers that has a bound has a greatest member.
LEMMA MaxExists ==
  ASSUME NEW S \in SUBSET Nat, S # {}, NEW b \in Nat, \A x \in S : x <= b
  PROVE  Max(S) \in S /\ \A y \in S : Max(S) >= y
<1> DEFINE R == {ss \in Nat \X Nat : ss[1] < ss[2]}
           T == {n \in Nat : \E x \in S : n = b - x}
<1>1. IsWellFoundedOn(R, Nat)
  BY NatLessThanWellFounded DEF OpToRel
<1>2. T \subseteq Nat /\ T # {}
  <2>1. PICK x \in S : TRUE
    OBVIOUS
  <2>2. b - x \in T
    OBVIOUS
  <2> QED
    BY <2>2
<1> HIDE DEF R
<1>3. PICK n \in T : \A m \in T : ~(<<m, n>> \in R)
  BY <1>1, <1>2, WFMin
<1>4. PICK x \in S : n = b - x
  OBVIOUS
<1>5. ASSUME NEW y \in S PROVE x >= y
  <2>1. b - y \in T
    OBVIOUS
  <2>2. ~(b - y < n)
    BY <1>3, <2>1 DEF R
  <2> QED
    BY <2>2, <1>4
<1> QED
  BY <1>5 DEF Max

LEMMA InitIInv == Init => IInv
<1> SUFFICES ASSUME Init PROVE IInv
  OBVIOUS
<1> USE ValidationAssumption DEF Init, ValidationInit, validation
<1>1. Idle \in Intent
  BY DEF Idle, Intent, Steps, Keys, Cmds, Criteria
<1>2. TypeOK
  <2>1. ValidationTypeOK
    BY <1>1 DEF ValidationTypeOK
  <2>2. /\ status \in [Tasks -> {"none", "completed", "failed", "cancelled"} \cup Open]
        /\ kind \in [Tasks -> Kinds \cup {"none"}]
        /\ pc \in [Tasks -> States]
        /\ outcome \in [Tasks -> {"none", "error", "canceled"}]
    BY DEF States
  <2>3. /\ sess \in [Tasks -> Sessions \cup {None}]
        /\ parent \in [Tasks -> Tasks \cup {None}]
        /\ report \in [Tasks -> SUBSET Criteria]
        /\ learnt \in [Tasks -> SUBSET ({Episode} \cup Cmds)]
        /\ recorded \in [Sessions -> Trees \cup {None}]
    OBVIOUS
  <2> QED
    BY <2>1, <2>2, <2>3 DEF TypeOK
<1>3. Bounded
  BY DEF Bounded, Idle
<1>4. PlaceTrue /\ OpenTrue
  BY DEF PlaceTrue, Place, OpenTrue, LeftOpen, Idle
<1>5. RunsTrue /\ EvidenceTrue
  BY DEF RunsTrue, EvidenceTrue, Pending, At, Idle
<1>6. FailuresCount /\ LessonsTrue /\ ReportIsTrue
  BY DEF FailuresCount, LessonsTrue, ReportIsTrue, FailedRun, RunsOf
<1> QED
  BY <1>2, <1>3, <1>4, <1>5, <1>6 DEF IInv

\* A database call only adds to the faults, and fails for a reason.
LEMMA CallFacts ==
  ASSUME faults \in 0 .. MaxFaults, NEW d \in BOOLEAN, NEW ok \in BOOLEAN, Call(d, ok)
  PROVE  /\ faults' \in 0 .. MaxFaults /\ faults <= faults'
         /\ d => ~ok
         /\ ~ok => d \/ faults' > 0
  BY ValidationAssumption DEF Call

\* What was cut short stays so.
LEMMA CutStays ==
  ASSUME IInv, UNCHANGED begun, dead \subseteq dead', faults' \in Nat, faults <= faults'
  PROVE  \A t \in Tasks : Cut(t) => Cut(t)'
  BY DEF IInv, TypeOK, ValidationTypeOK, Cut, Dead, begun

\* What holds of runs, evidence and report as long as these are left alone.
LEMMA RowsOnly ==
  ASSUME IInv, UNCHANGED <<validation, report>>, faults' \in Nat, faults <= faults',
         \A t \in Tasks : Cut(t) => Cut(t)'
  PROVE  Bounded' /\ RunsTrue' /\ EvidenceTrue' /\ FailuresCount' /\ ReportIsTrue'
<1> USE DEF IInv, validation
<1>1. Bounded'
  BY DEF Bounded
<1>2. RunsTrue' /\ EvidenceTrue'
  BY DEF RunsTrue, EvidenceTrue, Pending, At
<1>3. FailuresCount'
  BY DEF FailuresCount, FailedRun, RunsOf, Against, Attaching, At
<1>4. ReportIsTrue'
  BY DEF ReportIsTrue, FailedRun, RunsOf, TypeOK, ValidationTypeOK
<1> QED
  BY <1>1, <1>2, <1>3, <1>4

LEMMA LessonsKept ==
  ASSUME IInv, UNCHANGED learnt, runs \subseteq runs'
  PROVE  LessonsTrue'
  BY DEF IInv, LessonsTrue, RunsOf

\* A step moves one task; the others stay where they are.
LEMMA OthersStay ==
  ASSUME IInv, NEW t \in Tasks,
         \A u \in Tasks \ {t} :
           /\ pc'[u] = pc[u] /\ kind'[u] = kind[u] /\ status'[u] = status[u]
           /\ sess'[u] = sess[u]
           /\ learnt'[u] = learnt[u] /\ report'[u] = report[u] /\ intent'[u].step = intent[u].step,
         \A u \in Tasks : Cut(u) => Cut(u)'
  PROVE  \A u \in Tasks \ {t} : Place(u)' /\ (LeftOpen(u)' => Cut(u)')
  BY DEF IInv, PlaceTrue, Place, OpenTrue, LeftOpen
------------------------------------------------------------------------------
\* The actions that leave the validation service alone, one lemma each.
LEMMA BeginTaskKeeps ==
  ASSUME IInv, NEW t \in Tasks, NEW k \in Kinds, NEW s \in Sessions \cup {None},
         NEW p \in Tasks \cup {None}, BeginTask(t, k, s, p)
  PROVE  IInv'
<1> USE DEF IInv, files, rows
<1>1. /\ pc[t] = "idle" /\ kind[t] = "none" /\ status[t] = "none"
      /\ k = "turn" => s # None
      /\ kind' = [kind EXCEPT ![t] = k] /\ sess' = [sess EXCEPT ![t] = s]
      /\ parent' = [parent EXCEPT ![t] = p] /\ pc' = [pc EXCEPT ![t] = "insert"]
      /\ UNCHANGED <<validation, faults, files, rows, outcome, dead, report>>
  BY DEF BeginTask, PlaceTrue, Place
<1>2. TypeOK'
  <2>1. /\ kind' \in [Tasks -> Kinds \cup {"none"}]
        /\ sess' \in [Tasks -> Sessions \cup {None}]
        /\ parent' \in [Tasks -> Tasks \cup {None}]
    BY <1>1 DEF TypeOK
  <2>2. pc' \in [Tasks -> States]
    BY <1>1 DEF TypeOK, States
  <2> QED
    BY <1>1, <2>1, <2>2 DEF TypeOK, ValidationTypeOK, validation
<1>3. faults \in Nat /\ faults' = faults
  BY <1>1 DEF TypeOK, ValidationTypeOK
<1>4. \A u \in Tasks : Cut(u) => Cut(u)'
  BY <1>1 DEF Cut, Dead, TypeOK
<1>5. Place(t)' /\ ~LeftOpen(t)'
  BY <1>1 DEF PlaceTrue, Place, LeftOpen, TypeOK, validation, Kinds
<1>6. \A u \in Tasks \ {t} : Place(u)' /\ (LeftOpen(u)' => Cut(u)')
  BY <1>1, <1>4, OthersStay DEF TypeOK, validation
<1>7. LessonsTrue'
  BY <1>1, LessonsKept DEF validation
<1>8. PlaceTrue' /\ OpenTrue'
  BY <1>5, <1>6 DEF PlaceTrue, OpenTrue
<1> QED
  BY <1>1, <1>2, <1>3, <1>4, <1>7, <1>8, RowsOnly

\* The steps of Begin and Close: a call that moves the row and the turn of a
\* task from one of a few places to another.
Moves(t, from, row, to, d, ok) ==
  /\ Goto(t, from, to)
  /\ Call(d, ok)
  /\ status' = [status EXCEPT ![t] = row]
  /\ UNCHANGED <<validation, files, begun, outcome, dead, report>>

\* The rows and places such a call may lead to.
Fits(t, from, row, to, ok) ==
  /\ from \in States \ {"idle", "validate"} /\ to \in States \ {"idle", "validate"}
  /\ row \in {"none", "completed", "failed", "cancelled"} \cup Open
  /\ to = "insert" => row = "none"
  /\ to \in {"spec", "budget", "start"} => row = "compiled"
  /\ to \in {"work", "plan", "finish", "fail"} => row = "running"
  /\ to \in {"snap", "learn"} => row = "completed"
  /\ to = "untracked" => row \in {"none", "compiled"} /\ ~ok
  /\ to = "done" /\ kind[t] # "command" /\ row \in Open => ~ok
  /\ report[t] # {} => to \in {"snap", "learn", "done"}

\* What it may leave of the tables.
Leaves(t, row, to) ==
  /\ specs' \subseteq Tasks /\ snapped' \subseteq Tasks
  /\ learnt' \in [Tasks -> SUBSET ({Episode} \cup Cmds)]
  /\ \A u \in Tasks \ {t} : learnt'[u] = learnt[u]
  /\ \A c \in learnt'[t] \ {Episode} : \E r \in RunsOf(t) : r.cmd = c /\ r.status = "passed"
  /\ learnt'[t] # {} => to = "done" /\ row = "completed"

LEMMA MoveKeeps ==
  ASSUME IInv, NEW t \in Tasks, NEW from, NEW to, NEW row,
         NEW d \in BOOLEAN, NEW ok \in BOOLEAN, Moves(t, from, row, to, d, ok), d => Dead(t),
         Fits(t, from, row, to, ok), Leaves(t, row, to)
  PROVE  IInv'
<1> USE DEF IInv, Fits, Leaves
<1>1. /\ pc[t] = from /\ pc' = [pc EXCEPT ![t] = to] /\ Call(d, ok)
      /\ status' = [status EXCEPT ![t] = row]
      /\ UNCHANGED <<validation, files, begun, outcome, dead, report>>
  BY DEF Moves, Goto
<1>2. /\ faults' \in 0 .. MaxFaults /\ faults' \in Nat /\ faults <= faults'
      /\ ~ok => d \/ faults' > 0
  BY <1>1, CallFacts DEF TypeOK, ValidationTypeOK
<1>3. TypeOK'
  <2>1. pc' \in [Tasks -> States]
    BY <1>1 DEF TypeOK
  <2>2. status' \in [Tasks -> {"none", "completed", "failed", "cancelled"} \cup Open]
    BY <1>1 DEF TypeOK
  <2> QED
    BY <1>1, <1>2, <2>1, <2>2 DEF TypeOK, ValidationTypeOK, validation, files, begun
<1>4. \A u \in Tasks : Cut(u) => Cut(u)'
  BY <1>1, <1>2, CutStays
<1>5. ~ok => Cut(t)'
  BY <1>1, <1>2 DEF Cut, Dead, begun
<1>6. pc'[t] = to /\ status'[t] = row /\ kind'[t] = kind[t] /\ sess' = sess
      /\ intent' = intent /\ report' = report
  BY <1>1 DEF TypeOK, begun, validation
<1>7. Place(t)'
  <2>1. kind[t] # "none" /\ intent[t].step = "idle" /\ (kind[t] = "turn" => sess[t] # None)
    BY <1>1 DEF PlaceTrue, Place
  <2> QED
    BY <1>6, <2>1 DEF Place
<1>8. LeftOpen(t)' => Cut(t)'
  BY <1>4, <1>5, <1>6 DEF LeftOpen
<1>9. \A u \in Tasks \ {t} : Place(u)' /\ (LeftOpen(u)' => Cut(u)')
  BY <1>1, <1>4, OthersStay DEF TypeOK, validation, begun
<1>10. LessonsTrue'
  BY <1>1 DEF LessonsTrue, RunsOf, validation
<1>11. PlaceTrue' /\ OpenTrue'
  BY <1>7, <1>8, <1>9 DEF PlaceTrue, OpenTrue
<1> QED
  BY <1>1, <1>2, <1>3, <1>4, <1>10, <1>11, RowsOnly

\* Where a step of Begin may lead from and to.
LEMMA BeginKeeps == ASSUME IInv, NEW t \in Tasks, Begin(t) PROVE IInv'
<1> USE DEF Begin, Onward, Goto, rows
<1>1. PICK ok \in BOOLEAN :
        CreateTask(t, ok) \/ SaveSpec(t, ok) \/ SaveBudget(t, ok) \/ StartTask(t, ok)
  OBVIOUS
<1> DEFINE fallen == IF kind[t] = "command" THEN "done" ELSE "untracked"
<1>2. Dead(t) \in BOOLEAN /\ fallen \in States
  BY DEF Dead, States
<1>3. /\ report[t] # {} => pc[t] \in {"finish", "snap", "learn", "done"}
      /\ learnt[t] # {} => pc[t] = "done"
      /\ pc[t] = "insert" => status[t] = "none"
      /\ pc[t] \in {"spec", "budget", "start"} => status[t] = "compiled"
  BY DEF IInv, PlaceTrue, Place
<1>4. status = [status EXCEPT ![t] = status[t]]
  BY DEF IInv, TypeOK
<1>5. learnt \in [Tasks -> SUBSET ({Episode} \cup Cmds)] /\ specs \subseteq Tasks
      /\ snapped \subseteq Tasks
  BY DEF IInv, TypeOK
<1>6. CASE CreateTask(t, ok)
  <2> DEFINE to == IF ok THEN "spec" ELSE fallen
             row == IF ok THEN "compiled" ELSE "none"
  <2>1. Moves(t, "insert", row, to, Dead(t), ok) /\ pc[t] = "insert"
    BY <1>3, <1>6 DEF CreateTask, Moves
  <2>3. UNCHANGED <<specs, snapped, learnt>> /\ report[t] = {} /\ learnt[t] = {}
    BY <1>3, <1>6, <2>1 DEF CreateTask
  <2>8. Fits(t, "insert", row, to, ok)
    BY <1>2, <1>3, <2>1 DEF Fits, States, Open
  <2>9. Leaves(t, row, to)
    BY <1>5, <2>3 DEF Leaves
  <2> HIDE DEF to, row
  <2> QED
    BY <1>2, <2>1, <2>8, <2>9, MoveKeeps
<1>7. CASE SaveSpec(t, ok)
  <2> DEFINE to == IF ok THEN "budget" ELSE fallen
  <2>1. Moves(t, "spec", "compiled", to, Dead(t), ok) /\ pc[t] = "spec"
    BY <1>3, <1>4, <1>7 DEF SaveSpec, Moves
  <2>3. UNCHANGED <<snapped, learnt>> /\ specs' \subseteq Tasks /\ report[t] = {} /\ learnt[t] = {}
    BY <1>3, <1>5, <1>7, <2>1 DEF SaveSpec
  <2>8. Fits(t, "spec", "compiled", to, ok)
    BY <1>2, <1>3, <2>1 DEF Fits, States, Open
  <2>9. Leaves(t, "compiled", to)
    BY <1>5, <2>3 DEF Leaves
  <2> HIDE DEF to
  <2> QED
    BY <1>2, <2>1, <2>8, <2>9, MoveKeeps
<1>8. CASE SaveBudget(t, ok)
  <2> DEFINE to == IF ok THEN "start" ELSE fallen
  <2>1. Moves(t, "budget", "compiled", to, Dead(t), ok) /\ pc[t] = "budget"
    BY <1>3, <1>4, <1>8 DEF SaveBudget, Moves
  <2>3. UNCHANGED <<specs, snapped, learnt>> /\ report[t] = {} /\ learnt[t] = {}
    BY <1>3, <1>8, <2>1 DEF SaveBudget
  <2>8. Fits(t, "budget", "compiled", to, ok)
    BY <1>2, <1>3, <2>1 DEF Fits, States, Open
  <2>9. Leaves(t, "compiled", to)
    BY <1>5, <2>3 DEF Leaves
  <2> HIDE DEF to
  <2> QED
    BY <1>2, <2>1, <2>8, <2>9, MoveKeeps
<1>9. CASE StartTask(t, ok)
  <2> DEFINE to == IF ~ok THEN fallen ELSE IF kind[t] = "command" THEN "done" ELSE "work"
             row == IF ok THEN "running" ELSE "compiled"
  <2>1. Moves(t, "start", row, to, Dead(t), ok) /\ pc[t] = "start"
    BY <1>3, <1>9 DEF StartTask, Moves
  <2>3. UNCHANGED <<specs, snapped, learnt>> /\ report[t] = {} /\ learnt[t] = {}
    BY <1>3, <1>9, <2>1 DEF StartTask
  <2>8. Fits(t, "start", row, to, ok)
    BY <1>2, <1>3, <2>1 DEF Fits, States, Open
  <2>9. Leaves(t, row, to)
    BY <1>5, <2>3 DEF Leaves
  <2> HIDE DEF to, row
  <2> QED
    BY <1>2, <2>1, <2>8, <2>9, MoveKeeps
<1> QED
  BY <1>1, <1>6, <1>7, <1>8, <1>9

LEMMA CloseKeeps == ASSUME IInv, NEW t \in Tasks, Close(t) PROVE IInv'
<1> USE DEF Close, Goto, rows
<1>1. PICK ok \in BOOLEAN :
        FinishTask(t, ok) \/ CaptureCheckpoint(t, ok) \/ LearnFromTask(t, ok) \/ FailTask(t, ok)
  OBVIOUS
<1>2. Dead(t) \in BOOLEAN
  BY DEF Dead
<1>3. /\ learnt[t] # {} => pc[t] = "done"
      /\ pc[t] \in {"finish", "fail"} => status[t] = "running"
      /\ pc[t] \in {"snap", "learn"} => status[t] = "completed"
      /\ report[t] # {} => pc[t] # "fail"
  BY DEF IInv, PlaceTrue, Place
<1>4. status = [status EXCEPT ![t] = status[t]]
  BY DEF IInv, TypeOK
<1>5. learnt \in [Tasks -> SUBSET ({Episode} \cup Cmds)] /\ specs \subseteq Tasks
      /\ snapped \subseteq Tasks
  BY DEF IInv, TypeOK
<1>6. CASE FinishTask(t, ok)
  <2> DEFINE to == IF ok THEN "snap" ELSE "done"
             row == IF ok THEN "completed" ELSE "running"
  <2>1. Moves(t, "finish", row, to, Dead(t), ok) /\ pc[t] = "finish"
    BY <1>3, <1>6 DEF FinishTask, Moves
  <2>3. UNCHANGED <<specs, snapped, learnt>> /\ learnt[t] = {}
    BY <1>3, <1>6, <2>1 DEF FinishTask
  <2>8. Fits(t, "finish", row, to, ok)
    BY <1>2, <1>3, <2>1 DEF Fits, States, Open
  <2>9. Leaves(t, row, to)
    BY <1>5, <2>3 DEF Leaves
  <2> HIDE DEF to, row
  <2> QED
    BY <1>2, <2>1, <2>8, <2>9, MoveKeeps
<1>7. CASE CaptureCheckpoint(t, ok)
  <2>1. Moves(t, "snap", "completed", "learn", FALSE, ok) /\ pc[t] = "snap"
    BY <1>3, <1>4, <1>7 DEF CaptureCheckpoint, Moves
  <2>2. UNCHANGED <<specs, learnt>> /\ snapped' \subseteq Tasks /\ learnt[t] = {}
    BY <1>3, <1>5, <1>7, <2>1 DEF CaptureCheckpoint
  <2>8. Fits(t, "snap", "completed", "learn", ok)
    BY <1>2, <1>3, <2>1 DEF Fits, States, Open
  <2>9. Leaves(t, "completed", "learn")
    BY <1>5, <2>2 DEF Leaves
  <2> QED
    BY <1>2, <2>1, <2>8, <2>9, MoveKeeps
<1>8. CASE LearnFromTask(t, ok)
  <2> DEFINE lessons == {Episode} \cup SuccessfulCommands(t)
  <2>1. Moves(t, "learn", "completed", "done", FALSE, ok) /\ pc[t] = "learn"
    BY <1>3, <1>4, <1>8 DEF LearnFromTask, Moves
  <2>2. PICK l \in SUBSET lessons : learnt' = [learnt EXCEPT ![t] = l]
    BY <1>8 DEF LearnFromTask
  <2>3. \A c \in lessons \ {Episode} :
          c \in Cmds /\ \E r \in RunsOf(t) : r.cmd = c /\ r.status = "passed"
    BY DEF SuccessfulCommands, Latest
  <2>4. /\ learnt'[t] = l /\ \A u \in Tasks \ {t} : learnt'[u] = learnt[u]
        /\ learnt' \in [Tasks -> SUBSET ({Episode} \cup Cmds)]
    BY <1>5, <2>2, <2>3
  <2>5. UNCHANGED <<specs, snapped>>
    BY <1>8 DEF LearnFromTask
  <2>6. \A c \in learnt'[t] \ {Episode} : \E r \in RunsOf(t) : r.cmd = c /\ r.status = "passed"
    BY <2>3, <2>4
  <2>8. Fits(t, "learn", "completed", "done", ok)
    BY <1>2, <1>3, <2>1 DEF Fits, States, Open
  <2>9. Leaves(t, "completed", "done")
    BY <1>5, <2>2, <2>3, <2>4, <2>5, <2>6 DEF Leaves
  <2> QED
    BY <1>2, <2>1, <2>8, <2>9, MoveKeeps
<1>9. CASE FailTask(t, ok)
  <2> DEFINE row == IF ~ok THEN "running"
                    ELSE IF outcome[t] = "canceled" THEN "cancelled" ELSE "failed"
  <2>1. Moves(t, "fail", row, "done", Dead(t), ok) /\ pc[t] = "fail"
    BY <1>3, <1>9 DEF FailTask, Moves
  <2>3. UNCHANGED <<specs, snapped, learnt>> /\ learnt[t] = {} /\ report[t] = {}
    BY <1>3, <1>9, <2>1 DEF FailTask
  <2>8. Fits(t, "fail", row, "done", ok)
    BY <1>2, <1>3, <2>1 DEF Fits, States, Open
  <2>9. Leaves(t, row, "done")
    BY <1>5, <2>3 DEF Leaves
  <2> HIDE DEF row
  <2> QED
    BY <1>2, <2>1, <2>8, <2>9, MoveKeeps
<1> QED
  BY <1>1, <1>6, <1>7, <1>8, <1>9

LEMMA CancelKeeps == ASSUME IInv, NEW t \in Tasks, Cancel(t) PROVE IInv'
<1> USE DEF IInv, files, rows, begun
<1>1. dead' = dead \cup {t} /\ UNCHANGED <<validation, faults, files, rows, begun, pc, outcome, report>>
  BY DEF Cancel
<1>2. TypeOK'
  BY <1>1 DEF TypeOK, ValidationTypeOK, validation
<1>3. \A u \in Tasks : Cut(u) => Cut(u)'
  BY <1>1 DEF Cut, Dead
<1>4. PlaceTrue' /\ OpenTrue'
  BY <1>1, <1>3 DEF PlaceTrue, Place, OpenTrue, LeftOpen, validation
<1>5. LessonsTrue'
  BY <1>1, LessonsKept DEF validation
<1>6. faults' \in Nat /\ faults <= faults'
  BY <1>1 DEF TypeOK, ValidationTypeOK
<1> QED
  BY <1>1, <1>2, <1>3, <1>4, <1>5, <1>6, RowsOnly

\* Edits touch the tree and its history only.
LEMMA EditsKeep ==
  ASSUME IInv, (\E t \in Tasks, x \in Trees : Edit(t, x)) \/ \E x \in Trees : EditUnrecorded(x)
  PROVE  IInv'
<1> USE DEF IInv, rows, begun
<1>1. /\ UNCHANGED <<validation, faults, rows, begun, pc, outcome, dead, report>>
      /\ tree' \in Trees /\ recorded' \in [Sessions -> Trees \cup {None}]
      /\ edited' \subseteq Tasks /\ foreign' \in BOOLEAN
  <2>1. ASSUME NEW t \in Tasks, NEW x \in Trees, Edit(t, x)
        PROVE  /\ UNCHANGED <<validation, faults, rows, begun, pc, outcome, dead, report>>
               /\ tree' \in Trees /\ recorded' \in [Sessions -> Trees \cup {None}]
               /\ edited' \subseteq Tasks /\ foreign' \in BOOLEAN
    BY <2>1 DEF Edit, TypeOK
  <2>2. ASSUME NEW x \in Trees, EditUnrecorded(x)
        PROVE  /\ UNCHANGED <<validation, faults, rows, begun, pc, outcome, dead, report>>
               /\ tree' \in Trees /\ recorded' \in [Sessions -> Trees \cup {None}]
               /\ edited' \subseteq Tasks /\ foreign' \in BOOLEAN
    BY <2>2 DEF EditUnrecorded, TypeOK
  <2> QED
    BY <2>1, <2>2
<1>2. newest' \subseteq Sessions
  <2>1. CASE \E x \in Trees : EditUnrecorded(x)
    BY <2>1 DEF EditUnrecorded, TypeOK
  <2>2. ASSUME NEW t \in Tasks, NEW x \in Trees, Edit(t, x) PROVE newest' \subseteq Sessions
    <3>1. sess[t] \in Sessions
      BY <2>2 DEF Edit, PlaceTrue, Place, TypeOK
    <3>2. newest' = {sess[t]} \/ newest' = newest \cup {sess[t]}
      BY <2>2 DEF Edit
    <3> QED
      BY <3>1, <3>2 DEF TypeOK
  <2> QED
    BY <2>1, <2>2
<1>3. TypeOK'
  BY <1>1, <1>2 DEF TypeOK, ValidationTypeOK, validation
<1>4. \A u \in Tasks : Cut(u) => Cut(u)'
  BY <1>1 DEF Cut, Dead
<1>5. PlaceTrue' /\ OpenTrue'
  BY <1>1, <1>4 DEF PlaceTrue, Place, OpenTrue, LeftOpen, validation
<1>6. LessonsTrue'
  BY <1>1, LessonsKept DEF validation
<1>7. faults' \in Nat /\ faults <= faults'
  BY <1>1 DEF TypeOK, ValidationTypeOK
<1> QED
  BY <1>1, <1>3, <1>4, <1>5, <1>6, <1>7, RowsOnly

LEMMA EndWorkKeeps ==
  ASSUME IInv, NEW t \in Tasks, NEW end \in {"none", "error", "canceled"}, EndWork(t, end)
  PROVE  IInv'
<1> USE DEF IInv, files, rows, begun
<1> DEFINE to == IF pc[t] = "untracked" THEN "done" ELSE IF end = "none" THEN "plan" ELSE "fail"
<1>1. /\ pc[t] \in {"work", "untracked"}
      /\ pc' = [pc EXCEPT ![t] = to] /\ outcome' = [outcome EXCEPT ![t] = end]
      /\ UNCHANGED <<validation, faults, files, rows, begun, dead, report>>
  BY DEF EndWork, Working
<1>2. TypeOK'
  <2>1. pc' \in [Tasks -> States] /\ outcome' \in [Tasks -> {"none", "error", "canceled"}]
    BY <1>1 DEF TypeOK, States
  <2> QED
    BY <1>1, <2>1 DEF TypeOK, ValidationTypeOK, validation
<1>3. faults' \in Nat /\ faults <= faults'
  BY <1>1 DEF TypeOK, ValidationTypeOK
<1>4. \A u \in Tasks : Cut(u) => Cut(u)'
  BY <1>1 DEF Cut, Dead
<1>5. Place(t)' /\ (LeftOpen(t)' => LeftOpen(t))
  BY <1>1 DEF PlaceTrue, Place, LeftOpen, TypeOK, validation
<1>6. \A u \in Tasks \ {t} : Place(u)' /\ (LeftOpen(u)' => Cut(u)')
  BY <1>1, <1>4, OthersStay DEF TypeOK, validation
<1>7. PlaceTrue' /\ OpenTrue'
  BY <1>4, <1>5, <1>6 DEF PlaceTrue, OpenTrue
<1>8. LessonsTrue'
  BY <1>1, LessonsKept DEF validation
<1> QED
  BY <1>1, <1>2, <1>3, <1>4, <1>7, <1>8, RowsOnly

LEMMA SkipValidationKeeps == ASSUME IInv, NEW t \in Tasks, SkipValidation(t) PROVE IInv'
<1> USE DEF IInv, files, rows, begun
<1>1. /\ pc[t] = "plan" /\ pc' = [pc EXCEPT ![t] = "finish"]
      /\ UNCHANGED <<validation, faults, files, rows, begun, outcome, dead, report>>
  BY DEF SkipValidation, Goto
<1>2. TypeOK'
  <2>1. pc' \in [Tasks -> States]
    BY <1>1 DEF TypeOK, States
  <2> QED
    BY <1>1, <2>1 DEF TypeOK, ValidationTypeOK, validation
<1>3. faults' \in Nat /\ faults <= faults'
  BY <1>1 DEF TypeOK, ValidationTypeOK
<1>4. \A u \in Tasks : Cut(u) => Cut(u)'
  BY <1>1 DEF Cut, Dead
<1>5. Place(t)' /\ ~LeftOpen(t)'
  BY <1>1 DEF PlaceTrue, Place, LeftOpen, TypeOK, validation
<1>6. \A u \in Tasks \ {t} : Place(u)' /\ (LeftOpen(u)' => Cut(u)')
  BY <1>1, <1>4, OthersStay DEF TypeOK, validation
<1>7. PlaceTrue' /\ OpenTrue'
  BY <1>5, <1>6 DEF PlaceTrue, OpenTrue
<1>8. LessonsTrue'
  BY <1>1, LessonsKept DEF validation
<1> QED
  BY <1>1, <1>2, <1>3, <1>4, <1>7, <1>8, RowsOnly
------------------------------------------------------------------------------
\* The next moment is later than any run, made or being made.
LEMMA NowIsLater ==
  ASSUME IInv
  PROVE  /\ Now \in Nat
         /\ \A r \in runs : r.at < Now
         /\ \A t \in Tasks : intent[t].at < Now
<1> DEFINE S == {0} \cup {r.at : r \in runs} \cup {intent[t].at : t \in Tasks}
<1>1. PICK b \in Nat : (\A r \in runs : r.at <= b) /\ \A t \in Tasks : intent[t].at <= b
  BY DEF IInv, Bounded
<1>2. (\A r \in runs : r.at \in Nat) /\ \A t \in Tasks : intent[t].at \in Nat
  BY DEF IInv, TypeOK, ValidationTypeOK, Run, Intent
<1>3. S \in SUBSET Nat /\ S # {} /\ \A x \in S : x <= b
  BY <1>1, <1>2
<1>4. (\A r \in runs : r.at \in S) /\ \A t \in Tasks : intent[t].at \in S
  OBVIOUS
<1> HIDE DEF S
<1>5. Max(S) \in S /\ \A y \in S : Max(S) >= y
  BY <1>1, <1>3, MaxExists
<1>6. Max(S) \in Nat
  BY <1>3, <1>5
<1>7. Now = 1 + Max(S)
  BY DEF Now, S
<1> QED
  BY <1>2, <1>4, <1>5, <1>6, <1>7

\* What a turn's step in RunIntent may be without breaking what holds of runs
\* and evidence.
Sound(t, i) ==
  /\ i.step = "attach" => \E r \in runs : r.at = i.at
  /\ i.step \in {"cache", "run", "record"} => i.crit = 1
  /\ i.step = "record" => i.status # "none"
  /\ i.step \in {"run", "record"} =>
       /\ \A r \in runs : r.at # i.at
       /\ \A u \in Tasks \ {t} : Pending(u) => intent[u].at # i.at

\* A step that adds no row, unless it leaves evidence half written.
LEMMA IntentMoves ==
  ASSUME IInv, NEW t \in Tasks, NEW i \in Intent, intent' = [intent EXCEPT ![t] = i],
         UNCHANGED <<runs, evidence>>, intent[t].step # "attach", Sound(t, i),
         \A u \in Tasks : Cut(u) => Cut(u)'
  PROVE  Bounded' /\ RunsTrue' /\ EvidenceTrue' /\ FailuresCount'
<1> USE DEF IInv
<1>1. intent'[t] = i /\ \A u \in Tasks \ {t} : intent'[u] = intent[u]
  BY DEF TypeOK, ValidationTypeOK
<1>2. Bounded'
  <2>1. PICK b \in Nat : (\A r \in runs : r.at <= b) /\ \A u \in Tasks : intent[u].at <= b
    BY DEF Bounded
  <2>2. (\A r \in runs : r.at \in Nat) /\ \A u \in Tasks : intent[u].at \in Nat
    BY DEF TypeOK, ValidationTypeOK, Run, Intent
  <2>3. i.at \in Nat
    BY DEF Intent
  <2>4. b + i.at \in Nat /\ \A r \in runs : r.at <= b + i.at
    BY <2>1, <2>2, <2>3
  <2>5. \A u \in Tasks : intent'[u].at <= b + i.at
    BY <1>1, <2>1, <2>2, <2>3
  <2> QED
    BY <2>4, <2>5 DEF Bounded
<1>3. RunsTrue'
  <2>1. \A r, q \in runs : r.at = q.at => r = q
    BY DEF RunsTrue
  <2>2. ASSUME NEW u \in Tasks, Pending(u)'
        PROVE  /\ \A r \in runs : r.at # intent'[u].at
               /\ \A v \in Tasks : Pending(v)' /\ intent'[v].at = intent'[u].at => v = u
    <3>1. CASE u = t
      BY <1>1, <2>2, <3>1 DEF Sound, Pending
    <3>2. CASE u # t
      BY <1>1, <2>2, <3>2 DEF Sound, Pending, RunsTrue
    <3> QED
      BY <3>1, <3>2
  <2> QED
    BY <2>1, <2>2 DEF RunsTrue
<1>4. EvidenceTrue'
  <2>1. \A e \in evidence : \E r \in runs : r.at = e.run
    BY DEF EvidenceTrue
  <2>2. ASSUME NEW u \in Tasks
        PROVE  /\ intent'[u].step = "attach" => \E r \in runs : r.at = intent'[u].at
               /\ intent'[u].step \in {"cache", "run", "record"} => intent'[u].crit = 1
               /\ intent'[u].step = "record" => intent'[u].status # "none"
    <3>1. CASE u = t
      BY <1>1, <3>1 DEF Sound
    <3>2. CASE u # t
      BY <1>1, <3>2 DEF EvidenceTrue, At
    <3> QED
      BY <3>1, <3>2
  <2> QED
    BY <2>1, <2>2 DEF EvidenceTrue, At
<1>5. FailuresCount'
  <2> SUFFICES ASSUME NEW u \in Tasks, NEW r \in FailedRun(u), ~Cut(u)', NEW c \in Criteria
               PROVE  Against(u, r, c) \/ (Attaching(r)' /\ c >= intent'[u].crit)
    BY DEF FailuresCount, FailedRun, RunsOf, Against
  <2>1. r.task = u
    BY DEF FailedRun, RunsOf
  <2>2. Against(u, r, c) \/ (Attaching(r) /\ c >= intent[u].crit)
    BY DEF FailuresCount
  <2> QED
    BY <1>1, <2>1, <2>2 DEF Attaching, At
<1> QED
  BY <1>2, <1>3, <1>4, <1>5

\* A step of RunIntent, whatever rows it adds, leaves the task alone.
LEMMA TaskWaits ==
  ASSUME IInv, NEW t \in Tasks, pc[t] = "validate", NEW i \in Intent, i.step # "idle",
         intent' = [intent EXCEPT ![t] = i],
         runs' \subseteq Run, evidence' \subseteq Evidence, runs \subseteq runs',
         faults' \in 0 .. MaxFaults, faults <= faults',
         UNCHANGED <<files, rows, begun, pc, outcome, dead, report>>
  PROVE  /\ TypeOK' /\ PlaceTrue' /\ OpenTrue' /\ LessonsTrue'
         /\ \A u \in Tasks : Cut(u) => Cut(u)'
<1> USE DEF IInv
<1>1. TypeOK'
  BY DEF TypeOK, ValidationTypeOK, files, rows, begun
<1>2. \A u \in Tasks : Cut(u) => Cut(u)'
  BY CutStays
<1>3. intent'[t] = i /\ \A u \in Tasks \ {t} : intent'[u] = intent[u]
  BY DEF TypeOK, ValidationTypeOK
<1>4. PlaceTrue'
  BY <1>3 DEF PlaceTrue, Place, rows, begun
<1>5. OpenTrue'
  BY <1>2 DEF OpenTrue, LeftOpen, rows, begun
<1>6. LessonsTrue'
  BY LessonsKept DEF rows
<1> QED
  BY <1>1, <1>2, <1>4, <1>5, <1>6

\* The report of a turn that still validates is empty.
LEMMA ReportWaits ==
  ASSUME IInv, NEW t \in Tasks, pc[t] = "validate", faults' \in Nat, faults <= faults',
         UNCHANGED report, \A u \in Tasks \ {t} : RunsOf(u)' = RunsOf(u)
  PROVE  ReportIsTrue'
<1>1. report[t] = {}
  BY DEF IInv, PlaceTrue, Place
<1> QED
  BY <1>1 DEF IInv, ReportIsTrue, FailedRun, TypeOK, ValidationTypeOK

\* Where the loop over the plan goes next.
LEMMA NextIntentFacts ==
  ASSUME IInv, NEW t \in Tasks, NextIntent(t)
  PROVE  \E i \in Intent : /\ intent' = [intent EXCEPT ![t] = i]
                           /\ i.step \in {"cache", "over"} /\ i.at = intent[t].at
                           /\ i.step = "cache" => i.crit = 1
<1>1. intent[t] \in Intent
  BY DEF IInv, TypeOK, ValidationTypeOK
<1>2. CASE intent[t].cmd < NumCmds
  <2> DEFINE i == [intent[t] EXCEPT !.step = "cache", !.cmd = @ + 1, !.crit = 1, !.status = "none"]
  <2>1. intent[t].cmd + 1 \in Cmds /\ 1 \in Criteria
    BY <1>1, <1>2, ValidationAssumption DEF Intent, Cmds, Criteria
  <2>2. i \in Intent /\ i.step = "cache" /\ i.at = intent[t].at /\ i.crit = 1
    BY <1>1, <2>1 DEF Intent, Steps
  <2>3. intent' = [intent EXCEPT ![t] = i]
    BY <1>2 DEF NextIntent, Set
  <2> QED
    BY <2>2, <2>3
<1>3. CASE ~(intent[t].cmd < NumCmds)
  <2> DEFINE i == [intent[t] EXCEPT !.step = "over"]
  <2>1. i \in Intent /\ i.step = "over" /\ i.at = intent[t].at
    BY <1>1 DEF Intent, Steps
  <2>2. intent' = [intent EXCEPT ![t] = i]
    BY <1>3 DEF NextIntent, Set
  <2> QED
    BY <2>1, <2>2
<1> QED
  BY <1>2, <1>3

\* A step of RunIntent that adds no row.
LEMMA QuietStep ==
  ASSUME IInv, NEW t \in Tasks, pc[t] = "validate", intent[t].step # "attach",
         NEW i \in Intent, i.step # "idle", intent' = [intent EXCEPT ![t] = i], Sound(t, i),
         faults' \in 0 .. MaxFaults, faults <= faults',
         UNCHANGED <<runs, evidence, files, rows, begun, pc, outcome, dead, report>>
  PROVE  IInv'
<1>1. /\ TypeOK' /\ PlaceTrue' /\ OpenTrue' /\ LessonsTrue'
      /\ \A u \in Tasks : Cut(u) => Cut(u)'
  BY TaskWaits DEF IInv, TypeOK, ValidationTypeOK
<1>2. Bounded' /\ RunsTrue' /\ EvidenceTrue' /\ FailuresCount'
  BY <1>1, IntentMoves
<1>3. ReportIsTrue'
  BY ReportWaits DEF RunsOf
<1> QED
  BY <1>1, <1>2, <1>3 DEF IInv

LEMMA LookUpKeeps ==
  ASSUME IInv, NEW t \in Tasks, pc[t] = "validate", NEW ok \in BOOLEAN, LookUp(t, Dead(t), ok),
         UNCHANGED <<files, rows, begun, pc, outcome, dead, report>>
  PROVE  IInv'
<1>1. /\ intent[t].step = "cache" /\ Call(Dead(t), ok) /\ UNCHANGED <<runs, evidence>>
      /\ intent[t] \in Intent /\ intent[t].crit = 1 /\ Dead(t) \in BOOLEAN
  BY DEF LookUp, At, IInv, TypeOK, ValidationTypeOK, EvidenceTrue, Dead
<1>2. faults' \in 0 .. MaxFaults /\ faults <= faults'
  BY <1>1, CallFacts DEF IInv, TypeOK, ValidationTypeOK
<1>3. CASE NextIntent(t)
  <2>1. PICK i \in Intent : /\ intent' = [intent EXCEPT ![t] = i]
                            /\ i.step \in {"cache", "over"} /\ (i.step = "cache" => i.crit = 1)
    BY <1>3, NextIntentFacts
  <2> QED
    BY <1>1, <1>2, <2>1, QuietStep DEF Sound
<1>4. ASSUME NEW r \in CachedPass(intent[t].cmd, intent[t].key),
             Set(t, [intent[t] EXCEPT !.step = "attach", !.at = r.at, !.status = "passed"])
      PROVE  IInv'
  <2> DEFINE i == [intent[t] EXCEPT !.step = "attach", !.at = r.at, !.status = "passed"]
  <2>1. r \in runs /\ r.at \in Nat
    BY DEF CachedPass, Latest, IInv, TypeOK, ValidationTypeOK, Run
  <2>2. i \in Intent /\ i.step = "attach" /\ i.at = r.at
    BY <1>1, <2>1 DEF Intent, Steps
  <2>3. intent' = [intent EXCEPT ![t] = i]
    BY <1>4 DEF Set
  <2> HIDE DEF i
  <2>4. Sound(t, i)
    BY <2>1, <2>2 DEF Sound
  <2> QED
    BY <1>1, <1>2, <2>2, <2>3, <2>4, QuietStep
<1>5. CASE Set(t, [intent[t] EXCEPT !.step = "run", !.at = Now])
  <2> DEFINE i == [intent[t] EXCEPT !.step = "run", !.at = Now]
  <2>1. i \in Intent /\ i.step = "run" /\ i.at = Now /\ i.crit = 1
    BY <1>1, NowIsLater DEF Intent, Steps
  <2>2. intent' = [intent EXCEPT ![t] = i]
    BY <1>5 DEF Set
  <2>3. (\A r \in runs : r.at \in Nat) /\ \A u \in Tasks : intent[u].at \in Nat
    BY DEF IInv, TypeOK, ValidationTypeOK, Run, Intent
  <2>4. (\A r \in runs : r.at # Now) /\ \A u \in Tasks : intent[u].at # Now
    BY <2>3, NowIsLater
  <2> HIDE DEF i
  <2>5. Sound(t, i)
    BY <2>1, <2>4 DEF Sound
  <2> QED
    BY <1>1, <1>2, <2>1, <2>2, <2>5, QuietStep
<1> QED
  BY <1>3, <1>4, <1>5 DEF LookUp

LEMMA RunCommandKeeps ==
  ASSUME IInv, NEW t \in Tasks, pc[t] = "validate", NEW status1 \in {"passed", "failed", "skipped"},
         RunCommand(t, Dead(t), status1),
         UNCHANGED <<files, rows, begun, pc, outcome, dead, report>>
  PROVE  IInv'
<1> DEFINE i == [intent[t] EXCEPT !.step = "record", !.status = status1]
<1>1. /\ intent[t].step = "run" /\ intent[t] \in Intent /\ intent[t].crit = 1
      /\ intent' = [intent EXCEPT ![t] = i] /\ UNCHANGED <<runs, evidence, faults>>
  BY DEF RunCommand, Set, At, IInv, TypeOK, ValidationTypeOK, EvidenceTrue
<1>2. i \in Intent /\ i.step = "record" /\ i.at = intent[t].at /\ i.crit = 1 /\ i.status # "none"
  BY <1>1 DEF Intent, Steps
<1> HIDE DEF i
<1>3. faults' \in 0 .. MaxFaults /\ faults <= faults'
  BY <1>1 DEF IInv, TypeOK, ValidationTypeOK
<1>4. Sound(t, i)
  BY <1>1, <1>2 DEF Sound, IInv, RunsTrue, Pending
<1> QED
  BY <1>1, <1>2, <1>3, <1>4, QuietStep

\* The run is recorded, and its evidence is to follow if it ran at all.
LEMMA RecordKeeps ==
  ASSUME IInv, NEW t \in Tasks, pc[t] = "validate", NEW ok \in BOOLEAN, Record(t, tree, ok),
         UNCHANGED <<files, rows, begun, pc, outcome, dead, report>>
  PROVE  IInv'
<1>1. /\ intent[t].step = "record" /\ intent[t] \in Intent /\ intent[t].crit = 1
      /\ Call(FALSE, ok) /\ UNCHANGED evidence
  BY DEF Record, At, IInv, TypeOK, ValidationTypeOK, EvidenceTrue
<1>2. faults' \in 0 .. MaxFaults /\ faults <= faults'
  BY <1>1, CallFacts DEF IInv, TypeOK, ValidationTypeOK
<1>3. CASE ~ok
  <2>1. PICK i \in Intent : /\ intent' = [intent EXCEPT ![t] = i]
                            /\ i.step \in {"cache", "over"} /\ (i.step = "cache" => i.crit = 1)
    BY <1>3, NextIntentFacts DEF Record
  <2>2. UNCHANGED <<runs, evidence>>
    BY <1>1, <1>3 DEF Record
  <2> QED
    BY <1>1, <1>2, <2>1, <2>2, QuietStep DEF Sound
<1>4. CASE ok
  <2> DEFINE new == RunRow(t, tree)
  <2>1. runs' = runs \cup {new}
    BY <1>4 DEF Record
  <2>2. PICK i \in Intent :
          /\ intent' = [intent EXCEPT ![t] = i] /\ i.at = intent[t].at
          /\ \/ i.step = "attach" /\ i.crit = 1
             \/ i.step \in {"cache", "over"} /\ intent[t].status = "skipped"
          /\ i.step = "cache" => i.crit = 1
    <3>1. CASE intent[t].status # "skipped"
      <4> DEFINE i == [intent[t] EXCEPT !.step = "attach"]
      <4>1. i \in Intent /\ i.step = "attach" /\ i.at = intent[t].at /\ i.crit = 1
        BY <1>1 DEF Intent, Steps
      <4>2. intent' = [intent EXCEPT ![t] = i]
        BY <1>4, <3>1 DEF Record, Set
      <4> QED
        BY <4>1, <4>2
    <3>2. CASE intent[t].status = "skipped"
      <4>1. NextIntent(t)
        BY <1>4, <3>2 DEF Record
      <4> QED
        BY <3>2, <4>1, NextIntentFacts
    <3> QED
      BY <3>1, <3>2
  <2>3. intent'[t] = i /\ \A u \in Tasks \ {t} : intent'[u] = intent[u]
    BY <2>2 DEF IInv, TypeOK, ValidationTypeOK
  <2>4. new.task = t /\ new.at = intent[t].at /\ new.status = intent[t].status
    BY DEF RunRow
  <2>5. \A r \in runs : r.at # new.at
    BY <1>1, <2>4 DEF IInv, RunsTrue, Pending
  <2>6. \A u \in Tasks \ {t} : Pending(u) => intent[u].at # new.at
    BY <1>1, <2>4 DEF IInv, RunsTrue, Pending
  <2>7. new.at \in Nat
    BY <1>1, <2>4 DEF Intent
  <2>8. new \in Run /\ new.at \in Nat
    BY <1>1 DEF IInv, TypeOK, EvidenceTrue, At, Intent, Run, RunRow
  <2> HIDE DEF new
  <2>9. /\ TypeOK' /\ PlaceTrue' /\ OpenTrue' /\ LessonsTrue'
        /\ \A u \in Tasks : Cut(u) => Cut(u)'
    <3>1. runs' \subseteq Run /\ evidence' \subseteq Evidence /\ runs \subseteq runs' /\ i.step # "idle"
      BY <1>1, <2>1, <2>2, <2>8 DEF IInv, TypeOK, ValidationTypeOK
    <3> QED
      BY <1>2, <2>2, <3>1, TaskWaits
  <2>10. Bounded'
    <3>1. PICK b \in Nat : (\A r \in runs : r.at <= b) /\ \A u \in Tasks : intent[u].at <= b
      BY DEF IInv, Bounded
    <3>2. \A u \in Tasks : intent'[u].at <= b
      BY <2>2, <2>3, <3>1
    <3>3. \A r \in runs' : r.at <= b
      BY <2>1, <2>4, <3>1
    <3> QED
      BY <3>2, <3>3 DEF Bounded
  <2>11. RunsTrue'
    <3>1. ASSUME NEW r \in runs', NEW q \in runs', r.at = q.at PROVE r = q
      BY <2>1, <2>5, <3>1 DEF IInv, RunsTrue
    <3>2. ASSUME NEW u \in Tasks, Pending(u)'
          PROVE  /\ u # t
                 /\ \A r \in runs' : r.at # intent'[u].at
                 /\ \A v \in Tasks : Pending(v)' /\ intent'[v].at = intent'[u].at => v = u
      <4>1. u # t /\ Pending(u)
        BY <2>2, <2>3, <3>2 DEF Pending
      <4>2. \A r \in runs' : r.at # intent'[u].at
        BY <2>1, <2>3, <2>6, <4>1 DEF IInv, RunsTrue
      <4>3. \A v \in Tasks : Pending(v)' => v # t /\ Pending(v)
        BY <2>2, <2>3 DEF Pending
      <4> QED
        BY <2>3, <4>1, <4>2, <4>3 DEF IInv, RunsTrue
    <3> QED
      BY <3>1, <3>2 DEF RunsTrue
  <2>12. EvidenceTrue'
    <3>1. \A e \in evidence : \E r \in runs' : r.at = e.run
      BY <2>1 DEF IInv, EvidenceTrue
    <3>2. ASSUME NEW u \in Tasks
          PROVE  /\ intent'[u].step = "attach" => \E r \in runs' : r.at = intent'[u].at
                 /\ intent'[u].step \in {"cache", "run", "record"} => intent'[u].crit = 1
                 /\ intent'[u].step = "record" => intent'[u].status # "none"
      <4>1. CASE u = t
        BY <2>1, <2>2, <2>3, <2>4, <4>1
      <4>2. CASE u # t
        BY <2>1, <2>3, <4>2 DEF IInv, EvidenceTrue, At
      <4> QED
        BY <4>1, <4>2
    <3> QED
      BY <1>1, <3>1, <3>2 DEF EvidenceTrue, At
  <2>13. FailuresCount'
    <3> SUFFICES ASSUME NEW u \in Tasks, NEW r \in FailedRun(u)', ~Cut(u)', NEW c \in Criteria
                 PROVE  Against(u, r, c) \/ (Attaching(r)' /\ c >= intent'[u].crit)
      BY <1>1 DEF FailuresCount, Against
    <3>1. r \in runs' /\ r.task = u /\ r.status = "failed"
      BY DEF FailedRun, RunsOf
    <3>2. CASE r = new
      <4>1. intent'[t].step = "attach" /\ intent'[t].crit = 1
        BY <2>2, <2>3, <2>4, <3>1, <3>2
      <4>2. c >= 1
        BY DEF Criteria
      <4> QED
        BY <2>2, <2>3, <2>4, <3>1, <3>2, <4>1, <4>2 DEF Attaching, At
    <3>3. CASE r # new
      <4>1. r \in FailedRun(u) /\ ~Cut(u)
        BY <2>1, <2>9, <3>1, <3>3 DEF FailedRun, RunsOf
      <4>2. Against(u, r, c) \/ (Attaching(r) /\ c >= intent[u].crit)
        BY <4>1 DEF IInv, FailuresCount
      <4>3. CASE u = t
        BY <1>1, <3>1, <4>2, <4>3 DEF Attaching, At
      <4>4. CASE u # t
        BY <2>3, <3>1, <4>2, <4>4 DEF Attaching, At
      <4> QED
        BY <4>3, <4>4
    <3> QED
      BY <3>2, <3>3
  <2>14. ReportIsTrue'
    <3>1. \A u \in Tasks \ {t} : RunsOf(u)' = RunsOf(u)
      BY <2>1, <2>4 DEF RunsOf
    <3> QED
      BY <1>2, <3>1, ReportWaits
  <2> QED
    BY <2>9, <2>10, <2>11, <2>12, <2>13, <2>14 DEF IInv
<1> QED
  BY <1>3, <1>4

\* One more criterion has its evidence, or the loop over the plan goes on.
LEMMA AttachKeeps ==
  ASSUME IInv, NEW t \in Tasks, pc[t] = "validate", NEW ok \in BOOLEAN, Attach(t, Dead(t), ok),
         UNCHANGED <<files, rows, begun, pc, outcome, dead, report>>
  PROVE  IInv'
<1>1. /\ intent[t].step = "attach" /\ intent[t] \in Intent
      /\ Call(Dead(t), ok) /\ runs' = runs /\ Dead(t) \in BOOLEAN
      /\ evidence' = IF ok THEN evidence \cup {EvidenceRow(t)} ELSE evidence
  BY DEF Attach, At, IInv, TypeOK, ValidationTypeOK, Dead
<1>2. faults' \in 0 .. MaxFaults /\ faults <= faults' /\ (~ok => Dead(t) \/ faults' > 0)
  BY <1>1, CallFacts DEF IInv, TypeOK, ValidationTypeOK
<1>3. PICK i \in Intent :
        /\ intent' = [intent EXCEPT ![t] = i] /\ i.at = intent[t].at
        /\ \/ /\ ok /\ intent[t].crit < NumCriteria
              /\ i.step = "attach" /\ i.crit = intent[t].crit + 1
           \/ /\ i.step \in {"cache", "over"} /\ (i.step = "cache" => i.crit = 1)
              /\ ~ok \/ ~(intent[t].crit < NumCriteria)
  <2>1. CASE ok /\ intent[t].crit < NumCriteria
    <3> DEFINE i == [intent[t] EXCEPT !.crit = @ + 1]
    <3>1. intent[t].crit + 1 \in Criteria
      BY <1>1, <2>1, ValidationAssumption DEF Intent, Criteria
    <3>2. i \in Intent /\ i.step = "attach" /\ i.at = intent[t].at /\ i.crit = intent[t].crit + 1
      BY <1>1, <3>1 DEF Intent
    <3>3. intent' = [intent EXCEPT ![t] = i]
      BY <2>1 DEF Attach, Set
    <3> QED
      BY <2>1, <3>2, <3>3
  <2>2. CASE ~(ok /\ intent[t].crit < NumCriteria)
    <3>1. NextIntent(t)
      BY <2>2 DEF Attach
    <3> QED
      BY <2>2, <3>1, NextIntentFacts
  <2> QED
    BY <2>1, <2>2
<1>4. intent'[t] = i /\ \A u \in Tasks \ {t} : intent'[u] = intent[u]
  BY <1>3 DEF IInv, TypeOK, ValidationTypeOK
<1>5. EvidenceRow(t) \in Evidence
  BY <1>1 DEF EvidenceRow, Evidence, Intent
<1>6. /\ TypeOK' /\ PlaceTrue' /\ OpenTrue' /\ LessonsTrue'
      /\ \A u \in Tasks : Cut(u) => Cut(u)'
  <2>1. runs' \subseteq Run /\ evidence' \subseteq Evidence /\ runs \subseteq runs' /\ i.step # "idle"
    BY <1>1, <1>3, <1>5 DEF IInv, TypeOK, ValidationTypeOK
  <2> QED
    BY <1>2, <1>3, <2>1, TaskWaits
<1>7. ~ok => Cut(t)'
  BY <1>2 DEF Cut, Dead, begun
<1>8. Bounded'
  BY <1>1, <1>3, <1>4 DEF IInv, Bounded
<1>9. RunsTrue'
  <2>1. \A u \in Tasks : Pending(u)' => u # t /\ Pending(u)
    BY <1>3, <1>4 DEF Pending
  <2> QED
    BY <1>1, <1>4, <2>1 DEF IInv, RunsTrue
<1>10. EvidenceTrue'
  <2>1. PICK r \in runs : r.at = intent[t].at
    BY <1>1 DEF IInv, EvidenceTrue, At
  <2>2. \A e \in evidence' : \E q \in runs : q.at = e.run
    BY <1>1, <2>1 DEF IInv, EvidenceTrue, EvidenceRow
  <2>3. ASSUME NEW u \in Tasks
        PROVE  /\ intent'[u].step = "attach" => \E q \in runs : q.at = intent'[u].at
               /\ intent'[u].step \in {"cache", "run", "record"} => intent'[u].crit = 1
               /\ intent'[u].step = "record" => intent'[u].status # "none"
    <3>1. CASE u = t
      BY <1>3, <1>4, <2>1, <3>1
    <3>2. CASE u # t
      BY <1>4, <3>2 DEF IInv, EvidenceTrue, At
    <3> QED
      BY <3>1, <3>2
  <2> QED
    BY <1>1, <2>2, <2>3 DEF EvidenceTrue, At
<1>11. FailuresCount'
  <2> SUFFICES ASSUME NEW u \in Tasks, NEW r \in FailedRun(u), ~Cut(u)', NEW c \in Criteria
               PROVE  Against(u, r, c)' \/ (Attaching(r)' /\ c >= intent'[u].crit)
    BY <1>1 DEF FailuresCount, FailedRun, RunsOf
  <2>1. r.task = u /\ ~Cut(u)
    BY <1>6 DEF FailedRun, RunsOf
  <2>2. Against(u, r, c) \/ (Attaching(r) /\ c >= intent[u].crit)
    BY <2>1 DEF IInv, FailuresCount
  <2>3. Against(u, r, c) => Against(u, r, c)'
    BY <1>1 DEF Against
  <2>4. CASE u # t
    BY <1>4, <2>1, <2>2, <2>3, <2>4 DEF Attaching, At
  <2>5. CASE u = t /\ Attaching(r) /\ c >= intent[t].crit
    <3>1. ok /\ r.at = intent[t].at
      BY <1>7, <2>1, <2>5 DEF Attaching
    <3>2. CASE c = intent[t].crit
      <4>1. EvidenceRow(t) \in evidence'
        BY <1>1, <3>1
      <4> QED
        BY <2>5, <3>1, <3>2, <4>1 DEF Against, EvidenceRow
    <3>3. CASE c # intent[t].crit
      <4>1. /\ c \in Nat /\ intent[t].crit \in Nat /\ c <= NumCriteria /\ NumCriteria \in Nat
            /\ c >= intent[t].crit
        BY <1>1, <2>5, ValidationAssumption DEF Intent, Criteria
      <4>2. intent[t].crit < NumCriteria /\ c >= intent[t].crit + 1
        BY <3>3, <4>1
      <4>3. i.step = "attach" /\ i.crit = intent[t].crit + 1
        BY <1>3, <3>1, <4>2
      <4> QED
        BY <1>3, <1>4, <2>1, <2>5, <3>1, <4>2, <4>3 DEF Attaching, At
    <3> QED
      BY <3>2, <3>3
  <2> QED
    BY <2>2, <2>3, <2>4, <2>5
<1>12. ReportIsTrue'
  BY <1>1, <1>2, ReportWaits DEF RunsOf
<1> QED
  BY <1>6, <1>8, <1>9, <1>10, <1>11, <1>12 DEF IInv

\* Evidence tells the status of the one run it is of.
LEMMA OwnStatusIs ==
  ASSUME RunsTrue, NEW r \in runs, NEW e, e.task = r.task, e.run = r.at
  PROVE  OwnStatus(e) = r.status
<1>1. \A q \in RunsOf(e.task) : q.at = e.run => q = r
  BY DEF RunsTrue, RunsOf
<1>2. r \in RunsOf(e.task)
  BY DEF RunsOf
<1>3. (CHOOSE q \in RunsOf(e.task) : q.at = e.run) = r
  BY <1>1, <1>2
<1> QED
  BY <1>2, <1>3 DEF OwnStatus

\* A failing run that counts against a criterion blocks it.
LEMMA FailureBlocks ==
  ASSUME RunsTrue, NEW t \in Tasks, NEW c \in Criteria, NEW r \in FailedRun(t), Against(t, r, c)
  PROVE  ProofOfDone(t, c) = "blocked"
<1>1. PICK e \in evidence : e.task = t /\ e.crit = c /\ e.run = r.at
  BY DEF Against
<1>2. r \in runs /\ r.task = t /\ r.status = "failed"
  BY DEF FailedRun, RunsOf
<1>3. OwnStatus(e) = "failed"
  BY <1>1, <1>2, OwnStatusIs
<1> QED
  BY <1>1, <1>3 DEF ProofOfDone, DeriveState

\* A criterion is validated by a passing run of the task.
LEMMA ValidatedHasPass ==
  ASSUME NEW t \in Tasks, NEW c \in Criteria, ProofOfDone(t, c) = "validated"
  PROVE  \E r \in RunsOf(t) : r.status = "passed"
<1>1. PICK e \in evidence : e.task = t /\ e.crit = c /\ OwnStatus(e) = "passed"
  BY DEF ProofOfDone, DeriveState
<1>2. \E r \in RunsOf(t) : r.at = e.run
  BY <1>1 DEF OwnStatus
<1>3. (CHOOSE r \in RunsOf(t) : r.at = e.run) \in RunsOf(t)
  BY <1>2
<1> QED
  BY <1>1, <1>2, <1>3 DEF OwnStatus

LEMMA ValidatedMeansPassedHolds == IInv => ValidatedMeansPassed
<1> SUFFICES ASSUME IInv, NEW t \in Tasks, NEW c \in Criteria, ProofOfDone(t, c) = "validated"
             PROVE  /\ \E r \in RunsOf(t) : r.status = "passed"
                    /\ \A r \in FailedRun(t) : Attaching(r) \/ faults > 0 \/ Dead(t)
  BY DEF ValidatedMeansPassed
<1>1. \A r \in FailedRun(t) : Against(t, r, c) => FALSE
  BY FailureBlocks DEF IInv
<1>2. \A r \in FailedRun(t) : Attaching(r) \/ Cut(t)
  BY <1>1 DEF IInv, FailuresCount
<1> QED
  BY <1>2, ValidatedHasPass DEF Cut

LEMMA PlanValidationKeeps == ASSUME IInv, NEW t \in Tasks, PlanValidation(t) PROVE IInv'
<1> DEFINE i == [Idle EXCEPT !.step = "cache", !.key = Fingerprint(t)]
<1>1. /\ pc[t] = "plan" /\ pc' = [pc EXCEPT ![t] = "validate"] /\ kind[t] = "turn"
      /\ intent' = [intent EXCEPT ![t] = i] /\ UNCHANGED <<runs, evidence>>
      /\ UNCHANGED <<faults, files, rows, begun, outcome, dead, report>>
  BY DEF PlanValidation, Goto, Plan, Set
<1>2. Fingerprint(t) \in Keys
  <2>1. sess[t] \in Sessions
    BY <1>1 DEF IInv, PlaceTrue, Place, TypeOK
  <2> QED
    BY <2>1 DEF Fingerprint, LatestOf, Keys, IInv, TypeOK
<1>3. i \in Intent /\ i.step = "cache" /\ i.crit = 1 /\ i.at = 0
  <2>1. Idle \in Intent /\ Idle.crit = 1 /\ Idle.at = 0
    <3>1. 1 \in Cmds /\ 1 \in Criteria
      BY ValidationAssumption DEF Cmds, Criteria
    <3> QED
      BY <3>1 DEF Idle, Intent, Steps, Keys
  <2> QED
    BY <1>2, <2>1 DEF Intent, Steps
<1> HIDE DEF i
<1>4. intent[t].step = "idle" /\ status[t] = "running" /\ learnt[t] = {} /\ report[t] = {}
  BY <1>1 DEF IInv, PlaceTrue, Place
<1>5. intent'[t] = i /\ \A u \in Tasks \ {t} : intent'[u] = intent[u]
  BY <1>1 DEF IInv, TypeOK, ValidationTypeOK
<1>6. TypeOK'
  <2>1. pc' \in [Tasks -> States]
    BY <1>1 DEF IInv, TypeOK, States
  <2>2. intent' \in [Tasks -> Intent]
    BY <1>1, <1>3 DEF IInv, TypeOK, ValidationTypeOK
  <2> QED
    BY <1>1, <2>1, <2>2 DEF IInv, TypeOK, ValidationTypeOK, files, rows, begun
<1>7. \A u \in Tasks : Cut(u) => Cut(u)'
  BY <1>1 DEF Cut, Dead, begun
<1>8. Place(t)' /\ ~LeftOpen(t)'
  BY <1>1, <1>4 DEF IInv, PlaceTrue, Place, LeftOpen, TypeOK, rows, begun
<1>9. \A u \in Tasks \ {t} : Place(u)' /\ (LeftOpen(u)' => Cut(u)')
  BY <1>1, <1>5, <1>7, OthersStay DEF IInv, TypeOK, rows, begun
<1>10. PlaceTrue' /\ OpenTrue'
  BY <1>8, <1>9 DEF PlaceTrue, OpenTrue
<1>11. Bounded' /\ RunsTrue' /\ EvidenceTrue' /\ FailuresCount'
  <2>1. Sound(t, i)
    BY <1>3 DEF Sound
  <2> QED
    BY <1>1, <1>3, <1>4, <1>7, <2>1, IntentMoves
<1>12. ReportIsTrue' /\ LessonsTrue'
  BY <1>1, LessonsKept DEF IInv, ReportIsTrue, FailedRun, RunsOf, rows
<1> QED
  BY <1>6, <1>10, <1>11, <1>12 DEF IInv

LEMMA ReportKeeps == ASSUME IInv, NEW t \in Tasks, NEW ok \in BOOLEAN, Report(t, ok) PROVE IInv'
<1> DEFINE said == IF ok THEN {c \in Criteria : ProofOfDone(t, c) = "validated"} ELSE {}
<1>1. /\ intent[t].step = "over"
      /\ pc[t] = "validate" /\ pc' = [pc EXCEPT ![t] = "finish"]
      /\ Call(Dead(t), ok) /\ report' = [report EXCEPT ![t] = said]
      /\ intent' = [intent EXCEPT ![t] = Idle]
      /\ UNCHANGED <<runs, evidence, files, rows, begun, outcome, dead>>
  BY DEF Report, At, Goto, Set
<1>2. /\ faults' \in 0 .. MaxFaults /\ faults \in Nat /\ faults' \in Nat /\ faults <= faults'
      /\ ok => ~Dead(t)
  <2>1. faults \in 0 .. MaxFaults
    BY DEF IInv, TypeOK, ValidationTypeOK
  <2>2. Dead(t) \in BOOLEAN
    BY DEF Dead
  <2>3. faults' \in 0 .. MaxFaults /\ faults <= faults' /\ (Dead(t) => ~ok)
    BY <1>1, <2>1, <2>2, CallFacts
  <2> QED
    BY <2>1, <2>3, ValidationAssumption
<1>3. said \subseteq Criteria /\ Idle \in Intent /\ Idle.step = "idle" /\ Idle.at = 0
  BY ValidationAssumption DEF Idle, Intent, Steps, Keys, Cmds, Criteria
<1>4. said # {} /\ faults = 0 => FailedRun(t) = {}
  <2> SUFFICES ASSUME said # {}, faults = 0, NEW r \in FailedRun(t) PROVE FALSE
    OBVIOUS
  <2>1. PICK c \in Criteria : ok /\ ProofOfDone(t, c) = "validated"
    OBVIOUS
  <2>2. ~Cut(t)
    BY <1>2, <2>1 DEF Cut
  <2>3. ~Attaching(r)
    BY <1>1 DEF Attaching, At, FailedRun, RunsOf
  <2>4. Against(t, r, c)
    BY <2>2, <2>3 DEF IInv, FailuresCount
  <2> QED
    BY <2>1, <2>4, FailureBlocks DEF IInv
<1> HIDE DEF said
<1>5. status[t] = "running" /\ learnt[t] = {} /\ kind[t] # "none" /\ (kind[t] = "turn" => sess[t] # None)
  BY <1>1 DEF IInv, PlaceTrue, Place
<1>6. /\ intent'[t] = Idle /\ \A u \in Tasks \ {t} : intent'[u] = intent[u]
      /\ report'[t] = said /\ \A u \in Tasks \ {t} : report'[u] = report[u]
      /\ pc'[t] = "finish" /\ \A u \in Tasks \ {t} : pc'[u] = pc[u]
  BY <1>1 DEF IInv, TypeOK, ValidationTypeOK
<1>7. TypeOK'
  <2>1. pc' \in [Tasks -> States]
    BY <1>1 DEF IInv, TypeOK, States
  <2>2. intent' \in [Tasks -> Intent] /\ report' \in [Tasks -> SUBSET Criteria]
    BY <1>1, <1>3 DEF IInv, TypeOK, ValidationTypeOK
  <2> QED
    BY <1>1, <1>2, <2>1, <2>2 DEF IInv, TypeOK, ValidationTypeOK, files, rows, begun
<1>8. \A u \in Tasks : Cut(u) => Cut(u)'
  BY <1>1, <1>2, CutStays
<1>9. Place(t)' /\ ~LeftOpen(t)'
  BY <1>1, <1>3, <1>5, <1>6 DEF Place, LeftOpen, rows, begun
<1>10. \A u \in Tasks \ {t} : Place(u)' /\ (LeftOpen(u)' => Cut(u)')
  BY <1>1, <1>6, <1>8, OthersStay DEF rows, begun
<1>11. PlaceTrue' /\ OpenTrue'
  BY <1>9, <1>10 DEF PlaceTrue, OpenTrue
<1>12. Bounded' /\ RunsTrue' /\ EvidenceTrue' /\ FailuresCount'
  <2>1. Sound(t, Idle)
    BY <1>3 DEF Sound
  <2> QED
    BY <1>1, <1>3, <1>8, <2>1, IntentMoves
<1>13. ReportIsTrue'
  BY <1>1, <1>2, <1>4, <1>6 DEF IInv, ReportIsTrue, FailedRun, RunsOf
<1>14. LessonsTrue'
  BY <1>1, LessonsKept DEF rows
<1> QED
  BY <1>7, <1>11, <1>12, <1>13, <1>14 DEF IInv
------------------------------------------------------------------------------
LEMMA NextKeeps == IInv /\ [Next]_vars => IInv'
<1> SUFFICES ASSUME IInv, [Next]_vars PROVE IInv'
  OBVIOUS
<1>1. ASSUME NEW t \in Tasks, Validate(t) PROVE IInv'
  <2>1. pc[t] = "validate" /\ UNCHANGED <<files, rows, begun, pc, outcome, dead, report>>
    BY <1>1 DEF Validate
  <2> QED
    BY <1>1, <2>1, LookUpKeeps, RecordKeeps, AttachKeeps, RunCommandKeeps
       DEF Validate, RunIntent
<1>2. ASSUME NEW t \in Tasks, Turn(t) PROVE IInv'
  BY <1>1, <1>2, BeginKeeps, EndWorkKeeps, PlanValidationKeeps, SkipValidationKeeps, ReportKeeps,
     CloseKeeps DEF Turn
<1>3. ASSUME NEW t \in Tasks, NEW k \in Kinds, NEW s \in Sessions \cup {None},
             NEW p \in Tasks \cup {None}, BeginTask(t, k, s, p)
      PROVE  IInv'
  BY <1>3, BeginTaskKeeps
<1>4. CASE UNCHANGED vars
  <2>1. UNCHANGED <<validation, faults, files, rows, begun, pc, outcome, dead, report>>
    BY <1>4 DEF vars
  <2>2. faults' \in Nat /\ faults <= faults'
    BY <2>1 DEF IInv, TypeOK, ValidationTypeOK
  <2>3. \A u \in Tasks : Cut(u) => Cut(u)'
    BY <2>1 DEF Cut, Dead, begun
  <2>4. TypeOK' /\ PlaceTrue' /\ OpenTrue' /\ LessonsTrue'
    BY <2>1 DEF IInv, TypeOK, ValidationTypeOK, PlaceTrue, Place, OpenTrue, LeftOpen, LessonsTrue,
                RunsOf, Cut, Dead, validation, files, rows, begun
  <2> QED
    BY <2>1, <2>2, <2>3, <2>4, RowsOnly DEF IInv
<1> QED
  BY <1>2, <1>3, <1>4, CancelKeeps, EditsKeep DEF Next

------------------------------------------------------------------------------
\* The refinement: every step of Tasks is one of TaskLife, or a stutter.
Verdict == [t \in Tasks |-> [c \in Criteria |-> ProofOfDone(t, c)]]

LEMMA VerdictKept == ASSUME UNCHANGED <<runs, evidence>> PROVE Verdict' = Verdict
  BY DEF Verdict, ProofOfDone, OwnStatus, RunsOf

\* A verdict follows from the evidence found and what each piece says.
LEMMA SameFound ==
  ASSUME NEW t \in Tasks, NEW c \in Criteria,
         {e \in evidence' : e.task = t /\ e.crit = c} = {e \in evidence : e.task = t /\ e.crit = c},
         \A e \in evidence : OwnStatus(e)' = OwnStatus(e)
  PROVE  ProofOfDone(t, c)' = ProofOfDone(t, c)
<1> DEFINE found == {e \in evidence : e.task = t /\ e.crit = c}
<1>1. {OwnStatus(e)' : e \in found} = {OwnStatus(e) : e \in found}
  OBVIOUS
<1>2. ProofOfDone(t, c)' =
        IF found = {} THEN "uncovered" ELSE DeriveState({OwnStatus(e)' : e \in found})
  BY DEF ProofOfDone, DeriveState
<1> QED
  BY <1>1, <1>2 DEF ProofOfDone

\* A run that is recorded says nothing yet: no evidence is of it.
LEMMA RecordJudgesNothing ==
  ASSUME IInv, IInv', NEW t \in Tasks, NEW ok \in BOOLEAN, Record(t, tree, ok)
  PROVE  Verdict' = Verdict
<1>1. /\ evidence' = evidence /\ Pending(t)
      /\ runs \subseteq runs'
      /\ \A q \in runs' : q \in runs \/ q.at = intent[t].at
  BY DEF Record, At, Pending, RunRow
<1>2. ASSUME NEW e \in evidence PROVE OwnStatus(e)' = OwnStatus(e)
  <2>1. PICK r \in runs : r.at = e.run
    BY DEF IInv, EvidenceTrue
  <2>2. \A q \in runs' : q.at = e.run => q = r
    BY <1>1, <2>1 DEF IInv, RunsTrue
  <2>3. CASE r.task = e.task
    <3>1. OwnStatus(e) = r.status
      BY <2>1, <2>3, OwnStatusIs DEF IInv
    <3>2. /\ r \in RunsOf(e.task)'
          /\ \A q \in RunsOf(e.task)' : q.at = e.run => q = r
      BY <1>1, <2>2, <2>3 DEF RunsOf
    <3>3. (CHOOSE q \in RunsOf(e.task)' : q.at = e.run) = r
      BY <2>1, <3>2
    <3> QED
      BY <2>1, <3>1, <3>2, <3>3 DEF OwnStatus
  <2>4. CASE r.task # e.task
    <3>1. ~\E q \in RunsOf(e.task) : q.at = e.run
      BY <1>1, <2>2, <2>4 DEF RunsOf
    <3>2. ~\E q \in RunsOf(e.task)' : q.at = e.run
      BY <2>2, <2>4 DEF RunsOf
    <3> QED
      BY <3>1, <3>2 DEF OwnStatus
  <2> QED
    BY <2>3, <2>4
<1>3. \A u \in Tasks, c \in Criteria : ProofOfDone(u, c)' = ProofOfDone(u, c)
  BY <1>1, <1>2, SameFound
<1> QED
  BY <1>3 DEF Verdict

\* More evidence never lowers a verdict.
LEMMA VerdictRises ==
  ASSUME NEW S, NEW x
  PROVE  /\ DeriveState(S) \in DOMAIN Life!Rank
         /\ \/ DeriveState(S \cup {x}) = DeriveState(S)
            \/ Life!Rank[DeriveState(S \cup {x})] > Life!Rank[DeriveState(S)]
         /\ Life!Rank[DeriveState(S)] > Life!Rank["uncovered"]
  BY DEF DeriveState, Life!Rank

\* Evidence that is attached judges one criterion, upwards.
LEMMA AttachJudges ==
  ASSUME IInv, NEW t \in Tasks, NEW ok \in BOOLEAN, Attach(t, Dead(t), ok)
  PROVE  \/ Verdict' = Verdict
         \/ \E c \in Criteria, v \in DOMAIN Life!Rank :
              /\ Life!Rank[v] > Life!Rank[Verdict[t][c]]
              /\ Verdict' = [Verdict EXCEPT ![t][c] = v]
<1>1. CASE ~ok
  BY <1>1, VerdictKept DEF Attach
<1>2. CASE ok
  <2>1. PICK c \in Criteria, new \in {EvidenceRow(t)} :
          /\ evidence' = evidence \cup {new} /\ runs' = runs
          /\ new.task = t /\ new.crit = c
    BY <1>2 DEF Attach, EvidenceRow, IInv, TypeOK, ValidationTypeOK, Intent
  <2> DEFINE found == {e \in evidence : e.task = t /\ e.crit = c}
             said == {OwnStatus(e) : e \in found}
             v == ProofOfDone(t, c)'
  <2>2. \A e : OwnStatus(e)' = OwnStatus(e)
    BY <2>1 DEF OwnStatus, RunsOf
  <2>3. ASSUME NEW u \in Tasks, NEW d \in Criteria, ~(u = t /\ d = c)
        PROVE  ProofOfDone(u, d)' = ProofOfDone(u, d)
    <3>1. {e \in evidence' : e.task = u /\ e.crit = d} = {e \in evidence : e.task = u /\ e.crit = d}
      BY <2>1, <2>3
    <3> QED
      BY <2>2, <3>1, SameFound
  <2>4. v = DeriveState(said \cup {OwnStatus(new)})
    <3>1. {e \in evidence' : e.task = t /\ e.crit = c} = found \cup {new}
      BY <2>1
    <3>2. {OwnStatus(e)' : e \in found \cup {new}} = said \cup {OwnStatus(new)}
      BY <2>2
    <3>3. v = DeriveState({OwnStatus(e)' : e \in found \cup {new}})
      BY <3>1 DEF ProofOfDone, DeriveState
    <3> QED
      BY <3>2, <3>3
  <2>5. ProofOfDone(t, c) = IF found = {} THEN "uncovered" ELSE DeriveState(said)
    BY DEF ProofOfDone
  <2>6. v \in DOMAIN Life!Rank
    BY <2>4, VerdictRises
  <2>7. v = ProofOfDone(t, c) \/ Life!Rank[v] > Life!Rank[ProofOfDone(t, c)]
    <3> HIDE DEF found, said, v
    <3> QED
      BY <2>4, <2>5, VerdictRises
  <2> HIDE DEF v, found, said
  <2>8. Verdict[t][c] = ProofOfDone(t, c)
    BY <2>1 DEF Verdict
  <2>9. v = ProofOfDone(t, c)'
    BY DEF v
  <2>10. Verdict' = [Verdict EXCEPT ![t][c] = v]
    <3>1. \A u \in Tasks : Verdict'[u] = [Verdict EXCEPT ![t][c] = v][u]
      BY <2>1, <2>3, <2>9 DEF Verdict
    <3> QED
      BY <3>1 DEF Verdict
  <2>11. CASE v = ProofOfDone(t, c)
    <3>1. \A u \in Tasks, d \in Criteria : ProofOfDone(u, d)' = ProofOfDone(u, d)
      BY <2>3, <2>9, <2>11
    <3> QED
      BY <3>1 DEF Verdict
  <2> QED
    BY <2>1, <2>6, <2>7, <2>8, <2>10, <2>11
<1> QED
  BY <1>1, <1>2
LEMMA InitPromised == Init => Life!Init
<1> SUFFICES ASSUME Init PROVE Life!Init
  OBVIOUS
<1>1. \A t \in Tasks, c \in Criteria : ProofOfDone(t, c) = "uncovered"
  BY DEF Init, ValidationInit, ProofOfDone
<1> QED
  BY <1>1 DEF Init, Life!Init

\* The steps that move a task's row, and no evidence.
LEMMA RowMoves ==
  ASSUME IInv, NEW t \in Tasks, UNCHANGED <<runs, evidence, learnt>>,
         NEW from, NEW to, status[t] = from, status' = [status EXCEPT ![t] = to],
         \/ from = "none" /\ to = "compiled"
         \/ from = "compiled" /\ to = "running"
         \/ from = "running" /\ to \in {"completed", "failed", "cancelled"}
  PROVE  Life!Next
<1>1. Verdict' = Verdict
  BY VerdictKept
<1>2. Life!Move(t, from, to)
  BY <1>1 DEF Life!Move, Verdict
<1> QED
  BY <1>2 DEF Life!Next, Life!Compile, Life!Start, Life!Close, Life!Closed

LEMMA RowRests ==
  ASSUME UNCHANGED <<status, learnt>>, Verdict' = Verdict
  PROVE  UNCHANGED Life!vars
  BY DEF Life!vars, Verdict

LEMMA BeginPromised ==
  ASSUME IInv, NEW t \in Tasks, Begin(t) PROVE Life!Next \/ UNCHANGED Life!vars
<1>1. PICK ok \in BOOLEAN :
        CreateTask(t, ok) \/ SaveSpec(t, ok) \/ SaveBudget(t, ok) \/ StartTask(t, ok)
  BY DEF Begin
<1>2. UNCHANGED <<runs, evidence, learnt>>
  BY <1>1 DEF CreateTask, SaveSpec, SaveBudget, StartTask, validation, rows
<1>3. CASE UNCHANGED status
  BY <1>2, <1>3, RowRests, VerdictKept
<1>4. CASE CreateTask(t, ok) /\ ok
  <2>1. status[t] = "none" /\ status' = [status EXCEPT ![t] = "compiled"]
    BY <1>4 DEF CreateTask, Onward, Goto, IInv, PlaceTrue, Place
  <2> QED
    BY <1>2, <2>1, RowMoves
<1>5. CASE StartTask(t, ok) /\ ok
  <2>1. status[t] = "compiled" /\ status' = [status EXCEPT ![t] = "running"]
    BY <1>5 DEF StartTask, Onward, Goto, IInv, PlaceTrue, Place
  <2> QED
    BY <1>2, <2>1, RowMoves
<1>6. CASE ~ok \/ SaveSpec(t, ok) \/ SaveBudget(t, ok)
  <2>1. UNCHANGED status
    BY <1>1, <1>6 DEF CreateTask, SaveSpec, SaveBudget, StartTask, rows, IInv, TypeOK
  <2> QED
    BY <1>3, <2>1
<1> QED
  BY <1>1, <1>4, <1>5, <1>6

LEMMA ClosePromised ==
  ASSUME IInv, NEW t \in Tasks, Close(t) PROVE Life!Next \/ UNCHANGED Life!vars
<1>1. PICK ok \in BOOLEAN :
        FinishTask(t, ok) \/ CaptureCheckpoint(t, ok) \/ LearnFromTask(t, ok) \/ FailTask(t, ok)
  BY DEF Close
<1>2. UNCHANGED <<runs, evidence>>
  BY <1>1 DEF FinishTask, CaptureCheckpoint, LearnFromTask, FailTask, validation
<1>3. CASE LearnFromTask(t, ok)
  <2>1. PICK l \in SUBSET ({Episode} \cup Cmds) : learnt' = [learnt EXCEPT ![t] = l]
    BY <1>3 DEF LearnFromTask, SuccessfulCommands
  <2>2. status[t] = "completed" /\ learnt[t] = {} /\ status' = status
    BY <1>3 DEF LearnFromTask, Goto, IInv, PlaceTrue, Place
  <2>3. Life!Learn(t)
    BY <1>2, <2>1, <2>2, VerdictKept DEF Life!Learn, Verdict
  <2> QED
    BY <2>3 DEF Life!Next
<1>4. CASE CaptureCheckpoint(t, ok)
  BY <1>2, <1>4, RowRests, VerdictKept DEF CaptureCheckpoint
<1>5. CASE FinishTask(t, ok) \/ FailTask(t, ok)
  <2>1. status[t] = "running" /\ learnt' = learnt
    BY <1>5 DEF FinishTask, FailTask, Goto, IInv, PlaceTrue, Place
  <2>2. CASE ok
    <3>1. PICK to \in {"completed", "failed", "cancelled"} : status' = [status EXCEPT ![t] = to]
      BY <1>5, <2>2 DEF FinishTask, FailTask
    <3> QED
      BY <1>2, <2>1, <3>1, RowMoves
  <2>3. CASE ~ok
    <3>1. status' = status
      BY <1>5, <2>3 DEF FinishTask, FailTask, IInv, TypeOK
    <3> QED
      BY <1>2, <2>1, <3>1, RowRests, VerdictKept
  <2> QED
    BY <2>2, <2>3
<1> QED
  BY <1>1, <1>3, <1>4, <1>5

LEMMA ValidatePromised ==
  ASSUME IInv, IInv', NEW t \in Tasks, Validate(t) PROVE Life!Next \/ UNCHANGED Life!vars
<1>1. /\ status[t] = "running" /\ UNCHANGED <<status, learnt>>
      /\ RunIntent(t, tree, Dead(t))
  BY DEF Validate, rows, IInv, PlaceTrue, Place
<1>2. CASE Verdict' = Verdict
  BY <1>1, <1>2, RowRests
<1>3. ASSUME NEW ok \in BOOLEAN, Attach(t, Dead(t), ok)
      PROVE  Life!Next \/ UNCHANGED Life!vars
  <2>1. CASE \E c \in Criteria, v \in DOMAIN Life!Rank :
               /\ Life!Rank[v] > Life!Rank[Verdict[t][c]]
               /\ Verdict' = [Verdict EXCEPT ![t][c] = v]
    <3>1. Life!Judge(t)
      BY <1>1, <2>1 DEF Life!Judge, Verdict
    <3> QED
      BY <3>1 DEF Life!Next
  <2> QED
    BY <1>2, <1>3, <2>1, AttachJudges
<1>4. ASSUME NEW ok \in BOOLEAN, Record(t, tree, ok) PROVE Verdict' = Verdict
  BY <1>4, RecordJudgesNothing
<1>5. ASSUME NEW ok \in BOOLEAN, LookUp(t, Dead(t), ok) PROVE Verdict' = Verdict
  BY <1>5, VerdictKept DEF LookUp
<1>6. ASSUME NEW said \in {"passed", "failed", "skipped"}, RunCommand(t, Dead(t), said)
      PROVE  Verdict' = Verdict
  BY <1>6, VerdictKept DEF RunCommand
<1> QED
  BY <1>1, <1>2, <1>3, <1>4, <1>5, <1>6 DEF RunIntent

\* Every other step leaves the rows, the runs and the evidence alone.
LEMMA RestPromised ==
  ASSUME UNCHANGED <<rows, runs, evidence>> PROVE UNCHANGED Life!vars
  BY RowRests, VerdictKept DEF rows

LEMMA StepPromised == IInv /\ IInv' /\ [Next]_vars => [Life!Next]_(Life!vars)
<1> SUFFICES ASSUME IInv, IInv', [Next]_vars PROVE Life!Next \/ UNCHANGED Life!vars
  OBVIOUS
<1>1. CASE UNCHANGED vars
  BY <1>1, RestPromised DEF vars, validation
<1>2. ASSUME NEW t \in Tasks, NEW k \in Kinds, NEW s \in Sessions \cup {None},
             NEW p \in Tasks \cup {None}, BeginTask(t, k, s, p)
      PROVE  UNCHANGED Life!vars
  BY <1>2, RestPromised DEF BeginTask, validation
<1>3. ASSUME NEW t \in Tasks, Cancel(t) PROVE UNCHANGED Life!vars
  BY <1>3, RestPromised DEF Cancel, validation
<1>4. ASSUME NEW t \in Tasks, NEW x \in Trees, Edit(t, x) PROVE UNCHANGED Life!vars
  BY <1>4, RestPromised DEF Edit, validation
<1>5. ASSUME NEW x \in Trees, EditUnrecorded(x) PROVE UNCHANGED Life!vars
  BY <1>5, RestPromised DEF EditUnrecorded, validation
<1>6. ASSUME NEW t \in Tasks, Turn(t) PROVE Life!Next \/ UNCHANGED Life!vars
  <2>1. ASSUME NEW end \in {"none", "error", "canceled"}, EndWork(t, end)
        PROVE  UNCHANGED Life!vars
    BY <2>1, RestPromised DEF EndWork, validation
  <2>2. CASE PlanValidation(t)
    BY <2>2, RestPromised DEF PlanValidation, Plan
  <2>3. CASE SkipValidation(t)
    BY <2>3, RestPromised DEF SkipValidation, validation
  <2>4. ASSUME NEW ok \in BOOLEAN, Report(t, ok) PROVE UNCHANGED Life!vars
    BY <2>4, RestPromised DEF Report
  <2> QED
    BY <1>6, <2>1, <2>2, <2>3, <2>4, BeginPromised, ValidatePromised, ClosePromised DEF Turn
<1> QED
  BY <1>1, <1>2, <1>3, <1>4, <1>5, <1>6 DEF Next
------------------------------------------------------------------------------
\* The tree and the cache.

\* A task is begun once, and what moves it later leaves it begun or ends it.
LEMMA BegunOnce ==
  ASSUME IInv, [Next]_vars, ~(\E t \in Tasks, k \in Kinds, s \in Sessions \cup {None},
                                p \in Tasks \cup {None} : BeginTask(t, k, s, p))
  PROVE  UNCHANGED begun /\ \A u \in Tasks : Over(u) => Over(u)'
<1> USE DEF Over, Goto
<1> pc \in [Tasks -> States]
  BY DEF IInv, TypeOK
<1>1. ASSUME NEW t \in Tasks, Begin(t)
      PROVE  UNCHANGED begun /\ \A u \in Tasks : Over(u) => Over(u)'
  BY <1>1 DEF Begin, CreateTask, SaveSpec, SaveBudget, StartTask, Onward
<1>2. ASSUME NEW t \in Tasks, Close(t)
      PROVE  UNCHANGED begun /\ \A u \in Tasks : Over(u) => Over(u)'
  BY <1>2 DEF Close, FinishTask, CaptureCheckpoint, LearnFromTask, FailTask
<1>3. ASSUME NEW t \in Tasks, \E end \in {"none", "error", "canceled"} : EndWork(t, end)
      PROVE  UNCHANGED begun /\ \A u \in Tasks : Over(u) => Over(u)'
  BY <1>3 DEF EndWork, Working
<1>4. ASSUME NEW t \in Tasks,
             \/ PlanValidation(t) \/ SkipValidation(t) \/ Validate(t)
             \/ \E ok \in BOOLEAN : Report(t, ok)
      PROVE  UNCHANGED begun /\ \A u \in Tasks : Over(u) => Over(u)'
  BY <1>4 DEF PlanValidation, SkipValidation, Validate, Report
<1>5. ASSUME \/ \E t \in Tasks : Cancel(t) \/ \E x \in Trees : Edit(t, x)
             \/ \E x \in Trees : EditUnrecorded(x)
             \/ UNCHANGED vars
      PROVE  UNCHANGED begun /\ \A u \in Tasks : Over(u) => Over(u)'
  BY <1>5 DEF Cancel, Edit, EditUnrecorded, vars
<1> QED
  BY <1>1, <1>2, <1>3, <1>4, <1>5 DEF Next, Turn

LEMMA OneTurnStep == IInv /\ OneTurn /\ [Next]_vars => OneTurn'
<1> SUFFICES ASSUME IInv, OneTurn, [Next]_vars PROVE OneTurn'
  OBVIOUS
<1>1. ASSUME NEW t \in Tasks, NEW k \in Kinds, NEW s \in Sessions \cup {None},
             NEW p \in Tasks \cup {None}, BeginTask(t, k, s, p)
      PROVE  OneTurn'
  <2>1. /\ kind'[t] = k /\ sess'[t] = s
        /\ \A u \in Tasks \ {t} : kind'[u] = kind[u] /\ sess'[u] = sess[u] /\ pc'[u] = pc[u]
    BY <1>1 DEF BeginTask, IInv, TypeOK
  <2>2. k = "turn" => \A u \in Tasks : sess[u] = s => Over(u)
    BY <1>1 DEF BeginTask
  <2>3. ASSUME NEW u \in Tasks, NEW v \in Tasks, kind'[u] = "turn", kind'[v] = "turn",
               sess'[u] = sess'[v], ~Over(u)', ~Over(v)', u # v
        PROVE  FALSE
    <3>1. CASE u = t
      BY <2>1, <2>2, <2>3, <3>1 DEF Over
    <3>2. CASE v = t
      BY <2>1, <2>2, <2>3, <3>2 DEF Over
    <3>3. CASE u # t /\ v # t
      BY <2>1, <2>3, <3>3 DEF Over, OneTurn
    <3> QED
      BY <3>1, <3>2, <3>3
  <2> QED
    BY <2>3 DEF OneTurn
<1>2. CASE UNCHANGED begun /\ \A u \in Tasks : Over(u) => Over(u)'
  BY <1>2 DEF OneTurn, begun
<1> QED
  BY <1>1, <1>2, BegunOnce

\* A step that keeps the files and the runs, and the keys of the turns that go
\* on validating.
LEMMA TreeRests ==
  ASSUME TreeKept, UNCHANGED <<files, runs>>,
         \A t \in Tasks : pc'[t] = "validate" =>
           /\ pc[t] = "validate" /\ kind'[t] = kind[t] /\ sess'[t] = sess[t]
           /\ intent'[t].key = intent[t].key
  PROVE  TreeKept'
<1>1. UNCHANGED <<tree, recorded, newest, foreign, runs>>
  BY DEF files
<1>2. Alone' = Alone
  BY <1>1 DEF Alone
<1>3. ASSUME NEW t \in Tasks, Alone, pc'[t] = "validate" PROVE KeyIsTree(t)'
  BY <1>1, <1>3 DEF TreeKept, KeyIsTree
<1> QED
  BY <1>1, <1>2, <1>3 DEF TreeKept

\* An edit finds no turn validating in its session.
LEMMA EditKeepsTree ==
  ASSUME IInv, OneTurn, TreeKept, NEW t \in Tasks, NEW x \in Trees, Edit(t, x)
  PROVE  TreeKept'
<1> SUFFICES ASSUME Alone' PROVE TreeKept'
  BY DEF TreeKept
<1>1. sess[t] \in Sessions /\ kind[t] = "turn" /\ pc[t] \in {"work", "untracked"}
  BY DEF Edit, Working, IInv, PlaceTrue, Place, TypeOK
<1>2. /\ tree' = x /\ recorded' = [recorded EXCEPT ![sess[t]] = x]
      /\ sess[t] \in newest'
      /\ UNCHANGED <<runs, intent, foreign, kind, sess, pc>>
  BY DEF Edit, validation, begun
<1>3. recorded'[sess[t]] = x /\ x # None
      /\ \A s \in Sessions \ {sess[t]} : recorded'[s] = recorded[s]
  BY <1>1, <1>2, ValidationAssumption DEF IInv, TypeOK
<1>4. \A s \in Sessions : recorded'[s] # None => s = sess[t]
  BY <1>1, <1>3 DEF Alone
<1>5. Alone
  BY <1>1, <1>2, <1>3, <1>4 DEF Alone
<1>6. ASSUME NEW u \in Tasks, pc[u] = "validate" PROVE FALSE
  <2>1. kind[u] = "turn" /\ recorded[sess[u]] # None
    BY <1>5, <1>6 DEF TreeKept, KeyIsTree
  <2>2. sess[u] \in Sessions
    BY <2>1 DEF IInv, PlaceTrue, Place, TypeOK
  <2>3. sess[u] = sess[t]
    BY <1>3, <1>4, <2>1, <2>2
  <2> QED
    BY <1>1, <1>6, <2>1, <2>3 DEF OneTurn, Over
<1>7. \A s \in Sessions : recorded'[s] # None => recorded'[s] = tree' /\ s \in newest'
  BY <1>2, <1>3, <1>4
<1>8. \A r \in runs : r.key = r.tree
  BY <1>5 DEF TreeKept
<1> QED
  BY <1>2, <1>6, <1>7, <1>8 DEF TreeKept

\* The key of a plan is the tree, when the session is alone.
LEMMA PlanKeepsTree ==
  ASSUME IInv, TreeKept, NEW t \in Tasks, PlanValidation(t)
  PROVE  TreeKept'
<1> SUFFICES ASSUME Alone' PROVE TreeKept'
  BY DEF TreeKept
<1>1. /\ kind[t] = "turn" /\ recorded[sess[t]] # None
      /\ pc' = [pc EXCEPT ![t] = "validate"]
      /\ intent' = [intent EXCEPT ![t] = [Idle EXCEPT !.step = "cache", !.key = Fingerprint(t)]]
      /\ UNCHANGED <<runs, tree, recorded, newest, foreign, kind, sess>>
  BY DEF PlanValidation, ChangedDuringTask, Goto, Plan, Set, files, begun
<1>2. Alone
  BY <1>1 DEF Alone
<1>3. sess[t] \in Sessions
  BY <1>1 DEF IInv, PlaceTrue, Place, TypeOK
<1>4. Fingerprint(t) = tree
  BY <1>1, <1>2, <1>3 DEF TreeKept, Fingerprint, LatestOf
<1>5. intent'[t].key = tree /\ \A u \in Tasks \ {t} : intent'[u] = intent[u] /\ pc'[u] = pc[u]
  BY <1>1, <1>4 DEF IInv, TypeOK, ValidationTypeOK, Idle
<1>6. ASSUME NEW u \in Tasks, pc'[u] = "validate" PROVE KeyIsTree(u)'
  <2>1. CASE u = t
    BY <1>1, <1>5, <2>1 DEF KeyIsTree
  <2>2. CASE u # t
    BY <1>1, <1>2, <1>5, <1>6, <2>2 DEF TreeKept, KeyIsTree
  <2> QED
    BY <2>1, <2>2
<1> QED
  BY <1>1, <1>2, <1>6 DEF TreeKept

\* A turn keeps its key while it validates.
LEMMA KeyKept ==
  ASSUME IInv, NEW t \in Tasks, Validate(t)
  PROVE  \A u \in Tasks : intent'[u].key = intent[u].key
<1>1. intent \in [Tasks -> Intent] /\ intent[t] \in Intent
  BY DEF IInv, TypeOK, ValidationTypeOK
<1>2. ASSUME NEW i, intent' = [intent EXCEPT ![t] = i], i.key = intent[t].key
      PROVE  \A u \in Tasks : intent'[u].key = intent[u].key
  BY <1>1, <1>2
<1>3. CASE NextIntent(t)
  BY <1>1, <1>3 DEF NextIntent, Set, Intent
<1>4. ASSUME NEW ok \in BOOLEAN, LookUp(t, Dead(t), ok)
      PROVE  \A u \in Tasks : intent'[u].key = intent[u].key
  <2>1. ASSUME NEW r, Set(t, [intent[t] EXCEPT !.step = "attach", !.at = r.at, !.status = "passed"])
        PROVE  \A u \in Tasks : intent'[u].key = intent[u].key
    BY <1>1, <2>1 DEF Set, Intent
  <2>2. CASE Set(t, [intent[t] EXCEPT !.step = "run", !.at = Now])
    BY <1>1, <2>2 DEF Set, Intent
  <2> QED
    BY <1>3, <1>4, <2>1, <2>2 DEF LookUp
<1>5. ASSUME NEW ok \in BOOLEAN, Record(t, tree, ok)
      PROVE  \A u \in Tasks : intent'[u].key = intent[u].key
  <2>1. CASE Set(t, [intent[t] EXCEPT !.step = "attach"])
    BY <1>1, <2>1 DEF Set, Intent
  <2> QED
    BY <1>3, <1>5, <2>1 DEF Record
<1>6. ASSUME NEW ok \in BOOLEAN, Attach(t, Dead(t), ok)
      PROVE  \A u \in Tasks : intent'[u].key = intent[u].key
  <2>1. CASE Set(t, [intent[t] EXCEPT !.crit = @ + 1])
    BY <1>1, <2>1 DEF Set, Intent
  <2> QED
    BY <1>3, <1>6, <2>1 DEF Attach
<1>7. ASSUME NEW said, RunCommand(t, Dead(t), said)
      PROVE  \A u \in Tasks : intent'[u].key = intent[u].key
  BY <1>1, <1>7 DEF RunCommand, Set, Intent
<1> QED
  BY <1>4, <1>5, <1>6, <1>7 DEF Validate, RunIntent

\* A run is recorded with the key of its turn, and the tree it ran on.
LEMMA ValidateKeepsTree ==
  ASSUME IInv, TreeKept, NEW t \in Tasks, Validate(t)
  PROVE  TreeKept'
<1>1. pc[t] = "validate" /\ UNCHANGED <<files, begun, pc>> /\ RunIntent(t, tree, Dead(t))
  BY DEF Validate
<1>2. \A u \in Tasks : intent'[u].key = intent[u].key
  BY KeyKept
<1>3. CASE UNCHANGED runs
  BY <1>1, <1>2, <1>3, TreeRests DEF begun
<1>4. CASE runs' = runs \cup {RunRow(t, tree)}
  <2> SUFFICES ASSUME Alone' PROVE TreeKept'
    BY DEF TreeKept
  <2>1. UNCHANGED <<tree, recorded, newest, foreign, pc, kind, sess>> /\ Alone
    BY <1>1 DEF files, begun, Alone
  <2>2. intent[t].key = tree
    BY <1>1, <2>1 DEF TreeKept, KeyIsTree
  <2>3. \A r \in runs' : r.key = r.tree
    BY <1>4, <2>1, <2>2 DEF TreeKept, RunRow
  <2>4. ASSUME NEW u \in Tasks, pc'[u] = "validate" PROVE KeyIsTree(u)'
    BY <1>2, <2>1, <2>4 DEF TreeKept, KeyIsTree
  <2> QED
    BY <2>1, <2>3, <2>4 DEF TreeKept
<1>5. UNCHANGED runs \/ runs' = runs \cup {RunRow(t, tree)}
  BY <1>1 DEF RunIntent, LookUp, Record, Attach, RunCommand
<1> QED
  BY <1>3, <1>4, <1>5

LEMMA TreeStep == IInv /\ OneTurn /\ TreeKept /\ [Next]_vars => TreeKept'
<1> SUFFICES ASSUME IInv, OneTurn, TreeKept, [Next]_vars PROVE TreeKept'
  OBVIOUS
<1> USE DEF Goto
<1>0. pc \in [Tasks -> States] /\ intent \in [Tasks -> Intent]
      /\ kind \in [Tasks -> Kinds \cup {"none"}] /\ sess \in [Tasks -> Sessions \cup {None}]
  BY DEF IInv, TypeOK, ValidationTypeOK
<1>1. ASSUME NEW t \in Tasks, NEW to, to # "validate", pc' = [pc EXCEPT ![t] = to],
             UNCHANGED <<files, runs>>,
             \A u \in Tasks \ {t} :
               kind'[u] = kind[u] /\ sess'[u] = sess[u] /\ intent'[u] = intent[u]
      PROVE  TreeKept'
  BY <1>0, <1>1, TreeRests
<1>2. ASSUME NEW t \in Tasks, NEW k \in Kinds, NEW s \in Sessions \cup {None},
             NEW p \in Tasks \cup {None}, BeginTask(t, k, s, p)
      PROVE  TreeKept'
  BY <1>0, <1>1, <1>2 DEF BeginTask, validation
<1>3. ASSUME NEW t \in Tasks, Begin(t) PROVE TreeKept'
  <2>1. PICK to \in {"spec", "budget", "start", "work", "untracked", "done"} :
          pc' = [pc EXCEPT ![t] = to]
    BY <1>3 DEF Begin, CreateTask, SaveSpec, SaveBudget, StartTask, Onward
  <2>2. UNCHANGED <<files, validation, begun>>
    BY <1>3 DEF Begin, CreateTask, SaveSpec, SaveBudget, StartTask
  <2> QED
    BY <1>1, <2>1, <2>2 DEF validation, begun
<1>4. ASSUME NEW t \in Tasks, Close(t) PROVE TreeKept'
  <2>1. PICK to \in {"snap", "learn", "done"} : pc' = [pc EXCEPT ![t] = to]
    BY <1>4 DEF Close, FinishTask, CaptureCheckpoint, LearnFromTask, FailTask
  <2>2. UNCHANGED <<files, validation, begun>>
    BY <1>4 DEF Close, FinishTask, CaptureCheckpoint, LearnFromTask, FailTask
  <2> QED
    BY <1>1, <2>1, <2>2 DEF validation, begun
<1>5. ASSUME NEW t \in Tasks, \E end \in {"none", "error", "canceled"} : EndWork(t, end)
      PROVE  TreeKept'
  <2>1. PICK to \in {"done", "plan", "fail"} : pc' = [pc EXCEPT ![t] = to]
    BY <1>5 DEF EndWork
  <2>2. UNCHANGED <<files, validation, begun>>
    BY <1>5 DEF EndWork
  <2> QED
    BY <1>1, <2>1, <2>2 DEF validation, begun
<1>6. ASSUME NEW t \in Tasks, SkipValidation(t) PROVE TreeKept'
  BY <1>1, <1>6 DEF SkipValidation, validation, begun
<1>7. ASSUME NEW t \in Tasks, NEW ok \in BOOLEAN, Report(t, ok) PROVE TreeKept'
  BY <1>0, <1>1, <1>7 DEF Report, Set, begun
<1>8. CASE (\E t \in Tasks : Cancel(t)) \/ UNCHANGED vars
  BY <1>8, TreeRests DEF Cancel, vars, validation, begun
<1>9. ASSUME NEW x \in Trees, EditUnrecorded(x) PROVE TreeKept'
  BY <1>9 DEF EditUnrecorded, TreeKept, Alone
<1> QED
  BY <1>2, <1>3, <1>4, <1>5, <1>6, <1>7, <1>8, <1>9, EditKeepsTree, PlanKeepsTree,
     ValidateKeepsTree DEF Next, Turn

LEMMA InitTree == Init => OneTurn /\ TreeKept
BY DEF Init, ValidationInit, OneTurn, Over, TreeKept

\* A cached pass is found under the key of the tree.
LEMMA CacheHits ==
  ASSUME IInv, TreeKept, [Next]_vars, NEW t \in Tasks, NEW r \in runs,
         At(t, "cache"), At(t, "attach")', r.at = intent'[t].at, r.tree # tree
  PROVE  ~Alone
<1>0. intent \in [Tasks -> Intent] /\ intent[t].step = "cache" /\ intent'[t].step = "attach"
  BY DEF IInv, TypeOK, ValidationTypeOK, At
<1>1. pc[t] = "validate"
  BY <1>0 DEF IInv, PlaceTrue, Place
<1>2. Validate(t)
  <2>1. ASSUME NEW u \in Tasks, u # t, Validate(u) PROVE intent'[t] = intent[t]
    BY <1>0, <2>1 DEF Validate, RunIntent, LookUp, Record, Attach, RunCommand, NextIntent, Set
  <2>2. ASSUME NEW u \in Tasks,
               Begin(u) \/ Close(u) \/ SkipValidation(u) \/ Cancel(u)
               \/ (\E end \in {"none", "error", "canceled"} : EndWork(u, end))
               \/ \E x \in Trees : Edit(u, x)
        PROVE  intent' = intent
    BY <2>2 DEF Begin, CreateTask, SaveSpec, SaveBudget, StartTask, Close, FinishTask,
                CaptureCheckpoint, LearnFromTask, FailTask, SkipValidation, Cancel, EndWork,
                Edit, validation
  <2>3. ASSUME NEW u \in Tasks, PlanValidation(u) \/ \E ok \in BOOLEAN : Report(u, ok)
        PROVE  intent'[t] = intent[t] \/ intent'[t].step \in {"cache", "idle"}
    <3>1. PICK i : intent' = [intent EXCEPT ![u] = i] /\ i.step \in {"cache", "idle"}
      <4>1. CASE PlanValidation(u)
        <5> DEFINE i == [Idle EXCEPT !.step = "cache", !.key = Fingerprint(u)]
        <5>1. intent' = [intent EXCEPT ![u] = i]
          BY <4>1 DEF PlanValidation, Plan, Set
        <5>2. i.step = "cache"
          BY DEF Idle
        <5> QED
          BY <5>1, <5>2
      <4>2. CASE \E ok \in BOOLEAN : Report(u, ok)
        <5>1. intent' = [intent EXCEPT ![u] = Idle]
          BY <4>2 DEF Report, Set
        <5>2. Idle.step = "idle"
          BY DEF Idle
        <5> QED
          BY <5>1, <5>2
      <4> QED
        BY <2>3, <4>1, <4>2
    <3> QED
      BY <1>0, <3>1
  <2>4. ASSUME NEW u \in Tasks, NEW k \in Kinds, NEW s \in Sessions \cup {None},
               NEW p \in Tasks \cup {None}, BeginTask(u, k, s, p)
        PROVE  intent' = intent
    BY <2>4 DEF BeginTask, validation
  <2>5. CASE UNCHANGED vars \/ \E x \in Trees : EditUnrecorded(x)
    BY <1>0, <2>5 DEF vars, EditUnrecorded, validation
  <2> QED
    BY <1>0, <2>1, <2>2, <2>3, <2>4, <2>5 DEF Next, Turn
<1>3. PICK q \in CachedPass(intent[t].cmd, intent[t].key) : intent'[t].at = q.at
  <2>1. PICK ok \in BOOLEAN : LookUp(t, Dead(t), ok)
    BY <1>0, <1>2 DEF Validate, RunIntent, Record, Attach, RunCommand, At
  <2>2. ~NextIntent(t)
    BY <1>0, NextIntentFacts
  <2>3. ~Set(t, [intent[t] EXCEPT !.step = "run", !.at = Now])
    BY <1>0 DEF Set, Intent
  <2>4. PICK q \in CachedPass(intent[t].cmd, intent[t].key) :
          Set(t, [intent[t] EXCEPT !.step = "attach", !.at = q.at, !.status = "passed"])
    BY <2>1, <2>2, <2>3 DEF LookUp
  <2>5. intent'[t].at = q.at
    BY <1>0, <2>4 DEF Set, Intent
  <2> QED
    BY <2>5
<1>4. q \in runs /\ q.key = intent[t].key
  BY DEF CachedPass, Latest
<1>5. r = q
  BY <1>3, <1>4 DEF IInv, RunsTrue
<1> QED
  BY <1>1, <1>4, <1>5 DEF TreeKept, KeyIsTree
------------------------------------------------------------------------------
\* The inductive invariant: rows follow the turn, runs are told apart by their
\* time, and a failing run counts against every criterion its evidence got to
\* (coordinator.go 167-211, validation/service.go 48-124).
THEOREM Invariant == Spec => []IInv
  BY InitIInv, NextKeeps, PTL DEF Spec

\* Every variable keeps its type, the rows of both tables among them.
THEOREM TypeCorrect == Spec => []TypeOK
<1>1. IInv => TypeOK
  BY DEF IInv
<1> QED
  BY <1>1, Invariant, PTL

\* A task of a turn or a subagent is left open only when it was cut short, for
\* every number of tasks and sessions (agent.go 349-360, coordinator.go 394-398).
THEOREM LeftOpenOnlyIfCutAlways == Spec => []LeftOpenOnlyIfCut
<1>1. IInv => LeftOpenOnlyIfCut
  BY DEF IInv, OpenTrue, LeftOpen, LeftOpenOnlyIfCut, Cut
<1> QED
  BY <1>1, Invariant, PTL

\* A criterion is validated by a passing run of the task itself, and beside a
\* failing one only when that one's evidence was cut short
\* (validation/service.go 92-124, 137-198).
THEOREM ValidatedMeansPassedAlways == Spec => []ValidatedMeansPassed
  BY ValidatedMeansPassedHolds, Invariant, PTL

\* The report at the end of a turn calls nothing validated in a turn with a
\* failing run (agent/validate.go 86-93).
THEOREM ReportIsTrueAlways == Spec => []ReportIsTrue
<1>1. IInv => ReportIsTrue
  BY DEF IInv
<1> QED
  BY <1>1, Invariant, PTL

\* Only commands a completed task passed are learnt (coordinator.go 468-498).
THEOREM LearntOnlyWhatPassedAlways == Spec => []LearntOnlyWhatPassed
<1>1. IInv => LearntOnlyWhatPassed
  BY DEF IInv, LessonsTrue, PlaceTrue, Place, LearntOnlyWhatPassed
<1> QED
  BY <1>1, Invariant, PTL

\* A task keeps the promise of TaskLife: closed at most once, its verdicts only
\* rising, learnt from once and after it completed (coordinator.go 167-211,
\* 394-419, 527-546, validation/service.go 164-198).
THEOREM KeepsPromiseAlways == Spec => KeepsPromise
  BY InitPromised, StepPromised, Invariant, PTL DEF Spec, KeepsPromise, Life!Spec

\* As long as one session edits and nothing changes the tree behind the history,
\* a cached pass stands for the tree it is used for (validation/plan.go 19-22,
\* task/validate.go 111-128).
THEOREM CachedPassVouches == Spec => CachedPassVouchesForTree
<1>1. IInv /\ OneTurn /\ TreeKept /\ [Next]_vars => (OneTurn /\ TreeKept)'
  BY OneTurnStep, TreeStep
<1>2. Spec => [](OneTurn /\ TreeKept)
  BY <1>1, InitTree, Invariant, PTL DEF Spec
<1>3. IInv /\ TreeKept /\ [Next]_vars =>
        [\A t \in Tasks, r \in runs :
           At(t, "cache") /\ At(t, "attach")' /\ r.at = intent'[t].at /\ r.tree # tree =>
             foreign \/ \E s, z \in Sessions : s # z /\ recorded[s] # None /\ recorded[z] # None]_vars
  BY CacheHits DEF Alone
<1> QED
  BY <1>2, <1>3, Invariant, PTL DEF Spec, CachedPassVouchesForTree
==============================================================================
