-------------------------------- MODULE Tasks --------------------------------
(***************************************************************************)
(* The life of a task, internal/task and internal/llm/agent/validate.go: a  *)
(* turn begins one with four database writes, works, validates what it      *)
(* changed, and closes the task by the deferred Finish or Fail, with the    *)
(* request's context.  A subagent's task is begun by the turn that waits    *)
(* for it; `aux task begin` begins tasks nobody works on.                   *)
(*                                                                         *)
(* Sessions share one working tree and the tables of tasks, file history,   *)
(* runs and evidence.  The tree also changes behind the history's back: by  *)
(* the shell, the user, another program.                                    *)
(***************************************************************************)
EXTENDS Validation

CONSTANT Sessions

ASSUME TasksAssumption == None \notin Sessions

VARIABLES
  status,   \* tasks.status, none without a row
  specs,    \* tasks with a row in task_specs
  kind,     \* turn, subagent or command
  sess,     \* the session of a turn, and of the turn a subagent works for
  parent,   \* who begins the task for one of its own
  pc,       \* where the begin, the turn and the close of the task are
  outcome,  \* result.Error of processGeneration
  dead,     \* turns whose request was cancelled
  report,   \* criteria the validation report calls validated
  learnt,   \* commands in procedural memory, and Episode, by task
  snapped,  \* tasks with a task-complete checkpoint
  tree,     \* content of the working tree
  recorded, \* latest content in the file history of a session
  newest,   \* sessions whose version is as recent as any of the file
  edited,   \* turns that recorded a version
  foreign   \* history: the tree changed behind the history

files == <<tree, recorded, newest, edited, foreign>>
rows  == <<status, specs, learnt, snapped>>
begun == <<kind, sess, parent>>
vars  == <<validation, faults, files, rows, begun, pc, outcome, dead, report>>

Open == {"compiled", "running"}
Episode == 0
Kinds == {"turn", "sub", "command"}

\* Begin's writes, the turn with and without a task, the close.
States == {"idle", "insert", "spec", "budget", "start", "work", "untracked", "plan",
           "validate", "finish", "snap", "learn", "fail", "done"}

Init ==
  /\ ValidationInit
  /\ status = [t \in Tasks |-> "none"]
  /\ specs = {}
  /\ kind = [t \in Tasks |-> "none"]
  /\ sess = [t \in Tasks |-> None]
  /\ parent = [t \in Tasks |-> None]
  /\ pc = [t \in Tasks |-> "idle"]
  /\ outcome = [t \in Tasks |-> "none"]
  /\ dead = {}
  /\ report = [t \in Tasks |-> {}]
  /\ learnt = [t \in Tasks |-> {}]
  /\ snapped = {}
  /\ tree \in Trees
  /\ recorded = [s \in Sessions |-> None]
  /\ newest = {}
  /\ edited = {}
  /\ foreign = FALSE

Goto(t, from, to) ==
  /\ pc[t] = from
  /\ pc' = [pc EXCEPT ![t] = to]

\* A subagent's context derives from its parent's.
Dead(t) == t \in dead \/ (kind[t] = "sub" /\ parent[t] \in dead)

Working(t) == pc[t] \in {"work", "untracked"}

Over(t) == pc[t] \in {"idle", "done"}

\* ListLatestSessionFiles: a session's version of a file is missing when
\* another session recorded a later one.
LatestOf(s) == IF s \in newest THEN recorded[s] ELSE None
------------------------------------------------------------------------------
\* agent.go processGeneration calls Begin; a session runs one turn at a time,
\* and the agent tool waits for the subagent it started.  BeginMultiRepo begins
\* the children after their parent, one by one.
BeginTask(t, k, s, p) ==
  /\ pc[t] = "idle"
  /\ \/ /\ k = "turn" /\ s # None /\ p = None
        /\ \A o \in Tasks : sess[o] = s => Over(o)
     \/ /\ k = "sub" /\ p # None
        /\ kind[p] = "turn" /\ Working(p) /\ s = sess[p]
     \/ /\ k = "command" /\ s = None
        /\ p # None => kind[p] = "command" /\ pc[p] = "done" /\ status[p] = "running"
        /\ \A o \in Tasks : kind[o] = "command" => Over(o)
  /\ kind' = [kind EXCEPT ![t] = k]
  /\ sess' = [sess EXCEPT ![t] = s]
  /\ parent' = [parent EXCEPT ![t] = p]
  /\ pc' = [pc EXCEPT ![t] = "insert"]
  /\ UNCHANGED <<validation, faults, files, rows, outcome, dead, report>>

\* Where a step of Begin leads: when it failed, a turn goes on without a task.
Onward(t, from, to, ok) ==
  Goto(t, from, IF ok THEN to ELSE IF kind[t] = "command" THEN "done" ELSE "untracked")

CreateTask(t, ok) ==
  /\ Onward(t, "insert", "spec", ok)
  /\ Call(Dead(t), ok)
  /\ status' = [status EXCEPT ![t] = IF ok THEN "compiled" ELSE @]
  /\ UNCHANGED <<validation, files, specs, learnt, snapped, begun, outcome, dead, report>>

SaveSpec(t, ok) ==
  /\ Onward(t, "spec", "budget", ok)
  /\ Call(Dead(t), ok)
  /\ specs' = IF ok THEN specs \cup {t} ELSE specs
  /\ UNCHANGED <<validation, files, status, learnt, snapped, begun, outcome, dead, report>>

SaveBudget(t, ok) ==
  /\ Onward(t, "budget", "start", ok)
  /\ Call(Dead(t), ok)
  /\ UNCHANGED <<validation, files, rows, begun, outcome, dead, report>>

StartTask(t, ok) ==
  /\ Onward(t, "start", IF kind[t] = "command" THEN "done" ELSE "work", ok)
  /\ Call(Dead(t), ok)
  /\ status' = [status EXCEPT ![t] = IF ok THEN "running" ELSE @]
  /\ UNCHANGED <<validation, files, specs, learnt, snapped, begun, outcome, dead, report>>

Begin(t) ==
  \E ok \in BOOLEAN :
    CreateTask(t, ok) \/ SaveSpec(t, ok) \/ SaveBudget(t, ok) \/ StartTask(t, ok)
------------------------------------------------------------------------------
\* The user cancels the request of a turn.
Cancel(t) ==
  /\ kind[t] = "turn"
  /\ ~Over(t)
  /\ dead' = dead \cup {t}
  /\ UNCHANGED <<validation, faults, files, rows, begun, pc, outcome, report>>

\* An editing tool of a turn writes the tree and records it in the history,
\* whose times are seconds: another session's version may be as recent.  The
\* tools of a subagent write nothing.
Edit(t, x) ==
  /\ kind[t] = "turn" /\ Working(t)
  /\ tree' = x
  /\ recorded' = [recorded EXCEPT ![sess[t]] = x]
  /\ newest' \in {{sess[t]}, newest \cup {sess[t]}}
  /\ edited' = edited \cup {t}
  /\ UNCHANGED <<validation, faults, foreign, rows, begun, pc, outcome, dead, report>>

EditUnrecorded(x) ==
  /\ ~foreign
  /\ tree' = x
  /\ foreign' = TRUE
  /\ UNCHANGED <<validation, faults, recorded, newest, edited, rows, begun, pc, outcome, dead,
                 report>>

\* The turn's loop ends, with its subagents: with an answer, an error, or the
\* context's own error.
EndWork(t, end) ==
  /\ Working(t)
  /\ \A o \in Tasks : parent[o] = t => Over(o)
  /\ end = "canceled" => Dead(t)
  /\ outcome' = [outcome EXCEPT ![t] = end]
  /\ pc' = [pc EXCEPT ![t] = IF pc[t] = "untracked" THEN "done"
                             ELSE IF end = "none" THEN "plan" ELSE "fail"]
  /\ UNCHANGED <<validation, faults, files, rows, begun, dead, report>>
------------------------------------------------------------------------------
\* changedDuringTask compares seconds: a version of an earlier turn of the
\* session may count as the task's own.
ChangedDuringTask(t, changed) ==
  /\ t \in edited => changed
  /\ changed => recorded[sess[t]] # None

\* Mutant of Fingerprint: the commit alone.
RevisionOnly(t) == None

\* workingTreeFingerprint; the commit does not change here.
Fingerprint(t) == LatestOf(sess[t])

\* PlanValidation and the checks before it: a subagent's task, one without
\* changes, one that cannot be planned and one switched off are not validated.
PlanValidation(t) ==
  /\ kind[t] = "turn" /\ ~Dead(t)
  /\ ChangedDuringTask(t, TRUE)
  /\ Goto(t, "plan", "validate")
  /\ Plan(t, Fingerprint(t))
  /\ UNCHANGED <<faults, files, rows, begun, outcome, dead, report>>

\* Mutant of SkipValidation: the turn returns before the close is deferred.
SkipClose(t) ==
  /\ Goto(t, "plan", "done")
  /\ UNCHANGED <<validation, faults, files, rows, begun, outcome, dead, report>>

SkipValidation(t) ==
  /\ Goto(t, "plan", "finish")
  /\ UNCHANGED <<validation, faults, files, rows, begun, outcome, dead, report>>

Validate(t) ==
  /\ pc[t] = "validate"
  /\ RunIntent(t, tree, Dead(t))
  /\ UNCHANGED <<files, rows, begun, pc, outcome, dead, report>>

\* Mutant of Report: the proof is read with a context of its own.
ReportDetached(t, ok) ==
  /\ At(t, "over")
  /\ Goto(t, "validate", "finish")
  /\ Call(FALSE, ok)
  /\ report' = [report EXCEPT ![t] =
       IF ok THEN {c \in Criteria : ProofOfDone(t, c) = "validated"} ELSE {}]
  /\ Set(t, Idle)
  /\ UNCHANGED <<runs, evidence, files, rows, begun, outcome, dead>>

\* The report on the proof of done, which may be unreadable.
Report(t, ok) ==
  /\ At(t, "over")
  /\ Goto(t, "validate", "finish")
  /\ Call(Dead(t), ok)
  /\ report' = [report EXCEPT ![t] =
       IF ok THEN {c \in Criteria : ProofOfDone(t, c) = "validated"} ELSE {}]
  /\ Set(t, Idle)
  /\ UNCHANGED <<runs, evidence, files, rows, begun, outcome, dead>>
------------------------------------------------------------------------------
\* Finish returns when SetStatus fails; the rest is detached.
FinishTask(t, ok) ==
  /\ Goto(t, "finish", IF ok THEN "snap" ELSE "done")
  /\ Call(Dead(t), ok)
  /\ status' = [status EXCEPT ![t] = IF ok THEN "completed" ELSE @]
  /\ UNCHANGED <<validation, files, specs, learnt, snapped, begun, outcome, dead, report>>

\* captureCheckpoint: the session is that of the context, which only a
\* subagent's has, and it is the parent's.
CaptureCheckpoint(t, ok) ==
  /\ Goto(t, "snap", "learn")
  /\ Call(FALSE, ok)
  /\ snapped' = IF ok /\ kind[t] = "sub" /\ LatestOf(sess[t]) # None
                THEN snapped \cup {t} ELSE snapped
  /\ UNCHANGED <<validation, files, status, specs, learnt, begun, outcome, dead, report>>

\* learnFromTask: the first error ends it.
LearnFromTask(t, ok) ==
  LET lessons == {Episode} \cup SuccessfulCommands(t)
  IN /\ Goto(t, "learn", "done")
     /\ Call(FALSE, ok)
     /\ IF ok THEN learnt' = [learnt EXCEPT ![t] = lessons]
        ELSE \E l \in SUBSET lessons : learnt' = [learnt EXCEPT ![t] = l]
     /\ UNCHANGED <<validation, files, status, specs, snapped, begun, outcome, dead, report>>

FailTask(t, ok) ==
  /\ Goto(t, "fail", "done")
  /\ Call(Dead(t), ok)
  /\ status' = [status EXCEPT ![t] =
       IF ~ok THEN @ ELSE IF outcome[t] = "canceled" THEN "cancelled" ELSE "failed"]
  /\ UNCHANGED <<validation, files, specs, learnt, snapped, begun, outcome, dead, report>>

Close(t) ==
  \E ok \in BOOLEAN :
    FinishTask(t, ok) \/ CaptureCheckpoint(t, ok) \/ LearnFromTask(t, ok) \/ FailTask(t, ok)
------------------------------------------------------------------------------
Turn(t) ==
  \/ Begin(t)
  \/ \E end \in {"none", "error", "canceled"} : EndWork(t, end)
  \/ PlanValidation(t) \/ SkipValidation(t) \/ Validate(t)
  \/ \E ok \in BOOLEAN : Report(t, ok)
  \/ Close(t)

Next ==
  \/ \E t \in Tasks :
       \/ \E k \in Kinds, s \in Sessions \cup {None}, p \in Tasks \cup {None} : BeginTask(t, k, s, p)
       \/ Turn(t)
       \/ Cancel(t)
       \/ \E x \in Trees : Edit(t, x)
  \/ \E x \in Trees : EditUnrecorded(x)

Spec == Init /\ [][Next]_vars
------------------------------------------------------------------------------
TypeOK ==
  /\ ValidationTypeOK
  /\ status \in [Tasks -> {"none", "completed", "failed", "cancelled"} \cup Open]
  /\ specs \subseteq Tasks
  /\ kind \in [Tasks -> Kinds \cup {"none"}]
  /\ sess \in [Tasks -> Sessions \cup {None}]
  /\ parent \in [Tasks -> Tasks \cup {None}]
  /\ pc \in [Tasks -> States]
  /\ outcome \in [Tasks -> {"none", "error", "canceled"}]
  /\ dead \subseteq Tasks
  /\ report \in [Tasks -> SUBSET Criteria]
  /\ learnt \in [Tasks -> SUBSET ({Episode} \cup Cmds)]
  /\ snapped \subseteq Tasks
  /\ tree \in Trees
  /\ recorded \in [Sessions -> Trees \cup {None}]
  /\ newest \subseteq Sessions
  /\ edited \subseteq Tasks
  /\ foreign \in BOOLEAN

\* A task a turn or a subagent works on is left open only when the request was
\* cancelled or a write failed by itself: every other way out of
\* processGeneration closes it (agent.go 349-360, coordinator.go 394-398).
LeftOpenOnlyIfCut ==
  \A t \in Tasks : kind[t] \in {"turn", "sub"} /\ pc[t] = "done" /\ status[t] \in Open =>
    Dead(t) \/ faults > 0

Attaching(r) == At(r.task, "attach") /\ intent[r.task].at = r.at

FailedRun(t) == {r \in RunsOf(t) : r.status = "failed"}

\* A criterion counts as validated only by a passing run of the task itself,
\* and beside a failing run only when that run's evidence is still being
\* written, or was cut off by cancellation or a failed write: a cached pass of
\* another task never validates (validation/service.go 92-124, 137-198).
ValidatedMeansPassed ==
  \A t \in Tasks, c \in Criteria : ProofOfDone(t, c) = "validated" =>
    /\ \E r \in RunsOf(t) : r.status = "passed"
    /\ \A r \in FailedRun(t) : Attaching(r) \/ faults > 0 \/ Dead(t)

\* What the report at the end of a turn calls validated had no failing run in
\* that turn, whether or not the request was cancelled on the way: once its
\* context is dead nothing is reported (agent/validate.go 86-93).
ReportIsTrue ==
  \A t \in Tasks : report[t] # {} /\ faults = 0 => FailedRun(t) = {}

\* A cached pass vouches for the tree it is used for, as long as one session
\* edits and nothing changes the tree behind the history: the key holds the
\* contents, not only the commit (validation/plan.go 19-22, task/validate.go
\* 111-128).
CachedPassVouchesForTree ==
  [][\A t \in Tasks, r \in runs :
       At(t, "cache") /\ At(t, "attach")' /\ r.at = intent'[t].at /\ r.tree # tree =>
         foreign \/ \E s, z \in Sessions : s # z /\ recorded[s] # None /\ recorded[z] # None]_vars

\* Memory and skills learn a command only from a completed task of which it
\* passed a run that was really made (coordinator.go 468-498).
LearntOnlyWhatPassed ==
  \A t \in Tasks : learnt[t] # {} =>
    /\ status[t] = "completed"
    /\ \A c \in learnt[t] \ {Episode} : \E r \in RunsOf(t) : r.cmd = c /\ r.status = "passed"

\* A task keeps the abstract promise: closed once and for good, its verdicts
\* never sinking, learnt from once (coordinator.go 167-211, 394-419, 527-546).
Life == INSTANCE TaskLife WITH
  phase <- status,
  verdict <- [t \in Tasks |-> [c \in Criteria |-> ProofOfDone(t, c)]],
  Lessons <- {Episode} \cup Cmds

KeepsPromise == Life!Spec

\* validation/service.go 107-113: "proof-of-done reports it Validated - a failed
\* validation presented as a successful one, which is the single invariant this
\* package exists to hold".
FailedRunBlocks ==
  \A t \in Tasks, c \in Criteria :
    ProofOfDone(t, c) = "validated" =>
      \A r \in FailedRun(t) : Attaching(r)
==============================================================================
