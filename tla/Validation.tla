------------------------------ MODULE Validation ------------------------------
(***************************************************************************)
(* The validation service, internal/validation: the runs of a project's     *)
(* commands, the evidence they leave for a task's acceptance criteria, the  *)
(* cache of passing runs and the proof of done derived from the evidence.   *)
(*                                                                         *)
(* The turn of a task t works through a plan of intents, one per command of  *)
(* the profile and each for every criterion.  A database call fails when its *)
(* context is dead, that is cancelled, and may fail otherwise.              *)
(***************************************************************************)
EXTENDS Naturals, FiniteSets, FiniteSetsExt

CONSTANTS Tasks,
          Trees,       \* contents of the working tree
          None,        \* no task, no content, no key
          NumCmds,     \* validation commands of the project's profile
          NumCriteria, \* acceptance criteria of a task
          MaxFaults    \* bound on database calls that fail by themselves

ASSUME ValidationAssumption ==
  /\ None \notin Tasks \cup Trees
  /\ NumCmds \in Nat \ {0}
  /\ NumCriteria \in Nat \ {0}
  /\ MaxFaults \in Nat

VARIABLES
  runs,     \* validation_runs
  evidence, \* validation_evidence
  intent,   \* where each turn is in RunIntent
  faults    \* database calls that failed by themselves

validation == <<runs, evidence, intent>>

Cmds == 1 .. NumCmds
Criteria == 1 .. NumCriteria
Keys == Trees \cup {None}

\* at is created_at, the time RunIntent started; it stands for the run's id too.
\* tree is the tree the command ran on, which the row does not say.
Run == [task : Tasks, cmd : Cmds, key : Keys, tree : Trees, at : Nat,
        status : {"passed", "failed", "skipped"}]

Evidence == [task : Tasks, crit : Criteria, run : Nat]

Steps == {"idle", "cache", "run", "record", "attach", "over"}

Intent == [step : Steps, key : Keys, cmd : Cmds,
           crit : Criteria, at : Nat, status : {"none", "passed", "failed", "skipped"}]

Idle == [step |-> "idle", key |-> None, cmd |-> 1, crit |-> 1,
         at |-> 0, status |-> "none"]

ValidationInit ==
  /\ runs = {}
  /\ evidence = {}
  /\ intent = [t \in Tasks |-> Idle]
  /\ faults = 0

\* The outcome of a database call made with a context that may be dead.
Call(dead, ok) ==
  /\ dead => ~ok
  /\ ~ok /\ ~dead => faults < MaxFaults
  /\ faults' = IF ~ok /\ ~dead THEN faults + 1 ELSE faults
------------------------------------------------------------------------------
RunsOf(t) == {r \in runs : r.task = t}

Latest(rs) == {r \in rs : \A q \in rs : q.at <= r.at}

\* CachedPass looks at the runs of every task.
CachedPass(cmd, key) ==
  Latest({r \in runs : r.cmd = cmd /\ r.key = key /\ r.status = "passed"})

\* Mutant of DeriveState: passing evidence is looked at first.
PassFirst(statuses) ==
  IF "passed" \in statuses THEN "validated"
  ELSE IF "failed" \in statuses THEN "blocked"
  ELSE "partly"

\* deriveState; "other" is evidence from a run that is not the task's own.
DeriveState(statuses) ==
  IF "failed" \in statuses THEN "blocked"
  ELSE IF "passed" \in statuses THEN "validated"
  ELSE "partly"

OwnStatus(e) ==
  IF \E r \in RunsOf(e.task) : r.at = e.run
  THEN (CHOOSE r \in RunsOf(e.task) : r.at = e.run).status
  ELSE "other"

ProofOfDone(t, c) ==
  LET found == {e \in evidence : e.task = t /\ e.crit = c}
  IN IF found = {} THEN "uncovered" ELSE DeriveState({OwnStatus(e) : e \in found})

\* The commands whose latest run for the task passed.
SuccessfulCommands(t) ==
  {c \in Cmds : \E r \in Latest({q \in RunsOf(t) : q.cmd = c}) : r.status = "passed"}
------------------------------------------------------------------------------
Now == 1 + Max({0} \cup {r.at : r \in runs} \cup {intent[t].at : t \in Tasks})

At(t, step) == intent[t].step = step

Set(t, i) == intent' = [intent EXCEPT ![t] = i]

\* RunIntent is done with, one way or another: the loop over the plan goes on.
NextIntent(t) ==
  Set(t, IF intent[t].cmd < NumCmds
         THEN [intent[t] EXCEPT !.step = "cache", !.cmd = @ + 1, !.crit = 1, !.status = "none"]
         ELSE [intent[t] EXCEPT !.step = "over"])

Plan(t, key) ==
  /\ Set(t, [Idle EXCEPT !.step = "cache", !.key = key])
  /\ UNCHANGED <<runs, evidence>>

\* RunIntent starts: it reads the cache, which may fail, hit or miss.
LookUp(t, dead, ok) ==
  /\ At(t, "cache")
  /\ Call(dead, ok)
  /\ \/ /\ ~ok
        /\ NextIntent(t)
     \/ /\ ok
        /\ \E r \in CachedPass(intent[t].cmd, intent[t].key) :
             Set(t, [intent[t] EXCEPT !.step = "attach", !.at = r.at, !.status = "passed"])
     \/ /\ ok
        /\ CachedPass(intent[t].cmd, intent[t].key) = {}
        /\ Set(t, [intent[t] EXCEPT !.step = "run", !.at = Now])
  /\ UNCHANGED <<runs, evidence>>

\* The approver asks, the shell runs the command: status is skipped when the
\* user said no, or the context is dead by the time the runner returns.
RunCommand(t, dead, status) ==
  /\ At(t, "run")
  /\ dead => status = "skipped"
  /\ Set(t, [intent[t] EXCEPT !.step = "record", !.status = status])
  /\ UNCHANGED <<runs, evidence, faults>>

RunRow(t, tree) ==
  [task |-> t, cmd |-> intent[t].cmd, key |-> intent[t].key,
   tree |-> tree, at |-> intent[t].at, status |-> intent[t].status]

EvidenceRow(t) == [task |-> t, crit |-> intent[t].crit, run |-> intent[t].at]

\* InsertRun, detached from cancellation.
Record(t, tree, ok) ==
  /\ At(t, "record")
  /\ Call(FALSE, ok)
  /\ runs' = IF ok THEN runs \cup {RunRow(t, tree)} ELSE runs
  /\ IF ok /\ intent[t].status # "skipped"
     THEN Set(t, [intent[t] EXCEPT !.step = "attach"])
     ELSE NextIntent(t)
  /\ UNCHANGED evidence

\* Mutant of Attach: the first criterion's evidence replaces what there was.
AttachAfresh(t, dead, ok) ==
  /\ At(t, "attach")
  /\ Call(dead, ok)
  /\ evidence' = {e \in evidence : e.task # t} \cup {EvidenceRow(t)}
  /\ NextIntent(t)
  /\ UNCHANGED runs

\* attachEvidence, one InsertEvidence per criterion; the first error ends it.
Attach(t, dead, ok) ==
  /\ At(t, "attach")
  /\ Call(dead, ok)
  /\ evidence' = IF ok THEN evidence \cup {EvidenceRow(t)} ELSE evidence
  /\ IF ok /\ intent[t].crit < NumCriteria
     THEN Set(t, [intent[t] EXCEPT !.crit = @ + 1])
     ELSE NextIntent(t)
  /\ UNCHANGED runs

RunIntent(t, tree, dead) ==
  \/ \E ok \in BOOLEAN : LookUp(t, dead, ok) \/ Record(t, tree, ok) \/ Attach(t, dead, ok)
  \/ \E status \in {"passed", "failed", "skipped"} : RunCommand(t, dead, status)

ValidationTypeOK ==
  /\ runs \subseteq Run
  /\ evidence \subseteq Evidence
  /\ intent \in [Tasks -> Intent]
  /\ faults \in 0 .. MaxFaults
==============================================================================
