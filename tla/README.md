# A verification project for aux-cli

TLA+ modules that model the core of this program, TLC configurations that check
them on small instances, and theorems about them that TLAPS checks for every
instance. Paths and line numbers are those of the repository (`src/`).
`PROJECT.json` maps every definition to the lines it translates and lists every
run, theorem, hazard and finding.

- [The system](#the-system)
- [The modules](#the-modules)
- [The runs](#the-runs)
- [Bounds](#bounds)
- [Fairness](#fairness)
- [The proofs](#the-proofs)
- [Findings](#findings)
- [What is not modelled](#what-is-not-modelled)
- [Plan](#plan)

## The system

aux-cli is a coding agent for the terminal. One process holds a terminal UI (or,
with `-p`, a headless run), one coder agent, and services over a SQLite file.
Each user message starts a goroutine that loops over rounds of a model call and
the tool calls it asks for.

    TUI loop --- Run / Cancel / Update / Summarize ---> agent
       ^  |                                              | goroutine per request
       |  +-- Grant / GrantPersistant / Deny --+         v
       |                                       |   processGeneration
       |                          permission service <-- tools ask, block
       |                                       |         |
       +---- forwarders <---- brokers <--------+---------+-- message service
             (cmd/root.go)    (pubsub)                       (streamWriter, SQLite)

| Part | State | Operations | Hard because of | Correct when |
| --- | --- | --- | --- | --- |
| Agent request registry, `llm/agent/agent.go` | `activeRequests`: a cancel function per session, and one per session being summarized; the provider | `Run`, `Cancel`, `IsSessionBusy`, `Update`, `Summarize` | check and store without a lock; teardown that runs twice; panics; a result channel nobody may read; a summary made while a turn runs | turns of a session do not overlap; no marker outlives its request; a cut made by a summary loses no turn |
| Agent turn, `agent.go` | the assistant message in memory, the stream, the request's context | `processGeneration`, `streamAndHandleEvents`, `processEvent`, `finishMessage` | cancellation between any two steps, failing writes, streams that end early | every message ends with its finish marker on disk; the turn ends |
| Tool batches, `llm/agent/toolbatch.go` | results, the loop's index, `effectfulStopped` | `executeToolCalls`, `runReadOnlyBatch` | parallel reads, denials, cancellation | one result per call, in order; effects alone; nothing effectful after a denial |
| Message service, `message/` | the messages table, `streamWriter.pending`, its timers | `Create`, `Update`, `UpdateStreamed`, `FlushStreamed` | coalesced writes that race direct ones | nothing on disk goes back |
| Permission service, `permission/permission.go` | session modes, links, grants, refusals, `pendingRequests`, `promptMu` | `Request`, `Grant`, `GrantPersistant`, `Deny`, `AutoApproveSession`, `DenyAllSession`, `LinkSession`, `Denied` | parallel callers, one dialog, answers that come late or twice, prompts that get lost | one prompt at a time; each request gets its own answer; a headless run never waits |
| Event broker, `pubsub/broker.go` | subscriber channels, a read-write lock, `done` | `Subscribe`, `Publish`, `Shutdown` | send against close, full buffers | no panic; events missed only by full buffers |
| Task lifecycle, `task/` | tasks with status, spec and budget | `Begin`, `BeginMultiRepo`, `Finish`, `Fail`, `PlanValidation` | several writes, any of which may fail; a dead context at the end | a task is closed once; it is left open only by a cancellation or a failed write; it teaches only what passed |
| Validation, `validation/` | runs, evidence, cached passes | `RunIntent`, `CachedPass`, `ProofOfDone`, `SuccessfulCommands` | the fingerprint is older than its use; a run and its evidence are written apart | a criterion is validated by a run of its own task and not beside a failed one |
| Cost ledger and governor, `cost/`; sessions, `session/` | a row per model call; totals per session | `StartCall`, `FinishCall`, totals, `Save`, `SetTitle`, `budgetStop` | four writers of one row; cancelled turns that still write | totals are the sum of the calls; no record stays open; no budget is passed without leave |
| File history, `history/`; checkpoints, `checkpoint/`, `mutationcp/` | versions of files, change sets | `Create`, `CreateVersion`, `ListLatestSessionFiles`, `OnToolCompleted` | sessions that write one path; stamps in seconds; retries | what was written is recorded; originals are originals; the first change is captured |
| Tools, `llm/tools/` | files, the time of each file's last read | view, edit, write, patch | the wait for permission between read and write; a cancellation between write and record; moves in two steps | nothing is overwritten that nobody saw; a failed call changed nothing |
| Persistent shell, `llm/tools/shell/` | a process, a queue, status files | `GetPersistentShell`, `Exec` | commands that hang, a pipe that is full, a shell that dies under its callers or never starts | each result is the command's own; every `Exec` returns |
| Event store, `eventstore/`; execution records, `toolexec/` | an append-only log | `Append`, `List` | publish after commit, without a lock | sequence numbers increase |
| Prompt compiler, `promptcompiler/`; pages, `contextstore/`; memory, skills, artifacts | derived text, candidates, blobs | compile, exclude, pin, review | pairing of calls and results | a compiled prompt is well formed |
| Providers, `llm/provider/` | a stream and its retries | `StreamResponse`, `SendMessages` | an unbuffered channel, retries into one message, cancellation while waiting to retry | the message is that of one attempt; nobody waits for ever |
| UI, `tui/`; application, `app/`, `cmd/` | dialogs, pages, subscriptions | key and event handling | ordering of messages | the dialog shown is the request answered |
| Language servers, dashboard, configuration, database, evaluation, utilities | | | little of it concurrent with the above | |

The hazards of this code, each at its line, are listed in `PROJECT.json` with
the properties that cover them; those without a property say what they wait for.

## The modules

| Module | Models | Extends |
| --- | --- | --- |
| `AgentRequests` | `Run`, `Cancel`, `Update`, `Summarize` and their goroutines | |
| `Permission` | the permission service, the UI's dialog, the forwarder between them | |
| `Broker` | the event broker | |
| `Delivery` | what a broker promises; `Broker` is shown to implement it | |
| `Transcript` | the message service as a turn uses it | |
| `ToolBatch` | `executeToolCalls` and `runReadOnlyBatch` | |
| `AgentTurn` | `processGeneration`: the rounds of a request | `Transcript`, `ToolBatch` |
| `Tasks` | the life of a task within a turn, from `Begin` to what is learnt | `Validation` |
| `Validation` | runs, cache, evidence and proof of done | |
| `TaskLife` | what a task promises; `Tasks` is shown to implement it | |
| `Edits` | view, edit, write and patch, the record of reads, the first checkpoint | `FileHistory` |
| `FileHistory` | the versions of files and the change sets made of them | |
| `Ledger` | records of model calls, session totals, the governor, titles and compactions | |
| `Shell` | the persistent shell, its callers and its process | |
| `Answer` | the state of a streamed answer, and what it must be in the end | |
| `Stream` | a provider's stream with its retries, and the agent's loop over it | `Answer` |
| `MC*` | the instances TLC checks | the module named |
| `*_proofs` | the theorems | the module named |

**AgentRequests.** A request is one call of `Run` or `Summarize`; `pc` says where
its code is, `active` is `activeRequests`. A step of the model ends where another
goroutine can see a difference: `RunCheck` is the busy check (298), `RunStore` the
store (304), `Release` the first Delete (333), `Deliver` the hand-off (334-336),
`DeferredRelease` and `CloseEvents` the defers (318-319). `Run`, `Cancel` and
`Update` are called by the UI's one goroutine, so a `RunCheck` is not interleaved
with another or with an `UpdateModel`; `Summarize` is called by a command's
goroutine (tui.go:471-474) and is. The transcript is a sequence of the requests
whose messages it has, and `Window` is what `processGeneration` would send of it
(384-396). A turn's `reconcileSession` reads its session's row (`ReadRow`) and saves it
whole (`SaveRow`), with the `SummaryMessageID` of the time it read it (998-1022).
`erased` and `mixed` record history and guard nothing.

**Permission.** A caller is one call of `Request`; its steps are those of the code
from the mode check to the two defers. The grant list, the pending map and the
channel of capacity one are state; `promptMu` is `lock`. On the other side the UI
shows a dialog, turns key presses into messages (a bag: each goes through a
goroutine of its own), and handles one message at a time in three steps: record
the grant, load the channel, send and hide the dialog. `DropEvent` is the
forwarder's two-second limit (root.go:313-316) and the broker's full buffer.
`StartHeadless` and `OpenSubagent` are the headless run and the agent tool.
Requests that match are those with one `Keys` value, which stands for tool,
action, path and fingerprint together.

**Broker and Delivery.** The lock is a set of readers and a writer; everything the
code does under it between two points where others could tell is one step. The
goroutine of each subscription is `WatchLock` and `WatchClose`. `Shutdown` is
called at most once (the second call returns at once); in the repository only
tests call it. `Delivery` knows nothing of locks: events are handed to a
subscriber while they are in flight, at most once each, between the opening and
the single closing of its channel.

**Transcript, ToolBatch, AgentTurn.** One request. A message is its text (a count of
changes), its tool calls ("read" or "effect") and its finish marker. `rows` is the
table, `seen` what was published last, `mem` what the agent holds, `pending` the
coalesced write. The timer's goroutine runs beside the agent's and holds the
stream writer's lock across its write (`writing`); because a pending write shares
its parts with the agent's message, text changed in place until the write is
written with it (`Racing`), parts appended since are not. Every context that the
code passes is kept: writes with the request's own context fail once it is dead,
detached ones only by a fault of the database, of which there are at most
`MaxFaults`. A batch's calls run in any overlap the semaphore allows.

**Validation, Tasks and TaskLife.** A task is begun by a turn, by a subagent (whose
parent waits for it and whose context derives from its parent's), or by `aux task
begin`. Each database write of the code is a step that fails when its context is
dead and, at most `MaxFaults` times, by itself; what the code does with the error
is what the model does: `Begin` leaves the turn without a task (347-362), `Finish`
returns before its checkpoint (399), evidence that cannot be written ends the
intent only (validate.go:69-85). The tree is one value; the history knows of it
what the session's latest versions show, which is the fingerprint
(`Fingerprint`, `LatestOf`), and `EditUnrecorded` changes it behind the history.
A run records the tree it ran on, which the program's row does not: only
`CachedPassVouchesForTree` looks at it. `ChangedDuringTask` is nondeterministic
within a second. A turn that panics closes its task as completed, because the
deferred closure looks only at the result's error (agent.go 354-360); that is
`EndWork(t, "none")` followed by `SkipValidation`. The budget's row is a step
without state. `TaskLife` promises that a task is closed once, that the verdict on
a criterion only rises from uncovered to blocked, and that it is learnt from once.

**FileHistory and Edits.** A content is a number, new with each write; a session's
row has a version and a stamp in seconds, and where the SQL orders by the stamp
alone, any of the latest rows may come first (`Newest`). `Insert` is the three
attempts of `createWithVersion`. A call of a tool checks, waits for permission,
writes its files one by one, and then records them one by one: `Versions` is the
list of history writes that edit, write and patch make, in their order. A patch may
move a file it updates (`dest`): the new content goes to the target (`MoveFile`),
which was neither read nor checked and of which no version is recorded, and then the
file is removed (`RemoveMoved`, from `leaving`), each of which may fail
(diff/patch.go 143-154, 601-607; patch.go 98-148, 291-345). The target may be any
path, the file itself and another file of the patch included. What edit does after it
has created or deleted, namely to go on to `replaceContent`, is `FailAgain` and
`ReplaceAgain` (edit.go 138-155). `readAt` compares a file's
modification time with the last read of any session; `RemoveOutside` is the user
or the shell. `seen`, `slipped`, `orig` and `displaced` record history and guard
nothing.

**Ledger.** Every charged call costs 1. Before a call the governor reads the task's
spending: at the ceiling it asks (`BudgetStop`), and if the totals cannot be read it
does not (`BudgetUnread`, agent.go 933-935). The request for permission is answered
by the user (`Answer`: no, once, or for the session), by an earlier grant for the
session at that spending, or by a headless run with `--yes`, in its subagents' sessions
too (`PassUnasked`). A turn then opens a record, streams, and leaves the stream by one
of four ways: `Abort`, `CompleteCall` after `Complete`, `CompleteCall` after a bare end
of the stream (`EndStream`, with a context of its own), or `Panic`, on an error event
without an error (agent.go 655, 321), which closes no record. `FinishCall` may fail in
any of them, and is only logged (836, 889): `lost` has the calls whose end was never
written. After a completed call it reads the totals of its session, those of
subagents' sessions included, and saves the whole row in a second step. `Fault` is a
statement that fails though its context is alive. Beside it run the goroutine that sets the title,
`Summarize`, which saves a row it has read before, and cancelled turns that
unwind. `spoilt` marks the sessions whose row one of the last two wrote over,
which is where the code's totals are known to differ from the ledger.

**Shell.** `Call`, `Look`, `StartShell` and `TakeShell` are `GetPersistentShell`, whose
reads and writes of the instance are apart and under no lock but the first caller's
`sync.Once` (49-61): two callers may each replace a dead shell, and `NewShell` may fail
and leave nil (91-101), for its caller and for others, whose `Exec` then panics
(`Check`, bash.go 452-453). `Check`, `Send` and the wait are `Exec`; `Take` to
`Interrupt` are the one processor goroutine of a shell, in which the write to the pipe
(`BeginWrite`, `Write`) waits for room before the command's timeout begins; `NoteExit`
and `CloseQueue` the goroutine in `cmd.Wait`. The process reads its commands from `stdin` one by one, may hang in
one for ever and may end at any time; an interrupt takes the caller's command
from the processor but need not end it in the process, so that the next command
waits behind it. A status file is named by the command (a time in nanoseconds).

**Stream.** The adapter's goroutine and the agent's loop meet at a channel without a
buffer (`offer`). Text and tool calls carry the number of their attempt. A service
turns a call down by the status of its response, so before its first event
(`Fresh`); `EndStream` is the end of the stream without an error, which anthropic
closes without a word and the others turn into `EventComplete`. Those two read the
first choice of what they gathered (`chosen`, which `SendChoice` sets too when a choice
says nothing); a stream that had none makes their goroutine panic, and since nothing
recovers it the program dies (openai.go:308, copilot.go:489): `prov` is "crashed". `GiveUp` is the
cancellation during the wait to retry: openai and copilot send an error only
`if ctx.Err() == nil`, which it never is there (openai.go:341, copilot.go:528), and
close the channel, so that the agent's turn ends as if it had been answered.
`Unauthorized` is copilot's exchange of an expired token; past the last attempt
its error is nil (copilot.go 519-537), on which the agent panics (agent.go:655).

## The runs

| Run | Configuration | States | Shows |
| --- | --- | --- | --- |
| `agent_requests` | `AgentRequests.cfg` | 259,656 | busy markers have live owners, turns overlap only after a cancellation or an erased marker, the model is not changed under a turn, compaction loses only turns that ran beside it and is undone only by the totals of a turn of a session where one did, every request ends |
| `agent_second_delete` | `AgentSecondDelete.cfg` | | violation: see findings |
| `permission` | `Permission.cfg` | 187,266 | one prompt at a time, outcomes are deserved, grants are honoured by callers already queued, headless runs wait for nobody and report what they refused, requests return |
| `permission_wait` | `PermissionWait.cfg` | | violation: see findings |
| `broker` | `Broker.cfg` | 386,461 | no send on and no second close of a closed channel, events missed by full buffers only, channels get closed, `Broker` implements `Delivery` |
| `agent_turn` | `AgentTurn.cfg` | 663,691 | results complete and in order, effects alone, denials stop effects, no reverted message, disk and screen settle on what the agent has, finish markers land, the turn ends |
| `tasks` | `Tasks.cfg` | 1,086,350 | tasks are left open only by cancellation or failure, verdicts and reports rest on the task's own runs, a cached pass was made on the tree it is used for, `Tasks` implements `TaskLife` |
| `task_proof` | `TasksProof.cfg` | | violation: see findings |
| `edits` | `Edits.cfg` | 2,028,880 | writes are based on contents that were shown, written contents are recorded, originals are kept, the first change is captured, failed calls changed nothing, moved files are at their targets, each but for the cases the property names |
| `ledger` | `Ledger.cfg` | 3,701,125 | stored totals agree with the ledger, records are closed, budgets are not passed without leave, each but for the cases the property names |
| `shell` | `Shell.cfg` | 842,021 | results are the command's own, `Exec` returns |
| `stream` | `Stream.cfg` | 5,627 | a message is of one attempt, both goroutines end or the program does |

Type invariants are proved (`TypeCorrect`) and are in no run.

Deadlock is not checked: in every module the system may stop, because the user
need not do anything more and the calls of an instance are finitely many.

What the properties except, they name. `OverlapNeedsCancelOrErasure` allows two
turns of a session where one was cancelled: `Cancel` deletes the marker at once
(207) while the cancelled turn still unwinds, so the next one may start beside it.
`RequestReturns` gives up when a prompt was lost or the UI is blocked; that this
happens is `permission_wait`'s subject. `FinishLands` excepts a stream that closed
without `EventComplete` (the code then responds with an unfinished message) and
`ErrorOvertaken`: a provider's error is being recorded with the request's context
(544) when the request is cancelled, the write fails, and it is not repeated.
`ValidatedMeansPassed` excepts a failing run whose evidence was cut off, which is
`task_proof`'s subject. `CachedPassVouchesForTree` excepts a tree changed behind the
history and a second session that edits: the fingerprint sees neither.
`RecordedUnlessCrowded` allows a version to be lost when the session has three of
the file already: the number is derived from the path's latest row of any session,
and the three attempts may all be taken. `OriginalKept` excepts a file that a patch
added, whose new content is recorded as its "initial" (patch.go 313-336,
history/file.go 68-71), so that it is in no change set, and one that a patch wrote
before it failed at another file: the patch records nothing (patch.go 260-284), and
the next call takes what the patch left for the original. `CheckpointTaken` speaks of
the versions that `ListLatestSessionFiles` shows, which leaves a session's out once
another session recorded a later one (files.sql 56-65). `FailureChangedNothing`
excepts edit's create and delete, which report an error although they did their
work, a patch that failed at a later file, and cancelled calls. A move's target is in
none of what these properties promise: what it held is overwritten unseen, its new
content is no version, and a session's first version of it may be the moved content.
`MoveKeepsContent` excepts targets that are files of the same patch: a file moved onto
itself is written and then removed, and one that is moved onto another file of the
patch may be overwritten by it. `OpenOnlyIfCut` excepts, beside a request that dies
between its answer and the record of it, records the database would not write and
streams on which the agent panicked. `OverBudgetOnlyIfApproved` excepts spending that
could not be read and runs that approve everything, and counts what the ledger has: a
call whose end was not written is not in it. `TotalsReconcile` excepts rows written by
a compaction, whose cost is in no record of the ledger, and by a cancelled turn, and
totals the database would not read or save. `ResultIsTrue` lets a caller panic when the
process of its shell is gone or when no shell could be started. `ExecReturns` excepts
`Stuck`: behind a command that hangs for good and a full pipe, the processor waits in
its write for ever, and whoever it serves, or is queued behind that, with it.
`AnswerIsWhole` and `StreamEnds` except the death of the program on a stream without a
choice, and `StreamEnds` leaves the adapter's goroutine in its next send
for ever when the agent left the loop.

## Bounds

- `MaxRequests = 3`, one session. Every marker has a session in its key and no
  step reads another session's, except `IsBusy`, which any marker makes true. The
  erased marker needs two requests, the overlap it leads to a third.
- `MaxUpdates = 1`: one replacement of the provider is enough to be seen.
- Permission: two callers, a root session and a subagent, one key. Prompts are
  serial, so a third caller adds a second one waiting in the queue and nothing
  else; the theorems have any number. `MaxInFlight = 3` key presses, the least at
  which the UI can block; `MaxDrops = 1` lost event, enough to hold `promptMu`.
- Broker: two subscribers, two publishers, two events, `BufferSize = 1` for the
  code's 64, so that a buffer is full after one event.
- Agent turn: `MaxRounds = 2`, up to three calls in the first round and one in the
  second (`CallBound`), `MaxParallel = 2` for the code's 4, so that three reads
  wait for the semaphore; `MaxText = 2` changes, so that one is made while an
  older one is being written; `MaxFaults = 1`.
- Tasks: two tasks, in one session and in all combinations of turn, subagent and
  command; two trees, so that a cached pass may be of another; two commands, so
  that a criterion passes one and fails the other; one criterion, since no two
  share evidence (`AttachAfresh`, the mutant, needs one only); one failing write.
- Edits: two calls of any tools in two sessions on two files, three contents beside
  the initial ones, two seconds, so that stamps are equal and differ; `MaxMoves = 1`
  file moved by a patch, to itself, to the patch's other file or elsewhere.
- Ledger: two turns, three calls, a budget of one, so that a second call asks; one
  session of the user's and one for a subagent; one compaction of the session;
  `MaxFaults = 1` statement that fails.
- Shell: three callers, a queue of one for the code's ten, so that one is served,
  one queued and one blocked; two shells, so that one is replaced, also by two
  callers at once; `PipeCap = 1` command in the pipe, for the 64 kB of the system's,
  so that the next write blocks. A write that the pipe takes in part is one that waits.
- Stream: the code's own `MaxRetries = 8`; two pieces of text per attempt.

`Symmetric` permutes tasks, sessions, trees, calls, paths and turns in the runs
without liveness; no operator chooses among them.

## Fairness

Weak fairness of what a goroutine does once it can, and of nothing else. In
`AgentRequests` that is each request's own steps: the model calls and the tools of a
turn return, and are finitely many, because they are bound to a context or a time limit, or are
answered by the user. In `Permission` it is each request's steps, the UI's loop,
and the user, who answers a dialog that is up (`UserAnswers`); events need not be
lost. In `Broker` it is the goroutine of each subscription, `Shutdown` once begun,
and each `Publish`; a consumer need never receive. In `AgentTurn` it is the
agent's goroutine, which waits for the next event of the stream, its end, and the
end of tools, and the timer. In `Shell` it is each caller in `Exec`, each processor,
whose polling has a time limit because bash.go gives every command one (412-416),
the goroutine that waits for the process, and a shell that has nothing to do, which
reads its input; no command need end. In `Stream` it is
the adapter's goroutine, because the service answers or fails and timers fire, and
the agent's loop. `Tasks`, `Edits` and `Ledger` state no fairness. Nothing is assumed of
cancellations, panics, failing writes, new calls or sessions.

## The proofs

Each `*_proofs` module proves its component's specification, not the fair one:
safety does not need fairness. All follow one plan: an inductive invariant `IInv`,
`Init => IInv`, `IInv /\ [Next]_vars => IInv'` with a step per action, and the
property from `IInv`. The assumptions are those the modules state on their
constants: bounds are natural numbers, the buffer is not empty, and the names of
things that differ are different. Sets of sessions, callers, publishers, tasks and
turns are arbitrary, infinite ones included; only the subscribers of `Broker` and the
sessions of `Ledger` are finite, because `subCount` and `ChildCost` count them.

- **AgentRequests_proofs**: `TypeCorrect`, `MarkersAreOwned`, `OverlapIsExplained`,
  `CompactionIsExplained`, `CompactionsStand`, `ModelIsSteady`. That two turns do not overlap is not
  inductive: between check and store a request has no marker. `CheckedStaysFree` says
  that from its check to its store nobody else takes the key of a turn (only the UI's
  goroutine calls `Run`), and `WorkingIsMarked` that a turn at work holds its marker
  unless it was cancelled or the marker erased. `Placed` ties a request's kind to its
  steps. For compactions, `ListedKnows` says what a summary being written has listed,
  and `PostedKnows` that a turn stored before a summary is in what that listed, or ran
  beside it; `RowsAreCurrent` that the row a turn is about to save has its session's
  cut, unless a Summarize and a turn of it were in progress at one time.
- **Permission_proofs**: `TypeCorrect`, `PromptsAreSerial`, `OutcomesAreDeserved`,
  `HeadlessIsSilent`, `RefusalsAreFiled`, `GrantsAreHonoured`. `Locked` says that a
  request between the lock and its release is the lock's holder, `Registered` ones
  being in `pending`; `UIKnows` that whatever the dialog, the wire or an answer names
  has been asked for; `FirstComesFirst` that the content of a response channel is the
  first answer until it is received, which is where the capacity of one is needed;
  `Returned` and `Recorded` tie outcomes to the modes and grants. The list of refusals
  is the run's because `OneRun` has a headless process open one session of the user's,
  and `Linked` every subagent's session tied to it before its agent runs.
- **Broker_proofs**: `NeverPanics`, `TypeCorrect`, `MissedOnlyIfFullAlways`,
  `PromiseAlways`. `MuHeld` says who may be inside the lock,
  `RegisteredAreOpen` that registered channels are open, `TodoIsRegistered` that
  what a publisher has still to serve is registered, which the read lock keeps so.
  `PromiseAlways` is the refinement of `Delivery`: each action of the broker is shown
  to be an action of `Delivery` on the mapped variables, or to leave them alone.
- **Tasks_proofs**: `TypeCorrect`, `LeftOpenOnlyIfCutAlways`, `ValidatedMeansPassedAlways`,
  `ReportIsTrueAlways`, `LearntOnlyWhatPassedAlways` (that only completed tasks teach,
  and only commands they passed, is proved and is in no run), `CachedPassVouches`,
  `KeepsPromiseAlways`. The invariant ties a task's status to where its turn is,
  evidence to runs that are in the table, and a failing run without evidence to a turn
  that is about to write it, was cancelled, or met a fault; `KeepsPromiseAlways` needs
  besides that evidence is only ever added, so that the set of statuses `DeriveState`
  sees grows. A pass can vouch for a tree only while the tree does not change under a
  turn that validates: `OneTurn` gives a session one turn at a time, and `TreeKept`
  says that while one session edits and nothing else touches the files, its history is
  the tree, and so is the key of every run.
- **Ledger_proofs**: `TypeCorrect`, `OpenOnlyIfCutAlways`,
  `OverBudgetOnlyIfApprovedAlways`, `TotalsReconcileAlways`. A record that is open is
  its turn's current one, or its answer had come and its request died, or it is lost;
  between the governor's look and the start of the call a task's spending does not
  change, because what it waits for has ended, so that a turn at that start has leave
  for this very spending (`HasLeave`): the user's, a grant's, that of a session which
  approves everything, or that of totals nobody could read. `TotalsReconcile` speaks
  of the end of a turn, and holds because of who may write when: `Families` gives a subagent a session of its own
  below its turn's, `OneLive` a session one live turn, and `InOrder` puts the calls
  of a subagent at work after those of the turn that waits for it; so what a turn read for its
  row (`TotalsKept`) is still true when it writes it, though title and tool calls write
  the row in between, and a failed read or save marks the session (`spoilt`).
  `SubagentsPaid` says the same of the children's rows, which the sum is over.
- **Edits_proofs**: `TypeCorrect`, `ChangesAreOfSeen`, `WritesAreRecorded`,
  `FirstVersionIsOriginal`, `MovedIsThere`, `RestIsCaptured`, `FailuresLeaveNothing`.
  `PlacesTrue` says
  which files a call has written and which it has still to record at each step, and
  that what it records for a file ends with the new content (`OpsTrue`). `Known` says
  that a file whose record of reading is valid, or which a call is between writing and
  recording, holds what was shown or written or has slipped in; `Telling` that what a
  call has recorded is there, or three other versions of the file are; `FirstTrue` that
  a session's first version is recorded, or a call that wrote the file promises it;
  `Captured` that a session none of whose writing calls runs has its checkpoint, views
  notwithstanding. The lemmas on `Insert` say which versions three attempts can add,
  whatever rows other sessions have. Two attempts at the proof failed for good reasons.
  `OriginalKept` did not hold once a patch that fails at its second file meets a later
  call of the same session, which the earlier instance did not reach: the property now
  excepts such files. And the record of a file's reading is open from the write of
  *that* file on, not from the start of a patch's writing: `InWindow` says so now.
- **Shell_proofs**: `TypeCorrect`, `ResultIsTrueAlways`. The invariant places every command
  in one of the queue, the processor, the process's input and the process, without
  repetition, and says that its status file is there only once it ended; and whoever got no shell
  knows that one could not be started.
- **AgentTurn_proofs**: `TypeCorrect`, `DiskNeverReverts`, `DiskSettles`,
  `FinishesLand`, `EffectsAreAlone`, `DenialsAreFinal`, `BatchesAreComplete`. The
  inductive invariant is `TurnInv`. For the transcript, `Behind` says that disk and
  screen are never ahead of the agent's message, that a write which waits lies between
  the disk's version and the agent's and has no finish marker to undo (`Waits`), and
  that it waits in one place only, the map or the timer's hands; `Open` that a delta
  never follows `EventComplete`. One lemma per operation of the message service shows
  it keeps `Behind` and takes nothing back. For the end of a turn, `Tidy` says that
  while no write has failed every earlier message is on disk as it is in memory, and
  the current one is so or is waiting or landing; `Finished` that a message is left
  behind only with its marker. Both are kept apart from `TurnInv`, since they hold only
  while `faults = 0`. For batches, `SlotsFilled` says which slots are filled at each
  point of the loop, `Homogeneous` that what is taken together is one effectful call or
  read-only ones, `Remembered` that no denial is forgotten.
- **Stream**, whose proofs end `AgentTurn_proofs` because a turn reads its stream:
  `StreamTypeCorrect`, `AnswerIsWholeAlways`. The message holds nothing of an attempt
  that was turned down, because nothing of one was sent, and an adapter crashes only
  without a choice, so before any text. The proofs share the state of
  an answer with `Stream` (`Answer`) and instantiate its steps.

So every invariant and every action property the passing runs check is proved for all
values of the constants. Only model-checked: the liveness properties
(`RequestsEnd`, `RequestReturns`, `CancelCloses`, `TurnEnds`, `ExecReturns`,
`StreamEnds`), which are out of the prover's reach, as is `ENABLED`.

## Findings

- **The second Delete is not harmless** (`agent_second_delete`). agent.go:311-312
  says "Delete and cancel are both idempotent, so running twice on the normal path
  is harmless." Between the first Delete (333) and the deferred one (319) the
  session is free; a new `Run` may store its marker there, and the deferred Delete
  removes it. The new turn then runs without a marker: it cannot be cancelled, the
  model may be changed under it, and a further `Run` is accepted beside it.
- **The wait has no timeout** (`permission_wait`). permission.go:183 says "Wait for
  the response with a timeout"; line 184 is a plain receive. Two key presses before
  the UI handles the first make two answers to one request; the second is handled
  when the dialog of the next request may be up, and hides it (tui.go:442). That
  request never returns, and neither does any behind `promptMu`.
- **A failed validation beside a validated criterion** (`task_proof`).
  validation/service.go:107-110 calls it "the single invariant this package exists to
  hold" that a failing run never leaves a criterion validated. The run is inserted
  detached from cancellation (85), its evidence with the request's context (96): a
  cancellation between the two keeps the failing run and loses its evidence. A
  criterion that another command of the task had validated stays so. The report at
  the end of the turn is not affected, being read with the same dead context
  (`ReportIsTrue`); whoever reads the proof of done later is.

Other behaviour the models make visible, for which no run is kept: a turn's own
closing checkpoint is never taken, since `Finish` reads the session from a context
that lacks it (coordinator.go:403), and a subagent's is taken of its parent's files;
a cancelled task is left running, or recorded as failed, since `ErrRequestCancelled`
is not `context.Canceled` (coordinator.go:533); a record whose `FinishCall` failed, or
ran on a dead context, stays "started" (agent.go 836, 889), against the comment at
agent.go 557-559; agent.go 960-961 says that the governor's mode "on" exists "precisely
so an unattended run cannot spend without bound", and a headless run with `--yes`, which
approves every request (app.go 450-451), spends on at each ceiling; a grant for the
session names the session and the spending, so that a later task of the session that
has spent the same passes unasked; diff/patch_test.go 39-42 says of moves that "the
worst case is a leftover copy", which holds of the order it tests, but a file moved onto
itself is gone, what an existing target held is gone unseen, and the history gives the
moved file its new content although it is no longer there (patch.go 291-345); one stream
without a choice ends the program; and those named under
[The modules](#the-modules) and [The runs](#the-runs).

## What is not modelled

SQLite is taken to execute a statement atomically or to fail. Text, prompts and
formatting are left out, as is what a tool does beyond its outcome, except for the
tools that write files. A patch in the model adds, updates and moves, or removes; one
that mixes them is not modelled. Of the message service `Delete`, `DeleteSessionMessages`,
`List` and `flushAll` are left out; of validation `WaiveCriterion`, which the product
never calls, and `aux validate`, which keys its runs by revision alone; of providers
gemini and the blocking calls; of checkpoints their restoration; of memory and skills
everything after a candidate is saved; of tools those that change nothing. A
compaction and a turn meet in `AgentRequests`, which has the session's transcript and
cut, and in `Ledger`, which has its totals, not in `AgentTurn`.

Most of the repository's lines are of parts without behaviour of the kind checked
here. The language servers' client is generated protocol types for the most part
(`lsp/protocol`), configuration is parsing and defaults, the terminal UI is layout and
rendering, and the dashboard, view models, bundles, evaluation and profile merging
are sequential transformations of data. Of these the event store's order of
publication and the UI's start, stop and compaction overlay have hazards, which
`PROJECT.json` lists without a property; it lists every part with its status and the
reason.

## Plan

1. *Core (done)*: `AgentRequests`, `Permission`, `Broker` with `Delivery`,
   `Transcript` and `ToolBatch` with `AgentTurn`; proofs of all four.
2. *Tasks (done)*: `Validation`, `Tasks` and `TaskLife`, with the refinement proved.
3. *Accounts (done)*: `Ledger` with sessions, titles, compactions and the governor.
4. *Files and shell (done)*: `FileHistory`, `Edits`, `Shell`.
5. *Streams (done)*: `Stream`; its composition with `AgentTurn`, and the stored history
   as the next prompt sees it, are left.
6. *Proofs (done)*: every invariant and action property of the runs. Left: abstract
   specifications of `Edits` and `Ledger`, as `TaskLife` is of `Tasks`, and the proof
   that they are implemented.
7. *Left*: the event store's order of publication; the UI's start, stop and
   compaction; the language servers' table of pending calls; restoring a checkpoint.
