-------------------------------- MODULE Shell --------------------------------
(***************************************************************************)
(* The persistent shell, internal/llm/tools/shell/shell.go: callers of Exec *)
(* queue their commands for the one goroutine that feeds them to a shell    *)
(* process and polls for the file in which the shell leaves each command's  *)
(* status; another goroutine waits for the process and closes the queue.    *)
(* A command is interrupted by SIGTERM to the shell's children, which need  *)
(* not end it.  A shell that is no longer alive is replaced, under no lock; *)
(* that a process cannot be started is nobody's concern.                    *)
(*                                                                         *)
(* bash.go sees to it that every command has a timeout; a command is named  *)
(* by its caller, and the pipe to the shell takes it whole.  Close has no   *)
(* caller.                                                                  *)
(***************************************************************************)
EXTENDS Naturals, FiniteSets, Sequences, SequencesExt

CONSTANTS Callers,
          None,     \* no caller
          QueueCap, \* capacity of the queue, 10 in the code
          PipeCap,  \* commands the pipe to a shell holds
          MaxShells \* bound on the shells started

ASSUME ShellAssumption ==
  /\ None \notin Callers
  /\ QueueCap \in Nat \ {0}
  /\ PipeCap \in Nat \ {0}
  /\ MaxShells \in Nat \ {0}

Shells == 1 .. MaxShells

VARIABLES
  instance,  \* shellInstance, 0 for nil
  once,      \* shellInstanceOnce has been done
  made,      \* shells started so far
  isAlive,   \* what each shell is thought to be
  exited,    \* shells whose process is gone
  queue,     \* commandQueue
  closed,    \* shells whose queue is closed
  serving,   \* the command each processor has taken
  writing,   \* shells whose processor writes its command
  polling,   \* shells whose processor waits for the status file
  stdin,     \* commands written to the shell and not yet read
  job,       \* the command the shell runs
  files,     \* status files, by name
  pc,        \* where a caller is
  using,     \* the shell it got
  result,    \* what Exec returned
  started,   \* history: commands a shell has begun to run
  ended,     \* history: commands a shell has run to their end
  unstarted  \* history: a shell could not be started

registry == <<instance, once, made>>
process == <<exited, stdin, job, files>>
service == <<isAlive, queue, closed, serving, writing, polling>>
callers == <<pc, using, result>>
ghost   == <<started, ended, unstarted>>
vars    == <<registry, process, service, callers, ghost>>

Init ==
  /\ instance = 0
  /\ once = FALSE
  /\ made = 0
  /\ isAlive = [n \in Shells |-> FALSE]
  /\ exited = {}
  /\ queue = [n \in Shells |-> <<>>]
  /\ closed = {}
  /\ serving = [n \in Shells |-> None]
  /\ writing = {}
  /\ polling = {}
  /\ stdin = [n \in Shells |-> <<>>]
  /\ job = [n \in Shells |-> None]
  /\ files = {}
  /\ pc = [c \in Callers |-> "idle"]
  /\ using = [c \in Callers |-> 0]
  /\ result = [c \in Callers |-> "none"]
  /\ started = {}
  /\ ended = {}
  /\ unstarted = FALSE

\* Mutant of StatusFile: one name for all.
OneFile(c) == 0

\* The name of a command's status file, from the time in nanoseconds.
StatusFile(c) == c

Goto(c, from, to) ==
  /\ pc[c] = from
  /\ pc' = [pc EXCEPT ![c] = to]
------------------------------------------------------------------------------
\* newPersistentShell: nil when there is no pipe or no process.
NewShell ==
  \/ /\ made < MaxShells
     /\ made' = made + 1
     /\ instance' = made + 1
     /\ isAlive' = [isAlive EXCEPT ![made + 1] = TRUE]
     /\ UNCHANGED unstarted
  \/ /\ instance' = 0
     /\ unstarted' = TRUE
     /\ UNCHANGED <<made, isAlive>>

\* GetPersistentShell: the first caller starts a shell, for which others wait.
\* From then on every read of shellInstance may find another's shell, or nil.
Call(c) ==
  /\ once' = TRUE
  /\ IF once THEN UNCHANGED <<instance, made, isAlive, unstarted>> ELSE NewShell
  /\ Goto(c, "idle", IF instance' = 0 THEN "start" ELSE "look")
  /\ UNCHANGED <<process, queue, closed, serving, writing, polling, using, result, started, ended>>

Look(c) ==
  /\ Goto(c, "look", IF instance = 0 THEN "panicked"
                       ELSE IF isAlive[instance] THEN "take" ELSE "start")
  /\ UNCHANGED <<registry, process, service, using, result, ghost>>

StartShell(c) ==
  /\ Goto(c, "start", "take")
  /\ NewShell
  /\ UNCHANGED <<once, process, queue, closed, serving, writing, polling, using, result,
                 started, ended>>

TakeShell(c) ==
  /\ Goto(c, "take", "got")
  /\ using' = [using EXCEPT ![c] = instance]
  /\ UNCHANGED <<registry, process, service, result, ghost>>

\* Exec: the check, of a shell that may be nil, the send, which blocks while the
\* queue is full and panics once it is closed, and the wait for the result.
Check(c) ==
  /\ pc[c] = "got"
  /\ IF using[c] = 0 THEN Goto(c, "got", "panicked") /\ UNCHANGED result
     ELSE IF isAlive[using[c]] THEN Goto(c, "got", "send") /\ UNCHANGED result
     ELSE Goto(c, "got", "done") /\ result' = [result EXCEPT ![c] = "not alive"]
  /\ UNCHANGED <<registry, process, service, using, ghost>>

Send(c) ==
  LET n == using[c]
  IN /\ Goto(c, "send", "wait")
     /\ n \notin closed
     /\ Len(queue[n]) < QueueCap
     /\ queue' = [queue EXCEPT ![n] = Append(@, c)]
     /\ UNCHANGED <<registry, process, isAlive, closed, serving, writing, polling, using, result, ghost>>

Panic(c) ==
  /\ Goto(c, "send", "panicked")
  /\ using[c] \in closed
  /\ UNCHANGED <<registry, process, service, using, result, ghost>>
------------------------------------------------------------------------------
\* processCommands and execCommand.
Take(n) ==
  /\ serving[n] = None
  /\ queue[n] # <<>>
  /\ serving' = [serving EXCEPT ![n] = Head(queue[n])]
  /\ queue' = [queue EXCEPT ![n] = Tail(@)]
  /\ UNCHANGED <<registry, process, isAlive, closed, writing, polling, callers, ghost>>

\* The deferred removal of the files, and the result to the caller that waits.
Reply(n, r) ==
  LET c == serving[n]
  IN /\ Goto(c, "wait", "done")
     /\ result' = [result EXCEPT ![c] = r]
     /\ serving' = [serving EXCEPT ![n] = None]
     /\ writing' = writing \ {n}
     /\ polling' = polling \ {n}
     /\ files' = files \ {StatusFile(c)}

Refuse(n) ==
  /\ serving[n] # None /\ n \notin writing \cup polling
  /\ ~isAlive[n]
  /\ Reply(n, "not alive")
  /\ UNCHANGED <<registry, exited, stdin, job, isAlive, queue, closed, using, ghost>>

\* A cancelled command is written all the same.
BeginWrite(n) ==
  /\ serving[n] # None /\ n \notin writing \cup polling
  /\ isAlive[n]
  /\ writing' = writing \cup {n}
  /\ UNCHANGED <<registry, process, isAlive, queue, closed, serving, polling, callers, ghost>>

WriteFails(n) ==
  /\ n \in writing
  /\ n \in exited
  /\ Reply(n, "failed")
  /\ UNCHANGED <<registry, exited, stdin, job, isAlive, queue, closed, using, ghost>>

\* The write waits for room in the pipe, and for nothing else: the timeout has
\* not begun, and the context is not looked at.
Write(n) ==
  /\ n \in writing
  /\ n \notin exited
  /\ Len(stdin[n]) < PipeCap
  /\ stdin' = [stdin EXCEPT ![n] = Append(@, serving[n])]
  /\ writing' = writing \ {n}
  /\ polling' = polling \cup {n}
  /\ UNCHANGED <<registry, exited, job, files, isAlive, queue, closed, serving, callers, ghost>>

Finish(n) ==
  /\ n \in polling
  /\ StatusFile(serving[n]) \in files
  /\ Reply(n, "ok")
  /\ UNCHANGED <<registry, exited, stdin, job, isAlive, queue, closed, using, ghost>>

\* Mutant of Interrupt: a shell that is gone times nothing out.
InterruptAlive(n) ==
  /\ n \in polling
  /\ n \notin exited
  /\ Reply(n, "interrupted")
  /\ UNCHANGED <<registry, exited, stdin, job, isAlive, queue, closed, using, ghost>>

\* The context is done, to which Exec itself pays no heed, or the time is up.
\* What killChildren does to the job, if anything, is the job's end.
Interrupt(n) ==
  /\ n \in polling
  /\ Reply(n, "interrupted")
  /\ UNCHANGED <<registry, exited, stdin, job, isAlive, queue, closed, using, ghost>>
------------------------------------------------------------------------------
\* The shell process: it reads commands one by one, and may end at any time,
\* by a command of its own or by another's signal.
StartJob(n) ==
  /\ n \notin exited
  /\ job[n] = None
  /\ stdin[n] # <<>>
  /\ job' = [job EXCEPT ![n] = Head(stdin[n])]
  /\ stdin' = [stdin EXCEPT ![n] = Tail(@)]
  /\ started' = started \cup {Head(stdin[n])}
  /\ UNCHANGED <<registry, exited, files, service, callers, ended, unstarted>>

EndJob(n) ==
  /\ n \notin exited
  /\ job[n] # None
  /\ job' = [job EXCEPT ![n] = None]
  /\ files' = files \cup {StatusFile(job[n])}
  /\ ended' = ended \cup {job[n]}
  /\ UNCHANGED <<registry, exited, stdin, service, callers, started, unstarted>>

Exit(n) ==
  /\ n <= made
  /\ n \notin exited
  /\ exited' = exited \cup {n}
  /\ job' = [job EXCEPT ![n] = None]
  /\ stdin' = [stdin EXCEPT ![n] = <<>>]
  /\ UNCHANGED <<registry, files, service, callers, ghost>>

\* The goroutine in cmd.Wait.
NoteExit(n) ==
  /\ n \in exited
  /\ isAlive[n]
  /\ isAlive' = [isAlive EXCEPT ![n] = FALSE]
  /\ UNCHANGED <<registry, process, queue, closed, serving, writing, polling, callers, ghost>>

CloseQueue(n) ==
  /\ n \in exited
  /\ ~isAlive[n]
  /\ n \notin closed
  /\ closed' = closed \cup {n}
  /\ UNCHANGED <<registry, process, isAlive, queue, serving, writing, polling, callers, ghost>>
------------------------------------------------------------------------------
GetShell(c) == Look(c) \/ StartShell(c) \/ TakeShell(c)

Exec(c) == Check(c) \/ Send(c) \/ Panic(c)

Serve(n) ==
  \/ Take(n) \/ Refuse(n) \/ BeginWrite(n) \/ WriteFails(n) \/ Write(n)
  \/ Finish(n) \/ Interrupt(n)

Wait(n) == NoteExit(n) \/ CloseQueue(n)

Next ==
  \/ \E c \in Callers : Call(c) \/ GetShell(c) \/ Exec(c)
  \/ \E n \in Shells : Serve(n) \/ Wait(n) \/ StartJob(n) \/ EndJob(n) \/ Exit(n)

\* Goroutines that can run run, timers fire, and a shell with nothing to do
\* reads its input.  Nobody has to call or exit, and no command has to end.
Fairness ==
  /\ \A c \in Callers : WF_vars(GetShell(c)) /\ WF_vars(Exec(c))
  /\ \A n \in Shells : WF_vars(Serve(n)) /\ WF_vars(Wait(n)) /\ WF_vars(StartJob(n))

Spec == Init /\ [][Next]_vars /\ Fairness
------------------------------------------------------------------------------
States == {"idle", "look", "start", "take", "got", "send", "wait", "done", "panicked"}
Results == {"none", "ok", "failed", "interrupted", "not alive"}

TypeOK ==
  /\ instance \in 0 .. made
  /\ once \in BOOLEAN
  /\ made \in 0 .. MaxShells
  /\ isAlive \in [Shells -> BOOLEAN]
  /\ exited \subseteq Shells
  /\ queue \in [Shells -> Seq(Callers)]
  /\ \A n \in Shells : Len(queue[n]) <= QueueCap
  /\ closed \subseteq Shells
  /\ serving \in [Shells -> Callers \cup {None}]
  /\ writing \subseteq Shells
  /\ polling \subseteq Shells
  /\ stdin \in [Shells -> Seq(Callers)]
  /\ \A n \in Shells : Len(stdin[n]) <= PipeCap
  /\ job \in [Shells -> Callers \cup {None}]
  /\ files \subseteq {StatusFile(c) : c \in Callers}
  /\ pc \in [Callers -> States]
  /\ using \in [Callers -> 0 .. made]
  /\ result \in [Callers -> Results]
  /\ started \subseteq Callers
  /\ ended \subseteq Callers
  /\ unstarted \in BOOLEAN

\* What Exec says of a command is so: one that finished was run to its end,
\* whatever older command is still running in the shell; one that was refused
\* was never run; and a caller panics only when the process of its shell is
\* gone, or when it got no shell, its own or another's that could not be started
\* (shell.go 49-61, 91-101, 150-156, 183-190, 216-246, 273-290; bash.go 452-453).
ResultIsTrue ==
  \A c \in Callers :
    /\ result[c] = "ok" => c \in ended
    /\ result[c] \in {"failed", "not alive"} => c \notin started
    /\ pc[c] = "panicked" =>
         /\ c \notin started
         /\ using[c] \in exited \/ (using[c] = 0 /\ unstarted)

\* The processor waits to write behind a command that the shell still runs.
Stuck(n) == n \in writing \ exited /\ Len(stdin[n]) = PipeCap /\ job[n] # None

\* Every call returns in the end, or panics, whatever the shell does: commands
\* hang and ignore the signal, the queue is full, the process goes away under a
\* command.  But a command that hangs for good stops all that come after it once
\* the pipe is full of them, whatever their timeouts: the write to the shell
\* comes before the timeout begins (shell.go 134-139, 179-219, 281-289).
ExecReturns ==
  <>[](\A c \in Callers : pc[c] \in {"idle", "done", "panicked"} \/ Stuck(using[c]))
==============================================================================
