----------------------------- MODULE Shell_proofs -----------------------------
(***************************************************************************)
(* Proofs about Shell: its type invariant, and that what Exec says of a     *)
(* command is so, for every number of callers and of shells and every       *)
(* capacity of the queue.                                                   *)
(***************************************************************************)
EXTENDS Shell, TLAPS

\* A caller has no shell before it got one, and one that has returned a result;
\* one that got nil did so because a shell could not be started.
CallersTrue ==
  \A c \in Callers :
    /\ pc[c] \in {"idle", "look", "start", "take"} => using[c] = 0
    /\ pc[c] \in {"send", "wait"} => using[c] \in Shells
    /\ result[c] # "none" => pc[c] = "done"
    /\ pc[c] = "got" /\ using[c] = 0 => unstarted
    /\ pc[c] = "panicked" => using[c] \in exited \/ (using[c] = 0 /\ unstarted)

\* Once there was a caller, there is no shell only if one could not be started.
RegistryTrue ==
  /\ \A c \in Callers : pc[c] # "idle" => once
  /\ once /\ instance = 0 => unstarted

\* A queue holds commands of callers that wait for its shell, each once, and
\* none that its processor has taken.
QueueTrue ==
  \A n \in Shells :
    /\ \A i \in 1 .. Len(queue[n]) :
         /\ pc[queue[n][i]] = "wait"
         /\ using[queue[n][i]] = n
         /\ queue[n][i] # serving[n]
    /\ \A i, j \in 1 .. Len(queue[n]) : queue[n][i] = queue[n][j] => i = j
    /\ serving[n] # None => pc[serving[n]] = "wait" /\ using[serving[n]] = n
    /\ n \in writing \cup polling => serving[n] # None
    /\ n \notin writing \cap polling

\* What holds of a command once it is in the hands of a shell.
HandedOver(c) ==
  /\ pc[c] \in {"wait", "done"}
  /\ result[c] \notin {"failed", "not alive"}
  /\ \A n \in Shells : \A i \in 1 .. Len(queue[n]) : queue[n][i] # c
  /\ \A n \in Shells : serving[n] = c => n \in polling

ShellTrue ==
  /\ \A n \in Shells : \A i \in 1 .. Len(stdin[n]) : HandedOver(stdin[n][i])
  /\ \A n \in Shells : job[n] # None => HandedOver(job[n])
  /\ \A c \in started : HandedOver(c)

\* A status file, and a result that says so, are those of a command that ended.
FilesTrue ==
  /\ files \subseteq ended
  /\ \A c \in Callers : result[c] = "ok" => c \in ended
  /\ closed \subseteq exited

IInv == TypeOK /\ CallersTrue /\ RegistryTrue /\ QueueTrue /\ ShellTrue /\ FilesTrue
------------------------------------------------------------------------------
LEMMA AppendFacts ==
  ASSUME NEW S, NEW s \in Seq(S), NEW e \in S
  PROVE  /\ Append(s, e) \in Seq(S)
         /\ Len(Append(s, e)) = Len(s) + 1
         /\ \A i \in 1 .. Len(s) : Append(s, e)[i] = s[i]
         /\ Append(s, e)[Len(s) + 1] = e
  OBVIOUS

LEMMA TailFacts ==
  ASSUME NEW S, NEW s \in Seq(S), s # <<>>
  PROVE  /\ Head(s) \in S /\ Head(s) = s[1]
         /\ Len(s) \in Nat /\ Len(s) >= 1
         /\ Tail(s) \in Seq(S)
         /\ Len(Tail(s)) = Len(s) - 1
         /\ \A i \in 1 .. Len(s) - 1 : Tail(s)[i] = s[i + 1]
  OBVIOUS

LEMMA InitIInv == Init => IInv
<1> SUFFICES ASSUME Init PROVE IInv
  OBVIOUS
<1> USE ShellAssumption DEF Init, Shells
<1>1. TypeOK
  <2>1. <<>> \in Seq(Callers) /\ Len(<<>>) = 0
    OBVIOUS
  <2>2. 0 \in 0 .. 0 /\ 0 \in 0 .. MaxShells
    OBVIOUS
  <2>3. "idle" \in States /\ "none" \in Results
    BY DEF States, Results
  <2>4. made = 0 /\ instance \in 0 .. made /\ using \in [Callers -> 0 .. made]
    BY <2>2
  <2>5. /\ isAlive \in [Shells -> BOOLEAN]
        /\ queue \in [Shells -> Seq(Callers)] /\ \A n \in Shells : Len(queue[n]) <= QueueCap
        /\ stdin \in [Shells -> Seq(Callers)] /\ \A n \in Shells : Len(stdin[n]) <= PipeCap
    BY <2>1
  <2>6. pc \in [Callers -> States] /\ result \in [Callers -> Results]
    BY <2>3
  <2> QED
    BY <2>2, <2>4, <2>5, <2>6 DEF TypeOK
<1>2. CallersTrue /\ RegistryTrue
  BY DEF CallersTrue, RegistryTrue
<1>3. QueueTrue
  BY DEF QueueTrue
<1>4. ShellTrue
  BY DEF ShellTrue
<1>5. FilesTrue
  BY DEF FilesTrue
<1> QED
  BY <1>1, <1>2, <1>3, <1>4, <1>5 DEF IInv

\* Commands in a queue, in a shell's hands and in its input are callers.
LEMMA Members ==
  ASSUME TypeOK
  PROVE  /\ \A n \in Shells : queue[n] \in Seq(Callers) /\ stdin[n] \in Seq(Callers)
         /\ \A n \in Shells : \A i \in 1 .. Len(queue[n]) : queue[n][i] \in Callers
         /\ \A n \in Shells : \A i \in 1 .. Len(stdin[n]) : stdin[n][i] \in Callers
         /\ \A n \in Shells : serving[n] # None => serving[n] \in Callers
         /\ \A n \in Shells : job[n] # None => job[n] \in Callers
<1>1. \A n \in Shells : queue[n] \in Seq(Callers) /\ stdin[n] \in Seq(Callers)
  BY DEF TypeOK
<1>2. ASSUME NEW s \in Seq(Callers) PROVE \A i \in 1 .. Len(s) : s[i] \in Callers
  OBVIOUS
<1> QED
  BY <1>1, <1>2 DEF TypeOK

\* As long as the queues are left alone, a caller only stops waiting when the
\* processor that serves it lets go of it.
LEMMA QueueKept ==
  ASSUME IInv, UNCHANGED queue,
         \A c \in Callers : pc[c] = "wait" =>
           \/ pc'[c] = "wait"
           \/ \E n \in Shells : serving[n] = c /\ serving'[n] = None,
         \A n \in Shells : serving'[n] = serving[n] \/ serving'[n] = None,
         \A c \in Callers : pc[c] = "wait" => using'[c] = using[c],
         \A n \in Shells : n \in writing' \cup polling' => serving'[n] # None,
         \A n \in Shells : n \notin writing' \cap polling'
  PROVE  QueueTrue'
<1> USE DEF IInv
<1>1. ASSUME NEW n \in Shells, NEW i \in 1 .. Len(queue[n])
      PROVE  pc'[queue[n][i]] = "wait" /\ using'[queue[n][i]] = n /\ queue[n][i] # serving'[n]
  <2>1. queue[n][i] \in Callers /\ pc[queue[n][i]] = "wait" /\ using[queue[n][i]] = n
        /\ queue[n][i] # serving[n]
    BY Members DEF QueueTrue
  <2>2. queue[n][i] # None
    BY <2>1, ShellAssumption
  <2>3. \A m \in Shells : serving[m] = queue[n][i] => m = n
    BY <2>1, <2>2 DEF QueueTrue
  <2> QED
    BY <2>1, <2>2, <2>3
<1>2. ASSUME NEW n \in Shells, serving'[n] # None
      PROVE  pc'[serving'[n]] = "wait" /\ using'[serving'[n]] = n
  <2>1. serving'[n] = serving[n] /\ serving[n] \in Callers
    BY <1>2, Members
  <2>2. pc[serving[n]] = "wait" /\ using[serving[n]] = n
    BY <1>2, <2>1 DEF QueueTrue
  <2>3. \A m \in Shells : serving[m] = serving[n] => m = n
    BY <1>2, <2>1, <2>2 DEF QueueTrue
  <2> QED
    BY <1>2, <2>1, <2>2, <2>3
<1>3. \A n \in Shells : \A i, j \in 1 .. Len(queue[n]) : queue[n][i] = queue[n][j] => i = j
  BY DEF QueueTrue
<1> QED
  BY <1>1, <1>2, <1>3 DEF QueueTrue

\* As long as the shells are left alone, it is enough that what was handed over
\* stays so.
LEMMA ShellKept ==
  ASSUME IInv, UNCHANGED <<stdin, job, started>>,
         \A c \in Callers : HandedOver(c) => HandedOver(c)'
  PROVE  ShellTrue'
<1>1. \A c \in started : c \in Callers
  BY DEF IInv, TypeOK
<1> QED
  BY <1>1, Members DEF IInv, ShellTrue

\* And that holds when no caller that waits or has returned is touched.
LEMMA HandedKept ==
  ASSUME IInv, UNCHANGED <<queue, serving, polling>>,
         \A c \in Callers : pc[c] \in {"wait", "done"} =>
           pc'[c] = pc[c] /\ result'[c] = result[c]
  PROVE  \A c \in Callers : HandedOver(c) => HandedOver(c)'
  BY DEF HandedOver

\* Whatever a processor replies, if it may.
LEMMA ReplyKeeps ==
  ASSUME IInv, NEW n \in Shells, NEW r, serving[n] # None, Reply(n, r),
         \/ n \notin polling /\ r \in {"failed", "not alive"}
         \/ n \in polling /\ r \in {"ok", "interrupted"},
         r = "ok" => serving[n] \in ended,
         UNCHANGED <<registry, exited, stdin, job, isAlive, queue, closed, using, ghost>>
  PROVE  IInv'
<1> USE DEF IInv, registry, ghost
<1> DEFINE c == serving[n]
<1>1. c \in Callers /\ pc[c] = "wait" /\ using[c] = n
  BY Members DEF QueueTrue
<1> HIDE DEF c
<1>2. /\ pc' = [pc EXCEPT ![c] = "done"]
      /\ result' = [result EXCEPT ![c] = r]
      /\ serving' = [serving EXCEPT ![n] = None]
      /\ writing' = writing \ {n}
      /\ polling' = polling \ {n}
      /\ files' = files \ {c}
  BY DEF Reply, Goto, StatusFile, c
<1>3. /\ pc'[c] = "done" /\ result'[c] = r /\ serving'[n] = None
      /\ \A d \in Callers : d # c => pc'[d] = pc[d] /\ result'[d] = result[d]
      /\ \A m \in Shells : m # n => serving'[m] = serving[m]
  BY <1>1, <1>2 DEF TypeOK
<1>4. TypeOK'
  <2>1. /\ pc' \in [Callers -> States]
        /\ result' \in [Callers -> Results]
        /\ serving' \in [Shells -> Callers \cup {None}]
        /\ polling' \subseteq Shells /\ writing' \subseteq Shells
        /\ files' \subseteq {StatusFile(d) : d \in Callers}
    <3>1. "done" \in States /\ r \in Results
      BY DEF States, Results
    <3> QED
      BY <3>1, <1>1, <1>2 DEF TypeOK
  <2> QED
    BY <2>1 DEF TypeOK
<1>5. CallersTrue' /\ RegistryTrue'
  BY <1>1, <1>3 DEF CallersTrue, RegistryTrue
<1>6. QueueTrue'
  <2>1. \A d \in Callers : pc[d] = "wait" =>
          \/ pc'[d] = "wait"
          \/ \E m \in Shells : serving[m] = d /\ serving'[m] = None
    BY <1>3 DEF c
  <2>2. ASSUME NEW m \in Shells
        PROVE  /\ m \in writing' \cup polling' => serving'[m] # None
               /\ m \notin writing' \cap polling'
    <3>1. /\ m \in writing' \cup polling' => m \in writing \cup polling /\ m # n
          /\ m \in writing' \cap polling' => m \in writing \cap polling
      BY <1>2
    <3>2. /\ m \in writing \cup polling => serving[m] # None
          /\ m \notin writing \cap polling
      BY DEF QueueTrue
    <3> QED
      BY <3>1, <3>2, <1>3
  <2>3. \A m \in Shells : serving'[m] = serving[m] \/ serving'[m] = None
    BY <1>3
  <2>4. \A d \in Callers : using'[d] = using[d]
    OBVIOUS
  <2> QED
    BY <2>1, <2>2, <2>3, <2>4, QueueKept
<1>7. ShellTrue'
  <2>1. ASSUME NEW d \in Callers, HandedOver(d) PROVE HandedOver(d)'
    <3>1. pc'[d] \in {"wait", "done"} /\ result'[d] \notin {"failed", "not alive"}
      <4>1. CASE d = c
        BY <4>1, <2>1, <1>3 DEF HandedOver, c
      <4>2. CASE d # c
        BY <4>2, <2>1, <1>3 DEF HandedOver
      <4> QED
        BY <4>1, <4>2
    <3>2. \A m \in Shells : serving'[m] = d => m \in polling'
      <4> SUFFICES ASSUME NEW m \in Shells, serving'[m] = d PROVE m \in polling'
        OBVIOUS
      <4>1. m # n
        BY <1>3, ShellAssumption
      <4> QED
        BY <4>1, <2>1, <1>2, <1>3 DEF HandedOver
    <3>3. \A m \in Shells : \A i \in 1 .. Len(queue'[m]) : queue'[m][i] # d
      BY <2>1 DEF HandedOver
    <3> QED
      BY <3>1, <3>2, <3>3 DEF HandedOver
  <2> QED
    BY <2>1, ShellKept
<1>8. FilesTrue'
  <2>1. \A d \in Callers : result'[d] = "ok" => d \in ended
    BY <1>3 DEF FilesTrue, c
  <2> QED
    BY <2>1, <1>2 DEF FilesTrue
<1> QED
  BY <1>4, <1>5, <1>6, <1>7, <1>8

\* A shell that was made is made.
LEMMA Grown ==
  ASSUME TypeOK, made' \in 0 .. MaxShells, made <= made', UNCHANGED using
  PROVE  using' \in [Callers -> 0 .. made']
<1>1. \A k \in 0 .. made : k \in 0 .. made'
  BY DEF TypeOK
<1> QED
  BY <1>1 DEF TypeOK

\* A caller that looks for a shell disturbs nobody.
LEMMA CallerKeeps ==
  ASSUME IInv, NEW c \in Callers,
         pc[c] \notin {"wait", "done"}, pc'[c] # "wait",
         \A d \in Callers : d # c => pc'[d] = pc[d] /\ using'[d] = using[d] /\ result'[d] = result[d],
         UNCHANGED <<queue, serving, writing, polling, stdin, job, started>>
  PROVE  QueueTrue' /\ ShellTrue'
<1>1. QueueTrue'
  <2>1. \A m \in Shells : (m \in writing' \cup polling' => serving'[m] # None)
                         /\ m \notin writing' \cap polling'
    BY DEF IInv, QueueTrue
  <2> QED
    BY <2>1, QueueKept
<1>2. \A d \in Callers : pc[d] \in {"wait", "done"} => pc'[d] = pc[d] /\ result'[d] = result[d]
  OBVIOUS
<1>3. ShellTrue'
  BY <1>2, HandedKept, ShellKept
<1> QED
  BY <1>1, <1>3

\* A new shell, or none: what was got before stays a shell that was made.
LEMMA NewShellFacts ==
  ASSUME TypeOK, NewShell
  PROVE  /\ made' \in 0 .. MaxShells /\ made <= made' /\ instance' \in 0 .. made'
         /\ isAlive' \in [Shells -> BOOLEAN] /\ unstarted' \in BOOLEAN
         /\ unstarted => unstarted'
         /\ instance' = 0 => unstarted'
<1> USE ShellAssumption DEF NewShell, TypeOK, Shells
<1>1. CASE /\ made < MaxShells
           /\ made' = made + 1
           /\ instance' = made + 1
           /\ isAlive' = [isAlive EXCEPT ![made + 1] = TRUE]
           /\ UNCHANGED unstarted
  BY <1>1
<1>2. CASE instance' = 0 /\ unstarted' = TRUE /\ UNCHANGED <<made, isAlive>>
  BY <1>2
<1> QED
  BY <1>1, <1>2

LEMMA CallKeeps == ASSUME IInv, NEW c \in Callers, Call(c) PROVE IInv'
<1> USE DEF IInv, Goto, process, callers
<1>1. /\ pc[c] = "idle" /\ pc'[c] \in {"start", "look"} /\ once' = TRUE
      /\ pc' \in [Callers -> States]
      /\ \A d \in Callers : d # c => pc'[d] = pc[d]
      /\ UNCHANGED <<process, queue, closed, serving, writing, polling, using, result, started, ended>>
  BY DEF Call, TypeOK, States
<1>2. /\ made' \in 0 .. MaxShells /\ made <= made' /\ instance' \in 0 .. made'
      /\ isAlive' \in [Shells -> BOOLEAN] /\ unstarted' \in BOOLEAN
      /\ unstarted => unstarted'
      /\ instance' = 0 => unstarted'
  <2>1. CASE once
    <3>1. UNCHANGED <<instance, made, isAlive, unstarted>>
      BY <2>1 DEF Call
    <3> QED
      BY <2>1, <3>1 DEF TypeOK, RegistryTrue
  <2>2. CASE ~once
    BY <2>2, NewShellFacts DEF Call
  <2> QED
    BY <2>1, <2>2
<1>3. TypeOK'
  BY <1>1, <1>2, Grown DEF TypeOK
<1>4. CallersTrue' /\ RegistryTrue'
  BY <1>1, <1>2 DEF CallersTrue, RegistryTrue
<1>5. QueueTrue' /\ ShellTrue'
  BY <1>1, CallerKeeps
<1>6. FilesTrue'
  BY <1>1 DEF FilesTrue
<1> QED
  BY <1>3, <1>4, <1>5, <1>6

LEMMA StartShellKeeps == ASSUME IInv, NEW c \in Callers, StartShell(c) PROVE IInv'
<1> USE DEF IInv, Goto, process, callers
<1>1. /\ pc[c] = "start" /\ pc'[c] = "take"
      /\ pc' \in [Callers -> States]
      /\ \A d \in Callers : d # c => pc'[d] = pc[d]
      /\ UNCHANGED <<once, process, queue, closed, serving, writing, polling, using, result,
                     started, ended>>
  BY DEF StartShell, TypeOK, States
<1>2. /\ made' \in 0 .. MaxShells /\ made <= made' /\ instance' \in 0 .. made'
      /\ isAlive' \in [Shells -> BOOLEAN] /\ unstarted' \in BOOLEAN
      /\ unstarted => unstarted'
      /\ instance' = 0 => unstarted'
  BY NewShellFacts DEF StartShell
<1>3. TypeOK'
  BY <1>1, <1>2, Grown DEF TypeOK
<1>4. CallersTrue' /\ RegistryTrue'
  BY <1>1, <1>2 DEF CallersTrue, RegistryTrue
<1>5. QueueTrue' /\ ShellTrue'
  BY <1>1, CallerKeeps
<1>6. FilesTrue'
  BY <1>1 DEF FilesTrue
<1> QED
  BY <1>3, <1>4, <1>5, <1>6

\* The reads of the registry: a caller that finds nil finds it because a shell
\* could not be started.
LEMMA LookKeeps == ASSUME IInv, NEW c \in Callers, Look(c) PROVE IInv'
<1> USE DEF IInv, Goto, registry, process, service, callers, ghost
<1>1. /\ pc[c] = "look" /\ pc'[c] \in {"panicked", "take", "start"}
      /\ pc'[c] = "panicked" => instance = 0
      /\ pc' \in [Callers -> States]
      /\ \A d \in Callers : d # c => pc'[d] = pc[d]
      /\ UNCHANGED <<registry, process, service, using, result, ghost>>
  BY DEF Look, TypeOK, States
<1>2. TypeOK'
  BY <1>1 DEF TypeOK
<1>3. CallersTrue' /\ RegistryTrue'
  BY <1>1 DEF CallersTrue, RegistryTrue
<1>4. QueueTrue' /\ ShellTrue'
  BY <1>1, CallerKeeps
<1>5. FilesTrue'
  BY <1>1 DEF FilesTrue
<1> QED
  BY <1>2, <1>3, <1>4, <1>5

LEMMA TakeShellKeeps == ASSUME IInv, NEW c \in Callers, TakeShell(c) PROVE IInv'
<1> USE DEF IInv, Goto, registry, process, service, callers, ghost
<1>1. /\ pc[c] = "take" /\ pc'[c] = "got" /\ using'[c] = instance
      /\ pc' \in [Callers -> States]
      /\ using' \in [Callers -> 0 .. made]
      /\ \A d \in Callers : d # c => pc'[d] = pc[d] /\ using'[d] = using[d]
      /\ UNCHANGED <<registry, process, service, result, ghost>>
  BY DEF TakeShell, TypeOK, States
<1>2. TypeOK'
  BY <1>1 DEF TypeOK
<1>3. CallersTrue' /\ RegistryTrue'
  BY <1>1 DEF CallersTrue, RegistryTrue
<1>4. QueueTrue' /\ ShellTrue'
  BY <1>1, CallerKeeps
<1>5. FilesTrue'
  BY <1>1 DEF FilesTrue
<1> QED
  BY <1>2, <1>3, <1>4, <1>5

LEMMA CheckKeeps == ASSUME IInv, NEW c \in Callers, Check(c) PROVE IInv'
<1> USE DEF IInv, Goto, registry, process, service, callers, ghost
<1>1. /\ pc[c] = "got" /\ pc'[c] \in {"send", "done", "panicked"}
      /\ pc'[c] = "send" => using[c] # 0
      /\ pc'[c] = "panicked" => using[c] = 0
      /\ result'[c] # "none" => pc'[c] = "done" /\ result'[c] # "ok"
      /\ result' \in [Callers -> Results]
      /\ pc' \in [Callers -> States]
      /\ \A d \in Callers : d # c => pc'[d] = pc[d] /\ result'[d] = result[d]
  <2>0. /\ pc[c] = "got" /\ result[c] = "none"
        /\ pc \in [Callers -> States]
        /\ result \in [Callers -> Results]
    BY DEF Check, TypeOK, CallersTrue
  <2>1. CASE using[c] = 0
    <3>1. pc' = [pc EXCEPT ![c] = "panicked"] /\ result' = result
      BY <2>1 DEF Check
    <3> HIDE DEF IInv
    <3> QED
      BY <2>0, <2>1, <3>1 DEF States
  <2>2. CASE using[c] # 0 /\ isAlive[using[c]]
    <3>1. pc' = [pc EXCEPT ![c] = "send"] /\ result' = result
      BY <2>2 DEF Check
    <3> HIDE DEF IInv
    <3> QED
      BY <2>0, <2>2, <3>1 DEF States
  <2>3. CASE using[c] # 0 /\ ~isAlive[using[c]]
    <3>1. pc' = [pc EXCEPT ![c] = "done"] /\ result' = [result EXCEPT ![c] = "not alive"]
      BY <2>3 DEF Check
    <3> HIDE DEF IInv
    <3> QED
      BY <2>0, <2>3, <3>1 DEF States, Results
  <2> QED
    BY <2>1, <2>2, <2>3
<1>2. UNCHANGED <<registry, process, service, using, ghost>>
  BY DEF Check
<1>3. TypeOK'
  BY <1>1, <1>2 DEF TypeOK
<1>4. CallersTrue' /\ RegistryTrue'
  <2>1. using[c] # 0 => using[c] \in Shells
    <3>1. made \in 0 .. MaxShells /\ using[c] \in 0 .. made
      BY DEF TypeOK
    <3> QED
      BY <3>1, ShellAssumption DEF Shells
  <2> QED
    BY <1>1, <1>2, <2>1 DEF CallersTrue, RegistryTrue
<1>5. QueueTrue' /\ ShellTrue'
  BY <1>1, <1>2, CallerKeeps
<1>6. FilesTrue'
  BY <1>1, <1>2 DEF FilesTrue
<1> QED
  BY <1>3, <1>4, <1>5, <1>6

LEMMA PanicKeeps == ASSUME IInv, NEW c \in Callers, Panic(c) PROVE IInv'
<1> USE DEF IInv, Goto, registry, process, service, callers, ghost
<1>1. /\ pc[c] = "send" /\ pc'[c] = "panicked" /\ using[c] \in exited
      /\ pc' \in [Callers -> States]
      /\ \A d \in Callers : d # c => pc'[d] = pc[d]
      /\ UNCHANGED <<registry, process, service, using, result, ghost>>
  BY DEF Panic, TypeOK, FilesTrue, States
<1>2. TypeOK'
  BY <1>1 DEF TypeOK
<1>3. CallersTrue' /\ RegistryTrue'
  BY <1>1 DEF CallersTrue, RegistryTrue
<1>4. QueueTrue' /\ ShellTrue'
  BY <1>1, CallerKeeps
<1>5. FilesTrue'
  BY <1>1 DEF FilesTrue
<1> QED
  BY <1>2, <1>3, <1>4, <1>5

LEMMA SendKeeps == ASSUME IInv, NEW c \in Callers, Send(c) PROVE IInv'
<1> USE ShellAssumption DEF IInv, registry, process, ghost
<1> DEFINE n == using[c]
<1>1. /\ pc[c] = "send" /\ n \in Shells /\ Len(queue[n]) < QueueCap
      /\ queue[n] \in Seq(Callers)
      /\ pc' = [pc EXCEPT ![c] = "wait"]
      /\ queue' = [queue EXCEPT ![n] = Append(queue[n], c)]
      /\ UNCHANGED <<registry, process, isAlive, closed, serving, writing, polling, using, result, ghost>>
  BY Members DEF Send, Goto, CallersTrue
<1> HIDE DEF n
<1>2. /\ pc'[c] = "wait"
      /\ \A d \in Callers : d # c => pc'[d] = pc[d]
      /\ \A m \in Shells : m # n => queue'[m] = queue[m]
      /\ queue'[n] \in Seq(Callers)
      /\ Len(queue'[n]) = Len(queue[n]) + 1
      /\ \A i \in 1 .. Len(queue[n]) : queue'[n][i] = queue[n][i]
      /\ queue'[n][Len(queue[n]) + 1] = c
  <2>1. pc'[c] = "wait" /\ \A d \in Callers : d # c => pc'[d] = pc[d]
    BY <1>1 DEF TypeOK
  <2>2. queue'[n] = Append(queue[n], c) /\ \A m \in Shells : m # n => queue'[m] = queue[m]
    BY <1>1 DEF TypeOK
  <2> QED
    BY <1>1, <2>1, <2>2, AppendFacts
<1>3. Len(queue[n]) \in Nat
  BY <1>1
<1>4. \A m \in Shells : \A i \in 1 .. Len(queue'[m]) :
        \/ queue'[m][i] = c /\ m = n /\ i = Len(queue[n]) + 1
        \/ i \in 1 .. Len(queue[m]) /\ queue'[m][i] = queue[m][i]
  BY <1>2, <1>3
<1>5. /\ \A m \in Shells : \A i \in 1 .. Len(queue[m]) : queue[m][i] # c
      /\ \A m \in Shells : serving[m] # c
  BY <1>1, ShellAssumption DEF QueueTrue
<1>6. TypeOK'
  <2>1. queue' \in [Shells -> Seq(Callers)] /\ \A m \in Shells : Len(queue'[m]) <= QueueCap
    <3>1. queue' \in [Shells -> Seq(Callers)]
      BY <1>1, AppendFacts DEF TypeOK
    <3>2. ASSUME NEW m \in Shells PROVE Len(queue'[m]) <= QueueCap
      <4>1. CASE m = n
        BY <4>1, <1>1, <1>2, <1>3
      <4>2. CASE m # n
        BY <4>2, <1>2 DEF TypeOK
      <4> QED
        BY <4>1, <4>2
    <3> QED
      BY <3>1, <3>2
  <2>2. pc' \in [Callers -> States]
    BY <1>1 DEF TypeOK, States
  <2> QED
    BY <1>1, <2>1, <2>2 DEF TypeOK
<1>7. CallersTrue' /\ RegistryTrue'
  BY <1>1, <1>2 DEF CallersTrue, RegistryTrue
<1>8. QueueTrue'
  <2> SUFFICES ASSUME NEW m \in Shells
               PROVE  /\ \A i \in 1 .. Len(queue'[m]) :
                           /\ pc'[queue'[m][i]] = "wait"
                           /\ using[queue'[m][i]] = m
                           /\ queue'[m][i] # serving[m]
                      /\ \A i, j \in 1 .. Len(queue'[m]) : queue'[m][i] = queue'[m][j] => i = j
                      /\ serving[m] # None => pc'[serving[m]] = "wait" /\ using[serving[m]] = m
                      /\ m \in writing \cup polling => serving[m] # None
                      /\ m \notin writing \cap polling
    BY <1>1 DEF QueueTrue
  <2>1. ASSUME NEW i \in 1 .. Len(queue'[m])
        PROVE  /\ pc'[queue'[m][i]] = "wait"
               /\ using[queue'[m][i]] = m
               /\ queue'[m][i] # serving[m]
    <3>1. CASE queue'[m][i] = c /\ m = n
      BY <3>1, <1>2, <1>5 DEF n
    <3>2. CASE i \in 1 .. Len(queue[m]) /\ queue'[m][i] = queue[m][i]
      <4>1. queue[m][i] \in Callers /\ queue[m][i] # c
        BY <3>2, <1>5, Members
      <4> QED
        BY <3>2, <4>1, <1>2 DEF QueueTrue
    <3> QED
      BY <3>1, <3>2, <1>4
  <2>2. ASSUME NEW i \in 1 .. Len(queue'[m]), NEW j \in 1 .. Len(queue'[m]),
               queue'[m][i] = queue'[m][j]
        PROVE  i = j
    <3>1. \A k \in 1 .. Len(queue[m]) : queue[m][k] # c
      BY <1>5
    <3>2. CASE queue'[m][i] = c
      BY <1>4, <2>2, <3>1, <3>2
    <3>3. CASE queue'[m][i] # c
      <4>1. /\ i \in 1 .. Len(queue[m]) /\ j \in 1 .. Len(queue[m])
            /\ queue[m][i] = queue[m][j]
        BY <1>4, <2>2, <3>3
      <4> QED
        BY <4>1 DEF QueueTrue
    <3> QED
      BY <3>2, <3>3
  <2>3. serving[m] # None => pc'[serving[m]] = "wait" /\ using[serving[m]] = m
    BY <1>2, <1>5, Members DEF QueueTrue
  <2> QED
    BY <2>1, <2>2, <2>3 DEF QueueTrue
<1>9. ShellTrue'
  <2>1. ASSUME NEW d \in Callers, HandedOver(d) PROVE HandedOver(d)'
    <3>1. d # c
      BY <1>1, <2>1 DEF HandedOver
    <3>2. \A m \in Shells : \A i \in 1 .. Len(queue'[m]) : queue'[m][i] # d
      BY <1>4, <2>1, <3>1 DEF HandedOver
    <3> QED
      BY <1>1, <1>2, <2>1, <3>1, <3>2 DEF HandedOver
  <2> QED
    BY <1>1, <2>1, ShellKept
<1>10. FilesTrue'
  BY <1>1 DEF FilesTrue
<1> QED
  BY <1>6, <1>7, <1>8, <1>9, <1>10

LEMMA TakeKeeps == ASSUME IInv, NEW n \in Shells, Take(n) PROVE IInv'
<1> USE ShellAssumption DEF IInv, registry, process, callers, ghost
<1> DEFINE c == Head(queue[n])
<1>1. /\ serving[n] = None /\ queue[n] \in Seq(Callers) /\ queue[n] # <<>>
      /\ serving' = [serving EXCEPT ![n] = c]
      /\ queue' = [queue EXCEPT ![n] = Tail(queue[n])]
      /\ UNCHANGED <<registry, process, isAlive, closed, writing, polling, callers, ghost>>
  BY Members DEF Take
<1>2. /\ c \in Callers /\ c = queue[n][1]
      /\ Len(queue[n]) \in Nat /\ Len(queue[n]) >= 1
      /\ Tail(queue[n]) \in Seq(Callers)
      /\ Len(Tail(queue[n])) = Len(queue[n]) - 1
      /\ \A i \in 1 .. Len(queue[n]) - 1 : Tail(queue[n])[i] = queue[n][i + 1]
  BY <1>1, TailFacts
<1> HIDE DEF c
<1>3. /\ serving'[n] = c /\ queue'[n] = Tail(queue[n])
      /\ \A m \in Shells : m # n => serving'[m] = serving[m] /\ queue'[m] = queue[m]
  BY <1>1 DEF TypeOK
<1>4. ASSUME NEW m \in Shells, NEW i \in 1 .. Len(queue'[m])
      PROVE  \E k \in 1 .. Len(queue[m]) :
               queue'[m][i] = queue[m][k] /\ k = IF m = n THEN i + 1 ELSE i
  <2>1. CASE m = n
    BY <2>1, <1>2, <1>3
  <2>2. CASE m # n
    BY <2>2, <1>3
  <2> QED
    BY <2>1, <2>2
<1>5. pc[c] = "wait" /\ using[c] = n /\ n \notin writing /\ n \notin polling
  BY <1>1, <1>2 DEF QueueTrue
<1>6. TypeOK'
  <2>1. serving' \in [Shells -> Callers \cup {None}] /\ queue' \in [Shells -> Seq(Callers)]
    BY <1>1, <1>2 DEF TypeOK
  <2>2. ASSUME NEW m \in Shells PROVE Len(queue'[m]) <= QueueCap
    <3>1. CASE m = n
      <4>1. Len(queue[n]) <= QueueCap
        BY DEF TypeOK
      <4> QED
        BY <3>1, <4>1, <1>2, <1>3
    <3>2. CASE m # n
      BY <3>2, <1>3 DEF TypeOK
    <3> QED
      BY <3>1, <3>2
  <2> QED
    BY <1>1, <2>1, <2>2 DEF TypeOK
<1>7. CallersTrue' /\ RegistryTrue'
  BY <1>1 DEF CallersTrue, RegistryTrue
<1>0. UNCHANGED <<pc, using, writing, polling>>
  BY <1>1
<1>8. QueueTrue'
  <2> SUFFICES ASSUME NEW m \in Shells
               PROVE  /\ \A i \in 1 .. Len(queue'[m]) :
                           /\ pc[queue'[m][i]] = "wait"
                           /\ using[queue'[m][i]] = m
                           /\ queue'[m][i] # serving'[m]
                      /\ \A i, j \in 1 .. Len(queue'[m]) : queue'[m][i] = queue'[m][j] => i = j
                      /\ serving'[m] # None => pc[serving'[m]] = "wait" /\ using[serving'[m]] = m
                      /\ m \in writing \cup polling => serving'[m] # None
                      /\ m \notin writing \cap polling
    BY <1>0 DEF QueueTrue
  <2>1. ASSUME NEW i \in 1 .. Len(queue'[m])
        PROVE  /\ pc[queue'[m][i]] = "wait"
               /\ using[queue'[m][i]] = m
               /\ queue'[m][i] # serving'[m]
    <3>1. PICK k \in 1 .. Len(queue[m]) :
            queue'[m][i] = queue[m][k] /\ k = IF m = n THEN i + 1 ELSE i
      BY <1>4
    <3>2. CASE m = n
      <4>1. k # 1 /\ 1 \in 1 .. Len(queue[n]) /\ k \in 1 .. Len(queue[n])
        BY <3>1, <3>2, <1>2
      <4>2. queue[n][k] # queue[n][1]
        BY <4>1 DEF QueueTrue
      <4> QED
        BY <3>1, <3>2, <4>1, <4>2, <1>2, <1>3 DEF QueueTrue
    <3>3. CASE m # n
      BY <3>1, <3>3, <1>3 DEF QueueTrue
    <3> QED
      BY <3>2, <3>3
  <2>2. ASSUME NEW i \in 1 .. Len(queue'[m]), NEW j \in 1 .. Len(queue'[m]),
               queue'[m][i] = queue'[m][j]
        PROVE  i = j
    <3>1. PICK k \in 1 .. Len(queue[m]) :
            queue'[m][i] = queue[m][k] /\ k = IF m = n THEN i + 1 ELSE i
      BY <1>4
    <3>2. PICK l \in 1 .. Len(queue[m]) :
            queue'[m][j] = queue[m][l] /\ l = IF m = n THEN j + 1 ELSE j
      BY <1>4
    <3>3. queue[m][k] = queue[m][l]
      BY <2>2, <3>1, <3>2
    <3>4. \A a, b \in 1 .. Len(queue[m]) : queue[m][a] = queue[m][b] => a = b
      BY DEF QueueTrue
    <3>5. k = l
      BY <3>3, <3>4
    <3> QED
      BY <3>1, <3>2, <3>5
  <2>3. serving'[m] # None => pc[serving'[m]] = "wait" /\ using[serving'[m]] = m
    <3>1. CASE m = n
      BY <3>1, <1>3, <1>5
    <3>2. CASE m # n
      BY <3>2, <1>3 DEF QueueTrue
    <3> QED
      BY <3>1, <3>2
  <2>4. m \in writing \cup polling => serving'[m] # None
    <3>1. m \in writing \cup polling => m # n /\ serving[m] # None
      BY <1>5 DEF QueueTrue
    <3> QED
      BY <3>1, <1>3
  <2>5. m \notin writing \cap polling
    BY DEF QueueTrue
  <2> QED
    BY <2>1, <2>2, <2>3, <2>4, <2>5
<1>9. ShellTrue'
  <2>1. ASSUME NEW d \in Callers, HandedOver(d) PROVE HandedOver(d)'
    <3>0. \A m \in Shells : \A k \in 1 .. Len(queue[m]) : queue[m][k] # d
      BY <2>1 DEF HandedOver
    <3>1. d # c
      BY <3>0, <1>2
    <3>2. ASSUME NEW m \in Shells, NEW i \in 1 .. Len(queue'[m]) PROVE queue'[m][i] # d
      <4>1. PICK k \in 1 .. Len(queue[m]) : queue'[m][i] = queue[m][k]
        BY <1>4
      <4> QED
        BY <3>0, <4>1
    <3>3. \A m \in Shells : serving'[m] = d => m \in polling
      BY <1>3, <2>1, <3>1 DEF HandedOver
    <3> QED
      BY <1>1, <2>1, <3>2, <3>3 DEF HandedOver
  <2> QED
    BY <1>1, <2>1, ShellKept
<1>10. FilesTrue'
  BY <1>1 DEF FilesTrue
<1> QED
  BY <1>6, <1>7, <1>8, <1>9, <1>10

LEMMA BeginWriteKeeps == ASSUME IInv, NEW n \in Shells, BeginWrite(n) PROVE IInv'
<1> USE DEF IInv, registry, process, callers, ghost
<1>1. /\ serving[n] # None /\ n \notin polling
      /\ writing' = writing \cup {n}
      /\ UNCHANGED <<registry, process, isAlive, queue, closed, serving, polling, callers, ghost>>
  BY DEF BeginWrite
<1>2. TypeOK'
  BY <1>1 DEF TypeOK
<1>3. CallersTrue' /\ RegistryTrue'
  BY <1>1 DEF CallersTrue, RegistryTrue
<1>4. QueueTrue'
  <2>1. \A m \in Shells : (m \in writing' \cup polling' => serving'[m] # None)
                         /\ m \notin writing' \cap polling'
    BY <1>1 DEF QueueTrue
  <2> QED
    BY <1>1, <2>1, QueueKept
<1>5. ShellTrue'
  BY <1>1, HandedKept, ShellKept
<1>6. FilesTrue'
  BY <1>1 DEF FilesTrue
<1> QED
  BY <1>2, <1>3, <1>4, <1>5, <1>6

LEMMA WriteKeeps ==
  ASSUME IInv, NEW n \in Shells, NEW c \in Callers, c = serving[n], Write(n) PROVE IInv'
<1> USE DEF IInv, registry, callers, ghost
<1>1. /\ c # None /\ n \notin polling /\ Len(stdin[n]) < PipeCap
      /\ stdin' = [stdin EXCEPT ![n] = Append(stdin[n], c)]
      /\ writing' = writing \ {n} /\ polling' = polling \cup {n}
      /\ UNCHANGED <<registry, exited, job, files, isAlive, queue, closed, serving, callers, ghost>>
  BY DEF Write, QueueTrue
<1>2. c \in Callers /\ stdin[n] \in Seq(Callers) /\ pc[c] = "wait"
  BY <1>1, Members DEF QueueTrue
<1>3. TypeOK'
  <2>1. /\ stdin' \in [Shells -> Seq(Callers)]
        /\ polling' \subseteq Shells /\ writing' \subseteq Shells
    BY <1>1, <1>2, AppendFacts DEF TypeOK
  <2>2. ASSUME NEW m \in Shells PROVE Len(stdin'[m]) <= PipeCap
    <3>1. CASE m = n
      <4>1. stdin'[m] = Append(stdin[n], c) /\ Len(stdin[n]) \in Nat
        BY <3>1, <1>1, <1>2 DEF TypeOK
      <4> QED
        BY <4>1, <1>1, <1>2, AppendFacts, ShellAssumption
    <3>2. CASE m # n
      BY <3>2, <1>1 DEF TypeOK
    <3> QED
      BY <3>1, <3>2
  <2> QED
    BY <1>1, <2>1, <2>2 DEF TypeOK
<1>4. CallersTrue' /\ RegistryTrue'
  BY <1>1 DEF CallersTrue, RegistryTrue
<1>5. QueueTrue'
  <2>1. ASSUME NEW m \in Shells
        PROVE  /\ m \in writing' \cup polling' => serving'[m] # None
               /\ m \notin writing' \cap polling'
    <3>1. CASE m = n
      BY <3>1, <1>1
    <3>2. CASE m # n
      <4>1. (m \in writing' <=> m \in writing) /\ (m \in polling' <=> m \in polling)
        BY <3>2, <1>1
      <4> QED
        BY <4>1, <1>1 DEF QueueTrue
    <3> QED
      BY <3>1, <3>2
  <2> QED
    BY <1>1, <2>1, QueueKept
<1>6. ASSUME NEW d \in Callers, HandedOver(d) PROVE HandedOver(d)'
  BY <1>1, <1>6 DEF HandedOver
<1>7. HandedOver(c)'
  <2>1. result[c] = "none"
    BY <1>2 DEF CallersTrue
  <2>2. \A m \in Shells : serving[m] = c => m = n
    BY <1>1, <1>2 DEF QueueTrue
  <2>3. \A m \in Shells : \A i \in 1 .. Len(queue[m]) : queue[m][i] # c
    <3> SUFFICES ASSUME NEW m \in Shells, NEW i \in 1 .. Len(queue[m]), queue[m][i] = c
                 PROVE  FALSE
      OBVIOUS
    <3>1. using[c] = n /\ using[c] = m /\ queue[m][i] # serving[m]
      BY <1>1 DEF QueueTrue
    <3> QED
      BY <3>1
  <2> QED
    BY <1>1, <1>2, <2>1, <2>2, <2>3 DEF HandedOver
<1>8. ShellTrue'
  <2>1. ASSUME NEW m \in Shells, NEW i \in 1 .. Len(stdin'[m]) PROVE HandedOver(stdin[m][i])'
    <3>1. stdin'[n] = Append(stdin[n], c) /\ \A k \in Shells : k # n => stdin'[k] = stdin[k]
      BY <1>1 DEF TypeOK
    <3>2. CASE m = n /\ i = Len(stdin[n]) + 1
      <4>1. stdin'[m][i] = c
        BY <3>1, <3>2, <1>2, AppendFacts
      <4> QED
        BY <4>1, <1>7
    <3>3. CASE m # n \/ i \in 1 .. Len(stdin[n])
      <4>1. i \in 1 .. Len(stdin[m]) /\ stdin'[m][i] = stdin[m][i]
        <5>1. CASE m # n
          BY <2>1, <3>1, <5>1
        <5>2. CASE m = n
          BY <3>1, <3>3, <5>2, <1>2, AppendFacts
        <5> QED
          BY <5>1, <5>2
      <4>2. HandedOver(stdin[m][i]) /\ stdin[m][i] \in Callers
        BY <4>1, Members DEF ShellTrue
      <4> QED
        BY <4>1, <4>2, <1>6
    <3>4. Len(stdin[n]) \in Nat /\ Len(Append(stdin[n], c)) = Len(stdin[n]) + 1
      BY <1>2, AppendFacts
    <3> QED
      BY <3>1, <3>2, <3>3, <3>4
  <2>2. ASSUME NEW m \in Shells, job'[m] # None PROVE HandedOver(job[m])'
    BY <2>2, <1>1, <1>6, Members DEF ShellTrue
  <2>3. ASSUME NEW d \in started' PROVE HandedOver(d)'
    <3>1. d \in Callers /\ HandedOver(d)
      BY <1>1, <2>3 DEF ShellTrue, TypeOK
    <3> QED
      BY <3>1, <1>6
  <2> QED
    BY <2>1, <2>2, <2>3 DEF ShellTrue
<1>9. FilesTrue'
  BY <1>1 DEF FilesTrue
<1> QED
  BY <1>3, <1>4, <1>5, <1>8, <1>9

\* The shell process and the goroutine that waits for it leave the callers and
\* their queues alone.
LEMMA ProcessKeeps ==
  ASSUME IInv, UNCHANGED <<registry, queue, serving, writing, polling, callers, unstarted>>,
         exited \subseteq exited'
  PROVE  /\ CallersTrue' /\ RegistryTrue' /\ QueueTrue'
         /\ \A c \in Callers : HandedOver(c) => HandedOver(c)'
<1> USE DEF IInv, registry, callers
<1>1. CallersTrue' /\ RegistryTrue'
  BY DEF CallersTrue, RegistryTrue
<1>2. QueueTrue'
  <2>1. \A m \in Shells : (m \in writing' \cup polling' => serving'[m] # None)
                         /\ m \notin writing' \cap polling'
    BY DEF QueueTrue
  <2> QED
    BY <2>1, QueueKept
<1>3. \A c \in Callers : HandedOver(c) => HandedOver(c)'
  BY DEF HandedOver
<1> QED
  BY <1>1, <1>2, <1>3

LEMMA StartJobKeeps ==
  ASSUME IInv, NEW n \in Shells, NEW c \in Callers, c = Head(stdin[n]), StartJob(n) PROVE IInv'
<1> USE DEF IInv, registry, service, callers
<1>1. /\ stdin[n] # <<>> /\ stdin[n] \in Seq(Callers)
      /\ job' = [job EXCEPT ![n] = c]
      /\ stdin' = [stdin EXCEPT ![n] = Tail(stdin[n])]
      /\ started' = started \cup {c}
      /\ UNCHANGED <<registry, exited, files, service, callers, ended, unstarted>>
  BY Members DEF StartJob
<1>2. /\ c \in Callers /\ c = stdin[n][1]
      /\ Len(stdin[n]) \in Nat /\ Len(stdin[n]) >= 1
      /\ Tail(stdin[n]) \in Seq(Callers)
      /\ Len(Tail(stdin[n])) = Len(stdin[n]) - 1
      /\ \A i \in 1 .. Len(stdin[n]) - 1 : Tail(stdin[n])[i] = stdin[n][i + 1]
  BY <1>1, TailFacts
<1>3. TypeOK'
  <2>1. /\ job' \in [Shells -> Callers \cup {None}]
        /\ stdin' \in [Shells -> Seq(Callers)]
        /\ started' \subseteq Callers
    BY <1>1, <1>2 DEF TypeOK
  <2>2. ASSUME NEW m \in Shells PROVE Len(stdin'[m]) <= PipeCap
    <3>0. Len(stdin[n]) <= PipeCap
      BY DEF TypeOK
    <3>1. CASE m = n
      <4>1. stdin'[m] = Tail(stdin[n])
        BY <3>1, <1>1 DEF TypeOK
      <4> QED
        BY <3>0, <4>1, <1>2, ShellAssumption
    <3>2. CASE m # n
      BY <3>2, <1>1 DEF TypeOK
    <3> QED
      BY <3>1, <3>2
  <2> QED
    BY <1>1, <2>1, <2>2 DEF TypeOK
<1>4. /\ CallersTrue' /\ RegistryTrue' /\ QueueTrue'
      /\ \A d \in Callers : HandedOver(d) => HandedOver(d)'
  BY <1>1, ProcessKeeps
<1>5. HandedOver(c)'
  <2>1. HandedOver(stdin[n][1])
    BY <1>2 DEF ShellTrue
  <2> QED
    BY <2>1, <1>2, <1>4
<1>6. ShellTrue'
  <2>1. ASSUME NEW m \in Shells, NEW i \in 1 .. Len(stdin'[m]) PROVE HandedOver(stdin[m][i])'
    <3>1. stdin'[n] = Tail(stdin[n]) /\ \A k \in Shells : k # n => stdin'[k] = stdin[k]
      BY <1>1 DEF TypeOK
    <3>2. PICK k \in 1 .. Len(stdin[m]) : stdin'[m][i] = stdin[m][k]
      <4>1. CASE m = n
        BY <4>1, <3>1, <1>2
      <4>2. CASE m # n
        BY <4>2, <3>1
      <4> QED
        BY <4>1, <4>2
    <3>3. HandedOver(stdin[m][k]) /\ stdin[m][k] \in Callers
      BY Members DEF ShellTrue
    <3> QED
      BY <3>2, <3>3, <1>4
  <2>2. ASSUME NEW m \in Shells, job'[m] # None PROVE HandedOver(job[m])'
    <3>1. CASE m = n
      BY <3>1, <1>1, <1>5 DEF TypeOK
    <3>2. CASE m # n
      <4>1. job'[m] = job[m]
        BY <3>2, <1>1 DEF TypeOK
      <4> QED
        BY <4>1, <2>2, <1>4, Members DEF ShellTrue
    <3> QED
      BY <3>1, <3>2
  <2>3. ASSUME NEW d \in started' PROVE HandedOver(d)'
    <3>1. d = c \/ (d \in Callers /\ HandedOver(d))
      BY <1>1, <2>3 DEF ShellTrue, TypeOK
    <3> QED
      BY <3>1, <1>4, <1>5
  <2> QED
    BY <2>1, <2>2, <2>3 DEF ShellTrue
<1>7. FilesTrue'
  BY <1>1 DEF FilesTrue
<1> QED
  BY <1>3, <1>4, <1>6, <1>7

LEMMA EndJobKeeps == ASSUME IInv, NEW n \in Shells, EndJob(n) PROVE IInv'
<1> USE DEF IInv, registry, service, callers
<1>1. /\ job[n] \in Callers
      /\ job' = [job EXCEPT ![n] = None]
      /\ files' = files \cup {job[n]} /\ ended' = ended \cup {job[n]}
      /\ UNCHANGED <<registry, exited, stdin, service, callers, started, unstarted>>
  BY Members DEF EndJob, StatusFile
<1>2. TypeOK'
  <2>1. /\ job' \in [Shells -> Callers \cup {None}]
        /\ files' \subseteq {StatusFile(c) : c \in Callers}
        /\ ended' \subseteq Callers
    BY <1>1 DEF TypeOK, StatusFile
  <2> QED
    BY <1>1, <2>1 DEF TypeOK
<1>3. /\ CallersTrue' /\ RegistryTrue' /\ QueueTrue'
      /\ \A d \in Callers : HandedOver(d) => HandedOver(d)'
  BY <1>1, ProcessKeeps
<1>4. ShellTrue'
  <2>1. ASSUME NEW m \in Shells, NEW i \in 1 .. Len(stdin[m]) PROVE HandedOver(stdin[m][i])'
    <3>1. stdin[m][i] \in Callers /\ HandedOver(stdin[m][i])
      BY Members DEF ShellTrue
    <3> QED
      BY <3>1, <1>1, <1>3
  <2>2. ASSUME NEW m \in Shells, job'[m] # None PROVE HandedOver(job[m])'
    <3>1. job'[m] = job[m]
      BY <1>1, <2>2 DEF TypeOK
    <3> QED
      BY <3>1, <2>2, <1>3, Members DEF ShellTrue
  <2>3. ASSUME NEW d \in started PROVE HandedOver(d)'
    BY <1>3 DEF ShellTrue, TypeOK
  <2> QED
    BY <1>1, <2>1, <2>2, <2>3 DEF ShellTrue
<1>5. FilesTrue'
  BY <1>1 DEF FilesTrue
<1> QED
  BY <1>2, <1>3, <1>4, <1>5

LEMMA ExitKeeps == ASSUME IInv, NEW n \in Shells, Exit(n) PROVE IInv'
<1> USE DEF IInv, registry, service, callers, ghost
<1>1. /\ exited' = exited \cup {n}
      /\ job' = [job EXCEPT ![n] = None] /\ stdin' = [stdin EXCEPT ![n] = <<>>]
      /\ UNCHANGED <<registry, files, service, callers, ghost>>
  BY DEF Exit
<1>2. TypeOK'
  <2>1. <<>> \in Seq(Callers) /\ Len(<<>>) = 0
    OBVIOUS
  <2>2. /\ job' \in [Shells -> Callers \cup {None}]
        /\ stdin' \in [Shells -> Seq(Callers)]
        /\ exited' \subseteq Shells
    BY <1>1, <2>1 DEF TypeOK
  <2>3. ASSUME NEW m \in Shells PROVE Len(stdin'[m]) <= PipeCap
    <3>1. stdin'[m] = IF m = n THEN <<>> ELSE stdin[m]
      BY <1>1 DEF TypeOK
    <3> QED
      BY <3>1, <2>1, ShellAssumption DEF TypeOK
  <2> QED
    BY <1>1, <2>2, <2>3 DEF TypeOK
<1>3. /\ CallersTrue' /\ RegistryTrue' /\ QueueTrue'
      /\ \A d \in Callers : HandedOver(d) => HandedOver(d)'
  BY <1>1, ProcessKeeps
<1>4. ShellTrue'
  <2>1. ASSUME NEW m \in Shells, NEW i \in 1 .. Len(stdin'[m]) PROVE HandedOver(stdin[m][i])'
    <3>1. stdin'[n] = <<>> /\ \A k \in Shells : k # n => stdin'[k] = stdin[k]
      BY <1>1 DEF TypeOK
    <3>2. m # n /\ stdin'[m] = stdin[m]
      BY <3>1
    <3> QED
      BY <3>2, <1>3, Members DEF ShellTrue
  <2>2. ASSUME NEW m \in Shells, job'[m] # None PROVE HandedOver(job[m])'
    <3>1. job'[m] = job[m]
      BY <1>1, <2>2 DEF TypeOK
    <3> QED
      BY <3>1, <2>2, <1>3, Members DEF ShellTrue
  <2>3. ASSUME NEW d \in started PROVE HandedOver(d)'
    BY <1>3 DEF ShellTrue, TypeOK
  <2> QED
    BY <1>1, <2>1, <2>2, <2>3 DEF ShellTrue
<1>5. FilesTrue'
  BY <1>1 DEF FilesTrue
<1> QED
  BY <1>2, <1>3, <1>4, <1>5

LEMMA WaitKeeps == ASSUME IInv, NEW n \in Shells, Wait(n) PROVE IInv'
<1> USE DEF IInv, registry, process, callers, ghost
<1>1. /\ isAlive' \in [Shells -> BOOLEAN]
      /\ closed' \subseteq exited /\ closed' \subseteq Shells
      /\ UNCHANGED <<registry, process, queue, serving, writing, polling, callers, ghost>>
  BY DEF Wait, NoteExit, CloseQueue, TypeOK, FilesTrue
<1>2. TypeOK'
  BY <1>1 DEF TypeOK
<1>3. /\ CallersTrue' /\ RegistryTrue' /\ QueueTrue'
      /\ \A d \in Callers : HandedOver(d) => HandedOver(d)'
  BY <1>1, ProcessKeeps
<1>4. ShellTrue'
  BY <1>1, <1>3, ShellKept
<1>5. FilesTrue'
  BY <1>1 DEF FilesTrue
<1> QED
  BY <1>2, <1>3, <1>4, <1>5
------------------------------------------------------------------------------
LEMMA NextKeeps == IInv /\ [Next]_vars => IInv'
<1> SUFFICES ASSUME IInv, [Next]_vars PROVE IInv'
  OBVIOUS
<1>1. ASSUME NEW c \in Callers, Call(c) \/ GetShell(c) \/ Exec(c) PROVE IInv'
  BY <1>1, CallKeeps, LookKeeps, StartShellKeeps, TakeShellKeeps, CheckKeeps, SendKeeps, PanicKeeps
     DEF GetShell, Exec
<1>2. ASSUME NEW n \in Shells, Refuse(n) \/ WriteFails(n) PROVE IInv'
  <2>1. PICK r \in {"failed", "not alive"} : Reply(n, r)
    BY <1>2 DEF Refuse, WriteFails
  <2>2. serving[n] # None /\ n \notin polling
    BY <1>2 DEF Refuse, WriteFails, IInv, QueueTrue
  <2> QED
    BY <1>2, <2>1, <2>2, ReplyKeeps DEF Refuse, WriteFails
<1>3. ASSUME NEW n \in Shells, Finish(n) PROVE IInv'
  <2>1. n \in polling /\ serving[n] # None /\ serving[n] \in ended /\ Reply(n, "ok")
    BY <1>3 DEF IInv, QueueTrue, FilesTrue, Finish, StatusFile
  <2> QED
    BY <1>3, <2>1, ReplyKeeps DEF Finish
<1>4. ASSUME NEW n \in Shells, Interrupt(n) PROVE IInv'
  <2>1. n \in polling /\ serving[n] # None /\ Reply(n, "interrupted")
    BY <1>4 DEF IInv, QueueTrue, Interrupt
  <2> QED
    BY <1>4, <2>1, ReplyKeeps DEF Interrupt
<1>5. ASSUME NEW n \in Shells, Serve(n) \/ Wait(n) \/ StartJob(n) \/ EndJob(n) \/ Exit(n)
      PROVE  IInv'
  <2>1. CASE Write(n)
    <3>1. serving[n] \in Callers
      BY <2>1, Members DEF IInv, QueueTrue, Write
    <3> QED
      BY <2>1, <3>1, WriteKeeps
  <2>2. CASE StartJob(n)
    <3>1. Head(stdin[n]) \in Callers
      BY <2>2, Members, TailFacts DEF IInv, StartJob
    <3> QED
      BY <2>2, <3>1, StartJobKeeps
  <2> QED
    BY <1>2, <1>3, <1>4, <1>5, <2>1, <2>2, TakeKeeps, BeginWriteKeeps, WaitKeeps, EndJobKeeps, ExitKeeps
       DEF Serve
<1>6. CASE UNCHANGED vars
  <2>1. /\ CallersTrue' /\ RegistryTrue' /\ QueueTrue'
        /\ \A d \in Callers : HandedOver(d) => HandedOver(d)'
    BY <1>6, ProcessKeeps DEF vars, registry, process, service, callers, ghost
  <2>2. ShellTrue'
    BY <1>6, <2>1, ShellKept DEF vars, registry, process, service, callers, ghost
  <2>3. TypeOK' /\ FilesTrue'
    BY <1>6 DEF vars, registry, process, service, callers, ghost, IInv, TypeOK, FilesTrue
  <2> QED
    BY <2>1, <2>2, <2>3 DEF IInv
<1> QED
  BY <1>1, <1>5, <1>6 DEF Next

\* The inductive invariant: a command is in one place at a time, and what has
\* been written to a shell is never refused (shell.go 134-190).
THEOREM Invariant == Spec => []IInv
  BY InitIInv, NextKeeps, PTL DEF Spec

\* Every variable keeps its type, and no queue grows past its capacity
\* (shell.go 63-107, 278-290).
THEOREM TypeCorrect == Spec => []TypeOK
<1>1. IInv => TypeOK
  BY DEF IInv
<1> QED
  BY <1>1, Invariant, PTL

\* What Exec says of a command is so, for every number of callers and shells
\* (shell.go 49-61, 91-101, 150-156, 183-190, 216-246, 273-290).
THEOREM ResultIsTrueAlways == Spec => []ResultIsTrue
<1>1. IInv => ResultIsTrue
  <2> SUFFICES ASSUME IInv, NEW c \in Callers
               PROVE  /\ result[c] = "ok" => c \in ended
                      /\ result[c] \in {"failed", "not alive"} => c \notin started
                      /\ pc[c] = "panicked" =>
                           /\ c \notin started
                           /\ using[c] \in exited \/ (using[c] = 0 /\ unstarted)
    BY DEF ResultIsTrue
  <2>1. c \in started => HandedOver(c)
    BY DEF IInv, ShellTrue
  <2> QED
    BY <2>1 DEF IInv, FilesTrue, CallersTrue, HandedOver
<1> QED
  BY <1>1, Invariant, PTL
==============================================================================
