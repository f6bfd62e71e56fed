-------------------------------- MODULE Edits --------------------------------
(***************************************************************************)
(* The tools that read and write files, internal/llm/tools/{view,edit,      *)
(* write,patch}.go, over the working tree, the process-wide record of when  *)
(* a file was last read (file.go), and the file history; and the checkpoint *)
(* taken when a session's first changing tool has completed (mutationcp).   *)
(*                                                                         *)
(* A session runs its changing tools one at a time; sessions run at the     *)
(* same time, and so do the user's editor and the shell.  A call waits for  *)
(* permission between reading a file and writing it.                        *)
(*                                                                         *)
(* A patch may move a file it updates: the new content is written to the    *)
(* target, of which nothing is asked, and then the file is removed.  The    *)
(* history hears of the file only, never of the target.                     *)
(***************************************************************************)
EXTENDS FileHistory, Sequences

CONSTANTS
  Calls,
  None,      \* no session, and no path
  MaxWrites, \* bound on the contents written
  MaxMoves   \* bound on the files a patch moves

ASSUME EditsAssumption ==
  /\ None \notin Sessions \cup Paths
  /\ MaxWrites \in Nat \ {0}
  /\ MaxMoves \in Nat

VARIABLES
  disk,     \* content of each file
  readAt,   \* the last read of each file: never, before its last change, or since
  writes,   \* contents written so far
  pc,       \* where a call is
  tool,     \* what it is a call of
  owner,    \* its session
  files,    \* its files
  dest,     \* where a patch moves each of them, if it does
  todo,     \* files it has still to write, and then to record
  leaving,  \* the moved file it has still to remove, if any
  old,      \* contents it read
  new,      \* contents it writes
  ops,      \* versions it has still to record for the file it is at
  wrote,    \* paths it has written or removed
  reply,    \* what it returned
  dead,     \* calls whose request was cancelled
  change,   \* the first-mutation checkpoint of each session
  seen,     \* history: contents of files a call has shown or written
  slipped,  \* history: contents that came between a call's access and its record of it
  orig,     \* history: what a session's first version of a file may be
  displaced \* history: calls and targets of theirs that were changed by others

world == <<disk, readAt, writes>>
what  == <<tool, owner, files, dest, old, new>>
ghost == <<seen, slipped, orig, displaced>>
vars  == <<history, world, pc, what, todo, leaving, ops, wrote, reply, dead, change, ghost>>

Absent == MaxWrites + 1
Contents == 0 .. MaxWrites

\* create, delete and replace are the edit tool's; add, update and remove the
\* patch tool's, for all its files; redo is what edit does after delete.
Starts == {"view", "create", "delete", "replace", "write", "add", "update", "remove"}
Tools == Starts \cup {"redo"}
Patches == {"add", "update", "remove"}

\* Tools that start from a file that is not there, and those that need it read.
Adds == {"create", "add"}
NeedsRead == {"delete", "replace", "redo", "update", "remove"}

States ==
  {"idle", "read", "asking", "writing", "moving", "lookup", "record", "again", "capture", "done"}

Init ==
  /\ HistoryInit
  /\ disk \in [Paths -> {1, Absent}]
  /\ readAt = [p \in Paths |-> "never"]
  /\ writes = 1
  /\ pc = [x \in Calls |-> "idle"]
  /\ tool = [x \in Calls |-> "view"]
  /\ owner = [x \in Calls |-> None]
  /\ files = [x \in Calls |-> {}]
  /\ dest = [x \in Calls |-> [p \in Paths |-> None]]
  /\ todo = [x \in Calls |-> {}]
  /\ leaving = [x \in Calls |-> None]
  /\ old = [x \in Calls |-> [p \in Paths |-> Empty]]
  /\ new = [x \in Calls |-> Empty]
  /\ ops = [x \in Calls |-> <<>>]
  /\ wrote = [x \in Calls |-> {}]
  /\ reply = [x \in Calls |-> "none"]
  /\ dead = {}
  /\ change = [s \in Sessions |-> {}]
  /\ seen = {}
  /\ slipped = {}
  /\ orig = [s \in Sessions |-> [p \in Paths |-> {}]]
  /\ displaced = {}

Goto(x, from, to) ==
  /\ pc[x] = from
  /\ pc' = [pc EXCEPT ![x] = to]

Running(x) == pc[x] \notin {"idle", "done"}

Present(p) == disk[p] # Absent

Text(p) == IF Present(p) THEN disk[p] ELSE Empty

\* A change of the file makes the last read out of date.
Touched(p) == readAt' = [readAt EXCEPT ![p] = IF @ = "since" THEN "before" ELSE @]

\* Where x moves files to.
Targets(x) == {dest[x][p] : p \in {f \in files[x] : dest[x][f] # None}}

\* p is changed by none of these: if it is a target of one, it no longer holds
\* what was moved there.
Displaces(others, p) ==
  displaced' = displaced \cup {<<y, p>> : y \in {z \in others : p \in Targets(z) \cap wrote[z]}}

\* Between an access to a file and the record of when it was read.
InWindow(y, p) ==
  \/ pc[y] = "read" /\ p \in todo[y]
  \/ pc[y] \in {"writing", "moving"} /\ p \in (wrote[y] \cap files[y]) \ todo[y]
  \/ pc[y] \in {"lookup", "record"} /\ p \in todo[y]
------------------------------------------------------------------------------
\* The user's editor or the shell.
EditOutside(p) ==
  /\ writes < MaxWrites
  /\ writes' = writes + 1
  /\ disk' = [disk EXCEPT ![p] = writes + 1]
  /\ Touched(p)
  /\ slipped' = IF \E y \in Calls : InWindow(y, p)
                THEN slipped \cup {<<p, writes + 1>>} ELSE slipped
  /\ Displaces(Calls, p)
  /\ UNCHANGED <<history, pc, what, todo, leaving, ops, wrote, reply, dead, change,
                 seen, orig>>

RemoveOutside(p) ==
  /\ Present(p)
  /\ disk' = [disk EXCEPT ![p] = Absent]
  /\ Displaces(Calls, p)
  /\ UNCHANGED <<history, readAt, writes, pc, what, todo, leaving, ops, wrote, reply, dead, change,
                 seen, slipped, orig>>

\* A tool looks at its context only when it records what it wrote.
Cancel(x) ==
  /\ pc[x] \in {"lookup", "record"}
  /\ dead' = dead \cup {x}
  /\ UNCHANGED <<history, world, pc, what, todo, leaving, ops, wrote, reply, change, ghost>>
------------------------------------------------------------------------------
\* The tool's own checks: the file is there or is not, and it did not change
\* since it was last read, by whatever session.
Allowed(t, p) ==
  /\ t \in Adds => ~Present(p)
  /\ t \in NeedsRead => Present(p) /\ readAt[p] = "since"
  /\ t = "write" => ~Present(p) \/ readAt[p] = "since"
  /\ t = "view" => Present(p)

\* What a patch may do with its files ps: updated, they may go to any paths.
Moves(t, ps) ==
  {m \in [Paths -> Paths \cup {None}] :
     LET moved == {p \in Paths : m[p] # None}
     IN moved \subseteq ps /\ (moved # {} => t = "update" /\ Cardinality(moved) <= MaxMoves)}

\* Mutant of Start: the write tool overwrites what was not read.
StartUnread(x, t, s, ps, m) ==
  /\ pc[x] = "idle"
  /\ \A y \in Calls : owner[y] = s => ~Running(y)
  /\ t \notin Patches => \E p \in Paths : ps = {p}
  /\ \A p \in ps : t = "write" \/ Allowed(t, p)
  /\ pc' = [pc EXCEPT ![x] = IF t = "view" THEN "read" ELSE "asking"]
  /\ tool' = [tool EXCEPT ![x] = t]
  /\ owner' = [owner EXCEPT ![x] = s]
  /\ files' = [files EXCEPT ![x] = ps]
  /\ dest' = [dest EXCEPT ![x] = m]
  /\ todo' = [todo EXCEPT ![x] = ps]
  /\ old' = [old EXCEPT ![x] = [p \in Paths |-> IF p \in ps THEN Text(p) ELSE Empty]]
  /\ seen' = IF t = "view" THEN seen \cup {<<p, disk[p]>> : p \in ps} ELSE seen
  /\ UNCHANGED <<history, world, new, leaving, ops, wrote, reply, dead, change, slipped, orig,
                 displaced>>

\* A call checks and reads its files; a view shows them.
Start(x, t, s, ps, m) ==
  /\ pc[x] = "idle"
  /\ \A y \in Calls : owner[y] = s => ~Running(y)
  /\ t \notin Patches => \E p \in Paths : ps = {p}
  /\ \A p \in ps : Allowed(t, p)
  /\ pc' = [pc EXCEPT ![x] = IF t = "view" THEN "read" ELSE "asking"]
  /\ tool' = [tool EXCEPT ![x] = t]
  /\ owner' = [owner EXCEPT ![x] = s]
  /\ files' = [files EXCEPT ![x] = ps]
  /\ dest' = [dest EXCEPT ![x] = m]
  /\ todo' = [todo EXCEPT ![x] = ps]
  /\ old' = [old EXCEPT ![x] = [p \in Paths |-> IF p \in ps THEN Text(p) ELSE Empty]]
  /\ seen' = IF t = "view" THEN seen \cup {<<p, disk[p]>> : p \in ps} ELSE seen
  /\ UNCHANGED <<history, world, new, leaving, ops, wrote, reply, dead, change, slipped, orig,
                 displaced>>

\* A check fails: the call returns an error, edit after its second pass; the
\* checkpoint's caller passes over a view.
Refuse(x, t, s, ps) ==
  /\ pc[x] = "idle"
  /\ \A y \in Calls : owner[y] = s => ~Running(y)
  /\ t \notin Patches => \E p \in Paths : ps = {p}
  /\ \E p \in ps : ~Allowed(t, p)
  /\ pc' = [pc EXCEPT ![x] = CASE t = "delete" -> "again" [] t = "view" -> "done"
                                [] OTHER -> "capture"]
  /\ tool' = [tool EXCEPT ![x] = t]
  /\ owner' = [owner EXCEPT ![x] = s]
  /\ files' = [files EXCEPT ![x] = ps]
  /\ todo' = [todo EXCEPT ![x] = ps]
  /\ reply' = [reply EXCEPT ![x] = "error"]
  /\ UNCHANGED <<history, world, dest, old, new, leaving, ops, wrote, dead, change, ghost>>

Deny(x) ==
  /\ Goto(x, "asking", "capture")
  /\ reply' = [reply EXCEPT ![x] = "denied"]
  /\ UNCHANGED <<history, world, what, todo, leaving, ops, wrote, dead, change, ghost>>

Approve(x) ==
  /\ Goto(x, "asking", "writing")
  /\ writes < MaxWrites
  /\ writes' = writes + 1
  /\ new' = [new EXCEPT ![x] = writes + 1]
  /\ UNCHANGED <<history, disk, readAt, tool, owner, files, dest, old, todo, leaving, ops, wrote,
                 reply, dead, change, ghost>>

\* The session never wrote the file before.
FirstWrite(x, p) == \A y \in Calls : owner[y] = owner[x] => p \notin wrote[y]

\* x has done with p; after the last of its files it records them all.
Written(x, p) ==
  /\ pc' = [pc EXCEPT ![x] = IF todo[x] = {p} THEN "lookup" ELSE "writing"]
  /\ todo' = [todo EXCEPT ![x] = IF todo[x] = {p} THEN files[x] ELSE @ \ {p}]

\* What the session's first version of p may be from now on, once x changes it.
FirstVersion(x, p) ==
  orig' = IF ~FirstWrite(x, p) THEN orig
          ELSE [orig EXCEPT ![owner[x]][p] =
                  IF tool[x] = "add" \/ old[x][p] # Text(p) THEN Contents ELSE {Text(p)}]

\* os.WriteFile, or os.Remove; whatever the file holds by now is lost.
WriteFile(x, p) ==
  /\ pc[x] = "writing"
  /\ p \in todo[x] /\ dest[x][p] = None
  /\ tool[x] = "remove" => Present(p)
  /\ disk' = [disk EXCEPT ![p] = IF tool[x] = "remove" THEN Absent ELSE new[x]]
  /\ Touched(p)
  /\ wrote' = [wrote EXCEPT ![x] = @ \cup {p}]
  /\ Written(x, p)
  /\ seen' = seen \cup {<<p, new[x]>>}
  /\ FirstVersion(x, p)
  /\ Displaces(Calls \ {x}, p)
  /\ UNCHANGED <<history, writes, what, leaving, ops, reply, dead, change, slipped>>

\* Mutant of MoveFile: it removes the file before it writes the target.
MoveFileEarly(x, p) ==
  /\ pc[x] = "writing"
  /\ p \in todo[x] /\ dest[x][p] # None
  /\ disk' = [disk EXCEPT ![p] = Absent]
  /\ wrote' = [wrote EXCEPT ![x] = @ \cup {p}]
  /\ pc' = [pc EXCEPT ![x] = "moving"]
  /\ leaving' = [leaving EXCEPT ![x] = p]
  /\ FirstVersion(x, p)
  /\ Displaces(Calls \ {x}, p)
  /\ UNCHANGED <<history, readAt, writes, what, todo, ops, reply, dead, change, seen, slipped>>

\* A moved file's new content goes to its target, whatever is there: nobody
\* looks at it, and nothing will be recorded of it.
MoveFile(x, p) ==
  LET q == dest[x][p]
  IN /\ pc[x] = "writing"
     /\ p \in todo[x] /\ q # None
     /\ disk' = [disk EXCEPT ![q] = new[x]]
     /\ Touched(q)
     /\ wrote' = [wrote EXCEPT ![x] = @ \cup {q}]
     /\ pc' = [pc EXCEPT ![x] = "moving"]
     /\ leaving' = [leaving EXCEPT ![x] = p]
     /\ seen' = seen \cup {<<q, new[x]>>}
     /\ orig' = IF FirstWrite(x, q) THEN [orig EXCEPT ![owner[x]][q] = Contents] ELSE orig
     /\ Displaces(Calls \ {x}, q)
     /\ UNCHANGED <<history, writes, what, todo, ops, reply, dead, change, slipped>>

\* And then the file is removed, were it its own target.
RemoveMoved(x) ==
  LET p == leaving[x]
  IN /\ pc[x] = "moving"
     /\ Present(p)
     /\ disk' = [disk EXCEPT ![p] = Absent]
     /\ wrote' = [wrote EXCEPT ![x] = @ \cup {p}]
     /\ leaving' = [leaving EXCEPT ![x] = None]
     /\ Written(x, p)
     /\ FirstVersion(x, p)
     /\ Displaces(Calls \ {x}, p)
     /\ UNCHANGED <<history, readAt, writes, what, ops, reply, dead, change, seen, slipped>>

\* A write fails, or a removal; what a patch wrote before stays, and is not
\* recorded.
FailWrite(x) ==
  /\ pc[x] \in {"writing", "moving"}
  /\ pc' = [pc EXCEPT ![x] = "capture"]
  /\ reply' = [reply EXCEPT ![x] = IF tool[x] \in Patches THEN "error" ELSE "failed"]
  /\ orig' = [orig EXCEPT ![owner[x]] =
                [p \in Paths |-> IF p \in wrote[x] /\ OfSession(owner[x], p) = {}
                                 THEN Contents ELSE @[p]]]
  /\ UNCHANGED <<history, world, what, todo, leaving, ops, wrote, dead, change, seen, slipped,
                 displaced>>
------------------------------------------------------------------------------
\* What is recorded as the new content: a deletion counts as one of all of it.
Recorded(x) == IF tool[x] \in {"delete", "remove"} THEN Empty ELSE new[x]

Op(kind, p, c) == [kind |-> kind, path |-> p, content |-> c]

\* Mutant of Versions: no intermediate version, and none of what was there.
VersionsOfNew(x, p, found, last) ==
  <<Op("version", p, Recorded(x)), Op("read", p, Empty)>>

\* The versions to record for p, whose latest in the session is last if found.
Versions(x, p, found, last) ==
  LET start == IF tool[x] = "create" \/ (tool[x] # "add" /\ ~found)
               THEN <<Op("create", p, old[x][p])>> ELSE <<>>
      between == IF tool[x] \notin Adds /\ (IF found THEN last ELSE Empty) # old[x][p]
                 THEN <<Op("version", p, old[x][p])>> ELSE <<>>
  IN start \o between \o <<Op("version", p, Recorded(x)), Op("read", p, Empty)>>

\* GetByPathAndSession, which a dead context fails like a missing row.
LookUp(x, p) ==
  LET found == IF x \in dead THEN {} ELSE Newest(OfSession(owner[x], p))
  IN /\ Goto(x, "lookup", "record")
     /\ p \in todo[x]
     /\ \/ /\ found = {}
           /\ ops' = [ops EXCEPT ![x] = Versions(x, p, FALSE, Empty)]
        \/ \E r \in found : ops' = [ops EXCEPT ![x] = Versions(x, p, TRUE, r.content)]
     /\ UNCHANGED <<history, world, what, todo, leaving, wrote, reply, dead, change, ghost>>

NextOp(x) == Head(ops[x])

Record(x) ==
  /\ pc[x] = "record"
  /\ x \notin dead
  /\ \/ NextOp(x).kind = "create" /\ Create(owner[x], NextOp(x).path, NextOp(x).content)
     \/ NextOp(x).kind = "version" /\ CreateVersion(owner[x], NextOp(x).path, NextOp(x).content)
  /\ ops' = [ops EXCEPT ![x] = Tail(@)]
  /\ UNCHANGED <<world, pc, what, todo, leaving, wrote, reply, dead, change, ghost>>

\* A dead context: a version not recorded is only logged, but without its
\* first version edit and write return the error.
RecordNothing(x) ==
  /\ pc[x] = "record"
  /\ x \in dead
  /\ NextOp(x).kind # "read"
  /\ orig' = [orig EXCEPT ![owner[x]][NextOp(x).path] = Contents]
  /\ IF NextOp(x).kind = "create" /\ tool[x] \notin Patches
     THEN /\ reply' = [reply EXCEPT ![x] = "failed"]
          /\ pc' = [pc EXCEPT ![x] = "capture"]
          /\ UNCHANGED ops
     ELSE /\ ops' = [ops EXCEPT ![x] = Tail(@)]
          /\ UNCHANGED <<reply, pc>>
  /\ UNCHANGED <<history, world, what, todo, leaving, wrote, dead, change, seen, slipped,
                 displaced>>

\* Mutant of EndFile: replaceContent falls through as well.
EndFileFallsThrough(x) ==
  LET p == NextOp(x).path
  IN /\ pc[x] = "record"
     /\ NextOp(x).kind = "read"
     /\ readAt' = [readAt EXCEPT ![p] = "since"]
     /\ ops' = [ops EXCEPT ![x] = <<>>]
     /\ todo' = [todo EXCEPT ![x] = @ \ {p}]
     /\ pc' = [pc EXCEPT ![x] = IF todo[x] # {p} THEN "lookup"
                                ELSE IF tool[x] \in {"create", "delete", "replace"} THEN "again"
                                ELSE "capture"]
     /\ reply' = [reply EXCEPT ![x] = "ok"]
     /\ UNCHANGED <<history, disk, writes, what, leaving, wrote, dead, change, ghost>>

\* recordFileRead after a file was recorded, and the next file, if any.
EndFile(x) ==
  LET p == NextOp(x).path
  IN /\ pc[x] = "record"
     /\ NextOp(x).kind = "read"
     /\ readAt' = [readAt EXCEPT ![p] = "since"]
     /\ ops' = [ops EXCEPT ![x] = <<>>]
     /\ todo' = [todo EXCEPT ![x] = @ \ {p}]
     /\ pc' = [pc EXCEPT ![x] = IF todo[x] # {p} THEN "lookup"
                                ELSE IF tool[x] \in {"create", "delete"} THEN "again"
                                ELSE "capture"]
     /\ reply' = [reply EXCEPT ![x] = "ok"]
     /\ UNCHANGED <<history, disk, writes, what, leaving, wrote, dead, change, ghost>>

EndView(x) ==
  /\ Goto(x, "read", "done")
  /\ readAt' = [p \in Paths |-> IF p \in todo[x] THEN "since" ELSE readAt[p]]
  /\ reply' = [reply EXCEPT ![x] = "ok"]
  /\ UNCHANGED <<history, disk, writes, what, todo, leaving, ops, wrote, dead, change, ghost>>

\* After createNewFile and deleteContent edit goes on to replaceContent, which
\* finds the empty string all over, or what it deleted no more, or again.
FailAgain(x) ==
  /\ Goto(x, "again", "capture")
  /\ reply' = [reply EXCEPT ![x] = "error"]
  /\ UNCHANGED <<history, world, what, todo, leaving, ops, wrote, dead, change, ghost>>

ReplaceAgain(x) ==
  /\ tool[x] = "delete"
  /\ Goto(x, "again", "asking")
  /\ \A p \in files[x] : Allowed("redo", p)
  /\ tool' = [tool EXCEPT ![x] = "redo"]
  /\ todo' = [todo EXCEPT ![x] = files[x]]
  /\ old' = [old EXCEPT ![x] = [p \in Paths |-> IF p \in files[x] THEN Text(p) ELSE Empty]]
  /\ UNCHANGED <<history, world, owner, files, dest, new, leaving, ops, wrote, reply, dead, change,
                 ghost>>

\* Mutant of OnToolCompleted: only after a tool that did not fail.
CaptureSuccess(x) ==
  /\ Goto(x, "capture", "done")
  /\ change' = IF reply[x] = "ok" /\ change[owner[x]] = {}
               THEN [change EXCEPT ![owner[x]] = ChangesFrom(owner[x])] ELSE change
  /\ UNCHANGED <<history, world, what, todo, leaving, ops, wrote, reply, dead, ghost>>

\* The checkpoint of the session's one task here, taken once.
OnToolCompleted(x) ==
  /\ Goto(x, "capture", "done")
  /\ change' = IF change[owner[x]] = {}
               THEN [change EXCEPT ![owner[x]] = ChangesFrom(owner[x])] ELSE change
  /\ UNCHANGED <<history, world, what, todo, leaving, ops, wrote, reply, dead, ghost>>
------------------------------------------------------------------------------
Step(x) ==
  \/ Deny(x) \/ Approve(x) \/ FailWrite(x)
  \/ \E p \in Paths : WriteFile(x, p) \/ MoveFile(x, p) \/ LookUp(x, p)
  \/ RemoveMoved(x) \/ Record(x) \/ RecordNothing(x) \/ EndFile(x) \/ EndView(x)
  \/ FailAgain(x) \/ ReplaceAgain(x) \/ OnToolCompleted(x)

Pass == Tick /\ UNCHANGED <<world, pc, what, todo, leaving, ops, wrote, reply, dead, change, ghost>>

Next ==
  \/ \E x \in Calls :
       \/ \E t \in Starts, s \in Sessions, ps \in (SUBSET Paths) \ {{}} :
            \/ \E m \in Moves(t, ps) : Start(x, t, s, ps, m)
            \/ Refuse(x, t, s, ps)
       \/ Step(x)
       \/ Cancel(x)
  \/ \E p \in Paths : EditOutside(p) \/ RemoveOutside(p)
  \/ Pass

Spec == Init /\ [][Next]_vars
------------------------------------------------------------------------------
TypeOK ==
  /\ HistoryTypeOK
  /\ disk \in [Paths -> Contents \cup {Absent}]
  /\ readAt \in [Paths -> {"never", "before", "since"}]
  /\ writes \in Contents
  /\ pc \in [Calls -> States]
  /\ tool \in [Calls -> Tools]
  /\ owner \in [Calls -> Sessions \cup {None}]
  /\ files \in [Calls -> SUBSET Paths]
  /\ dest \in [Calls -> [Paths -> Paths \cup {None}]]
  /\ todo \in [Calls -> SUBSET Paths]
  /\ leaving \in [Calls -> Paths \cup {None}]
  /\ old \in [Calls -> [Paths -> Contents]]
  /\ new \in [Calls -> Contents]
  /\ ops \in [Calls -> Seq([kind : {"create", "version", "read"}, path : Paths, content : Contents])]
  /\ wrote \in [Calls -> SUBSET Paths]
  /\ reply \in [Calls -> {"none", "ok", "error", "denied", "failed"}]
  /\ dead \subseteq Calls
  /\ change \in [Sessions -> SUBSET [path : Paths, before : Contents, after : Contents]]
  /\ seen \subseteq Paths \X Contents
  /\ slipped \subseteq Paths \X Contents
  /\ orig \in [Sessions -> [Paths -> SUBSET Contents]]
  /\ displaced \subseteq Calls \X Paths

\* A tool bases its change of a file only on content somebody's call has shown
\* or written, whoever changed it before: the check against the last read misses
\* a change only when it falls between a call's access to the file and its record
\* of it. What a patch's move overwrites at its target is no such file, and
\* nothing is asked of it (edit.go 265-276, write.go 118-130, view.go 197-214,
\* patch.go 83-122, diff/patch.go 472-491, 601-607).
BasedOnSeen ==
  \A x \in Calls : pc[x] \in {"asking", "writing", "moving"} =>
    \A p \in todo[x] : old[x][p] = Empty \/ <<p, old[x][p]>> \in seen \cup slipped

\* What a call wrote to its files and reported is in its session's history,
\* unless its request was cancelled, or the session has three versions of the
\* file already: the attempts may all be taken, whatever other sessions record.
\* A moved file is recorded where it was, never at its target (history/file.go
\* 61-156, patch.go 291-345).
RecordedUnlessCrowded ==
  \A x \in Calls : pc[x] = "done" /\ x \notin dead /\ reply[x] = "ok" =>
    \A p \in wrote[x] \cap files[x] :
      \/ \E r \in OfSession(owner[x], p) : r.content = Recorded(x)
      \/ Cardinality({v \in Taken(owner[x], p) : v # Initial}) > 2

\* The version "initial" of a session's file, the "before" of every change set,
\* is what the file held right before the session's first write, unless the
\* file changed while that call waited, its request was cancelled, a patch added
\* the file or moved another there, or a patch wrote it and then failed at
\* another: it records nothing (edit.go 226-236, 336-356; patch.go 260-284;
\* diff/patch.go 601-607; history/file.go 68-71).
OriginalKept ==
  \A r \in rows : r.ver = Initial => r.content \in orig[r.sess][r.path]

\* When no tool of a session runs, a session whose latest versions differ from
\* its first has its checkpoint: what a tool recorded is captured whether the
\* tool failed or not, and another session's versions hide it for good or not
\* at all (mutationcp.go 76-126, db/sql/files.sql 61-70).
CheckpointTaken ==
  \A s \in Sessions : (\A x \in Calls : owner[x] = s => ~Running(x)) =>
    (ChangesFrom(s) # {} => change[s] # {})

\* A call that changed a file and reports an error is one of edit that created
\* or deleted, one of a patch whose later file could not be written or removed,
\* or a cancelled one (edit.go 140-155, patch.go 260-284).
FailureChangedNothing ==
  \A x \in Calls : pc[x] = "done" /\ reply[x] # "ok" /\ wrote[x] # {} =>
    \/ tool[x] \in {"create", "delete", "redo"}
    \/ tool[x] \in Patches /\ todo[x] # {} /\ todo[x] \cap wrote[x] \subseteq Targets(x)
    \/ x \in dead

\* A file that a patch moved away is at its target, changed as the patch says,
\* until somebody else changes it there; whatever fails on the way, the worst case
\* is a leftover copy. Only a target that is one of the patch's files, itself
\* above all, may be gone (diff/patch.go 601-607, diff/patch_test.go 38-58).
MoveKeepsContent ==
  \A x \in Calls : \A p \in (files[x] \cap wrote[x]) \ Targets(x) :
    dest[x][p] # None /\ dest[x][p] \notin files[x] =>
      disk[dest[x][p]] = new[x] \/ <<x, dest[x][p]>> \in displaced
==============================================================================
