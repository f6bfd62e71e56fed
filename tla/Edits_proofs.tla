----------------------------- MODULE Edits_proofs -----------------------------
(***************************************************************************)
(* Proofs about Edits: its type invariant, that tools change only what a    *)
(* call has seen, what is recorded of it and what the records say, for      *)
(* every number of calls, sessions, files, contents and seconds.            *)
(***************************************************************************)
EXTENDS Edits, SequenceTheorems, FiniteSetTheorems, TLAPS

\* A version holds a content, not the mark of a file that is not there.
RowsTrue == \A r \in rows : r.content \in Contents

\* A call that has begun is of a session, and a session runs one at a time.
Owned(x) ==
  /\ pc[x] = "idle" => owner[x] = None /\ files[x] = {} /\ wrote[x] = {} /\ todo[x] = {}
  /\ pc[x] # "idle" => owner[x] \in Sessions

OneRuns == \A x, y \in Calls : Running(x) /\ Running(y) /\ owner[x] = owner[y] => x = y

\* Where a call is in its files: all but a patch have one, it writes each of its
\* files once, but for a replacement after a deletion, and then records each.
\* Only a patch that updates files moves them, and it writes a target before it
\* removes the file.
Placed(x) ==
  /\ tool[x] \notin Patches => \A p, q \in files[x] : p = q
  /\ todo[x] \subseteq files[x] /\ wrote[x] \subseteq files[x] \cup Targets(x)
  /\ \A p \in Paths : dest[x][p] # None => tool[x] = "update" /\ p \in files[x]
  /\ pc[x] = "read" => tool[x] = "view"
  /\ pc[x] \in {"asking", "writing", "moving", "lookup", "record", "again"} => tool[x] # "view"
  /\ pc[x] \in {"read", "asking"} /\ tool[x] # "redo" => wrote[x] = {}
  /\ pc[x] \in {"asking", "writing", "moving", "lookup", "record"} => todo[x] # {}
  /\ pc[x] = "asking" => todo[x] = files[x]
  /\ pc[x] \in {"writing", "moving"} =>
       /\ files[x] \ todo[x] \subseteq wrote[x]
       /\ tool[x] # "redo" => todo[x] \cap wrote[x] \subseteq Targets(x)
  /\ pc[x] \in {"lookup", "record"} => files[x] \subseteq wrote[x]
  /\ pc[x] = "again" => tool[x] \in {"create", "delete"} /\ files[x] # {}
  /\ leaving[x] # None => pc[x] \in {"moving", "capture", "done"}
  /\ pc[x] = "moving" =>
       leaving[x] \in todo[x] /\ dest[x][leaving[x]] # None /\ dest[x][leaving[x]] \in wrote[x]

\* What a call has still to record for a file ends with the file's new content
\* and the note that it was read.
OpsTrue(x) ==
  pc[x] = "record" =>
    LET n == Len(ops[x])
    IN /\ n >= 1 /\ ops[x][n].kind = "read" /\ ops[x][n].path \in todo[x]
       /\ \A i \in 1 .. n : ops[x][i].path = ops[x][n].path
       /\ \A i \in 1 .. n - 1 : ops[x][i].kind # "read"
       /\ n >= 2 => ops[x][n - 1] = Op("version", ops[x][n].path, Recorded(x))

PlacesTrue == \A x \in Calls : Owned(x) /\ Placed(x) /\ OpsTrue(x)

\* What a file holds was shown or written by a call, or slipped in, as long as
\* the record says that it was read, or is about to.
Known ==
  \A p \in Paths :
    Present(p) /\ (readAt[p] = "since" \/ \E y \in Calls : InWindow(y, p)) =>
      <<p, disk[p]>> \in seen \cup slipped

\* A failure that left something behind.
Excused(x) ==
  pc[x] \in {"capture", "done"} /\ reply[x] # "ok" /\ wrote[x] # {} =>
    \/ tool[x] \in {"create", "delete", "redo"}
    \/ tool[x] \in Patches /\ todo[x] # {} /\ todo[x] \cap wrote[x] \subseteq Targets(x)
    \/ x \in dead

ExcusesTrue == \A x \in Calls : Excused(x)

\* The history has what the call wrote to the file, or three versions of it.
Crowded(s, p) ==
  \E a, b, c \in Taken(s, p) \ {Initial} : a # b /\ b # c /\ a # c

Told(x, p) ==
  \/ \E r \in OfSession(owner[x], p) : r.content = Recorded(x)
  \/ Crowded(owner[x], p)

Telling(x) ==
  x \notin dead =>
    /\ pc[x] \in {"lookup", "record"} => \A p \in files[x] \ todo[x] : Told(x, p)
    /\ \A p \in Paths : pc[x] = "record" /\ NextOp(x).kind = "read" /\ NextOp(x).path = p => Told(x, p)
    /\ pc[x] \in {"capture", "done"} /\ reply[x] = "ok" =>
         \A p \in wrote[x] \cap files[x] : Told(x, p)

TellingTrue == \A x \in Calls : Telling(x)

\* A call has written a file and goes on to record what it held before.
Promises(x, p) ==
  /\ p \in wrote[x] \cap files[x] /\ tool[x] # "add" /\ old[x][p] \in orig[owner[x]][p]
  /\ \/ pc[x] \in {"writing", "moving"}
     \/ pc[x] \in {"lookup", "record"} /\ p \in todo[x]
  /\ pc[x] = "record" /\ NextOp(x).path = p => NextOp(x) = Op("create", p, old[x][p])

\* A session has not written a file, or a call promises its first version.
Opened(s, p) ==
  \/ \A x \in Calls : owner[x] = s => p \notin wrote[x]
  \/ \E x \in Calls : owner[x] = s /\ Promises(x, p)

\* What the history has of a file, a call of the session wrote.
WrittenTrue == \A r \in rows : \E x \in Calls : owner[x] = r.sess /\ r.path \in wrote[x]

\* A session's first version of a file is recorded, or is promised, or may be
\* anything, since a patch moved a file there, or wrote it, failed and recorded
\* nothing.
FirstTrue ==
  \A s \in Sessions, p \in Paths :
    \/ orig[s][p] = Contents
    \/ Initial \in Taken(s, p)
    \/ OfSession(s, p) = {} /\ Opened(s, p)

\* A view does not disturb the checkpoint.
Quiet(s) == \A x \in Calls : owner[x] = s => ~Running(x) \/ tool[x] = "view"

\* A session at rest whose files differ from their first versions has a
\* checkpoint.
Captured == \A s \in Sessions : Quiet(s) /\ ChangesFrom(s) # {} => change[s] # {}

\* What a patch moved is at its target, or was displaced there, and no moved file
\* is gone before its target is written.
MovesTrue ==
  \A x \in Calls :
    /\ \A q \in (Targets(x) \cap wrote[x]) \ files[x] : disk[q] = new[x] \/ <<x, q>> \in displaced
    /\ \A p \in (files[x] \cap wrote[x]) \ Targets(x) : dest[x][p] # None => dest[x][p] \in wrote[x]

IInv ==
  /\ TypeOK /\ RowsTrue /\ OneRuns /\ PlacesTrue /\ Known /\ BasedOnSeen /\ ExcusesTrue
  /\ TellingTrue /\ WrittenTrue /\ FirstTrue /\ OriginalKept /\ Captured /\ MovesTrue
  /\ IsFiniteSet(rows)

------------------------------------------------------------------------------
\* The other calls stay where they are.
Others(x) ==
  \A y \in Calls \ {x} :
    /\ pc'[y] = pc[y] /\ tool'[y] = tool[y] /\ owner'[y] = owner[y] /\ files'[y] = files[y]
    /\ dest'[y] = dest[y] /\ todo'[y] = todo[y] /\ leaving'[y] = leaving[y]
    /\ old'[y] = old[y] /\ new'[y] = new[y] /\ ops'[y] = ops[y] /\ wrote'[y] = wrote[y]
    /\ reply'[y] = reply[y] /\ (y \in dead' <=> y \in dead)

\* A call changes one of its files: it writes or removes it, moved or not.
Changes(x, p) == WriteFile(x, p) \/ (RemoveMoved(x) /\ p = leaving[x])

Acts(x) ==
  \/ Deny(x) \/ Approve(x) \/ FailWrite(x)
  \/ \E p \in Paths : Changes(x, p) \/ MoveFile(x, p) \/ LookUp(x, p)
  \/ Record(x) \/ RecordNothing(x) \/ EndFile(x) \/ EndView(x)
  \/ FailAgain(x) \/ ReplaceAgain(x) \/ OnToolCompleted(x)

LEMMA ActsAre == ASSUME TypeOK, PlacesTrue, NEW x \in Calls, Step(x) PROVE Acts(x)
<1>1. ASSUME RemoveMoved(x) PROVE \E p \in Paths : Changes(x, p)
  <2>1. leaving[x] \in todo[x] /\ todo[x] \subseteq Paths
    BY <1>1 DEF RemoveMoved, PlacesTrue, Placed, TypeOK
  <2> QED
    BY <1>1, <2>1 DEF Changes
<1>2. \A p : WriteFile(x, p) => Changes(x, p)
  BY DEF Changes
<1> HIDE DEF Changes
<1> QED
  BY <1>1, <1>2 DEF Step, Acts

\* What a change of a file has in common.
LEMMA ChangeIs ==
  ASSUME TypeOK, PlacesTrue, NEW x \in Calls, NEW p \in Paths, Changes(x, p)
  PROVE  /\ pc[x] \in {"writing", "moving"} /\ p \in todo[x] /\ p \in files[x]
         /\ owner[x] \in Sessions
         /\ dest[x][p] # None => dest[x][p] \in wrote[x]
         /\ wrote' = [wrote EXCEPT ![x] = @ \cup {p}] /\ wrote'[x] = wrote[x] \cup {p}
         /\ \/ /\ todo[x] = {p} /\ pc'[x] = "lookup" /\ todo'[x] = files[x]
               /\ pc' = [pc EXCEPT ![x] = "lookup"]
            \/ /\ todo[x] # {p} /\ pc'[x] = "writing" /\ todo'[x] = todo[x] \ {p}
               /\ pc' = [pc EXCEPT ![x] = "writing"]
         /\ leaving'[x] = None /\ (leaving' = leaving \/ leaving' = [leaving EXCEPT ![x] = None])
         /\ \E c \in {new[x], Absent} : disk' = [disk EXCEPT ![p] = c]
         /\ disk'[p] \in {new[x], Absent} /\ \A q \in Paths \ {p} : disk'[q] = disk[q]
         /\ \A q \in Paths \ {p} : readAt'[q] = readAt[q]
         /\ Present(p)' => <<p, new[x]>> \in seen'
         /\ seen \subseteq seen' /\ seen' \subseteq seen \cup {<<p, new[x]>>}
         /\ FirstVersion(x, p) /\ Displaces(Calls \ {x}, p)
         /\ UNCHANGED <<history, writes, what, ops, reply, dead, change, slipped>>
<1>0. Placed(x) /\ Owned(x)
  BY DEF PlacesTrue
<1>1. /\ pc \in [Calls -> States] /\ todo \in [Calls -> SUBSET Paths] /\ wrote \in [Calls -> SUBSET Paths]
      /\ leaving \in [Calls -> Paths \cup {None}] /\ disk \in [Paths -> Contents \cup {Absent}]
      /\ readAt \in [Paths -> {"never", "before", "since"}]
  BY DEF TypeOK
<1>2. CASE WriteFile(x, p)
  <2>1. /\ pc[x] = "writing" /\ p \in todo[x] /\ dest[x][p] = None
        /\ wrote' = [wrote EXCEPT ![x] = @ \cup {p}] /\ Written(x, p) /\ FirstVersion(x, p)
        /\ disk' = [disk EXCEPT ![p] = IF tool[x] = "remove" THEN Absent ELSE new[x]]
        /\ seen' = seen \cup {<<p, new[x]>>} /\ Touched(p) /\ Displaces(Calls \ {x}, p)
        /\ UNCHANGED <<history, writes, what, leaving, ops, reply, dead, change, slipped>>
    BY <1>2 DEF WriteFile
  <2>2. leaving[x] = None /\ owner[x] \in Sessions /\ p \in files[x]
    BY <1>0, <2>1 DEF Placed, Owned
  <2>3. \A q \in Paths \ {p} : readAt'[q] = readAt[q]
    BY <1>1, <2>1 DEF Touched
  <2>4. \/ /\ todo[x] = {p} /\ pc'[x] = "lookup" /\ todo'[x] = files[x]
           /\ pc' = [pc EXCEPT ![x] = "lookup"]
        \/ /\ todo[x] # {p} /\ pc'[x] = "writing" /\ todo'[x] = todo[x] \ {p}
           /\ pc' = [pc EXCEPT ![x] = "writing"]
    BY <1>1, <2>1 DEF Written
  <2>5. PICK c \in {new[x], Absent} : disk' = [disk EXCEPT ![p] = c]
    BY <2>1
  <2>6. disk'[p] = c /\ \A q \in Paths \ {p} : disk'[q] = disk[q]
    BY <1>1, <2>5
  <2>7. <<p, new[x]>> \in seen' /\ seen \subseteq seen' /\ seen' \subseteq seen \cup {<<p, new[x]>>}
    BY <2>1
  <2> QED
    BY <1>1, <2>1, <2>2, <2>3, <2>4, <2>5, <2>6, <2>7
<1>3. CASE RemoveMoved(x) /\ p = leaving[x]
  <2>1. /\ pc[x] = "moving"
        /\ wrote' = [wrote EXCEPT ![x] = @ \cup {p}] /\ Written(x, p) /\ FirstVersion(x, p)
        /\ disk' = [disk EXCEPT ![p] = Absent] /\ leaving' = [leaving EXCEPT ![x] = None]
        /\ Displaces(Calls \ {x}, p)
        /\ UNCHANGED <<history, readAt, writes, what, ops, reply, dead, change, seen, slipped>>
    BY <1>3 DEF RemoveMoved
  <2>2. owner[x] \in Sessions /\ p \in todo[x] /\ p \in files[x] /\ dest[x][p] \in wrote[x]
    BY <1>0, <1>3, <2>1 DEF Placed, Owned
  <2>4. \/ /\ todo[x] = {p} /\ pc'[x] = "lookup" /\ todo'[x] = files[x]
           /\ pc' = [pc EXCEPT ![x] = "lookup"]
        \/ /\ todo[x] # {p} /\ pc'[x] = "writing" /\ todo'[x] = todo[x] \ {p}
           /\ pc' = [pc EXCEPT ![x] = "writing"]
    BY <1>1, <2>1 DEF Written
  <2>6. disk'[p] = Absent /\ (\A q \in Paths \ {p} : disk'[q] = disk[q]) /\ ~Present(p)'
    BY <1>1, <2>1 DEF Present
  <2> QED
    BY <1>1, <2>1, <2>2, <2>4, <2>6
<1> QED
  BY <1>2, <1>3 DEF Changes

\* And a move, before it removes the file.
LEMMA MoveIs ==
  ASSUME TypeOK, PlacesTrue, NEW x \in Calls, NEW p \in Paths, MoveFile(x, p)
  PROVE  LET q == dest[x][p]
         IN /\ pc[x] = "writing" /\ p \in todo[x] /\ p \in files[x] /\ q # None /\ q \in Paths
            /\ q \in Targets(x) /\ owner[x] \in Sessions /\ tool[x] = "update"
            /\ wrote' = [wrote EXCEPT ![x] = @ \cup {q}] /\ wrote'[x] = wrote[x] \cup {q}
            /\ pc'[x] = "moving" /\ pc' = [pc EXCEPT ![x] = "moving"]
            /\ leaving'[x] = p /\ leaving' = [leaving EXCEPT ![x] = p]
            /\ disk' = [disk EXCEPT ![q] = new[x]]
            /\ disk'[q] = new[x] /\ \A r \in Paths \ {q} : disk'[r] = disk[r]
            /\ \A r \in Paths \ {q} : readAt'[r] = readAt[r]
            /\ seen' = seen \cup {<<q, new[x]>>}
            /\ orig' = IF FirstWrite(x, q) THEN [orig EXCEPT ![owner[x]][q] = Contents] ELSE orig
            /\ Displaces(Calls \ {x}, q)
            /\ UNCHANGED <<history, writes, what, todo, ops, reply, dead, change, slipped>>
<1> DEFINE q == dest[x][p]
<1>0. Placed(x) /\ Owned(x)
  BY DEF PlacesTrue
<1>1. /\ pc \in [Calls -> States] /\ wrote \in [Calls -> SUBSET Paths]
      /\ leaving \in [Calls -> Paths \cup {None}] /\ disk \in [Paths -> Contents \cup {Absent}]
      /\ readAt \in [Paths -> {"never", "before", "since"}] /\ q \in Paths \cup {None}
  BY DEF TypeOK
<1>2. /\ pc[x] = "writing" /\ p \in todo[x] /\ q # None
      /\ disk' = [disk EXCEPT ![q] = new[x]] /\ Touched(q)
      /\ wrote' = [wrote EXCEPT ![x] = @ \cup {q}]
      /\ pc' = [pc EXCEPT ![x] = "moving"] /\ leaving' = [leaving EXCEPT ![x] = p]
      /\ seen' = seen \cup {<<q, new[x]>>}
      /\ orig' = IF FirstWrite(x, q) THEN [orig EXCEPT ![owner[x]][q] = Contents] ELSE orig
      /\ Displaces(Calls \ {x}, q)
      /\ UNCHANGED <<history, writes, what, todo, ops, reply, dead, change, slipped>>
  BY DEF MoveFile
<1>3. p \in files[x] /\ q \in Targets(x) /\ owner[x] \in Sessions /\ tool[x] = "update"
  BY <1>0, <1>2 DEF Placed, Owned, Targets
<1> HIDE DEF q
<1>4. q \in Paths
  BY <1>1, <1>2
<1>5. disk'[q] = new[x] /\ \A r \in Paths \ {q} : disk'[r] = disk[r]
  BY <1>1, <1>2, <1>4
<1>6. \A r \in Paths \ {q} : readAt'[r] = readAt[r]
  BY <1>1, <1>2 DEF Touched
<1>7. wrote'[x] = wrote[x] \cup {q} /\ pc'[x] = "moving" /\ leaving'[x] = p
  BY <1>1, <1>2
<1> QED
  BY <1>2, <1>3, <1>4, <1>5, <1>6, <1>7 DEF q

\* A row for one of three versions, unless the session has all three.
LEMMA InsertIs ==
  ASSUME TypeOK, NEW s \in Sessions, NEW p \in Paths, NEW ver \in Nat, NEW content \in Contents,
         Insert(s, p, ver, content)
  PROVE  \/ /\ rows' = rows
            /\ ver # Initial => ver \in Taken(s, p) /\ ver + 1 \in Taken(s, p) /\ ver + 2 \in Taken(s, p)
            /\ ver = Initial => Initial \in Taken(s, p)
         \/ \E v \in Nat :
              /\ rows' = rows \cup {[sess |-> s, path |-> p, ver |-> v, content |-> content,
                                     sec |-> sec]}
              /\ v \notin Taken(s, p)
              /\ ver = Initial /\ Initial \notin Taken(s, p) => v = Initial
<1> DEFINE a == Attempts(ver)
           free == {i \in 1 .. 3 : a[i] \notin Taken(s, p)}
           i0 == CHOOSE j \in free : \A k \in free : j <= k
<1>1. sec \in Nat
  BY FileHistoryAssumption DEF TypeOK, HistoryTypeOK
<1>2. /\ a[1] = ver /\ a[2] \in Nat /\ a[3] \in Nat
      /\ ver # Initial => a[2] = ver + 1 /\ a[3] = ver + 2
  BY <1>1 DEF Attempts, Initial, Unix
<1>3. rows' = IF free = {} THEN rows
              ELSE rows \cup {[sess |-> s, path |-> p, ver |-> a[i0], content |-> content, sec |-> sec]}
  BY DEF Insert
<1> HIDE DEF a
<1>4. CASE free = {}
  <2>1. 1 \notin free /\ 2 \notin free /\ 3 \notin free
    BY <1>4
  <2> QED
    BY <1>2, <1>3, <1>4, <2>1
<1>5. CASE free # {}
  <2>1. \E j \in free : \A k \in free : j <= k
    <3>1. CASE 1 \in free
      BY <3>1
    <3>2. CASE 1 \notin free /\ 2 \in free
      BY <3>2
    <3>3. CASE 1 \notin free /\ 2 \notin free
      BY <1>5, <3>3
    <3> QED
      BY <3>1, <3>2, <3>3
  <2>2. i0 \in free /\ \A k \in free : i0 <= k
    BY <2>1
  <2> HIDE DEF i0
  <2>3. i0 \in 1 .. 3 /\ a[i0] \notin Taken(s, p) /\ (1 \in free => i0 = 1)
    BY <2>2
  <2>4. a[i0] \in Nat
    BY <1>2, <2>3
  <2> QED
    BY <1>2, <1>3, <1>5, <2>3, <2>4
<1> QED
  BY <1>4, <1>5

\* The same for whatever version comes next: none follows a first one of no file.
LEMMA VersionIs ==
  ASSUME TypeOK, NEW s \in Sessions, NEW p \in Paths, NEW content \in Contents,
         CreateVersion(s, p, content)
  PROVE  /\ sec' = sec
         /\ \/ rows' = rows /\ Crowded(s, p)
            \/ \E v \in Nat :
                 /\ rows' = rows \cup {[sess |-> s, path |-> p, ver |-> v, content |-> content,
                                        sec |-> sec]}
                 /\ v \notin Taken(s, p)
<1>1. PICK ver \in NextVersions(p) : Insert(s, p, ver, content)
  BY DEF CreateVersion
<1>2. ver \in Nat /\ (ver = Initial => OfPath(p) = {})
  BY DEF NextVersions, TypeOK, HistoryTypeOK, Row, OfPath, Newest, Initial
<1>3. ver = Initial => Initial \notin Taken(s, p)
  BY <1>2 DEF Taken, OfSession
<1>4. CASE rows' = rows /\ ver # Initial /\ ver \in Taken(s, p) /\ ver + 1 \in Taken(s, p)
             /\ ver + 2 \in Taken(s, p)
  <2>1. Crowded(s, p)
    <3>1. /\ ver \in Taken(s, p) \ {Initial} /\ ver + 1 \in Taken(s, p) \ {Initial}
          /\ ver + 2 \in Taken(s, p) \ {Initial}
          /\ ver # ver + 1 /\ ver + 1 # ver + 2 /\ ver # ver + 2
      BY <1>2, <1>4 DEF Initial
    <3> QED
      BY <3>1 DEF Crowded
  <2> QED
    BY <1>4, <2>1 DEF CreateVersion
<1> QED
  BY <1>1, <1>2, <1>3, <1>4, InsertIs DEF CreateVersion

OpSet == [kind : {"create", "version", "read"}, path : Paths, content : Contents]

\* What a call has still to record.
LEMMA OpsAre ==
  ASSUME TypeOK, PlacesTrue, NEW x \in Calls, pc[x] = "record"
  PROVE  LET n == Len(ops[x])
         IN /\ ops[x] \in Seq(OpSet) /\ n \in Nat /\ n >= 1
            /\ NextOp(x) = ops[x][1] /\ NextOp(x) \in OpSet
            /\ NextOp(x).path \in todo[x] /\ NextOp(x).path = ops[x][n].path
            /\ NextOp(x).kind = "read" <=> n = 1
            /\ Tail(ops[x]) \in Seq(OpSet) /\ Len(Tail(ops[x])) = n - 1
            /\ \A i \in 1 .. n - 1 : Tail(ops[x])[i] = ops[x][i + 1]
<1> DEFINE s == ops[x]
           n == Len(s)
<1>1. s \in Seq(OpSet)
  BY DEF TypeOK, OpSet
<1>2. OpsTrue(x)
  BY DEF PlacesTrue
<1>3. n >= 1 /\ s[n].kind = "read" /\ s[n].path \in todo[x]
  BY <1>2 DEF OpsTrue
<1>4. (\A i \in 1 .. n : s[i].path = s[n].path) /\ \A i \in 1 .. n - 1 : s[i].kind # "read"
  BY <1>2 DEF OpsTrue
<1>5. NextOp(x) = Head(s)
  BY DEF NextOp
<1> HIDE DEF s
<1>6. n \in Nat
  BY <1>1
<1>7. Head(s) = s[1] /\ s[1] \in OpSet /\ s # <<>>
  BY <1>1, <1>3, <1>6
<1>8. Tail(s) \in Seq(OpSet) /\ Len(Tail(s)) = n - 1 /\ \A i \in 1 .. n - 1 : Tail(s)[i] = s[i + 1]
  BY <1>1, <1>6, <1>7
<1>9. s[1].path = s[n].path /\ (s[1].kind = "read" <=> n = 1)
  <2>3. n = 1 => s[1] = s[n]
    OBVIOUS
  <2>4. n >= 1
    BY <1>3
  <2> HIDE DEF n
  <2>1. 1 \in 1 .. n
    BY <2>4, <1>6
  <2>2. n # 1 => 1 \in 1 .. n - 1
    BY <2>4, <1>6
  <2> QED
    BY <1>3, <1>4, <2>1, <2>2, <2>3
<1> QED
  BY <1>1, <1>3, <1>5, <1>6, <1>7, <1>8, <1>9 DEF s

\* What a call inserts, if it does: a row of its session for a file it records.
LEMMA RecordIs ==
  ASSUME IInv, NEW x \in Calls, Record(x)
  PROVE  LET o == NextOp(x)
         IN /\ pc[x] = "record" /\ x \notin dead /\ owner[x] \in Sessions
            /\ o.kind \in {"create", "version"} /\ o.path \in todo[x] /\ o.path \in Paths
            /\ o.content \in Contents
            /\ Len(ops[x]) >= 2
            /\ \/ /\ rows' = rows
                  /\ o.kind = "version" => Crowded(owner[x], o.path)
                  /\ o.kind = "create" => Initial \in Taken(owner[x], o.path)
               \/ \E v \in Nat :
                    /\ rows' = rows \cup {[sess |-> owner[x], path |-> o.path, ver |-> v,
                                           content |-> o.content, sec |-> sec]}
                    /\ v \notin Taken(owner[x], o.path)
                    /\ o.kind = "create" /\ Initial \notin Taken(owner[x], o.path) => v = Initial
            /\ ops' = [ops EXCEPT ![x] = Tail(@)]
            /\ UNCHANGED <<sec, world, pc, what, todo, leaving, wrote, reply, dead, change, ghost>>
<1> DEFINE o == NextOp(x)
<1>1. pc[x] = "record" /\ x \notin dead /\ o.kind \in {"create", "version"}
  BY DEF Record
<1>2. owner[x] \in Sessions
  BY <1>1 DEF IInv, PlacesTrue, Owned
<1>3. o \in OpSet /\ o.path \in todo[x] /\ (o.kind = "read" <=> Len(ops[x]) = 1)
      /\ Len(ops[x]) \in Nat /\ Len(ops[x]) >= 1
  BY <1>1, OpsAre DEF IInv
<1>5. o.path \in Paths /\ o.content \in Contents /\ o.path \in todo[x] /\ Len(ops[x]) >= 2
  <2> HIDE DEF o
  <2>1. o.kind # "read"
    BY <1>1
  <2>2. PICK n \in Nat : n = Len(ops[x])
    BY <1>3
  <2>3. n # 1
    BY <1>3, <2>1, <2>2
  <2>4. n >= 1
    BY <1>3, <2>2
  <2>5. n >= 2
    BY <2>3, <2>4
  <2> QED
    BY <1>3, <2>2, <2>5 DEF OpSet
<1>6. /\ ops' = [ops EXCEPT ![x] = Tail(@)]
      /\ UNCHANGED <<world, pc, what, todo, leaving, wrote, reply, dead, change, ghost>>
  BY DEF Record
<1>7. CASE o.kind = "create" /\ Create(owner[x], o.path, o.content)
  <2>1. Insert(owner[x], o.path, Initial, o.content) /\ sec' = sec /\ Initial \in Nat
    BY <1>7 DEF Create, Initial
  <2> QED
    BY <1>1, <1>2, <1>5, <1>6, <1>7, <2>1, InsertIs DEF IInv
<1>8. CASE o.kind = "version" /\ CreateVersion(owner[x], o.path, o.content)
  BY <1>1, <1>2, <1>5, <1>6, <1>8, VersionIs DEF IInv
<1> QED
  BY <1>7, <1>8 DEF Record

------------------------------------------------------------------------------
\* The types.
LEMMA TextTyped ==
  ASSUME TypeOK, NEW p \in Paths
  PROVE  Text(p) \in Contents /\ (Present(p) => disk[p] \in Contents)
<1>1. 0 \in Contents
  BY EditsAssumption DEF Contents
<1> QED
  BY <1>1 DEF Text, Present, Empty, TypeOK

LEMMA ChangesTyped ==
  ASSUME TypeOK, RowsTrue, NEW s \in Sessions
  PROVE  ChangesFrom(s) \subseteq [path : Paths, before : Contents, after : Contents]
<1>1. Empty \in Contents
  BY EditsAssumption DEF Contents, Empty
<1>2. ASSUME NEW p \in Paths PROVE Before(s, p) \in Contents
  <2>1. CASE \E r \in OfSession(s, p) : r.ver = Initial
    <3> DEFINE c == CHOOSE r \in OfSession(s, p) : r.ver = Initial
    <3>1. c \in OfSession(s, p)
      BY <2>1
    <3>2. c \in rows
      BY <3>1 DEF OfSession, OfPath
    <3> QED
      BY <2>1, <3>2 DEF Before, RowsTrue
  <2>2. CASE ~\E r \in OfSession(s, p) : r.ver = Initial
    BY <1>1, <2>2 DEF Before
  <2> QED
    BY <2>1, <2>2
<1>3. \A r \in LatestSessionFiles(s) : r \in rows
  BY DEF LatestSessionFiles, Newest, OfPath
<1>4. \A r \in rows : r.path \in Paths /\ r.content \in Contents
  BY DEF RowsTrue, TypeOK, HistoryTypeOK, Row
<1> HIDE DEF Before, LatestSessionFiles
<1> QED
  BY <1>2, <1>3, <1>4 DEF ChangesFrom

\* The versions a call has to record, in their order.
LEMMA VersionsAre ==
  ASSUME TypeOK, NEW x \in Calls, NEW p \in Paths, NEW found \in BOOLEAN, NEW last,
         NEW v, v = Versions(x, p, found, last)
  PROVE  /\ v \in Seq(OpSet) /\ Len(v) \in 2 .. 4
         /\ v[Len(v)] = Op("read", p, Empty) /\ v[Len(v) - 1] = Op("version", p, Recorded(x))
         /\ \A i \in 1 .. Len(v) : v[i].path = p
         /\ \A i \in 1 .. Len(v) - 1 : v[i].kind # "read"
         /\ tool[x] # "add" /\ ~found => v[1] = Op("create", p, old[x][p])
<1> DEFINE c == Op("create", p, old[x][p])
           b == Op("version", p, old[x][p])
           w == Op("version", p, Recorded(x))
           r == Op("read", p, Empty)
           start == IF tool[x] = "create" \/ (tool[x] # "add" /\ ~found) THEN <<c>> ELSE <<>>
           between == IF tool[x] \notin Adds /\ (IF found THEN last ELSE Empty) # old[x][p]
                      THEN <<b>> ELSE <<>>
<1>1. /\ c \in OpSet /\ b \in OpSet /\ w \in OpSet /\ r \in OpSet
      /\ c.path = p /\ b.path = p /\ w.path = p /\ r.path = p
      /\ c.kind = "create" /\ b.kind = "version" /\ w.kind = "version" /\ r.kind = "read"
  <2>1. Empty \in Contents /\ Recorded(x) \in Contents /\ old[x][p] \in Contents
    BY EditsAssumption DEF Contents, Empty, Recorded, TypeOK
  <2> QED
    BY <2>1 DEF OpSet, Op
<1>2. v = start \o between \o <<w, r>>
  BY DEF Versions
<1> HIDE DEF c, b, w, r
<1>3. /\ start \in Seq(OpSet) /\ Len(start) \in 0 .. 1
      /\ \A i \in 1 .. Len(start) : start[i] = c
      /\ tool[x] # "add" /\ ~found => Len(start) = 1
  <2>1. CASE start = <<c>>
    BY <1>1, <2>1
  <2>2. CASE start = <<>> /\ ~(tool[x] # "add" /\ ~found)
    BY <2>2
  <2> QED
    BY <2>1, <2>2
<1>4. /\ between \in Seq(OpSet) /\ Len(between) \in 0 .. 1
      /\ \A i \in 1 .. Len(between) : between[i] = b
  <2>1. CASE between = <<b>>
    BY <1>1, <2>1
  <2>2. CASE between = <<>>
    BY <2>2
  <2> QED
    BY <2>1, <2>2
<1> HIDE DEF start, between
<1> DEFINE h == start \o between
<1>5. /\ h \in Seq(OpSet) /\ Len(h) = Len(start) + Len(between)
      /\ \A i \in 1 .. Len(h) : h[i] = IF i <= Len(start) THEN start[i] ELSE between[i - Len(start)]
  BY <1>3, <1>4, ConcatProperties
<1>6. /\ Len(h) \in 0 .. 2
      /\ \A i \in 1 .. Len(h) : h[i] = c \/ h[i] = b
      /\ tool[x] # "add" /\ ~found => Len(h) >= 1 /\ h[1] = c
  BY <1>3, <1>4, <1>5
<1> HIDE DEF h
<1>7. /\ <<w, r>> \in Seq(OpSet) /\ Len(<<w, r>>) = 2 /\ <<w, r>>[1] = w /\ <<w, r>>[2] = r
  BY <1>1
<1>8. /\ v \in Seq(OpSet) /\ Len(v) = Len(h) + 2
      /\ \A i \in 1 .. Len(v) : v[i] = IF i <= Len(h) THEN h[i] ELSE <<w, r>>[i - Len(h)]
  BY <1>2, <1>5, <1>7, ConcatProperties DEF h
<1> PICK n \in 0 .. 2 : n = Len(h)
  BY <1>6
<1>9. /\ Len(v) = n + 2 /\ v[n + 1] = w /\ v[n + 2] = r
      /\ \A i \in 1 .. n : v[i] = h[i] /\ (h[i] = c \/ h[i] = b)
      /\ tool[x] # "add" /\ ~found => n >= 1 /\ v[1] = c
  BY <1>6, <1>7, <1>8
<1>10. /\ \A i \in 1 .. n + 2 : v[i].path = p
       /\ \A i \in 1 .. n + 1 : v[i].kind # "read"
  BY <1>1, <1>9
<1>11. Len(v) \in 2 .. 4 /\ Len(v) - 1 = n + 1
  BY <1>9
<1> QED
  BY <1>8, <1>9, <1>10, <1>11 DEF c, w, r

\* What a call has to record is one of the lists of versions, opened by the
\* session's first if the session has no row of the file or no context.
LEMMA LookUpIs ==
  ASSUME TypeOK, NEW x \in Calls, NEW p \in Paths, LookUp(x, p)
  PROVE  /\ pc[x] = "lookup" /\ p \in todo[x] /\ pc' = [pc EXCEPT ![x] = "record"]
         /\ UNCHANGED <<history, world, what, todo, leaving, wrote, reply, dead, change, ghost>>
         /\ \E found \in BOOLEAN : \E last :
              /\ ops' = [ops EXCEPT ![x] = Versions(x, p, found, last)]
              /\ found => OfSession(owner[x], p) # {}
              /\ ~found /\ x \notin dead => Newest(OfSession(owner[x], p)) = {}
<1> DEFINE found == IF x \in dead THEN {} ELSE Newest(OfSession(owner[x], p))
<1>1. /\ pc[x] = "lookup" /\ p \in todo[x] /\ pc' = [pc EXCEPT ![x] = "record"]
      /\ UNCHANGED <<history, world, what, todo, leaving, wrote, reply, dead, change, ghost>>
  BY DEF LookUp, Goto
<1>2. CASE found = {} /\ ops' = [ops EXCEPT ![x] = Versions(x, p, FALSE, Empty)]
  <2>1. x \notin dead => Newest(OfSession(owner[x], p)) = {}
    BY <1>2
  <2> QED
    BY <1>1, <1>2, <2>1
<1>3. ASSUME NEW r \in found, ops' = [ops EXCEPT ![x] = Versions(x, p, TRUE, r.content)]
      PROVE  \E last : /\ ops' = [ops EXCEPT ![x] = Versions(x, p, TRUE, last)]
                       /\ OfSession(owner[x], p) # {}
  <2>1. OfSession(owner[x], p) # {}
    BY <1>3 DEF Newest
  <2> QED
    BY <1>3, <2>1
<1>4. \/ found = {} /\ ops' = [ops EXCEPT ![x] = Versions(x, p, FALSE, Empty)]
      \/ \E r \in found : ops' = [ops EXCEPT ![x] = Versions(x, p, TRUE, r.content)]
  BY DEF LookUp
<1> QED
  BY <1>1, <1>2, <1>3, <1>4

------------------------------------------------------------------------------
\* The steps of a call leave the others alone.
LEMMA OthersRest ==
  ASSUME TypeOK, PlacesTrue, NEW x \in Calls,
         \/ \E t \in Starts, s \in Sessions, ps \in (SUBSET Paths) \ {{}} : \E m \in Moves(t, ps) :
              Start(x, t, s, ps, m) \/ Refuse(x, t, s, ps)
         \/ Acts(x)
         \/ Cancel(x)
  PROVE  Others(x)
<1> USE DEF Others, what, Goto, TypeOK
<1>1. CASE \E t \in Starts, s \in Sessions, ps \in (SUBSET Paths) \ {{}} : \E m \in Moves(t, ps) :
             Start(x, t, s, ps, m) \/ Refuse(x, t, s, ps)
  BY <1>1 DEF Start, Refuse
<1>2. CASE Deny(x) \/ Approve(x) \/ FailWrite(x) \/ Cancel(x)
  BY <1>2 DEF Deny, Approve, FailWrite, Cancel
<1>3. ASSUME NEW p \in Paths, Changes(x, p) PROVE Others(x)
  <2> HIDE DEF TypeOK, Others
  <2>0. /\ pc \in [Calls -> States] /\ todo \in [Calls -> SUBSET Paths] /\ wrote \in [Calls -> SUBSET Paths]
        /\ leaving \in [Calls -> Paths \cup {None}]
    BY DEF TypeOK
  <2>1. \A y \in Calls \ {x} : todo'[y] = todo[y]
    BY <1>3, <2>0 DEF Changes, WriteFile, RemoveMoved, Written
  <2>2. \A y \in Calls \ {x} : pc'[y] = pc[y] /\ wrote'[y] = wrote[y] /\ leaving'[y] = leaving[y]
    <3>1. /\ pc' = [pc EXCEPT ![x] = "lookup"] \/ pc' = [pc EXCEPT ![x] = "writing"]
          /\ wrote' = [wrote EXCEPT ![x] = @ \cup {p}]
          /\ leaving' = leaving \/ leaving' = [leaving EXCEPT ![x] = None]
      BY <1>3, ChangeIs
    <3> QED
      BY <2>0, <3>1
  <2>3. UNCHANGED <<what, ops, reply, dead>>
    BY <1>3, ChangeIs
  <2> QED
    BY <2>1, <2>2, <2>3 DEF Others
<1>8. ASSUME NEW p \in Paths, MoveFile(x, p) PROVE Others(x)
  <2> HIDE DEF TypeOK, Others
  <2>0. pc \in [Calls -> States] /\ wrote \in [Calls -> SUBSET Paths] /\ leaving \in [Calls -> Paths \cup {None}]
    BY DEF TypeOK
  <2>1. \A y \in Calls \ {x} : pc'[y] = pc[y] /\ wrote'[y] = wrote[y] /\ leaving'[y] = leaving[y]
    <3>1. /\ pc' = [pc EXCEPT ![x] = "moving"] /\ leaving' = [leaving EXCEPT ![x] = p]
          /\ wrote' = [wrote EXCEPT ![x] = @ \cup {dest[x][p]}]
      BY <1>8, MoveIs
    <3> QED
      BY <2>0, <3>1
  <2>2. UNCHANGED <<what, todo, ops, reply, dead>>
    BY <1>8, MoveIs
  <2> QED
    BY <2>1, <2>2 DEF Others
<1>7. ASSUME NEW p \in Paths, LookUp(x, p) PROVE Others(x)
  <2>1. \A y \in Calls \ {x} : pc'[y] = pc[y] /\ ops'[y] = ops[y]
    BY <1>7 DEF LookUp
  <2> QED
    BY <1>7, <2>1 DEF LookUp
<1>4. CASE Record(x) \/ RecordNothing(x)
  BY <1>4 DEF Record, RecordNothing
<1>5. CASE EndFile(x) \/ EndView(x) \/ FailAgain(x)
  BY <1>5 DEF EndFile, EndView, FailAgain
<1>6. CASE ReplaceAgain(x) \/ OnToolCompleted(x)
  BY <1>6 DEF ReplaceAgain, OnToolCompleted
<1> HIDE DEF Others, what, Goto, TypeOK
<1> QED
  BY <1>1, <1>2, <1>3, <1>4, <1>5, <1>6, <1>7, <1>8 DEF Acts

LEMMA InitIInv == Init => IInv
<1> SUFFICES ASSUME Init PROVE IInv
  OBVIOUS
<1>0. 0 \in Contents /\ 1 \in Contents /\ Absent \notin Contents
  BY EditsAssumption DEF Contents, Absent
<1>1. rows = {} /\ sec = 0 /\ \A x \in Calls : pc[x] = "idle" /\ wrote[x] = {} /\ todo[x] = {}
                                /\ files[x] = {} /\ leaving[x] = None
                                /\ (\A p \in Paths : dest[x][p] = None)
                                /\ owner[x] = None /\ tool[x] = "view"
  BY DEF Init, HistoryInit
<1>2. TypeOK
  <2>1. HistoryTypeOK
    BY <1>1, FileHistoryAssumption DEF HistoryTypeOK
  <2>2. /\ pc \in [Calls -> States] /\ tool \in [Calls -> Tools]
        /\ ops \in [Calls -> Seq([kind : {"create", "version", "read"}, path : Paths,
                                  content : Contents])]
        /\ old \in [Calls -> [Paths -> Contents]] /\ new \in [Calls -> Contents]
    BY <1>0 DEF Init, States, Tools, Starts, Empty
  <2> QED
    BY <1>0, <2>1, <2>2 DEF Init, TypeOK
<1>3. RowsTrue /\ OneRuns /\ PlacesTrue
  <2>1. RowsTrue /\ OneRuns
    BY <1>1 DEF RowsTrue, OneRuns, Running
  <2>2. \A x \in Calls : Owned(x) /\ OpsTrue(x)
    BY <1>1 DEF Owned, OpsTrue
  <2>3. \A x \in Calls : Placed(x)
    BY <1>1 DEF Placed, Targets
  <2> QED
    BY <2>1, <2>2, <2>3 DEF PlacesTrue
<1>4. Known /\ BasedOnSeen
  BY <1>1 DEF Init, Known, InWindow, BasedOnSeen
<1>5. ExcusesTrue /\ TellingTrue
  BY <1>1 DEF ExcusesTrue, Excused, TellingTrue, Telling
<1>6. WrittenTrue /\ FirstTrue /\ OriginalKept /\ IsFiniteSet(rows)
  BY <1>1, FS_EmptySet DEF WrittenTrue, FirstTrue, OfSession, OfPath, Opened, OriginalKept
<1>7. Captured
  <2>1. \A s \in Sessions : LatestSessionFiles(s) = {}
    BY <1>1 DEF LatestSessionFiles, OfPath, Newest
  <2> QED
    BY <2>1 DEF Captured, ChangesFrom
<1>8. MovesTrue
  BY <1>1 DEF MovesTrue
<1> QED
  BY <1>2, <1>3, <1>4, <1>5, <1>6, <1>7, <1>8 DEF IInv

LEMMA TypeStep == ASSUME IInv, [Next]_vars PROVE TypeOK' /\ RowsTrue'
<1> USE DEF TypeOK, HistoryTypeOK, what, world, history, ghost
<1>0. /\ TypeOK /\ 0 \in Contents /\ Empty \in Contents /\ Absent \notin Contents
      /\ MaxWrites \in Nat /\ RowsTrue /\ PlacesTrue
      /\ \A p \in Paths : Text(p) \in Contents /\ (Present(p) => disk[p] \in Contents)
  <2>1. 0 \in Contents /\ Empty \in Contents /\ Absent \notin Contents /\ MaxWrites \in Nat
    BY EditsAssumption DEF Contents, Absent, Empty
  <2>2. TypeOK /\ RowsTrue /\ PlacesTrue
    BY DEF IInv
  <2> HIDE DEF TypeOK
  <2> QED
    BY <2>1, <2>2, TextTyped
<1>r. ASSUME UNCHANGED rows PROVE RowsTrue'
  BY <1>0, <1>r DEF RowsTrue
<1>1. CASE UNCHANGED vars
  BY <1>0, <1>1 DEF vars, RowsTrue
<1>2. ASSUME NEW x \in Calls, NEW t \in Starts, NEW s \in Sessions, NEW ps \in (SUBSET Paths) \ {{}},
             NEW m \in Moves(t, ps), Start(x, t, s, ps, m)
      PROVE  TypeOK' /\ RowsTrue'
  <2>1. old' \in [Calls -> [Paths -> Contents]]
    BY <1>0, <1>2 DEF Start
  <2>2. seen' \subseteq Paths \X Contents
    <3>1. t = "view" => \A p \in ps : disk[p] \in Contents
      BY <1>0, <1>2 DEF Start, Allowed
    <3> QED
      BY <1>0, <1>2, <3>1 DEF Start
  <2>3. /\ pc' \in [Calls -> States] /\ tool' \in [Calls -> Tools]
        /\ owner' \in [Calls -> Sessions \cup {None}] /\ todo' \in [Calls -> SUBSET Paths]
        /\ files' \in [Calls -> SUBSET Paths]
    BY <1>0, <1>2 DEF Start, States, Tools
  <2>4. dest' \in [Calls -> [Paths -> Paths \cup {None}]]
    BY <1>0, <1>2 DEF Start, Moves
  <2> QED
    BY <1>0, <1>2, <1>r, <2>1, <2>2, <2>3, <2>4 DEF Start
<1>3. ASSUME NEW x \in Calls, NEW t \in Starts, NEW s \in Sessions, NEW ps \in (SUBSET Paths) \ {{}},
             Refuse(x, t, s, ps)
      PROVE  TypeOK' /\ RowsTrue'
  <2>1. /\ pc' \in [Calls -> States] /\ tool' \in [Calls -> Tools]
        /\ owner' \in [Calls -> Sessions \cup {None}] /\ todo' \in [Calls -> SUBSET Paths]
        /\ files' \in [Calls -> SUBSET Paths]
    BY <1>0, <1>3 DEF Refuse, States, Tools
  <2> QED
    BY <1>0, <1>3, <1>r, <2>1 DEF Refuse
<1>4. ASSUME NEW x \in Calls, Deny(x) \/ FailAgain(x) \/ Cancel(x) \/ EndView(x)
      PROVE  TypeOK' /\ RowsTrue'
  <2>1. CASE Cancel(x)
    BY <1>0, <1>r, <2>1 DEF Cancel
  <2>2. CASE Deny(x) \/ FailAgain(x)
    <3>1. pc' = [pc EXCEPT ![x] = "capture"] /\ pc \in [Calls -> States]
      BY <1>0, <2>2 DEF Deny, FailAgain, Goto
    <3>2. pc' \in [Calls -> States]
      BY <3>1 DEF States
    <3> QED
      BY <1>0, <1>r, <2>2, <3>2 DEF Deny, FailAgain
  <2>3. CASE EndView(x)
    <3>1. pc' \in [Calls -> States]
      BY <1>0, <2>3 DEF EndView, Goto, States
    <3> QED
      BY <1>0, <1>r, <2>3, <3>1 DEF EndView
  <2> QED
    BY <1>4, <2>1, <2>2, <2>3
<1>5. ASSUME NEW x \in Calls, Approve(x) PROVE TypeOK' /\ RowsTrue'
  <2>1. writes' \in Contents /\ pc' \in [Calls -> States]
    BY <1>0, <1>5 DEF Approve, Goto, Contents, States
  <2> QED
    BY <1>0, <1>5, <1>r, <2>1 DEF Approve
<1>6. ASSUME NEW x \in Calls, FailWrite(x) PROVE TypeOK' /\ RowsTrue'
  <2>1. pc' \in [Calls -> States]
    BY <1>0, <1>6 DEF FailWrite, Goto, States
  <2>2. orig' \in [Sessions -> [Paths -> SUBSET Contents]]
    BY <1>0, <1>6 DEF FailWrite
  <2> QED
    BY <1>0, <1>6, <1>r, <2>1, <2>2 DEF FailWrite
<1>d. ASSUME NEW others, NEW p \in Paths, others \subseteq Calls, Displaces(others, p)
      PROVE  displaced' \subseteq Calls \X Paths
  BY <1>0, <1>d DEF Displaces
<1>7. ASSUME NEW x \in Calls, NEW p \in Paths, Changes(x, p) PROVE TypeOK' /\ RowsTrue'
  <2> HIDE DEF TypeOK, HistoryTypeOK, history, what, ghost, world
  <2>0. /\ TypeOK /\ pc \in [Calls -> States] /\ todo \in [Calls -> SUBSET Paths]
        /\ wrote \in [Calls -> SUBSET Paths] /\ leaving \in [Calls -> Paths \cup {None}]
        /\ disk \in [Paths -> Contents \cup {Absent}] /\ new \in [Calls -> Contents]
        /\ seen \subseteq Paths \X Contents
        /\ readAt \in [Paths -> {"never", "before", "since"}] /\ files \in [Calls -> SUBSET Paths]
    BY <1>0 DEF TypeOK
  <2>1. PICK d \in {new[x], Absent} : disk' = [disk EXCEPT ![p] = d]
    <3>1. TypeOK /\ PlacesTrue
      BY <1>0
    <3> QED
      BY <3>1, <1>7, ChangeIs
  <2>2. disk' \in [Paths -> Contents \cup {Absent}]
    BY <2>0, <2>1
  <2>3. seen' \subseteq Paths \X Contents
    <3>1. seen' \subseteq seen \cup {<<p, new[x]>>}
      BY <1>0, <1>7, ChangeIs
    <3> QED
      BY <2>0, <3>1
  <2>4. readAt' \in [Paths -> {"never", "before", "since"}]
    BY <1>7, <2>0 DEF Changes, WriteFile, RemoveMoved, Touched
  <2>5. /\ pc' \in [Calls -> States] /\ wrote' \in [Calls -> SUBSET Paths]
        /\ leaving' \in [Calls -> Paths \cup {None}]
    <3>1. /\ pc' = [pc EXCEPT ![x] = "lookup"] \/ pc' = [pc EXCEPT ![x] = "writing"]
          /\ wrote' = [wrote EXCEPT ![x] = @ \cup {p}]
          /\ leaving' = leaving \/ leaving' = [leaving EXCEPT ![x] = None]
      BY <1>0, <1>7, ChangeIs
    <3> QED
      BY <2>0, <3>1 DEF States
  <2>6. todo' \in [Calls -> SUBSET Paths]
    <3>1. \E c \in {files[x], todo[x] \ {p}} : todo' = [todo EXCEPT ![x] = c]
      BY <1>7 DEF Changes, WriteFile, RemoveMoved, Written
    <3> QED
      BY <2>0, <3>1
  <2>7. orig' \in [Sessions -> [Paths -> SUBSET Contents]]
    <3>1. Text(p) \in Contents
      BY <1>0
    <3> DEFINE c == IF tool[x] = "add" \/ old[x][p] # Text(p) THEN Contents ELSE {Text(p)}
    <3>2. c \in SUBSET Contents
      BY <3>1
    <3>3. FirstVersion(x, p) /\ owner[x] \in Sessions
      BY <1>0, <1>7, ChangeIs
    <3>4. orig' = orig \/ orig' = [orig EXCEPT ![owner[x]][p] = c]
      BY <3>3 DEF FirstVersion
    <3>5. owner[x] \in Sessions /\ orig \in [Sessions -> [Paths -> SUBSET Contents]]
      BY <1>0, <3>3 DEF TypeOK
    <3> HIDE DEF c
    <3>6. ASSUME orig' = [orig EXCEPT ![owner[x]][p] = c]
          PROVE  orig' \in [Sessions -> [Paths -> SUBSET Contents]]
      <4>1. [orig[owner[x]] EXCEPT ![p] = c] \in [Paths -> SUBSET Contents]
        BY <3>2, <3>5
      <4> QED
        BY <3>5, <3>6, <4>1
    <3> QED
      BY <3>4, <3>5, <3>6
  <2>8. displaced' \subseteq Calls \X Paths
    <3>1. Displaces(Calls \ {x}, p)
      BY <1>0, <1>7, ChangeIs
    <3> QED
      BY <1>d, <3>1
  <2>9. UNCHANGED <<history, writes, what, ops, reply, dead, change, slipped>>
    BY <1>0, <1>7, ChangeIs
  <2>10. HistoryTypeOK' /\ RowsTrue'
    BY <1>0, <2>9 DEF TypeOK, HistoryTypeOK, history, RowsTrue
  <2> QED
    BY <2>0, <2>2, <2>3, <2>4, <2>5, <2>6, <2>7, <2>8, <2>9, <2>10 DEF TypeOK, what
<1>17. ASSUME NEW x \in Calls, NEW p \in Paths, MoveFile(x, p) PROVE TypeOK' /\ RowsTrue'
  <2> HIDE DEF TypeOK, HistoryTypeOK, history, what, ghost, world
  <2>0. /\ TypeOK /\ pc \in [Calls -> States] /\ wrote \in [Calls -> SUBSET Paths]
        /\ leaving \in [Calls -> Paths \cup {None}] /\ seen \subseteq Paths \X Contents
        /\ disk \in [Paths -> Contents \cup {Absent}] /\ new \in [Calls -> Contents]
        /\ readAt \in [Paths -> {"never", "before", "since"}]
        /\ orig \in [Sessions -> [Paths -> SUBSET Contents]]
    BY <1>0 DEF TypeOK
  <2>1. PICK q \in Paths : q = dest[x][p]
    BY <1>0, <1>17, MoveIs
  <2>2. /\ wrote' = [wrote EXCEPT ![x] = @ \cup {q}] /\ pc' = [pc EXCEPT ![x] = "moving"]
        /\ leaving' = [leaving EXCEPT ![x] = p] /\ disk' = [disk EXCEPT ![q] = new[x]]
        /\ seen' = seen \cup {<<q, new[x]>>} /\ owner[x] \in Sessions
        /\ orig' = IF FirstWrite(x, q) THEN [orig EXCEPT ![owner[x]][q] = Contents] ELSE orig
        /\ Displaces(Calls \ {x}, q)
        /\ UNCHANGED <<history, writes, what, todo, ops, reply, dead, change, slipped>>
    BY <1>0, <1>17, <2>1, MoveIs
  <2>3. readAt' \in [Paths -> {"never", "before", "since"}]
    BY <1>17, <2>0 DEF MoveFile, Touched
  <2>4. /\ pc' \in [Calls -> States] /\ wrote' \in [Calls -> SUBSET Paths]
        /\ leaving' \in [Calls -> Paths \cup {None}]
    BY <2>0, <2>2 DEF States
  <2>5. disk' \in [Paths -> Contents \cup {Absent}] /\ seen' \subseteq Paths \X Contents
    BY <2>0, <2>2
  <2>6. orig' \in [Sessions -> [Paths -> SUBSET Contents]]
    BY <2>0, <2>2
  <2>7. displaced' \subseteq Calls \X Paths
    BY <1>d, <2>2
  <2>8. HistoryTypeOK' /\ RowsTrue'
    BY <1>0, <2>2 DEF TypeOK, HistoryTypeOK, history, RowsTrue
  <2> QED
    BY <2>0, <2>2, <2>3, <2>4, <2>5, <2>6, <2>7, <2>8 DEF TypeOK, what
<1>8. ASSUME NEW x \in Calls, NEW p \in Paths, LookUp(x, p) PROVE TypeOK' /\ RowsTrue'
  <2>0. PICK found \in BOOLEAN : \E last : ops' = [ops EXCEPT ![x] = Versions(x, p, found, last)]
    <3> HIDE DEF TypeOK
    <3>1. \E found \in BOOLEAN : \E last : ops' = [ops EXCEPT ![x] = Versions(x, p, found, last)]
      BY <1>0, <1>8, LookUpIs
    <3> QED
      BY <3>1
  <2>1. PICK last : ops' = [ops EXCEPT ![x] = Versions(x, p, found, last)]
    BY <2>0
  <2>2. Versions(x, p, found, last) \in Seq(OpSet)
    BY <1>0, VersionsAre
  <2>3. ops' \in [Calls -> Seq(OpSet)] /\ pc' \in [Calls -> States]
    BY <1>0, <1>8, <2>1, <2>2 DEF LookUp, Goto, States, OpSet
  <2> QED
    BY <1>0, <1>8, <1>r, <2>3 DEF LookUp, OpSet
<1>9. ASSUME NEW x \in Calls, Record(x) PROVE TypeOK' /\ RowsTrue'
  <2> DEFINE o == NextOp(x)
  <2>1. /\ o.path \in Paths /\ o.content \in Contents /\ owner[x] \in Sessions /\ pc[x] = "record"
        /\ \/ rows' = rows
           \/ \E v \in Nat : rows' = rows \cup {[sess |-> owner[x], path |-> o.path, ver |-> v,
                                                 content |-> o.content, sec |-> sec]}
        /\ ops' = [ops EXCEPT ![x] = Tail(@)]
        /\ UNCHANGED <<sec, world, pc, what, todo, leaving, wrote, reply, dead, change, ghost>>
    BY <1>9, RecordIs
  <2>2. rows' \subseteq Row /\ RowsTrue'
    <3>1. CASE rows' = rows
      BY <1>0, <3>1 DEF RowsTrue
    <3>2. ASSUME NEW v \in Nat, rows' = rows \cup {[sess |-> owner[x], path |-> o.path, ver |-> v,
                                                 content |-> o.content, sec |-> sec]}
          PROVE  rows' \subseteq Row /\ RowsTrue'
      <4> HIDE DEF o
      <4>1. o.content \in Nat
        BY <1>0, <2>1 DEF Contents
      <4>2. [sess |-> owner[x], path |-> o.path, ver |-> v, content |-> o.content, sec |-> sec] \in Row
        BY <1>0, <2>1, <3>2, <4>1 DEF Row
      <4> QED
        BY <1>0, <2>1, <3>2, <4>2 DEF RowsTrue
    <3> QED
      BY <2>1, <3>1, <3>2
  <2>3. Tail(ops[x]) \in Seq(OpSet)
    BY <2>1, OpsAre DEF IInv
  <2>4. ops' \in [Calls -> Seq(OpSet)]
    BY <1>0, <2>1, <2>3 DEF OpSet
  <2> QED
    BY <1>0, <2>1, <2>2, <2>4 DEF OpSet
<1>10. ASSUME NEW x \in Calls, RecordNothing(x) PROVE TypeOK' /\ RowsTrue'
  <2>1. Tail(ops[x]) \in Seq(OpSet) /\ owner[x] \in Sessions /\ NextOp(x).path \in Paths
    BY <1>10, OpsAre DEF IInv, RecordNothing, PlacesTrue, Owned
  <2>2. ops' \in [Calls -> Seq(OpSet)]
    BY <1>0, <1>10, <2>1 DEF RecordNothing, OpSet
  <2>3. orig' \in [Sessions -> [Paths -> SUBSET Contents]] /\ pc' \in [Calls -> States]
    BY <1>0, <1>10, <2>1 DEF RecordNothing, States
  <2> QED
    BY <1>0, <1>10, <1>r, <2>2, <2>3 DEF RecordNothing, OpSet
<1>11. ASSUME NEW x \in Calls, EndFile(x) PROVE TypeOK' /\ RowsTrue'
  <2>1. pc' \in [Calls -> States]
    <3>1. \E c \in {"lookup", "again", "capture"} : pc' = [pc EXCEPT ![x] = c]
      BY <1>11 DEF EndFile
    <3> QED
      BY <1>0, <3>1 DEF States
  <2>2. ops' \in [Calls -> Seq(OpSet)]
    <3>1. ops' = [ops EXCEPT ![x] = <<>>] /\ <<>> \in Seq(OpSet)
      BY <1>11 DEF EndFile
    <3>2. ops \in [Calls -> Seq(OpSet)]
      BY <1>0 DEF OpSet
    <3> QED
      BY <3>1, <3>2
  <2>3. readAt' \in [Paths -> {"never", "before", "since"}] /\ todo' \in [Calls -> SUBSET Paths]
    BY <1>0, <1>11 DEF EndFile
  <2> QED
    BY <1>0, <1>11, <1>r, <2>1, <2>2, <2>3 DEF EndFile, OpSet
<1>12. ASSUME NEW x \in Calls, ReplaceAgain(x) PROVE TypeOK' /\ RowsTrue'
  <2>1. /\ pc' \in [Calls -> States] /\ tool' \in [Calls -> Tools]
        /\ old' \in [Calls -> [Paths -> Contents]]
    BY <1>0, <1>12 DEF ReplaceAgain, Goto, States, Tools
  <2> QED
    BY <1>0, <1>12, <1>r, <2>1 DEF ReplaceAgain
<1>13. ASSUME NEW x \in Calls, OnToolCompleted(x) PROVE TypeOK' /\ RowsTrue'
  <2>1. pc' \in [Calls -> States] /\ owner[x] \in Sessions
    BY <1>0, <1>13 DEF OnToolCompleted, Goto, States, IInv, PlacesTrue, Owned
  <2>2. change' \in [Sessions -> SUBSET [path : Paths, before : Contents, after : Contents]]
    BY <1>0, <1>13, <2>1, ChangesTyped DEF OnToolCompleted
  <2> QED
    BY <1>0, <1>13, <1>r, <2>1, <2>2 DEF OnToolCompleted
<1>14. ASSUME NEW p \in Paths, EditOutside(p) PROVE TypeOK' /\ RowsTrue'
  <2>1. writes' \in Contents
    BY <1>0, <1>14 DEF EditOutside, Contents
  <2>2. /\ disk' \in [Paths -> Contents \cup {Absent}] /\ slipped' \subseteq Paths \X Contents
        /\ readAt' \in [Paths -> {"never", "before", "since"}]
    BY <1>0, <1>14, <2>1 DEF EditOutside, Touched
  <2>3. displaced' \subseteq Calls \X Paths
    BY <1>d, <1>14 DEF EditOutside
  <2> QED
    BY <1>0, <1>14, <1>r, <2>1, <2>2, <2>3 DEF EditOutside
<1>15. ASSUME NEW p \in Paths, RemoveOutside(p) PROVE TypeOK' /\ RowsTrue'
  <2>1. displaced' \subseteq Calls \X Paths
    BY <1>d, <1>15 DEF RemoveOutside
  <2> QED
    BY <1>0, <1>15, <1>r, <2>1 DEF RemoveOutside
<1>16. ASSUME Pass PROVE TypeOK' /\ RowsTrue'
  <2>1. rows' = rows /\ sec' \in 0 .. MaxSec
    BY <1>0, <1>16, FileHistoryAssumption DEF Pass, Tick
  <2> QED
    BY <1>0, <1>16, <1>r, <2>1 DEF Pass
<1> HIDE DEF TypeOK, HistoryTypeOK, history, world, what, ghost
<1>18. ASSUME NEW x \in Calls, Step(x) PROVE TypeOK' /\ RowsTrue'
  <2>1. Acts(x)
    BY <1>0, <1>18, ActsAre
  <2> QED
    BY <1>4, <1>5, <1>6, <1>7, <1>8, <1>9, <1>10, <1>11, <1>12, <1>13, <1>17, <2>1 DEF Acts
<1> QED
  BY <1>1, <1>2, <1>3, <1>4, <1>14, <1>15, <1>16, <1>18 DEF Next

------------------------------------------------------------------------------
\* A step is a call's, or leaves all of them and the history where they are.
Elsewhere == UNCHANGED <<rows, pc, what, todo, leaving, ops, wrote, reply, dead, change, orig>>

LEMMA StepsAre ==
  ASSUME TypeOK, PlacesTrue, [Next]_vars
  PROVE  \/ \E x \in Calls :
              /\ Others(x)
              /\ \/ \E t \in Starts, s \in Sessions, ps \in (SUBSET Paths) \ {{}} : \E m \in Moves(t, ps) :
                      Start(x, t, s, ps, m) \/ Refuse(x, t, s, ps)
                 \/ Acts(x)
                 \/ Cancel(x)
         \/ \E p \in Paths : EditOutside(p) /\ Elsewhere
         \/ \E p \in Paths : RemoveOutside(p) /\ Elsewhere
         \/ (Pass \/ UNCHANGED vars) /\ Elsewhere
<1> USE DEF Elsewhere, ghost, history
<1>1. CASE UNCHANGED vars
  BY <1>1 DEF vars
<1>2. CASE Pass
  BY <1>2 DEF Pass, Tick
<1>3. ASSUME NEW p \in Paths, EditOutside(p) PROVE Elsewhere
  BY <1>3 DEF EditOutside
<1>4. ASSUME NEW p \in Paths, RemoveOutside(p) PROVE Elsewhere
  BY <1>4 DEF RemoveOutside
<1>5. \A t, ps : [p \in Paths |-> None] \in Moves(t, ps)
  BY DEF Moves
<1>6. ASSUME NEW x \in Calls, Step(x) PROVE Acts(x)
  BY <1>6, ActsAre
<1> HIDE DEF Elsewhere, ghost, history
<1> QED
  BY <1>1, <1>2, <1>3, <1>4, <1>5, <1>6, OthersRest DEF Next

LEMMA StepStays ==
  ASSUME TypeOK, PlacesTrue, NEW x \in Calls, Acts(x) \/ Cancel(x)
  PROVE  Running(x) /\ owner' = owner
<1> USE DEF Running, Goto, what
<1>1. CASE Deny(x) \/ Approve(x) \/ FailWrite(x) \/ Cancel(x)
  BY <1>1 DEF Deny, Approve, FailWrite, Cancel
<1>2. ASSUME NEW p \in Paths, Changes(x, p) \/ MoveFile(x, p) \/ LookUp(x, p)
      PROVE  Running(x) /\ owner' = owner
  BY <1>2 DEF Changes, WriteFile, RemoveMoved, MoveFile, LookUp
<1>3. CASE Record(x) \/ RecordNothing(x) \/ EndFile(x) \/ EndView(x)
  BY <1>3 DEF Record, RecordNothing, EndFile, EndView
<1>4. CASE FailAgain(x) \/ ReplaceAgain(x) \/ OnToolCompleted(x)
  BY <1>4 DEF FailAgain, ReplaceAgain, OnToolCompleted
<1> QED
  BY <1>1, <1>2, <1>3, <1>4 DEF Acts

LEMMA OneRunsStep == ASSUME IInv, [Next]_vars PROVE OneRuns'
<1>0. TypeOK /\ OneRuns /\ PlacesTrue
  BY DEF IInv
<1>1. ASSUME NEW x \in Calls, Others(x),
             NEW t \in Starts, NEW s \in Sessions, NEW ps \in (SUBSET Paths) \ {{}},
             NEW m \in Moves(t, ps), Start(x, t, s, ps, m) \/ Refuse(x, t, s, ps)
      PROVE  OneRuns'
  <2>1. owner'[x] = s /\ \A y \in Calls : owner[y] = s => ~Running(y)
    BY <1>0, <1>1 DEF Start, Refuse, TypeOK
  <2> QED
    BY <1>0, <1>1, <2>1 DEF OneRuns, Running, Others
<1>2. ASSUME NEW x \in Calls, Others(x), Acts(x) \/ Cancel(x) PROVE OneRuns'
  <2>1. Running(x) /\ owner' = owner
    BY <1>0, <1>2, StepStays
  <2> QED
    BY <1>0, <1>2, <2>1 DEF OneRuns, Running, Others
<1>3. CASE Elsewhere
  BY <1>0, <1>3 DEF OneRuns, Running, Elsewhere, what
<1> QED
  BY <1>0, <1>1, <1>2, <1>3, StepsAre

\* A call that does not step stays in its place.
LEMMA PlaceStays ==
  ASSUME NEW x \in Calls, Others(x), NEW y \in Calls, y # x, Owned(y) /\ Placed(y) /\ OpsTrue(y)
  PROVE  (Owned(y) /\ Placed(y) /\ OpsTrue(y))'
<1>1. Owned(y)'
  BY DEF Owned, Others
<1>2. Placed(y)'
  <2>1. Targets(y)' = Targets(y)
    BY DEF Targets, Others
  <2> QED
    BY <2>1 DEF Placed, Others
<1>3. OpsTrue(y)'
  BY DEF OpsTrue, Recorded, Op, Others
<1> QED
  BY <1>1, <1>2, <1>3

\* What is left to record after a version was, or was not.
LEMMA OpsTail ==
  ASSUME TypeOK, PlacesTrue, NEW x \in Calls, pc[x] = "record", NextOp(x).kind # "read",
         pc'[x] = "record", ops'[x] = Tail(ops[x]), tool'[x] = tool[x], new'[x] = new[x],
         todo'[x] = todo[x]
  PROVE  OpsTrue(x)'
<1>1. /\ ops[x] \in Seq(OpSet) /\ Len(ops[x]) \in Nat /\ Len(ops[x]) # 1
      /\ Len(Tail(ops[x])) = Len(ops[x]) - 1
      /\ \A i \in 1 .. Len(ops[x]) - 1 : Tail(ops[x])[i] = ops[x][i + 1]
  BY OpsAre
<1>2. OpsTrue(x)
  BY DEF PlacesTrue
<1> DEFINE s == ops[x]
<1>3. PICK n \in Nat : n = Len(s)
  BY <1>1
<1>4. /\ n >= 1 /\ s[n].kind = "read" /\ s[n].path \in todo[x]
      /\ \A i \in 1 .. n : s[i].path = s[n].path
      /\ \A i \in 1 .. n - 1 : s[i].kind # "read"
      /\ n >= 2 => s[n - 1] = Op("version", s[n].path, Recorded(x))
  BY <1>2, <1>3 DEF OpsTrue
<1>5. n >= 2 /\ n - 1 \in Nat
  <2>1. n # 1
    BY <1>1, <1>3
  <2>2. n >= 1
    BY <1>4
  <2> QED
    BY <2>1, <2>2
<1> HIDE DEF s
<1> DEFINE u == Tail(s)
<1>6. Len(u) = n - 1 /\ \A i \in 1 .. n - 1 : u[i] = s[i + 1]
  BY <1>1, <1>3 DEF s
<1> HIDE DEF u
<1>7. n - 1 \in 1 .. n - 1 /\ (n - 1) + 1 = n /\ n - 2 >= 1 => n - 2 \in 1 .. n - 1 /\ (n - 2) + 1 = n - 1
  BY <1>5
<1>8. u[n - 1] = s[n] /\ (n - 1 >= 2 => u[n - 2] = s[n - 1])
  BY <1>5, <1>6
<1>9. \A i \in 1 .. n - 1 : u[i].path = s[n].path
  BY <1>4, <1>5, <1>6
<1>10. \A i \in 1 .. n - 2 : u[i].kind # "read"
  BY <1>4, <1>5, <1>6
<1>11. ops'[x] = u /\ Recorded(x)' = Recorded(x)
  BY DEF u, s, Recorded
<1>12. PICK m \in Nat : m = n - 1
  BY <1>5
<1>13. /\ Len(u) = m /\ m >= 1 /\ u[m] = s[n] /\ (m >= 2 => u[m - 1] = s[n - 1])
       /\ (\A i \in 1 .. m : u[i].path = s[n].path) /\ \A i \in 1 .. m - 1 : u[i].kind # "read"
  BY <1>5, <1>6, <1>8, <1>9, <1>10, <1>12
<1>14. /\ u[m].kind = "read" /\ u[m].path \in todo[x] /\ \A i \in 1 .. m : u[i].path = u[m].path
       /\ m >= 2 => u[m - 1] = Op("version", u[m].path, Recorded(x))
  BY <1>4, <1>5, <1>13
<1> QED
  BY <1>11, <1>13, <1>14 DEF OpsTrue, Op

\* The versions of one file come one after the other.
LEMMA NextPath ==
  ASSUME TypeOK, PlacesTrue, NEW x \in Calls, pc[x] = "record", NextOp(x).kind # "read",
         ops'[x] = Tail(ops[x])
  PROVE  NextOp(x)'.path = NextOp(x).path
<1> DEFINE w == ops[x]
           u == Tail(ops[x])
<1>1. PICK p : p = NextOp(x).path
  OBVIOUS
<1>2. /\ w \in Seq(OpSet) /\ Len(w) \in Nat /\ Len(w) # 1 /\ Len(w) >= 1 /\ p = w[Len(w)].path
      /\ u \in Seq(OpSet) /\ Len(u) = Len(w) - 1
      /\ \A i \in 1 .. Len(w) - 1 : u[i] = w[i + 1]
  BY <1>1, OpsAre
<1>3. \A i \in 1 .. Len(w) : w[i].path = w[Len(w)].path
  BY DEF PlacesTrue, OpsTrue
<1>4. ops'[x] = u
  OBVIOUS
<1> HIDE DEF u, w
<1>5. PICK n \in Nat : n = Len(w)
  BY <1>2
<1>6. n # 1 /\ n >= 1 /\ Len(u) = n - 1 /\ \A i \in 1 .. n - 1 : u[i] = w[i + 1]
  BY <1>2, <1>5
<1>7. \A i \in 1 .. n : w[i].path = p
  BY <1>2, <1>3, <1>5
<1>8. n >= 2
  BY <1>6
<1>9. u[1].path = p /\ Len(u) # 0
  BY <1>6, <1>7, <1>8
<1>10. Head(u) = u[1]
  BY <1>2, <1>9
<1> QED
  BY <1>1, <1>4, <1>9, <1>10 DEF NextOp

LEMMA PlacesStep == ASSUME IInv, [Next]_vars PROVE PlacesTrue'
<1>0. /\ TypeOK /\ PlacesTrue /\ \A x \in Calls : Owned(x) /\ Placed(x) /\ OpsTrue(x)
      /\ None \notin Sessions
  BY EditsAssumption DEF IInv, PlacesTrue
<1>s. ASSUME NEW x \in Calls, Others(x), Owned(x)', Placed(x)', OpsTrue(x)' PROVE PlacesTrue'
  BY <1>0, <1>s, PlaceStays DEF PlacesTrue
<1>o. ASSUME NEW x \in Calls, Running(x), owner' = owner, pc'[x] # "idle" PROVE Owned(x)'
  BY <1>0, <1>o DEF Owned, Running
<1>1. ASSUME NEW x \in Calls, Others(x),
             NEW t \in Starts, NEW s \in Sessions, NEW ps \in (SUBSET Paths) \ {{}},
             NEW m \in Moves(t, ps), Start(x, t, s, ps, m) \/ Refuse(x, t, s, ps)
      PROVE  PlacesTrue'
  <2>1. /\ pc[x] = "idle" /\ wrote[x] = {} /\ wrote' = wrote /\ owner'[x] = s
        /\ tool'[x] = t /\ todo'[x] = ps /\ files'[x] = ps /\ leaving' = leaving
        /\ pc'[x] \in {"read", "asking", "again", "capture", "done"}
        /\ t \notin Patches => \E p \in Paths : ps = {p}
    BY <1>0, <1>1 DEF Start, Refuse, TypeOK, Owned
  <2>2. /\ pc'[x] = "read" => t = "view"
        /\ pc'[x] \in {"asking", "again"} => t # "view"
        /\ pc'[x] = "again" => t \in {"create", "delete"}
    BY <1>0, <1>1 DEF Start, Refuse, TypeOK
  <2>3. Owned(x)' /\ OpsTrue(x)'
    BY <2>1 DEF Owned, OpsTrue
  <2>5. \A p \in Paths : dest'[x][p] # None => t = "update" /\ p \in ps
    <3>1. \A p \in Paths : dest[x][p] = None
      BY <1>0, <2>1 DEF Owned, Placed
    <3>2. dest'[x] = dest[x] \/ dest'[x] = m
      BY <1>0, <1>1 DEF Start, Refuse, TypeOK
    <3> QED
      BY <3>1, <3>2 DEF Moves
  <2>6. leaving[x] = None
    BY <1>0, <2>1 DEF Placed
  <2>4. Placed(x)'
    BY <2>1, <2>2, <2>5, <2>6 DEF Placed
  <2> QED
    BY <1>1, <1>s, <2>3, <2>4
<1>2. ASSUME NEW x \in Calls, Others(x), Deny(x) \/ Approve(x) \/ FailWrite(x) \/ FailAgain(x)
      PROVE  PlacesTrue'
  <2>1. /\ wrote' = wrote /\ tool' = tool /\ todo' = todo /\ owner' = owner
        /\ files' = files /\ dest' = dest /\ leaving' = leaving
        /\ pc[x] \in {"asking", "writing", "moving", "again"}
        /\ \/ pc'[x] = "capture"
           \/ pc[x] = "asking" /\ pc'[x] = "writing"
    <3>1. pc \in [Calls -> States]
      BY <1>0 DEF TypeOK
    <3>2. CASE Deny(x) \/ Approve(x)
      BY <3>1, <3>2 DEF Deny, Approve, Goto, what
    <3>3. CASE FailWrite(x) \/ FailAgain(x)
      BY <3>1, <3>3 DEF FailWrite, FailAgain, Goto, what
    <3> QED
      BY <1>2, <3>2, <3>3
  <2>2. Owned(x)'
    BY <1>o, <2>1 DEF Running
  <2>4. Targets(x)' = Targets(x)
    BY <2>1 DEF Targets
  <2>3. Placed(x)' /\ OpsTrue(x)'
    BY <1>0, <2>1, <2>4 DEF Placed, OpsTrue
  <2> QED
    BY <1>2, <1>s, <2>2, <2>3
<1>3. ASSUME NEW x \in Calls, Others(x), Cancel(x) PROVE PlacesTrue'
  <2>1. UNCHANGED <<pc, what, todo, leaving, wrote, ops>>
    BY <1>3 DEF Cancel
  <2>2. Owned(x)' /\ Placed(x)' /\ OpsTrue(x)'
    BY <1>0, <2>1 DEF Owned, Placed, Targets, OpsTrue, Recorded, what
  <2> QED
    BY <1>3, <1>s, <2>2
<1>4. ASSUME NEW x \in Calls, Others(x), NEW p \in Paths, Changes(x, p) PROVE PlacesTrue'
  <2>1. /\ pc[x] \in {"writing", "moving"} /\ p \in todo[x] /\ p \in files[x]
        /\ wrote'[x] = wrote[x] \cup {p} /\ leaving'[x] = None /\ UNCHANGED what
        /\ \/ todo[x] = {p} /\ pc'[x] = "lookup" /\ todo'[x] = files[x]
           \/ todo[x] # {p} /\ pc'[x] = "writing" /\ todo'[x] = todo[x] \ {p}
    BY <1>0, <1>4, ChangeIs
  <2>2. Owned(x)' /\ OpsTrue(x)'
    BY <1>o, <2>1 DEF Running, OpsTrue, what
  <2>3. Placed(x)'
    <3>1. Targets(x)' = Targets(x) /\ UNCHANGED <<tool, files, dest>>
      BY <2>1 DEF Targets, what
    <3>2. Placed(x)
      BY <1>0
    <3> QED
      BY <2>1, <3>1, <3>2 DEF Placed
  <2> QED
    BY <1>4, <1>s, <2>2, <2>3
<1>12. ASSUME NEW x \in Calls, Others(x), NEW p \in Paths, MoveFile(x, p) PROVE PlacesTrue'
  <2>1. PICK q \in Paths : q = dest[x][p]
    BY <1>0, <1>12, MoveIs
  <2>2. /\ pc[x] = "writing" /\ p \in todo[x] /\ q # None /\ q \in Targets(x) /\ tool[x] = "update"
        /\ wrote'[x] = wrote[x] \cup {q} /\ pc'[x] = "moving" /\ leaving'[x] = p
        /\ UNCHANGED <<what, todo>>
    BY <1>0, <1>12, <2>1, MoveIs
  <2>3. Owned(x)' /\ OpsTrue(x)'
    BY <1>o, <2>2 DEF Running, OpsTrue, what
  <2>4. Placed(x)'
    <3>1. Targets(x)' = Targets(x) /\ UNCHANGED <<tool, files, dest>>
      BY <2>2 DEF Targets, what
    <3>2. Placed(x) /\ "update" \in Patches
      BY <1>0 DEF Patches
    <3> QED
      BY <2>1, <2>2, <3>1, <3>2 DEF Placed
  <2> QED
    BY <1>12, <1>s, <2>3, <2>4
<1>5. ASSUME NEW x \in Calls, Others(x), NEW p \in Paths, LookUp(x, p) PROVE PlacesTrue'
  <2>1. /\ pc[x] = "lookup" /\ p \in todo[x] /\ pc'[x] = "record"
        /\ UNCHANGED <<tool, owner, files, dest, old, new, todo, leaving, wrote>>
    BY <1>0, <1>5 DEF LookUp, Goto, what, TypeOK
  <2>5. PICK found \in BOOLEAN : \E last : ops' = [ops EXCEPT ![x] = Versions(x, p, found, last)]
    BY <1>0, <1>5, LookUpIs
  <2>6. PICK last : ops' = [ops EXCEPT ![x] = Versions(x, p, found, last)]
    BY <2>5
  <2>2. ops'[x] = Versions(x, p, found, last)
    BY <1>0, <2>6 DEF TypeOK
  <2>3. Owned(x)' /\ Placed(x)'
    BY <1>0, <1>o, <2>1 DEF Running, Placed, Targets
  <2>4. OpsTrue(x)'
    <3> DEFINE v == Versions(x, p, found, last)
    <3>1. /\ Len(v) \in 2 .. 4
          /\ v[Len(v)] = Op("read", p, Empty) /\ v[Len(v) - 1] = Op("version", p, Recorded(x))
          /\ \A i \in 1 .. Len(v) : v[i].path = p
          /\ \A i \in 1 .. Len(v) - 1 : v[i].kind # "read"
      BY <1>0, VersionsAre
    <3>2. Recorded(x)' = Recorded(x) /\ ops'[x] = v
      BY <2>1, <2>2 DEF Recorded
    <3> HIDE DEF v
    <3>3. v[Len(v)].kind = "read" /\ v[Len(v)].path = p
      BY <3>1 DEF Op
    <3>4. PICK n \in 2 .. 4 : n = Len(v)
      BY <3>1
    <3>5. /\ v[n].kind = "read" /\ v[n].path = p /\ v[n - 1] = Op("version", p, Recorded(x))
          /\ (\A i \in 1 .. n : v[i].path = p) /\ \A i \in 1 .. n - 1 : v[i].kind # "read"
      BY <3>1, <3>3, <3>4
    <3>6. n >= 1 /\ Len(ops'[x]) = n /\ p \in todo'[x]
      BY <2>1, <3>2, <3>4
    <3> QED
      BY <3>2, <3>5, <3>6 DEF OpsTrue, Op
  <2> QED
    BY <1>5, <1>s, <2>3, <2>4
<1>6. ASSUME NEW x \in Calls, Others(x), Record(x) PROVE PlacesTrue'
  <2>1. /\ pc[x] = "record" /\ NextOp(x).kind # "read" /\ pc' = pc /\ ops' = [ops EXCEPT ![x] = Tail(@)]
        /\ UNCHANGED <<what, todo, leaving, wrote>>
    BY <1>6 DEF Record
  <2>2. ops'[x] = Tail(ops[x])
    BY <1>0, <2>1 DEF TypeOK
  <2>3. OpsTrue(x)'
    BY <1>0, <2>1, <2>2, OpsTail DEF what
  <2>4. Owned(x)' /\ Placed(x)'
    BY <1>0, <2>1 DEF Owned, Placed, Targets, what
  <2> QED
    BY <1>6, <1>s, <2>3, <2>4
<1>7. ASSUME NEW x \in Calls, Others(x), RecordNothing(x) PROVE PlacesTrue'
  <2>1. /\ pc[x] = "record" /\ NextOp(x).kind # "read" /\ UNCHANGED <<what, todo, leaving, wrote>>
        /\ \/ pc' = [pc EXCEPT ![x] = "capture"]
           \/ pc' = pc /\ ops' = [ops EXCEPT ![x] = Tail(@)]
    BY <1>7 DEF RecordNothing
  <2>2. pc'[x] = "capture" \/ (pc'[x] = "record" /\ ops'[x] = Tail(ops[x]))
    BY <1>0, <2>1 DEF TypeOK
  <2>3. OpsTrue(x)'
    <3>1. CASE pc'[x] = "capture"
      BY <3>1 DEF OpsTrue
    <3>2. CASE pc'[x] = "record" /\ ops'[x] = Tail(ops[x])
      BY <1>0, <2>1, <3>2, OpsTail DEF what
    <3> QED
      BY <2>2, <3>1, <3>2
  <2>4. Owned(x)' /\ Placed(x)'
    BY <1>0, <2>1, <2>2 DEF Owned, Placed, Targets, what
  <2> QED
    BY <1>7, <1>s, <2>3, <2>4
<1>8. ASSUME NEW x \in Calls, Others(x), EndFile(x) PROVE PlacesTrue'
  <2> DEFINE p == NextOp(x).path
  <2>1. /\ pc[x] = "record" /\ UNCHANGED <<what, leaving, wrote>> /\ p \in todo[x]
        /\ todo'[x] = todo[x] \ {p}
    BY <1>0, <1>8, OpsAre DEF EndFile, TypeOK
  <2>2. pc'[x] = IF todo[x] # {p} THEN "lookup"
                 ELSE IF tool[x] \in {"create", "delete"} THEN "again" ELSE "capture"
    BY <1>0, <1>8 DEF EndFile, TypeOK
  <2> HIDE DEF p
  <2>3. Placed(x) /\ Owned(x)
    BY <1>0
  <2>4. Owned(x)' /\ OpsTrue(x)'
    BY <2>1, <2>2, <2>3 DEF Owned, OpsTrue, what
  <2>5. Placed(x)'
    BY <2>1, <2>2, <2>3 DEF Placed, Targets, what
  <2> QED
    BY <1>8, <1>s, <2>4, <2>5
<1>9. ASSUME NEW x \in Calls, Others(x), EndView(x) \/ OnToolCompleted(x) PROVE PlacesTrue'
  <2>1. pc'[x] = "done" /\ Running(x) /\ UNCHANGED <<what, todo, leaving, wrote>>
    BY <1>0, <1>9 DEF EndView, OnToolCompleted, Goto, TypeOK, Running
  <2>2. Owned(x)' /\ Placed(x)' /\ OpsTrue(x)'
    BY <1>0, <1>o, <2>1 DEF Placed, Targets, OpsTrue, what
  <2> QED
    BY <1>9, <1>s, <2>2
<1>10. ASSUME NEW x \in Calls, Others(x), ReplaceAgain(x) PROVE PlacesTrue'
  <2>1. /\ pc[x] = "again" /\ pc'[x] = "asking" /\ tool'[x] = "redo" /\ tool[x] = "delete"
        /\ todo'[x] = files[x] /\ UNCHANGED <<files, dest, leaving, wrote, owner>>
    BY <1>0, <1>10 DEF ReplaceAgain, Goto, TypeOK
  <2>2. Owned(x)' /\ OpsTrue(x)'
    BY <1>o, <2>1 DEF OpsTrue, Running
  <2>3. Placed(x)'
    <3>1. "delete" \notin Patches
      BY DEF Patches
    <3>2. Targets(x)' = Targets(x)
      BY <2>1 DEF Targets
    <3> QED
      BY <1>0, <2>1, <3>1, <3>2 DEF Placed
  <2> QED
    BY <1>10, <1>s, <2>2, <2>3
<1>11. CASE Elsewhere
  BY <1>0, <1>11 DEF PlacesTrue, Owned, Placed, Targets, OpsTrue, Recorded, Elsewhere, what
<1> QED
  BY <1>0, <1>1, <1>2, <1>3, <1>4, <1>5, <1>6, <1>7, <1>8, <1>9, <1>10, <1>11, <1>12, StepsAre DEF Acts

------------------------------------------------------------------------------
\* What is known of a file stays known.
LEMMA KnownStep == ASSUME IInv, [Next]_vars PROVE Known'
<1>0. TypeOK /\ Known /\ PlacesTrue /\ \A x \in Calls : Placed(x)
  BY DEF IInv, PlacesTrue
<1>w. ASSUME NEW x \in Calls, Others(x), NEW y \in Calls, y # x, NEW p \in Paths, InWindow(y, p)'
      PROVE  InWindow(y, p)
  BY <1>w DEF InWindow, Others
<1>k. ASSUME NEW x \in Calls, Others(x), disk' = disk, seen \subseteq seen', slipped \subseteq slipped',
             \A p \in Paths : readAt'[p] = "since" => readAt[p] = "since" \/ InWindow(x, p),
             \A p \in Paths : InWindow(x, p)' => InWindow(x, p) \/ <<p, disk[p]>> \in seen'
      PROVE  Known'
  <2> SUFFICES ASSUME NEW p \in Paths, Present(p)',
                      readAt'[p] = "since" \/ \E y \in Calls : InWindow(y, p)'
               PROVE  <<p, disk'[p]>> \in (seen \cup slipped)'
    BY DEF Known
  <2>1. Present(p)
    BY <1>k DEF Present
  <2>2. (readAt[p] = "since" \/ \E y \in Calls : InWindow(y, p)) \/ <<p, disk[p]>> \in seen'
    BY <1>k, <1>w
  <2>3. <<p, disk[p]>> \in seen \cup slipped \/ <<p, disk[p]>> \in seen'
    BY <1>0, <2>1, <2>2 DEF Known
  <2> QED
    BY <1>k, <2>3
<1>1. ASSUME NEW x \in Calls, Others(x),
             NEW t \in Starts, NEW s \in Sessions, NEW ps \in (SUBSET Paths) \ {{}},
             NEW m \in Moves(t, ps), Start(x, t, s, ps, m) \/ Refuse(x, t, s, ps)
      PROVE  Known'
  <2>1. disk' = disk /\ readAt' = readAt /\ slipped' = slipped /\ seen \subseteq seen'
    BY <1>1 DEF Start, Refuse, world, ghost
  <2>2. ASSUME NEW p \in Paths, InWindow(x, p)' PROVE <<p, disk[p]>> \in seen'
    <3>1. pc'[x] = IF t = "view" THEN "read" ELSE "asking"
      BY <1>0, <1>1, <2>2 DEF Start, Refuse, InWindow, TypeOK
    <3>2. t = "view" /\ p \in todo'[x] /\ Start(x, t, s, ps, m)
      BY <1>0, <1>1, <2>2, <3>1 DEF Refuse, InWindow, TypeOK
    <3> QED
      BY <1>0, <3>2 DEF Start, TypeOK
  <2> QED
    BY <1>1, <1>k, <2>1, <2>2
<1>2. ASSUME NEW x \in Calls, Others(x), Deny(x) \/ FailWrite(x) \/ FailAgain(x)
      PROVE  Known'
  <2>1. UNCHANGED <<disk, readAt, seen, slipped>>
    BY <1>2 DEF Deny, FailWrite, FailAgain, world, ghost
  <2>2. pc'[x] = "capture"
    <3>1. pc' = [pc EXCEPT ![x] = "capture"]
      BY <1>2 DEF Deny, FailWrite, FailAgain, Goto
    <3> QED
      BY <1>0, <3>1 DEF TypeOK
  <2>3. \A p \in Paths : ~InWindow(x, p)'
    BY <2>2 DEF InWindow
  <2> QED
    BY <1>2, <1>k, <2>1, <2>3
<1>3. ASSUME NEW x \in Calls, Others(x), Approve(x) PROVE Known'
  <2>1. UNCHANGED <<disk, readAt, seen, slipped, todo, wrote, files>>
    BY <1>3 DEF Approve, ghost
  <2>2. pc'[x] = "writing" /\ pc[x] = "asking"
    BY <1>0, <1>3 DEF Approve, Goto, TypeOK
  <2>3. todo[x] = files[x]
    BY <1>0, <2>2 DEF Placed
  <2>4. \A p \in Paths : ~InWindow(x, p)'
    BY <2>1, <2>2, <2>3 DEF InWindow
  <2> QED
    BY <1>3, <1>k, <2>1, <2>4
<1>c. ASSUME NEW x \in Calls, Others(x), NEW p \in Paths, slipped' = slipped, seen \subseteq seen',
             \A q \in Paths \ {p} : disk'[q] = disk[q] /\ readAt'[q] = readAt[q],
             Present(p)' => <<p, disk'[p]>> \in seen',
             \A q \in Paths \ {p} : InWindow(x, q)' => InWindow(x, q)
      PROVE  Known'
  <2> SUFFICES ASSUME NEW q \in Paths, Present(q)',
                      readAt'[q] = "since" \/ \E y \in Calls : InWindow(y, q)'
               PROVE  <<q, disk'[q]>> \in (seen \cup slipped)'
    BY DEF Known
  <2>1. CASE q = p
    BY <1>c, <2>1
  <2>2. CASE q # p
    <3>1. disk'[q] = disk[q] /\ Present(q)
      BY <1>c, <2>2 DEF Present
    <3>2. readAt[q] = "since" \/ \E y \in Calls : InWindow(y, q)
      BY <1>c, <1>w, <2>2
    <3> QED
      BY <1>0, <1>c, <3>1, <3>2 DEF Known
  <2> QED
    BY <2>1, <2>2
<1>4. ASSUME NEW x \in Calls, Others(x), NEW p \in Paths, Changes(x, p) PROVE Known'
  <2>1. /\ pc[x] \in {"writing", "moving"} /\ p \in todo[x] /\ wrote'[x] = wrote[x] \cup {p}
        /\ \/ todo[x] = {p} /\ pc'[x] = "lookup" /\ todo'[x] = files[x]
           \/ todo[x] # {p} /\ pc'[x] = "writing" /\ todo'[x] = todo[x] \ {p}
        /\ disk'[p] \in {new[x], Absent} /\ (\A q \in Paths \ {p} : disk'[q] = disk[q])
        /\ \A q \in Paths \ {p} : readAt'[q] = readAt[q]
        /\ Present(p)' => <<p, new[x]>> \in seen'
        /\ seen \subseteq seen' /\ slipped' = slipped /\ UNCHANGED what
    BY <1>0, <1>4, ChangeIs
  <2>2. Present(p)' => <<p, disk'[p]>> \in seen'
    BY <2>1 DEF Present, Absent
  <2>3. files[x] \ todo[x] \subseteq wrote[x] /\ files' = files
    BY <1>0, <2>1 DEF Placed, what
  <2>4. \A q \in Paths \ {p} : InWindow(x, q)' => InWindow(x, q)
    BY <2>1, <2>3 DEF InWindow
  <2> QED
    BY <1>4, <1>c, <2>1, <2>2, <2>4
<1>15. ASSUME NEW x \in Calls, Others(x), NEW p \in Paths, MoveFile(x, p) PROVE Known'
  <2>1. PICK q \in Paths : q = dest[x][p]
    BY <1>0, <1>15, MoveIs
  <2>2. /\ pc[x] = "writing" /\ pc'[x] = "moving" /\ wrote'[x] = wrote[x] \cup {q}
        /\ seen' = seen \cup {<<q, new[x]>>} /\ slipped' = slipped /\ UNCHANGED <<what, todo>>
        /\ disk' = [disk EXCEPT ![q] = new[x]]
    BY <1>0, <1>15, <2>1, MoveIs
  <2>4. disk'[q] = new[x] /\ \A r \in Paths \ {q} : disk'[r] = disk[r]
    BY <1>0, <2>2 DEF TypeOK
  <2>5. \A r \in Paths \ {q} : readAt'[r] = readAt[r]
    BY <1>0, <1>15, <2>1 DEF MoveFile, Touched, TypeOK
  <2>3. \A r \in Paths \ {q} : InWindow(x, r)' => InWindow(x, r)
    BY <2>2 DEF InWindow, what
  <2>6. seen \subseteq seen' /\ slipped' = slipped /\ (Present(q)' => <<q, disk'[q]>> \in seen')
    BY <2>2, <2>4
  <2> QED
    BY <1>15, <1>c, <2>3, <2>4, <2>5, <2>6
<1>5. ASSUME NEW x \in Calls, Others(x), NEW p \in Paths, LookUp(x, p) PROVE Known'
  <2>1. /\ UNCHANGED <<disk, readAt, seen, slipped, todo>>
        /\ pc[x] = "lookup" /\ pc' = [pc EXCEPT ![x] = "record"]
    BY <1>0, <1>5, LookUpIs DEF world, ghost
  <2>2. \A q \in Paths : InWindow(x, q)' => InWindow(x, q)
    BY <1>0, <2>1 DEF InWindow, TypeOK
  <2> QED
    BY <1>5, <1>k, <2>1, <2>2
<1>6. ASSUME NEW x \in Calls, Others(x), Record(x) \/ RecordNothing(x) PROVE Known'
  <2>1. UNCHANGED <<disk, readAt, seen, slipped, todo, wrote>>
    BY <1>6 DEF Record, RecordNothing, world, ghost
  <2>2. pc[x] = "record" /\ (pc' = pc \/ pc' = [pc EXCEPT ![x] = "capture"])
    BY <1>6 DEF Record, RecordNothing
  <2>3. \A q \in Paths : InWindow(x, q)' => InWindow(x, q)
    BY <1>0, <2>1, <2>2 DEF InWindow, TypeOK
  <2> QED
    BY <1>6, <1>k, <2>1, <2>3
<1>7. ASSUME NEW x \in Calls, Others(x), EndFile(x) PROVE Known'
  <2> DEFINE p == NextOp(x).path
  <2>1. /\ UNCHANGED <<disk, seen, slipped>> /\ readAt' = [readAt EXCEPT ![p] = "since"]
        /\ pc[x] = "record" /\ todo' = [todo EXCEPT ![x] = @ \ {p}]
        /\ \E c \in {"lookup", "again", "capture"} : pc' = [pc EXCEPT ![x] = c]
    BY <1>7 DEF EndFile, ghost
  <2>2. p \in todo[x] /\ p \in Paths
    BY <1>0, <2>1, OpsAre DEF IInv, TypeOK
  <2> HIDE DEF p
  <2>3. InWindow(x, p)
    BY <2>1, <2>2 DEF InWindow
  <2>4. \A q \in Paths : readAt'[q] = "since" => readAt[q] = "since" \/ InWindow(x, q)
    BY <1>0, <2>1, <2>2, <2>3 DEF TypeOK
  <2>5. pc'[x] \in {"lookup", "again", "capture"} /\ todo'[x] \subseteq todo[x]
    BY <1>0, <2>1 DEF TypeOK
  <2>6. \A q \in Paths : InWindow(x, q)' => InWindow(x, q)
    BY <2>1, <2>5 DEF InWindow
  <2> QED
    BY <1>7, <1>k, <2>1, <2>4, <2>6
<1>8. ASSUME NEW x \in Calls, Others(x), EndView(x) PROVE Known'
  <2>1. /\ UNCHANGED <<disk, seen, slipped>> /\ pc[x] = "read"
        /\ readAt' = [p \in Paths |-> IF p \in todo[x] THEN "since" ELSE readAt[p]]
        /\ pc' = [pc EXCEPT ![x] = "done"]
    BY <1>8 DEF EndView, Goto, ghost
  <2>2. \A q \in Paths : readAt'[q] = "since" => readAt[q] = "since" \/ InWindow(x, q)
    BY <2>1 DEF InWindow
  <2>3. pc'[x] = "done"
    BY <1>0, <2>1 DEF TypeOK
  <2>4. \A q \in Paths : ~InWindow(x, q)'
    BY <2>3 DEF InWindow
  <2> QED
    BY <1>8, <1>k, <2>1, <2>2, <2>4
<1>9. ASSUME NEW x \in Calls, Others(x), ReplaceAgain(x) \/ OnToolCompleted(x) PROVE Known'
  <2>1. UNCHANGED <<disk, readAt, seen, slipped>>
    BY <1>9 DEF ReplaceAgain, OnToolCompleted, world, ghost
  <2>2. pc'[x] \in {"asking", "done"}
    <3>1. \E c \in {"asking", "done"} : pc' = [pc EXCEPT ![x] = c]
      BY <1>9 DEF ReplaceAgain, OnToolCompleted, Goto
    <3> QED
      BY <1>0, <3>1 DEF TypeOK
  <2>3. \A p \in Paths : ~InWindow(x, p)'
    BY <2>2 DEF InWindow
  <2> QED
    BY <1>9, <1>k, <2>1, <2>3
<1>10. ASSUME NEW x \in Calls, Others(x), Cancel(x) PROVE Known'
  <2>1. UNCHANGED <<world, ghost, pc, what, todo, wrote>>
    BY <1>10 DEF Cancel
  <2>2. \A p \in Paths : InWindow(x, p)' => InWindow(x, p)
    BY <2>1 DEF InWindow, what
  <2> QED
    BY <1>10, <1>k, <2>1, <2>2 DEF world, ghost
<1>11. ASSUME Elsewhere PROVE \A y \in Calls, p \in Paths : InWindow(y, p)' <=> InWindow(y, p)
  BY <1>11 DEF InWindow, Elsewhere, what
<1>12. ASSUME NEW p \in Paths, EditOutside(p), Elsewhere PROVE Known'
  <2>1. /\ disk' = [disk EXCEPT ![p] = writes + 1] /\ seen' = seen /\ slipped \subseteq slipped'
        /\ (\E y \in Calls : InWindow(y, p)) => <<p, writes + 1>> \in slipped'
    BY <1>12 DEF EditOutside
  <2>2. readAt'[p] # "since" /\ \A q \in Paths \ {p} : readAt'[q] = readAt[q]
    BY <1>0, <1>12 DEF EditOutside, Touched, TypeOK
  <2> SUFFICES ASSUME NEW q \in Paths, Present(q)',
                      readAt'[q] = "since" \/ \E y \in Calls : InWindow(y, q)'
               PROVE  <<q, disk'[q]>> \in (seen \cup slipped)'
    BY DEF Known
  <2>3. readAt'[q] = "since" \/ \E y \in Calls : InWindow(y, q)
    BY <1>11, <1>12
  <2>4. CASE q = p
    <3>1. disk'[p] = writes + 1
      BY <1>0, <2>1 DEF TypeOK
    <3> QED
      BY <2>1, <2>2, <2>3, <2>4, <3>1
  <2>5. CASE q # p
    <3>1. disk'[q] = disk[q] /\ Present(q)
      BY <1>0, <2>1, <2>5 DEF Present, TypeOK
    <3> QED
      BY <1>0, <2>1, <2>2, <2>3, <2>5, <3>1 DEF Known
  <2> QED
    BY <2>4, <2>5
<1>13. ASSUME NEW p \in Paths, RemoveOutside(p), Elsewhere PROVE Known'
  <2>1. disk' = [disk EXCEPT ![p] = Absent] /\ UNCHANGED <<readAt, seen, slipped>>
    BY <1>13 DEF RemoveOutside, ghost
  <2>2. \A q \in Paths : Present(q)' => disk'[q] = disk[q] /\ Present(q)
    BY <1>0, <2>1 DEF Present, TypeOK
  <2> QED
    BY <1>0, <1>11, <1>13, <2>1, <2>2 DEF Known
<1>14. CASE (Pass \/ UNCHANGED vars) /\ Elsewhere
  <2>1. UNCHANGED <<disk, readAt, seen, slipped>>
    BY <1>14 DEF Pass, vars, world, ghost
  <2> QED
    BY <1>0, <1>11, <1>14, <2>1 DEF Known, Present
<1> QED
  BY <1>0, <1>1, <1>2, <1>3, <1>4, <1>5, <1>6, <1>7, <1>8, <1>9, <1>10, <1>12, <1>13, <1>14,
     <1>15, StepsAre DEF Acts

\* A call goes by contents that were seen.
LEMMA BasedStep == ASSUME IInv, [Next]_vars PROVE BasedOnSeen'
<1>0. TypeOK /\ PlacesTrue /\ Known /\ BasedOnSeen
  BY DEF IInv
<1> DEFINE Bases(x) == pc[x] \in {"asking", "writing", "moving"} =>
                         \A p \in todo[x] : old[x][p] = Empty \/ <<p, old[x][p]>> \in seen \cup slipped
<1>s. ASSUME NEW x \in Calls, Others(x), seen \subseteq seen', slipped \subseteq slipped', Bases(x)'
      PROVE  BasedOnSeen'
  BY <1>0, <1>s DEF BasedOnSeen, Others
<1>n. ASSUME NEW x \in Calls, Others(x), seen \subseteq seen', slipped \subseteq slipped',
             pc'[x] \notin {"asking", "writing", "moving"}
      PROVE  BasedOnSeen'
  BY <1>s, <1>n
<1>t. ASSUME NEW x \in Calls, Others(x), seen \subseteq seen', slipped \subseteq slipped',
             \A p \in todo'[x] : old'[x][p] = Text(p) /\ (Present(p) => readAt[p] = "since")
      PROVE  BasedOnSeen'
  <2>1. todo'[x] \subseteq Paths => Bases(x)'
    BY <1>0, <1>t DEF Text, Known
  <2>2. todo'[x] \subseteq Paths
    <3>1. TypeOK'
      BY TypeStep
    <3> QED
      BY <3>1 DEF TypeOK
  <2> QED
    BY <1>s, <1>t, <2>1, <2>2
<1>1. ASSUME NEW x \in Calls, Others(x),
             NEW t \in Starts, NEW s \in Sessions, NEW ps \in (SUBSET Paths) \ {{}},
             NEW m \in Moves(t, ps), Start(x, t, s, ps, m)
      PROVE  BasedOnSeen'
  <2>1. seen \subseteq seen' /\ slipped' = slipped
    BY <1>1 DEF Start
  <2>2. CASE t = "view"
    <3>1. pc'[x] = "read"
      BY <1>0, <1>1, <2>2 DEF Start, TypeOK
    <3> QED
      BY <1>1, <1>n, <2>1, <3>1
  <2>3. CASE t # "view"
    <3>1. t \in Adds \/ t \in NeedsRead \/ t = "write"
      BY <2>3 DEF Starts, Adds, NeedsRead
    <3>2. \A p \in ps : Present(p) => readAt[p] = "since"
      BY <1>1, <3>1 DEF Start, Allowed
    <3>3. todo'[x] = ps /\ \A p \in ps : old'[x][p] = Text(p)
      BY <1>0, <1>1 DEF Start, TypeOK
    <3> QED
      BY <1>1, <1>t, <2>1, <3>2, <3>3
  <2> QED
    BY <2>2, <2>3
<1>2. ASSUME NEW x \in Calls, Others(x), ReplaceAgain(x) PROVE BasedOnSeen'
  <2>1. \A p \in files[x] : readAt[p] = "since"
    BY <1>2 DEF ReplaceAgain, Allowed, NeedsRead
  <2>2. todo'[x] = files[x] /\ \A p \in todo'[x] : old'[x][p] = Text(p)
    BY <1>0, <1>2 DEF ReplaceAgain, TypeOK
  <2> QED
    BY <1>2, <1>t, <2>1, <2>2 DEF ReplaceAgain, ghost
<1>3. ASSUME NEW x \in Calls, Others(x), Approve(x) PROVE BasedOnSeen'
  <2>1. UNCHANGED <<todo, old, seen, slipped>> /\ pc[x] = "asking"
    BY <1>3 DEF Approve, Goto, ghost
  <2>2. Bases(x)'
    BY <1>0, <2>1 DEF BasedOnSeen
  <2> QED
    BY <1>3, <1>s, <2>1, <2>2
<1>4. ASSUME NEW x \in Calls, Others(x), NEW p \in Paths, Changes(x, p) PROVE BasedOnSeen'
  <2>1. /\ pc[x] \in {"writing", "moving"} /\ UNCHANGED <<old, slipped>> /\ seen \subseteq seen'
        /\ pc'[x] = "lookup" \/ todo'[x] = todo[x] \ {p}
    BY <1>0, <1>4, ChangeIs DEF what
  <2>2. Bases(x)'
    BY <1>0, <2>1 DEF BasedOnSeen
  <2> QED
    BY <1>4, <1>s, <2>1, <2>2
<1>10. ASSUME NEW x \in Calls, Others(x), NEW p \in Paths, MoveFile(x, p) PROVE BasedOnSeen'
  <2>1. pc[x] = "writing" /\ UNCHANGED <<old, slipped, todo>> /\ seen \subseteq seen'
    BY <1>10 DEF MoveFile, what
  <2>2. Bases(x)'
    BY <1>0, <2>1 DEF BasedOnSeen
  <2> QED
    BY <1>10, <1>s, <2>1, <2>2
<1>5. ASSUME NEW x \in Calls, Others(x),
             \/ Deny(x) \/ FailWrite(x) \/ FailAgain(x) \/ EndView(x) \/ OnToolCompleted(x)
             \/ Record(x) \/ RecordNothing(x) \/ EndFile(x) \/ Cancel(x)
      PROVE  BasedOnSeen'
  <2>1. UNCHANGED <<seen, slipped>>
    BY <1>5 DEF Deny, FailWrite, FailAgain, EndView, OnToolCompleted, Record, RecordNothing, EndFile,
                Cancel, ghost
  <2>2. pc'[x] \notin {"asking", "writing", "moving"}
    <3>0. pc \in [Calls -> States]
      BY <1>0 DEF TypeOK
    <3>1. CASE Deny(x) \/ FailWrite(x) \/ FailAgain(x) \/ EndView(x) \/ OnToolCompleted(x)
      <4>1. \E c \in {"capture", "done"} : pc' = [pc EXCEPT ![x] = c]
        BY <3>1 DEF Deny, FailWrite, FailAgain, EndView, OnToolCompleted, Goto
      <4> QED
        BY <3>0, <4>1
    <3>2. CASE Record(x) \/ RecordNothing(x) \/ Cancel(x)
      <4>1. /\ pc[x] \in {"lookup", "record"}
            /\ pc' = pc \/ pc' = [pc EXCEPT ![x] = "capture"]
        BY <3>2 DEF Record, RecordNothing, Cancel
      <4> QED
        BY <3>0, <4>1
    <3>3. CASE EndFile(x)
      <4>1. \E c \in {"lookup", "again", "capture"} : pc' = [pc EXCEPT ![x] = c]
        BY <3>3 DEF EndFile
      <4> QED
        BY <3>0, <4>1
    <3> QED
      BY <1>5, <3>1, <3>2, <3>3
  <2> QED
    BY <1>5, <1>n, <2>1, <2>2
<1>6. ASSUME NEW x \in Calls, Others(x), NEW p \in Paths, LookUp(x, p) PROVE BasedOnSeen'
  <2>1. UNCHANGED <<seen, slipped>> /\ pc' = [pc EXCEPT ![x] = "record"]
    BY <1>0, <1>6, LookUpIs DEF ghost
  <2>2. pc'[x] = "record"
    BY <1>0, <2>1 DEF TypeOK
  <2> QED
    BY <1>6, <1>n, <2>1, <2>2
<1>7. ASSUME NEW x \in Calls, Others(x),
             NEW t \in Starts, NEW s \in Sessions, NEW ps \in (SUBSET Paths) \ {{}},
             Refuse(x, t, s, ps)
      PROVE  BasedOnSeen'
  <2>1. pc'[x] \in {"again", "capture", "done"} /\ UNCHANGED <<seen, slipped>>
    BY <1>0, <1>7 DEF Refuse, ghost, TypeOK
  <2> QED
    BY <1>7, <1>n, <2>1
<1>8. ASSUME NEW p \in Paths, EditOutside(p), Elsewhere PROVE BasedOnSeen'
  <2>1. seen' = seen /\ slipped \subseteq slipped' /\ UNCHANGED <<pc, todo, old>>
    BY <1>8 DEF EditOutside, what
  <2> QED
    BY <1>0, <2>1 DEF BasedOnSeen
<1>9. ASSUME (\E p \in Paths : RemoveOutside(p)) \/ Pass \/ UNCHANGED vars, Elsewhere PROVE BasedOnSeen'
  <2>1. UNCHANGED <<pc, todo, old, seen, slipped>>
    BY <1>9 DEF RemoveOutside, Pass, vars, Elsewhere, what, ghost
  <2> QED
    BY <1>0, <2>1 DEF BasedOnSeen
<1> QED
  BY <1>0, <1>1, <1>2, <1>3, <1>4, <1>5, <1>6, <1>7, <1>8, <1>9, <1>10, StepsAre DEF Acts

\* A failure keeps its excuse, and a new one has one.
LEMMA ExcusesStep == ASSUME IInv, [Next]_vars PROVE ExcusesTrue'
<1>0. TypeOK /\ PlacesTrue /\ \A x \in Calls : Excused(x) /\ Owned(x) /\ Placed(x)
  BY DEF IInv, ExcusesTrue, PlacesTrue
<1>p. pc \in [Calls -> States]
  BY <1>0 DEF TypeOK
<1>s. ASSUME NEW x \in Calls, Others(x), Excused(x)' PROVE ExcusesTrue'
  <2>1. \A y \in Calls \ {x} : Targets(y)' = Targets(y)
    BY <1>s DEF Targets, Others
  <2> QED
    BY <1>0, <1>s, <2>1 DEF ExcusesTrue, Excused, Others
<1>n. ASSUME NEW x \in Calls, Others(x), pc'[x] \notin {"capture", "done"} PROVE ExcusesTrue'
  BY <1>s, <1>n DEF Excused
<1>1. ASSUME NEW x \in Calls, Others(x),
             NEW t \in Starts, NEW s \in Sessions, NEW ps \in (SUBSET Paths) \ {{}},
             NEW m \in Moves(t, ps), Start(x, t, s, ps, m) \/ Refuse(x, t, s, ps)
      PROVE  ExcusesTrue'
  <2>1. pc[x] = "idle" /\ wrote' = wrote
    BY <1>1 DEF Start, Refuse
  <2>2. wrote[x] = {}
    BY <1>0, <2>1 DEF Owned
  <2> QED
    BY <1>1, <1>s, <2>1, <2>2 DEF Excused
<1>2. ASSUME NEW x \in Calls, Others(x), Deny(x) PROVE ExcusesTrue'
  <2>1. pc[x] = "asking" /\ UNCHANGED <<tool, wrote>>
    BY <1>2 DEF Deny, Goto, what
  <2>2. tool[x] # "redo" => wrote[x] = {}
    BY <1>0, <2>1 DEF Placed
  <2> QED
    BY <1>2, <1>s, <2>1, <2>2 DEF Excused
<1>3. ASSUME NEW x \in Calls, Others(x), FailWrite(x) PROVE ExcusesTrue'
  <2>1. pc[x] \in {"writing", "moving"} /\ UNCHANGED <<tool, files, dest, wrote, todo>>
    BY <1>3 DEF FailWrite, what
  <2>2. Placed(x)
    BY <1>0
  <2>3. ASSUME tool[x] \notin Patches, tool[x] # "redo" PROVE wrote[x] = {}
    <3>1. tool[x] # "update"
      BY <2>3 DEF Patches
    <3>2. Targets(x) = {}
      BY <1>0, <2>2, <3>1 DEF Placed, Targets, TypeOK
    <3>3. todo[x] = files[x]
      BY <2>1, <2>2, <2>3 DEF Placed
    <3> QED
      BY <2>1, <2>2, <2>3, <3>2, <3>3 DEF Placed
  <2>4. Targets(x)' = Targets(x)
    BY <2>1 DEF Targets
  <2>5. todo[x] # {} /\ (tool[x] # "redo" => todo[x] \cap wrote[x] \subseteq Targets(x))
    BY <2>1, <2>2 DEF Placed
  <2>6. "redo" \notin Patches
    BY DEF Patches
  <2>7. Excused(x)'
    BY <2>1, <2>3, <2>4, <2>5, <2>6 DEF Excused
  <2> QED
    BY <1>3, <1>s, <2>7
<1>4. ASSUME NEW x \in Calls, Others(x), FailAgain(x) PROVE ExcusesTrue'
  <2>1. pc[x] = "again" /\ UNCHANGED <<tool, wrote>>
    BY <1>4 DEF FailAgain, Goto, what
  <2>2. tool[x] \in {"create", "delete"}
    BY <1>0, <2>1 DEF Placed
  <2> QED
    BY <1>4, <1>s, <2>1, <2>2 DEF Excused
<1>5. ASSUME NEW x \in Calls, Others(x), EndFile(x) \/ EndView(x) PROVE ExcusesTrue'
  <2>1. reply' = [reply EXCEPT ![x] = "ok"]
    BY <1>5 DEF EndFile, EndView
  <2>2. reply'[x] = "ok"
    BY <1>0, <2>1 DEF TypeOK
  <2> QED
    BY <1>5, <1>s, <2>2 DEF Excused
<1>6. ASSUME NEW x \in Calls, Others(x), OnToolCompleted(x) PROVE ExcusesTrue'
  <2>1. pc[x] = "capture" /\ UNCHANGED <<tool, files, dest, wrote, todo, reply, dead>>
    BY <1>6 DEF OnToolCompleted, Goto, what
  <2>2. Targets(x)' = Targets(x)
    BY <2>1 DEF Targets
  <2> QED
    BY <1>0, <1>6, <1>s, <2>1, <2>2 DEF Excused
<1>7. ASSUME NEW x \in Calls, Others(x), RecordNothing(x) PROVE ExcusesTrue'
  BY <1>s, <1>7 DEF RecordNothing, Excused
<1>8. ASSUME NEW x \in Calls, Others(x), Approve(x) \/ ReplaceAgain(x) PROVE ExcusesTrue'
  <2>1. \E c \in {"writing", "asking"} : pc' = [pc EXCEPT ![x] = c]
    BY <1>8 DEF Approve, ReplaceAgain, Goto
  <2> QED
    BY <1>8, <1>n, <1>p, <2>1
<1>9. ASSUME NEW x \in Calls, Others(x), NEW p \in Paths, Changes(x, p) \/ MoveFile(x, p) \/ LookUp(x, p)
      PROVE  ExcusesTrue'
  <2>1. CASE Changes(x, p)
    <3>1. pc'[x] \in {"lookup", "writing"}
      BY <1>0, <2>1, ChangeIs
    <3> QED
      BY <1>9, <1>n, <3>1
  <2>2. CASE MoveFile(x, p) \/ LookUp(x, p)
    <3>1. \E c \in {"moving", "record"} : pc' = [pc EXCEPT ![x] = c]
      BY <2>2 DEF MoveFile, LookUp, Goto
    <3> QED
      BY <1>9, <1>n, <1>p, <3>1
  <2> QED
    BY <1>9, <2>1, <2>2
<1>10. ASSUME NEW x \in Calls, Others(x), Record(x) \/ Cancel(x) PROVE ExcusesTrue'
  <2>1. pc[x] \in {"lookup", "record"} /\ pc' = pc
    BY <1>10 DEF Record, Cancel
  <2> QED
    BY <1>10, <1>n, <1>p, <2>1
<1>11. CASE Elsewhere
  BY <1>0, <1>11 DEF ExcusesTrue, Excused, Targets, Elsewhere, what
<1> QED
  BY <1>0, <1>1, <1>2, <1>3, <1>4, <1>5, <1>6, <1>7, <1>8, <1>9, <1>10, <1>11, StepsAre DEF Acts

------------------------------------------------------------------------------
\* No row is ever lost, and what the history tells it goes on telling.
LEMMA RowsGrow == ASSUME IInv, [Next]_vars PROVE rows \subseteq rows'
<1>0. TypeOK /\ PlacesTrue
  BY DEF IInv
<1>1. ASSUME NEW x \in Calls, Record(x) PROVE rows \subseteq rows'
  BY <1>1, RecordIs
<1>2. ASSUME NEW x \in Calls, NEW p \in Paths, Changes(x, p) \/ MoveFile(x, p) \/ LookUp(x, p)
      PROVE  rows' = rows
  BY <1>2 DEF Changes, WriteFile, RemoveMoved, MoveFile, LookUp, history
<1>3. ASSUME NEW x \in Calls,
             \/ Deny(x) \/ Approve(x) \/ FailWrite(x) \/ RecordNothing(x) \/ EndFile(x) \/ EndView(x)
             \/ FailAgain(x) \/ ReplaceAgain(x) \/ OnToolCompleted(x) \/ Cancel(x)
      PROVE  rows' = rows
  BY <1>3 DEF Deny, Approve, FailWrite, RecordNothing, EndFile, EndView, FailAgain, ReplaceAgain,
              OnToolCompleted, Cancel, history
<1>4. ASSUME NEW x \in Calls,
             NEW t \in Starts, NEW s \in Sessions, NEW ps \in (SUBSET Paths) \ {{}},
             NEW m \in Moves(t, ps), Start(x, t, s, ps, m) \/ Refuse(x, t, s, ps)
      PROVE  rows' = rows
  BY <1>4 DEF Start, Refuse, history
<1>5. CASE Elsewhere
  BY <1>5 DEF Elsewhere
<1> QED
  BY <1>0, <1>1, <1>2, <1>3, <1>4, <1>5, StepsAre DEF Acts

LEMMA HistoryGrows ==
  ASSUME rows \subseteq rows', NEW s, NEW p
  PROVE  /\ OfSession(s, p) \subseteq OfSession(s, p)'
         /\ Taken(s, p) \subseteq Taken(s, p)'
         /\ Crowded(s, p) => Crowded(s, p)'
<1>1. OfSession(s, p) \subseteq OfSession(s, p)'
  BY DEF OfSession, OfPath
<1>2. Taken(s, p) \subseteq Taken(s, p)'
  BY <1>1 DEF Taken
<1>3. Crowded(s, p) => Crowded(s, p)'
  BY <1>2 DEF Crowded
<1> QED
  BY <1>1, <1>2, <1>3

LEMMA ToldStays ==
  ASSUME rows \subseteq rows', NEW x, NEW p, Told(x, p), owner'[x] = owner[x], tool'[x] = tool[x],
         new'[x] = new[x]
  PROVE  Told(x, p)'
<1>1. Recorded(x)' = Recorded(x)
  BY DEF Recorded
<1>2. CASE \E r \in OfSession(owner[x], p) : r.content = Recorded(x)
  BY <1>1, <1>2, HistoryGrows DEF Told
<1>3. CASE Crowded(owner[x], p)
  BY <1>3, HistoryGrows DEF Told, Crowded
<1> QED
  BY <1>2, <1>3 DEF Told

\* What a call has recorded is in the history, or does not fit.
LEMMA TellingStep == ASSUME IInv, [Next]_vars PROVE TellingTrue'
<1>0. TypeOK /\ PlacesTrue /\ \A x \in Calls : Telling(x) /\ Owned(x) /\ Placed(x)
  BY DEF IInv, TellingTrue, PlacesTrue
<1>p. pc \in [Calls -> States]
  BY <1>0 DEF TypeOK
<1>g. rows \subseteq rows'
  BY RowsGrow
<1>y. ASSUME NEW x \in Calls, Others(x), NEW y \in Calls, y # x PROVE Telling(y)'
  <2>1. \A p : Told(y, p) => Told(y, p)'
    BY <1>g, <1>y, ToldStays DEF Others
  <2> QED
    BY <1>0, <1>y, <2>1 DEF Telling, Others, NextOp
<1>s. ASSUME NEW x \in Calls, Others(x), Telling(x)' PROVE TellingTrue'
  BY <1>s, <1>y DEF TellingTrue
<1>n. ASSUME NEW x \in Calls, Others(x), pc'[x] \notin {"lookup", "record", "capture", "done"}
      PROVE  TellingTrue'
  BY <1>s, <1>n DEF Telling
<1>1. ASSUME NEW x \in Calls, Others(x),
             NEW t \in Starts, NEW s \in Sessions, NEW ps \in (SUBSET Paths) \ {{}},
             NEW m \in Moves(t, ps), Start(x, t, s, ps, m) \/ Refuse(x, t, s, ps)
      PROVE  TellingTrue'
  <2>1. /\ pc'[x] \in {"read", "asking", "again", "capture", "done"} /\ pc[x] = "idle"
        /\ wrote' = wrote
    BY <1>p, <1>1 DEF Start, Refuse
  <2>2. wrote[x] = {}
    BY <1>0, <2>1 DEF Owned
  <2> QED
    BY <1>1, <1>s, <2>1, <2>2 DEF Telling
<1>2. ASSUME NEW x \in Calls, Others(x), Deny(x) \/ FailWrite(x) \/ FailAgain(x) PROVE TellingTrue'
  <2>1. /\ \E c \in {"denied", "error", "failed"} : reply' = [reply EXCEPT ![x] = c]
        /\ pc' = [pc EXCEPT ![x] = "capture"]
    BY <1>2 DEF Deny, FailWrite, FailAgain, Goto
  <2>2. reply'[x] # "ok" /\ pc'[x] = "capture"
    BY <1>0, <2>1 DEF TypeOK
  <2> QED
    BY <1>2, <1>s, <2>2 DEF Telling
<1>3. ASSUME NEW x \in Calls, Others(x), Approve(x) \/ ReplaceAgain(x) PROVE TellingTrue'
  <2>1. \E c \in {"writing", "asking"} : pc' = [pc EXCEPT ![x] = c]
    BY <1>3 DEF Approve, ReplaceAgain, Goto
  <2> QED
    BY <1>3, <1>n, <1>p, <2>1
<1>4. ASSUME NEW x \in Calls, Others(x), NEW p \in Paths, Changes(x, p) PROVE TellingTrue'
  <2>1. files' = files /\ (pc'[x] = "writing" \/ (pc'[x] = "lookup" /\ todo'[x] = files[x]))
    BY <1>0, <1>4, ChangeIs DEF what
  <2> QED
    BY <1>4, <1>s, <2>1 DEF Telling
<1>12. ASSUME NEW x \in Calls, Others(x), NEW p \in Paths, MoveFile(x, p) PROVE TellingTrue'
  <2>1. pc'[x] = "moving"
    BY <1>0, <1>12, MoveIs
  <2> QED
    BY <1>12, <1>n, <2>1
<1>5. ASSUME NEW x \in Calls, Others(x), NEW p \in Paths, LookUp(x, p) PROVE TellingTrue'
  <2>1. /\ pc[x] = "lookup" /\ pc' = [pc EXCEPT ![x] = "record"]
        /\ UNCHANGED <<what, todo, leaving, wrote, dead>>
    BY <1>0, <1>5, LookUpIs
  <2>2. PICK found \in BOOLEAN : \E last : ops' = [ops EXCEPT ![x] = Versions(x, p, found, last)]
    BY <1>0, <1>5, LookUpIs
  <2>3. PICK last : ops' = [ops EXCEPT ![x] = Versions(x, p, found, last)]
    BY <2>2
  <2> DEFINE v == Versions(x, p, found, last)
  <2>4. v \in Seq(OpSet) /\ Len(v) \in 2 .. 4 /\ \A i \in 1 .. Len(v) - 1 : v[i].kind # "read"
    BY <1>0, VersionsAre
  <2>5. ops'[x] = v
    BY <1>0, <2>3 DEF TypeOK
  <2> HIDE DEF v
  <2>6. Head(v).kind # "read"
    <3>1. PICK n \in 2 .. 4 : n = Len(v)
      BY <2>4
    <3>2. 1 \in 1 .. n - 1 /\ Len(v) # 0
      BY <3>1
    <3>3. v[1].kind # "read"
      BY <2>4, <3>1, <3>2
    <3>4. Head(v) = v[1]
      BY <2>4, <3>2
    <3> QED
      BY <3>3, <3>4
  <2>7. NextOp(x)'.kind # "read" /\ pc'[x] = "record"
    BY <1>p, <2>1, <2>5, <2>6 DEF NextOp
  <2>8. \A q \in files[x] \ todo[x] : x \notin dead => Told(x, q)
    BY <1>0, <2>1 DEF Telling
  <2>9. \A q : Told(x, q) => Told(x, q)'
    BY <1>g, <2>1, ToldStays DEF what
  <2> QED
    BY <1>5, <1>s, <2>1, <2>7, <2>8, <2>9 DEF Telling, what
<1>6. ASSUME NEW x \in Calls, Others(x), Record(x) PROVE TellingTrue'
  <2> DEFINE o == NextOp(x)
             u == Tail(ops[x])
  <2>1. /\ pc[x] = "record" /\ x \notin dead /\ o.kind \in {"create", "version"}
        /\ ops' = [ops EXCEPT ![x] = Tail(@)] /\ pc' = pc
        /\ UNCHANGED <<what, todo, leaving, wrote, dead>>
    BY <1>6, RecordIs
  <2>2. \/ rows' = rows /\ (o.kind = "version" => Crowded(owner[x], o.path))
        \/ \E v \in Nat : rows' = rows \cup {[sess |-> owner[x], path |-> o.path, ver |-> v,
                                              content |-> o.content, sec |-> sec]}
    BY <1>6, RecordIs
  <2>3. \A q : Told(x, q) => Told(x, q)'
    BY <1>g, <2>1, ToldStays DEF what
  <2>4. /\ ops[x] \in Seq(OpSet) /\ Len(ops[x]) \in Nat /\ o = ops[x][1]
        /\ o.path = ops[x][Len(ops[x])].path
        /\ Len(u) = Len(ops[x]) - 1 /\ u \in Seq(OpSet)
        /\ \A i \in 1 .. Len(ops[x]) - 1 : u[i] = ops[x][i + 1]
    BY <1>0, <2>1, OpsAre
  <2>5. Len(ops[x]) >= 2
    BY <1>6, RecordIs
  <2>6. PICK n \in Nat : n = Len(ops[x])
    BY <2>4
  <2>7. /\ \A i \in 1 .. n - 1 : ops[x][i].kind # "read"
        /\ n >= 2 => ops[x][n - 1] = Op("version", ops[x][n].path, Recorded(x))
    BY <1>0, <2>1, <2>6 DEF PlacesTrue, OpsTrue
  <2>8. n >= 2 /\ Len(u) = n - 1 /\ \A i \in 1 .. n - 1 : u[i] = ops[x][i + 1]
    BY <2>4, <2>5, <2>6
  <2>9. NextOp(x)' = u[1]
    <3>1. ops'[x] = u
      BY <1>0, <2>1 DEF TypeOK
    <3> HIDE DEF u
    <3>2. Head(u) = u[1]
      BY <2>4, <2>8
    <3> QED
      BY <3>1, <3>2 DEF NextOp
  <2>10. u[1] = ops[x][2]
    BY <2>8
  <2>11. ASSUME NEW p \in Paths, NextOp(x)'.kind = "read", NextOp(x)'.path = p PROVE Told(x, p)'
    <3>1. n = 2
      <4>1. ops[x][2].kind = "read"
        BY <2>9, <2>10, <2>11
      <4>2. ~(2 \in 1 .. n - 1)
        BY <2>7, <4>1
      <4> QED
        BY <2>8, <4>2
    <3>2. o = Op("version", ops[x][2].path, Recorded(x)) /\ ops[x][2].path = p
      <4>1. n - 1 = 1 /\ n >= 2
        BY <3>1
      <4>2. ops[x][1] = Op("version", ops[x][2].path, Recorded(x))
        BY <2>7, <3>1, <4>1
      <4>3. ops[x][2].path = p
        BY <2>9, <2>10, <2>11
      <4> QED
        BY <2>4, <4>2, <4>3
    <3>3. o.kind = "version" /\ o.path = p /\ o.content = Recorded(x)
      BY <3>2 DEF Op
    <3>4. Recorded(x)' = Recorded(x) /\ owner' = owner
      BY <2>1 DEF Recorded, what
    <3>5. CASE rows' = rows /\ (o.kind = "version" => Crowded(owner[x], o.path))
      <4>1. Told(x, p)
        BY <3>3, <3>5 DEF Told
      <4> QED
        BY <2>3, <4>1
    <3>6. ASSUME NEW v \in Nat,
                 rows' = rows \cup {[sess |-> owner[x], path |-> o.path, ver |-> v,
                                     content |-> o.content, sec |-> sec]}
          PROVE  Told(x, p)'
      <4> DEFINE r == [sess |-> owner[x], path |-> p, ver |-> v, content |-> Recorded(x), sec |-> sec]
      <4>1. r \in rows'
        BY <3>3, <3>6
      <4>2. r.path = p /\ r.sess = owner[x] /\ r.content = Recorded(x)
        OBVIOUS
      <4> HIDE DEF r
      <4>3. \E q \in OfSession(owner[x], p)' : q.content = Recorded(x)
        BY <3>4, <4>1, <4>2 DEF OfSession, OfPath
      <4> QED
        BY <3>4, <4>3 DEF Told
    <3> QED
      BY <2>2, <3>5, <3>6
  <2>12. \A q \in files[x] \ todo[x] : Told(x, q)
    BY <1>0, <2>1 DEF Telling
  <2> QED
    BY <1>6, <1>s, <2>1, <2>3, <2>11, <2>12 DEF Telling, what
<1>7. ASSUME NEW x \in Calls, Others(x), RecordNothing(x) \/ Cancel(x) PROVE TellingTrue'
  <2>1. x \in dead'
    BY <1>7 DEF RecordNothing, Cancel
  <2> QED
    BY <1>7, <1>s, <2>1 DEF Telling
<1>8. ASSUME NEW x \in Calls, Others(x), EndFile(x) PROVE TellingTrue'
  <2> DEFINE p == NextOp(x).path
  <2>1. /\ pc[x] = "record" /\ NextOp(x).kind = "read" /\ todo' = [todo EXCEPT ![x] = @ \ {p}]
        /\ UNCHANGED <<what, wrote, dead>>
        /\ pc' = [pc EXCEPT ![x] = IF todo[x] # {p} THEN "lookup"
                                ELSE IF tool[x] \in {"create", "delete"} THEN "again"
                                ELSE "capture"]
    BY <1>8 DEF EndFile
  <2>0. p \in Paths
    BY <1>0, <2>1, OpsAre DEF TypeOK
  <2>2. x \notin dead => Told(x, p) /\ \A q \in files[x] \ todo[x] : Told(x, q)
    BY <1>0, <2>0, <2>1 DEF Telling
  <2>3. \A q : Told(x, q) => Told(x, q)'
    BY <1>g, <2>1, ToldStays DEF what
  <2> HIDE DEF p
  <2>4. /\ todo'[x] = todo[x] \ {p} /\ pc'[x] \in {"lookup", "again", "capture"}
        /\ pc'[x] = "capture" => todo[x] = {p}
    BY <1>0, <2>1 DEF TypeOK
  <2>5. x \notin dead' => \A q \in files'[x] \ todo'[x] : Told(x, q)'
    BY <2>1, <2>2, <2>3, <2>4 DEF what
  <2>6. x \notin dead' /\ pc'[x] = "capture" => \A q \in files'[x] : Told(x, q)'
    BY <2>1, <2>2, <2>3, <2>4 DEF what
  <2> QED
    BY <1>8, <1>s, <2>4, <2>5, <2>6 DEF Telling
<1>9. ASSUME NEW x \in Calls, Others(x), EndView(x) PROVE TellingTrue'
  <2>1. pc[x] = "read" /\ wrote' = wrote /\ pc' = [pc EXCEPT ![x] = "done"]
    BY <1>9 DEF EndView, Goto
  <2>2. wrote[x] = {} /\ pc'[x] = "done"
    BY <1>0, <1>p, <2>1 DEF Placed
  <2> QED
    BY <1>9, <1>s, <2>1, <2>2 DEF Telling
<1>10. ASSUME NEW x \in Calls, Others(x), OnToolCompleted(x) PROVE TellingTrue'
  <2>1. pc[x] = "capture" /\ pc' = [pc EXCEPT ![x] = "done"] /\ UNCHANGED <<what, wrote, reply, dead>>
    BY <1>10 DEF OnToolCompleted, Goto
  <2>2. pc'[x] = "done"
    BY <1>p, <2>1
  <2>3. \A q : Told(x, q) => Told(x, q)'
    BY <1>g, <2>1, ToldStays DEF what
  <2> QED
    BY <1>0, <1>10, <1>s, <2>1, <2>2, <2>3 DEF Telling, what
<1>11. CASE Elsewhere
  <2>1. ASSUME NEW y \in Calls PROVE Telling(y)'
    <3>1. \A p : Told(y, p) => Told(y, p)'
      BY <1>g, <1>11, ToldStays DEF Elsewhere, what
    <3> QED
      BY <1>0, <1>11, <3>1 DEF Telling, Elsewhere, NextOp, what
  <2> QED
    BY <2>1 DEF TellingTrue
<1> QED
  BY <1>0, <1>1, <1>2, <1>3, <1>4, <1>5, <1>6, <1>7, <1>8, <1>9, <1>10, <1>11, <1>12, StepsAre DEF Acts

------------------------------------------------------------------------------
\* The call that promises a file is the only one of its session that runs.
LEMMA PromiserRuns ==
  ASSUME IInv, NEW x \in Calls, Running(x), NEW y \in Calls, owner[y] = owner[x], NEW p, Promises(y, p)
  PROVE  y = x
<1>1. Running(y)
  BY DEF Promises, Running
<1> QED
  BY <1>1 DEF IInv, OneRuns

\* A step that records nothing and breaks no promise.
LEMMA FirstKept ==
  ASSUME IInv, NEW x \in Calls, Others(x), UNCHANGED <<rows, owner, wrote, orig>>,
         \A q \in Paths : Promises(x, q) /\ OfSession(owner[x], q) = {} => Promises(x, q)'
  PROVE  WrittenTrue' /\ FirstTrue' /\ OriginalKept'
<1>1. WrittenTrue' /\ OriginalKept'
  BY DEF IInv, WrittenTrue, OriginalKept
<1>2. ASSUME NEW s \in Sessions, NEW p \in Paths, OfSession(s, p) = {}, Opened(s, p)
      PROVE  OfSession(s, p)' = {} /\ Opened(s, p)'
  <2>1. OfSession(s, p)' = {}
    BY <1>2 DEF OfSession, OfPath
  <2>2. CASE \A y \in Calls : owner[y] = s => p \notin wrote[y]
    BY <2>1, <2>2 DEF Opened
  <2>3. ASSUME NEW y \in Calls, owner[y] = s, Promises(y, p) PROVE Promises(y, p)'
    <3>1. CASE y = x
      BY <1>2, <2>3, <3>1
    <3>2. CASE y # x
      BY <2>3, <3>2 DEF Promises, Others, NextOp, Op
    <3> QED
      BY <3>1, <3>2
  <2> QED
    BY <1>2, <2>1, <2>2, <2>3 DEF Opened
<1>3. FirstTrue'
  <2>1. \A s, p : Taken(s, p)' = Taken(s, p)
    BY DEF Taken, OfSession, OfPath
  <2> QED
    BY <1>2, <2>1 DEF IInv, FirstTrue
<1> QED
  BY <1>1, <1>3

LEMMA FirstStep == ASSUME IInv, [Next]_vars PROVE WrittenTrue' /\ FirstTrue' /\ OriginalKept'
<1>0. /\ TypeOK /\ PlacesTrue /\ WrittenTrue /\ FirstTrue /\ OriginalKept /\ RowsTrue /\ OneRuns
      /\ \A x \in Calls : Owned(x) /\ Placed(x) /\ OpsTrue(x)
  BY DEF IInv, PlacesTrue
<1>p. pc \in [Calls -> States]
  BY <1>0 DEF TypeOK
<1>r. \A r \in rows : r.sess \in Sessions /\ r.path \in Paths /\ r.content \in Contents
  BY <1>0 DEF TypeOK, HistoryTypeOK, Row, RowsTrue
<1>1. ASSUME NEW x \in Calls, Others(x),
             \/ Deny(x) \/ Approve(x) \/ FailAgain(x) \/ ReplaceAgain(x) \/ OnToolCompleted(x)
             \/ EndView(x)
      PROVE  WrittenTrue' /\ FirstTrue' /\ OriginalKept'
  <2>1. UNCHANGED <<rows, owner, wrote, orig>>
    BY <1>1 DEF Deny, Approve, FailAgain, ReplaceAgain, OnToolCompleted, EndView, history, what, ghost
  <2>2. pc[x] \in {"asking", "again", "capture", "read"}
    BY <1>1 DEF Deny, Approve, FailAgain, ReplaceAgain, OnToolCompleted, EndView, Goto
  <2>3. \A q \in Paths : ~Promises(x, q)
    BY <2>2 DEF Promises
  <2> QED
    BY <1>1, <2>1, <2>3, FirstKept
<1>2. ASSUME NEW x \in Calls, Others(x), Cancel(x)
      PROVE  WrittenTrue' /\ FirstTrue' /\ OriginalKept'
  <2>1. UNCHANGED <<rows, what, wrote, orig, pc, todo, ops>>
    BY <1>2 DEF Cancel, history, ghost
  <2>2. \A q \in Paths : Promises(x, q) => Promises(x, q)'
    BY <2>1 DEF Promises, NextOp, what, Op
  <2> QED
    BY <1>2, <2>1, <2>2, FirstKept DEF what
<1>3. ASSUME NEW x \in Calls, Others(x), EndFile(x)
      PROVE  WrittenTrue' /\ FirstTrue' /\ OriginalKept'
  <2> DEFINE p == NextOp(x).path
  <2>1. /\ UNCHANGED <<history, what, wrote, ghost>>
        /\ pc[x] = "record" /\ NextOp(x).kind = "read" /\ todo' = [todo EXCEPT ![x] = @ \ {p}]
        /\ todo[x] # {p} => pc' = [pc EXCEPT ![x] = "lookup"]
    BY <1>3 DEF EndFile, ghost
  <2>2. ASSUME NEW q \in Paths, Promises(x, q) PROVE Promises(x, q)'
    <3>1. q # p
      BY <2>1, <2>2 DEF Promises, Op
    <3> HIDE DEF p
    <3>2. q \in todo'[x] /\ pc'[x] = "lookup"
      BY <1>0, <1>p, <2>1, <2>2, <3>1 DEF Promises, TypeOK
    <3> QED
      BY <2>1, <2>2, <3>2 DEF Promises, what, ghost
  <2> QED
    BY <1>3, <2>1, <2>2, FirstKept DEF history, what, ghost
<1>4. ASSUME NEW x \in Calls, Others(x), NEW p \in Paths, LookUp(x, p)
      PROVE  WrittenTrue' /\ FirstTrue' /\ OriginalKept'
  <2>1. /\ pc[x] = "lookup" /\ pc' = [pc EXCEPT ![x] = "record"]
        /\ UNCHANGED <<history, what, todo, leaving, wrote, ghost>>
    BY <1>0, <1>4, LookUpIs
  <2>2. PICK found \in BOOLEAN : \E last :
          /\ ops' = [ops EXCEPT ![x] = Versions(x, p, found, last)]
          /\ found => OfSession(owner[x], p) # {}
    BY <1>0, <1>4, LookUpIs
  <2>3. PICK last : /\ ops' = [ops EXCEPT ![x] = Versions(x, p, found, last)]
                    /\ found => OfSession(owner[x], p) # {}
    BY <2>2
  <2> DEFINE v == Versions(x, p, found, last)
  <2>4. /\ v \in Seq(OpSet) /\ Len(v) \in 2 .. 4 /\ \A i \in 1 .. Len(v) : v[i].path = p
        /\ tool[x] # "add" /\ ~found => v[1] = Op("create", p, old[x][p])
    BY <1>0, VersionsAre
  <2>5. ops'[x] = v
    BY <1>0, <2>3 DEF TypeOK
  <2> HIDE DEF v
  <2>6. Head(v) = v[1] /\ v[1].path = p
    <3>1. PICK n \in 2 .. 4 : n = Len(v)
      BY <2>4
    <3>2. Len(v) # 0 /\ 1 \in 1 .. n
      BY <3>1
    <3> QED
      BY <2>4, <3>1, <3>2
  <2>7. NextOp(x)' = v[1] /\ pc'[x] = "record"
    BY <1>p, <2>1, <2>5, <2>6 DEF NextOp
  <2>8. ASSUME NEW q \in Paths, Promises(x, q), OfSession(owner[x], q) = {} PROVE Promises(x, q)'
    <3>1. CASE q = p
      <4>1. v[1] = Op("create", q, old[x][q])
        BY <2>3, <2>4, <2>8, <3>1 DEF Promises
      <4> QED
        BY <2>1, <2>7, <2>8, <4>1 DEF Promises, what, ghost, Op
    <3>2. CASE q # p
      BY <2>1, <2>6, <2>7, <2>8, <3>2 DEF Promises, what, ghost
    <3> QED
      BY <3>1, <3>2
  <2> QED
    BY <1>4, <2>1, <2>8, FirstKept DEF history, what, ghost
<1>5. ASSUME NEW x \in Calls, Others(x),
             NEW t \in Starts, NEW s \in Sessions, NEW ps \in (SUBSET Paths) \ {{}},
             NEW m \in Moves(t, ps), Start(x, t, s, ps, m) \/ Refuse(x, t, s, ps)
      PROVE  WrittenTrue' /\ FirstTrue' /\ OriginalKept'
  <2>1. pc[x] = "idle" /\ UNCHANGED <<rows, wrote, orig>>
    BY <1>5 DEF Start, Refuse, history, ghost
  <2>2. wrote[x] = {} /\ \A q : ~Promises(x, q)
    BY <1>0, <2>1 DEF Owned, Promises
  <2>3. WrittenTrue'
    BY <1>0, <1>5, <2>1, <2>2 DEF WrittenTrue, Others
  <2>4. OriginalKept'
    BY <1>0, <2>1 DEF OriginalKept
  <2>5. ASSUME NEW y \in Calls, NEW q, Promises(y, q) PROVE Promises(y, q)' /\ owner'[y] = owner[y]
    <3>1. y # x
      BY <2>2, <2>5
    <3> QED
      BY <1>5, <2>1, <2>5, <3>1 DEF Promises, Others, NextOp, Op
  <2>6. \A u, q : OfSession(u, q)' = OfSession(u, q) /\ Taken(u, q)' = Taken(u, q)
    BY <2>1 DEF Taken, OfSession, OfPath
  <2>7. \A u \in Sessions, q \in Paths : Opened(u, q) => Opened(u, q)'
    BY <1>5, <2>1, <2>2, <2>5 DEF Opened, Others
  <2>8. FirstTrue'
    BY <1>0, <2>1, <2>6, <2>7 DEF FirstTrue
  <2> QED
    BY <2>3, <2>4, <2>8
<1>6. ASSUME NEW x \in Calls, Others(x), NEW p \in Paths, Changes(x, p)
      PROVE  WrittenTrue' /\ FirstTrue' /\ OriginalKept'
  <2> DEFINE c == IF tool[x] = "add" \/ old[x][p] # Text(p) THEN Contents ELSE {Text(p)}
  <2>3. PICK s \in Sessions : s = owner[x]
    BY <1>0, <1>6, ChangeIs
  <2>1. /\ pc[x] \in {"writing", "moving"} /\ p \in todo[x] /\ p \in files[x]
        /\ UNCHANGED <<history, what>>
        /\ FirstVersion(x, p) /\ wrote'[x] = wrote[x] \cup {p}
        /\ pc'[x] = "writing" \/ (pc'[x] = "lookup" /\ todo'[x] = files[x])
    BY <1>0, <1>6, ChangeIs
  <2>2. /\ rows' = rows /\ wrote'[x] = wrote[x] \cup {p} /\ UNCHANGED what
        /\ pc'[x] = "writing" \/ (pc'[x] = "lookup" /\ todo'[x] = files[x])
    BY <2>1 DEF history
  <2>4. orig' = IF ~FirstWrite(x, p) THEN orig ELSE [orig EXCEPT ![s][p] = c]
    BY <2>1, <2>3 DEF FirstVersion
  <2>5. ~FirstWrite(x, p) => orig' = orig
    BY <2>4
  <2>6. /\ FirstWrite(x, p) => orig'[s][p] = c
        /\ \A u \in Sessions, q \in Paths : u # s \/ q # p => orig'[u][q] = orig[u][q]
    <3> HIDE DEF c
    <3> QED
      BY <1>0, <2>4 DEF TypeOK
  <2> HIDE DEF c
  <2>7. FirstWrite(x, p) => OfSession(s, p) = {}
    BY <1>0, <2>3 DEF FirstWrite, WrittenTrue, OfSession, OfPath
  <2>8. \A u, q : OfSession(u, q)' = OfSession(u, q) /\ Taken(u, q)' = Taken(u, q)
    BY <2>2 DEF Taken, OfSession, OfPath
  <2>9. WrittenTrue'
    <3>1. \A y \in Calls : wrote[y] \subseteq wrote'[y]
      BY <1>6, <2>2 DEF Others
    <3> QED
      BY <1>0, <2>2, <3>1 DEF WrittenTrue, what
  <2>10. OriginalKept'
    <3> SUFFICES ASSUME NEW r \in rows, r.ver = Initial PROVE r.content \in orig'[r.sess][r.path]
      BY <2>2 DEF OriginalKept
    <3>1. r.content \in orig[r.sess][r.path] /\ r.sess \in Sessions /\ r.path \in Paths
      BY <1>0, <1>r DEF OriginalKept
    <3>2. r.sess = s /\ r.path = p => ~FirstWrite(x, p)
      BY <2>7 DEF OfSession, OfPath
    <3> QED
      BY <2>5, <2>6, <3>1, <3>2
  <2>11. ASSUME NEW q \in Paths, Promises(x, q), orig'[s][q] = orig[s][q] PROVE Promises(x, q)'
    BY <2>1, <2>2, <2>3, <2>11 DEF Promises, what
  <2>12. ASSUME NEW u \in Sessions, NEW q \in Paths, u # s \/ q # p, OfSession(u, q) = {}, Opened(u, q)
         PROVE  Opened(u, q)'
    <3>1. CASE \A y \in Calls : owner[y] = u => q \notin wrote[y]
      <4>1. \A y \in Calls : owner'[y] = u => q \notin wrote'[y]
        BY <1>6, <2>1, <2>2, <2>3, <2>12, <3>1 DEF Others, what
      <4> QED
        BY <4>1 DEF Opened
    <3>2. ASSUME NEW y \in Calls, owner[y] = u, Promises(y, q) PROVE Promises(y, q)' /\ owner'[y] = u
      <4>0. orig'[u][q] = orig[u][q] /\ owner' = owner
        BY <2>1, <2>6, <2>12 DEF what
      <4>1. CASE y = x
        BY <2>3, <2>11, <3>2, <4>0, <4>1
      <4>2. CASE y # x
        BY <1>6, <3>2, <4>0, <4>2 DEF Promises, Others, NextOp, Op
      <4> QED
        BY <3>2, <4>0, <4>1, <4>2
    <3> QED
      BY <2>12, <3>1, <3>2 DEF Opened
  <2>13. CASE FirstWrite(x, p)
    <3>1. orig'[s][p] = Contents \/ (tool[x] # "add" /\ old[x][p] \in orig'[s][p])
      BY <2>6, <2>13 DEF c
    <3>2. OfSession(s, p)' = {}
      BY <2>7, <2>8, <2>13
    <3>3. tool[x] # "add" /\ old[x][p] \in orig'[s][p] => Opened(s, p)'
      <4>1. tool[x] # "add" /\ old[x][p] \in orig'[s][p] => Promises(x, p)'
        BY <2>1, <2>2, <2>3 DEF Promises, what
      <4> QED
        BY <2>1, <2>3, <4>1 DEF Opened, what
    <3> QED
      <4> SUFFICES ASSUME NEW u \in Sessions, NEW q \in Paths
                   PROVE  \/ orig'[u][q] = Contents
                          \/ Initial \in Taken(u, q)'
                          \/ OfSession(u, q)' = {} /\ Opened(u, q)'
        BY <2>9, <2>10 DEF FirstTrue
      <4>1. CASE u = s /\ q = p
        BY <3>1, <3>2, <3>3, <4>1
      <4>2. CASE u # s \/ q # p
        BY <1>0, <2>6, <2>8, <2>12, <4>2 DEF FirstTrue
      <4> QED
        BY <4>1, <4>2
  <2>14. CASE ~FirstWrite(x, p)
    <3>1. ASSUME OfSession(s, p) = {}, Opened(s, p) PROVE Opened(s, p)'
      <4>1. PICK y \in Calls : owner[y] = s /\ Promises(y, p)
        BY <2>3, <2>14, <3>1 DEF Opened, FirstWrite
      <4>2. y = x
        BY <2>1, <2>3, <4>1, PromiserRuns DEF Running
      <4>3. Promises(x, p)' /\ owner'[x] = s
        BY <2>1, <2>3, <2>5, <2>11, <2>14, <4>1, <4>2 DEF what
      <4> QED
        BY <4>3 DEF Opened
    <3> QED
      <4> SUFFICES ASSUME NEW u \in Sessions, NEW q \in Paths
                   PROVE  \/ orig'[u][q] = Contents
                          \/ Initial \in Taken(u, q)'
                          \/ OfSession(u, q)' = {} /\ Opened(u, q)'
        BY <2>9, <2>10 DEF FirstTrue
      <4>1. CASE u = s /\ q = p
        BY <1>0, <2>5, <2>8, <2>14, <3>1, <4>1 DEF FirstTrue
      <4>2. CASE u # s \/ q # p
        BY <1>0, <2>6, <2>8, <2>12, <4>2 DEF FirstTrue
      <4> QED
        BY <4>1, <4>2
  <2> QED
    BY <2>13, <2>14
<1>11. ASSUME NEW x \in Calls, Others(x), NEW f \in Paths, MoveFile(x, f)
      PROVE  WrittenTrue' /\ FirstTrue' /\ OriginalKept'
  <2>3. PICK s \in Sessions : s = owner[x]
    BY <1>0, <1>11, MoveIs
  <2>0. PICK p \in Paths : p = dest[x][f]
    BY <1>0, <1>11, MoveIs
  <2>1. /\ pc[x] = "writing" /\ pc'[x] = "moving" /\ wrote'[x] = wrote[x] \cup {p}
        /\ UNCHANGED <<history, what>>
        /\ orig' = IF FirstWrite(x, p) THEN [orig EXCEPT ![s][p] = Contents] ELSE orig
    BY <1>0, <1>11, <2>0, <2>3, MoveIs
  <2>2. rows' = rows
    BY <2>1 DEF history
  <2>5. ~FirstWrite(x, p) => orig' = orig
    BY <2>1
  <2>6. /\ FirstWrite(x, p) => orig'[s][p] = Contents
        /\ \A u \in Sessions, q \in Paths : u # s \/ q # p => orig'[u][q] = orig[u][q]
    BY <1>0, <2>1 DEF TypeOK
  <2>8. \A u, q : OfSession(u, q)' = OfSession(u, q) /\ Taken(u, q)' = Taken(u, q)
    BY <2>2 DEF Taken, OfSession, OfPath
  <2>9. WrittenTrue'
    <3>1. \A y \in Calls : wrote[y] \subseteq wrote'[y]
      BY <1>11, <2>1 DEF Others
    <3> QED
      BY <1>0, <2>1, <2>2, <3>1 DEF WrittenTrue, what
  <2>10. OriginalKept'
    <3> SUFFICES ASSUME NEW r \in rows, r.ver = Initial PROVE r.content \in orig'[r.sess][r.path]
      BY <2>2 DEF OriginalKept
    <3>1. /\ r.content \in orig[r.sess][r.path] /\ r.sess \in Sessions /\ r.path \in Paths
          /\ r.content \in Contents
      BY <1>0, <1>r DEF OriginalKept
    <3> QED
      BY <2>5, <2>6, <3>1
  <2>12. ASSUME NEW u \in Sessions, NEW q \in Paths, ~(FirstWrite(x, p) /\ u = s /\ q = p), Opened(u, q)
         PROVE  Opened(u, q)'
    <3>1. CASE \A y \in Calls : owner[y] = u => q \notin wrote[y]
      <4>1. ~(u = s /\ q = p)
        BY <2>3, <2>12, <3>1 DEF FirstWrite
      <4>2. \A y \in Calls : owner'[y] = u => q \notin wrote'[y]
        BY <1>11, <2>1, <2>3, <3>1, <4>1 DEF Others, what
      <4> QED
        BY <4>2 DEF Opened
    <3>2. ASSUME NEW y \in Calls, owner[y] = u, Promises(y, q) PROVE Promises(y, q)' /\ owner'[y] = u
      <4>0. orig'[u][q] = orig[u][q] /\ owner' = owner
        BY <2>1, <2>5, <2>6, <2>12 DEF what
      <4>1. CASE y = x
        BY <2>1, <3>2, <4>0, <4>1 DEF Promises, what
      <4>2. CASE y # x
        BY <1>11, <3>2, <4>0, <4>2 DEF Promises, Others, NextOp, Op
      <4> QED
        BY <3>2, <4>0, <4>1, <4>2
    <3> QED
      BY <2>12, <3>1, <3>2 DEF Opened
  <2>13. FirstTrue'
    <3> SUFFICES ASSUME NEW u \in Sessions, NEW q \in Paths
                 PROVE  \/ orig'[u][q] = Contents
                        \/ Initial \in Taken(u, q)'
                        \/ OfSession(u, q)' = {} /\ Opened(u, q)'
      BY DEF FirstTrue
    <3>1. CASE FirstWrite(x, p) /\ u = s /\ q = p
      BY <2>6, <3>1
    <3>2. CASE ~(FirstWrite(x, p) /\ u = s /\ q = p)
      BY <1>0, <2>5, <2>6, <2>8, <2>12, <3>2 DEF FirstTrue
    <3> QED
      BY <3>1, <3>2
  <2> QED
    BY <2>9, <2>10, <2>13
<1>7. ASSUME NEW x \in Calls, Others(x), FailWrite(x)
      PROVE  WrittenTrue' /\ FirstTrue' /\ OriginalKept'
  <2>0. PICK s \in Sessions : s = owner[x]
    BY <1>0, <1>7 DEF Owned, FailWrite
  <2>1. /\ UNCHANGED <<rows, what, wrote>> /\ pc[x] \in {"writing", "moving"}
        /\ orig' = [orig EXCEPT ![s] = [p \in Paths |-> IF p \in wrote[x] /\ OfSession(s, p) = {}
                                                       THEN Contents ELSE @[p]]]
    BY <1>7, <2>0 DEF FailWrite, history
  <2>2. /\ \A u \in Sessions \ {s} : orig'[u] = orig[u]
        /\ \A q \in Paths : orig'[s][q] = IF q \in wrote[x] /\ OfSession(s, q) = {}
                                          THEN Contents ELSE orig[s][q]
    BY <1>0, <2>1 DEF TypeOK
  <2>3. \A u, q : OfSession(u, q)' = OfSession(u, q) /\ Taken(u, q)' = Taken(u, q)
    BY <2>1 DEF Taken, OfSession, OfPath
  <2>4. WrittenTrue'
    BY <1>0, <2>1 DEF WrittenTrue, what
  <2>5. OriginalKept'
    <3> SUFFICES ASSUME NEW r \in rows, r.ver = Initial PROVE r.content \in orig'[r.sess][r.path]
      BY <2>1 DEF OriginalKept
    <3> QED
      BY <1>0, <1>r, <2>2 DEF OriginalKept
  <2>6. ASSUME NEW u \in Sessions, NEW q \in Paths, OfSession(u, q) = {}, Opened(u, q)
        PROVE  orig'[u][q] = Contents \/ Opened(u, q)'
    <3>1. CASE \A y \in Calls : owner[y] = u => q \notin wrote[y]
      BY <2>1, <3>1 DEF Opened, what
    <3>2. ASSUME NEW y \in Calls, owner[y] = u, Promises(y, q) PROVE orig'[u][q] = Contents \/ Opened(u, q)'
      <4>1. CASE u = s
        <5>1. y = x
          BY <2>0, <2>1, <3>2, <4>1, PromiserRuns DEF Running
        <5>2. q \in wrote[x]
          BY <3>2, <5>1 DEF Promises
        <5> QED
          BY <2>2, <2>6, <4>1, <5>2
      <4>2. CASE u # s
        <5>1. y # x /\ orig'[u] = orig[u]
          BY <2>0, <2>2, <3>2, <4>2
        <5>2. Promises(y, q)' /\ owner'[y] = u
          BY <1>7, <3>2, <5>1 DEF Promises, Others, NextOp, Op
        <5> QED
          BY <5>2 DEF Opened
      <4> QED
        BY <4>1, <4>2
    <3> QED
      BY <2>6, <3>1, <3>2 DEF Opened
  <2>7. FirstTrue'
    <3> SUFFICES ASSUME NEW u \in Sessions, NEW q \in Paths
                 PROVE  \/ orig'[u][q] = Contents
                        \/ Initial \in Taken(u, q)'
                        \/ OfSession(u, q)' = {} /\ Opened(u, q)'
      BY DEF FirstTrue
    <3>1. orig[u][q] = Contents => orig'[u][q] = Contents
      BY <2>2
    <3> QED
      BY <1>0, <2>3, <2>6, <3>1 DEF FirstTrue
  <2> QED
    BY <2>4, <2>5, <2>7
<1>8. ASSUME NEW x \in Calls, Others(x), RecordNothing(x)
      PROVE  WrittenTrue' /\ FirstTrue' /\ OriginalKept'
  <2>0. PICK s \in Sessions : s = owner[x]
    BY <1>0, <1>8 DEF Owned, RecordNothing
  <2>1. pc[x] = "record" /\ NextOp(x).kind # "read"
    BY <1>8 DEF RecordNothing
  <2>2. PICK p \in Paths : p = NextOp(x).path /\ p \in todo[x]
    BY <1>0, <2>1, OpsAre DEF TypeOK
  <2>3. /\ UNCHANGED <<rows, what, wrote, todo>>
        /\ orig' = [orig EXCEPT ![s][p] = Contents]
        /\ \/ pc' = [pc EXCEPT ![x] = "capture"] /\ tool[x] \notin Patches
           \/ pc' = pc /\ ops' = [ops EXCEPT ![x] = Tail(@)]
    BY <1>8, <2>0, <2>2 DEF RecordNothing, history
  <2>4. /\ orig'[s][p] = Contents
        /\ \A u \in Sessions, q \in Paths : u # s \/ q # p => orig'[u][q] = orig[u][q]
    BY <1>0, <2>3 DEF TypeOK
  <2>5. \A u, q : OfSession(u, q)' = OfSession(u, q) /\ Taken(u, q)' = Taken(u, q)
    BY <2>3 DEF Taken, OfSession, OfPath
  <2>6. WrittenTrue'
    BY <1>0, <2>3 DEF WrittenTrue, what
  <2>7. OriginalKept'
    <3> SUFFICES ASSUME NEW r \in rows, r.ver = Initial PROVE r.content \in orig'[r.sess][r.path]
      BY <2>3 DEF OriginalKept
    <3>1. r.content \in orig[r.sess][r.path] /\ r.content \in Contents /\ r.sess \in Sessions /\ r.path \in Paths
      BY <1>0, <1>r DEF OriginalKept
    <3> QED
      BY <2>4, <3>1
  <2>8. ASSUME NEW q \in Paths, q # p, Promises(x, q) PROVE Promises(x, q)'
    <3>1. q \in files[x] /\ p \in todo[x]
      BY <2>1, <2>2, <2>8 DEF Promises
    <3>2. tool[x] \in Patches
      BY <1>0, <2>8, <3>1 DEF Placed
    <3>3. pc'[x] = "record" /\ ops'[x] = Tail(ops[x])
      BY <1>0, <1>p, <2>1, <2>3, <3>2 DEF TypeOK
    <3>5. NextOp(x)'.path = p
      BY <1>0, <2>1, <2>2, <3>3, NextPath
    <3>6. orig'[s][q] = orig[s][q]
      BY <2>4, <2>8
    <3> QED
      BY <2>0, <2>1, <2>3, <2>8, <3>3, <3>5, <3>6 DEF Promises, what
  <2>9. ASSUME NEW u \in Sessions, NEW q \in Paths, u # s \/ q # p, Opened(u, q) PROVE Opened(u, q)'
    <3>1. CASE \A y \in Calls : owner[y] = u => q \notin wrote[y]
      BY <2>3, <3>1 DEF Opened, what
    <3>2. ASSUME NEW y \in Calls, owner[y] = u, Promises(y, q) PROVE Promises(y, q)' /\ owner'[y] = u
      <4>0. orig'[u][q] = orig[u][q] /\ owner' = owner
        BY <2>3, <2>4, <2>9 DEF what
      <4>1. CASE y = x
        BY <2>0, <2>8, <2>9, <3>2, <4>0, <4>1
      <4>2. CASE y # x
        BY <1>8, <3>2, <4>0, <4>2 DEF Promises, Others, NextOp, Op
      <4> QED
        BY <3>2, <4>0, <4>1, <4>2
    <3> QED
      BY <2>9, <3>1, <3>2 DEF Opened
  <2>10. FirstTrue'
    <3> SUFFICES ASSUME NEW u \in Sessions, NEW q \in Paths
                 PROVE  \/ orig'[u][q] = Contents
                        \/ Initial \in Taken(u, q)'
                        \/ OfSession(u, q)' = {} /\ Opened(u, q)'
      BY DEF FirstTrue
    <3>1. CASE u = s /\ q = p
      BY <2>4, <3>1
    <3>2. CASE u # s \/ q # p
      BY <1>0, <2>4, <2>5, <2>9, <3>2 DEF FirstTrue
    <3> QED
      BY <3>1, <3>2
  <2> QED
    BY <2>6, <2>7, <2>10
<1>9. ASSUME NEW x \in Calls, Others(x), Record(x)
      PROVE  WrittenTrue' /\ FirstTrue' /\ OriginalKept'
  <2> DEFINE o == NextOp(x)
  <2>1. /\ pc[x] = "record" /\ o.kind # "read" /\ o.path \in Paths /\ o.path \in todo[x]
        /\ o.content \in Contents /\ owner[x] \in Sessions
        /\ ops' = [ops EXCEPT ![x] = Tail(@)]
        /\ UNCHANGED <<pc, what, todo, leaving, wrote, ghost>>
    <3>1. /\ pc[x] = "record" /\ o.kind \in {"create", "version"} /\ o.path \in Paths
          /\ o.path \in todo[x] /\ o.content \in Contents /\ owner[x] \in Sessions
      BY <1>9, RecordIs
    <3>2. ops' = [ops EXCEPT ![x] = Tail(@)] /\ UNCHANGED <<pc, what, todo, leaving, wrote, ghost>>
      BY <1>9 DEF Record
    <3>3. o.kind # "read"
      BY <3>1
    <3> QED
      BY <3>1, <3>2, <3>3
  <2>2. \/ rows' = rows /\ (o.kind = "create" => Initial \in Taken(owner[x], o.path))
        \/ \E v \in Nat :
             /\ rows' = rows \cup {[sess |-> owner[x], path |-> o.path, ver |-> v,
                                    content |-> o.content, sec |-> sec]}
             /\ v \notin Taken(owner[x], o.path)
             /\ o.kind = "create" /\ Initial \notin Taken(owner[x], o.path) => v = Initial
    BY <1>9, RecordIs
  <2>3. PICK s \in Sessions : s = owner[x]
    BY <2>1
  <2>4. PICK p \in Paths : p = o.path
    BY <2>1
  <2>5. PICK c \in Contents : c = o.content
    BY <2>1
  <2>6. \/ rows' = rows /\ (o.kind = "create" => Initial \in Taken(s, p))
        \/ \E v \in Nat :
             /\ rows' = rows \cup {[sess |-> s, path |-> p, ver |-> v, content |-> c, sec |-> sec]}
             /\ v \notin Taken(s, p)
             /\ o.kind = "create" /\ Initial \notin Taken(s, p) => v = Initial
    BY <2>2, <2>3, <2>4, <2>5
  <2>7. NextOp(x)'.path = p
    <3>1. ops'[x] = Tail(ops[x])
      BY <1>0, <2>1 DEF TypeOK
    <3> QED
      BY <1>0, <2>1, <2>4, <3>1, NextPath
  <2>8. p \in wrote[x] /\ p \in todo[x]
    BY <1>0, <2>1, <2>4 DEF Placed
  <2>9. rows \subseteq rows'
    BY <2>6
  <2>10. \A u, q : Taken(u, q) \subseteq Taken(u, q)'
    BY <2>9, HistoryGrows
  \* The first record of the file is of what the file held.
  <2>11. ASSUME OfSession(s, p) = {}, Opened(s, p)
         PROVE  o.kind = "create" /\ c = old[x][p] /\ c \in orig[s][p]
    <3>1. PICK y \in Calls : owner[y] = s /\ Promises(y, p)
      BY <2>3, <2>8, <2>11 DEF Opened
    <3>2. y = x
      BY <2>1, <2>3, <3>1, PromiserRuns DEF Running
    <3>3. o = Op("create", p, old[x][p]) /\ old[x][p] \in orig[s][p]
      BY <2>1, <2>3, <2>4, <3>1, <3>2 DEF Promises
    <3>4. o.kind = "create" /\ o.content = old[x][p]
      BY <3>3 DEF Op
    <3> QED
      BY <2>5, <3>3, <3>4
  <2>12. ASSUME NEW u \in Sessions, NEW q \in Paths, u # s \/ q # p, Opened(u, q) PROVE Opened(u, q)'
    <3>1. CASE \A y \in Calls : owner[y] = u => q \notin wrote[y]
      BY <2>1, <3>1 DEF Opened, what
    <3>2. ASSUME NEW y \in Calls, owner[y] = u, Promises(y, q) PROVE Promises(y, q)' /\ owner'[y] = u
      <4>0. owner' = owner /\ orig' = orig
        BY <2>1 DEF what, ghost
      <4>1. CASE y = x
        <5>1. q # p
          BY <2>3, <2>12, <3>2, <4>1
        <5> QED
          BY <2>1, <2>7, <3>2, <4>0, <4>1, <5>1 DEF Promises, what
      <4>2. CASE y # x
        BY <1>9, <3>2, <4>0, <4>2 DEF Promises, Others, NextOp, Op
      <4> QED
        BY <3>2, <4>0, <4>1, <4>2
    <3> QED
      BY <2>12, <3>1, <3>2 DEF Opened
  <2>13. \A u \in Sessions, q \in Paths : u # s \/ q # p => OfSession(u, q)' = OfSession(u, q)
    BY <2>6 DEF OfSession, OfPath
  <2>14. WrittenTrue'
    <3> HIDE DEF o
    <3>1. \A r \in rows' : r \in rows \/ (r.sess = s /\ r.path = p)
      BY <2>6
    <3> QED
      BY <1>0, <2>1, <2>3, <2>8, <3>1 DEF WrittenTrue, what
  <2>15. FirstTrue'
    <3> SUFFICES ASSUME NEW u \in Sessions, NEW q \in Paths
                 PROVE  \/ orig'[u][q] = Contents
                        \/ Initial \in Taken(u, q)'
                        \/ OfSession(u, q)' = {} /\ Opened(u, q)'
      BY DEF FirstTrue
    <3>0. orig' = orig
      BY <2>1 DEF ghost
    <3>1. CASE u = s /\ q = p
      <4>1. CASE OfSession(s, p) = {} /\ Opened(s, p) /\ Initial \notin Taken(s, p)
        <5>1. PICK v \in Nat :
                /\ rows' = rows \cup {[sess |-> s, path |-> p, ver |-> v, content |-> c, sec |-> sec]}
                /\ v = Initial
          BY <2>6, <2>11, <4>1
        <5> DEFINE r == [sess |-> s, path |-> p, ver |-> v, content |-> c, sec |-> sec]
        <5>2. r \in rows' /\ r.path = p /\ r.sess = s /\ r.ver = Initial
          BY <5>1
        <5> HIDE DEF r
        <5>3. Initial \in Taken(s, p)'
          BY <5>2 DEF Taken, OfSession, OfPath
        <5> QED
          BY <3>1, <5>3
      <4>2. CASE orig[s][p] = Contents \/ Initial \in Taken(s, p)
        BY <2>10, <3>0, <3>1, <4>2
      <4> QED
        BY <1>0, <4>1, <4>2 DEF FirstTrue
    <3>2. CASE u # s \/ q # p
      BY <1>0, <2>10, <2>12, <2>13, <3>0, <3>2 DEF FirstTrue
    <3> QED
      BY <3>1, <3>2
  <2>16. OriginalKept'
    <3>0. orig' = orig
      BY <2>1 DEF ghost
    <3>1. CASE rows' = rows
      BY <1>0, <3>0, <3>1 DEF OriginalKept
    <3>2. ASSUME NEW v \in Nat,
                 rows' = rows \cup {[sess |-> s, path |-> p, ver |-> v, content |-> c, sec |-> sec]},
                 v \notin Taken(s, p)
          PROVE  OriginalKept'
      <4>1. v = Initial => c \in orig[s][p]
        BY <1>0, <2>11, <3>2 DEF FirstTrue
      <4> SUFFICES ASSUME NEW r \in rows', r.ver = Initial PROVE r.content \in orig[r.sess][r.path]
        BY <3>0 DEF OriginalKept
      <4> HIDE DEF o
      <4>2. CASE r \in rows
        BY <1>0, <4>2 DEF OriginalKept
      <4>3. CASE r = [sess |-> s, path |-> p, ver |-> v, content |-> c, sec |-> sec]
        BY <4>1, <4>3
      <4> QED
        BY <3>2, <4>2, <4>3
    <3> QED
      BY <2>6, <3>1, <3>2
  <2> QED
    BY <2>14, <2>15, <2>16
<1>10. CASE Elsewhere
  <2>1. UNCHANGED <<rows, pc, what, todo, leaving, ops, wrote, orig>>
    BY <1>10 DEF Elsewhere
  <2>2. WrittenTrue' /\ OriginalKept'
    BY <1>0, <2>1 DEF WrittenTrue, OriginalKept, what
  <2>3. \A u, q : OfSession(u, q)' = OfSession(u, q) /\ Taken(u, q)' = Taken(u, q)
    BY <2>1 DEF Taken, OfSession, OfPath
  <2>4. \A y \in Calls, q \in Paths : Promises(y, q) => Promises(y, q)'
    BY <2>1 DEF Promises, NextOp, Op, what
  <2>5. \A u \in Sessions, q \in Paths : Opened(u, q) => Opened(u, q)'
    BY <2>1, <2>4 DEF Opened, what
  <2> QED
    BY <1>0, <2>1, <2>2, <2>3, <2>5 DEF FirstTrue
<1> QED
  BY <1>0, <1>1, <1>2, <1>3, <1>4, <1>5, <1>6, <1>7, <1>8, <1>9, <1>10, <1>11, StepsAre DEF Acts

------------------------------------------------------------------------------
\* Another session's versions hide this one's changes or leave them.
LEMMA ChangesHide ==
  ASSUME rows \subseteq rows', NEW s, \A r \in rows' \ rows : r.sess # s, ChangesFrom(s)' # {}
  PROVE  ChangesFrom(s) # {}
<1>1. \A p : OfSession(s, p)' = OfSession(s, p)
  BY DEF OfSession, OfPath
<1>2. ASSUME NEW p PROVE Before(s, p)' = Before(s, p)
  <2>1. OfSession(s, p)' = OfSession(s, p)
    BY <1>1
  <2> QED
    BY <2>1, Zenon DEF Before
<1>3. \A r \in LatestSessionFiles(s)' : r \in LatestSessionFiles(s)
  <2> SUFFICES ASSUME NEW p \in Paths, NEW r \in Newest(OfPath(p))', r.sess = s
               PROVE  r \in Newest(OfPath(p))
    BY DEF LatestSessionFiles
  <2>1. r \in rows' /\ r.path = p /\ \A q \in rows' : q.path = p => q.sec <= r.sec
    BY DEF Newest, OfPath
  <2>2. r \in rows
    BY <2>1
  <2> QED
    BY <2>1, <2>2 DEF Newest, OfPath
<1>4. PICK r \in LatestSessionFiles(s)' : r.content # Before(s, r.path)'
  BY DEF ChangesFrom
<1>5. r \in LatestSessionFiles(s) /\ r.content # Before(s, r.path)
  BY <1>2, <1>3, <1>4
<1> HIDE DEF LatestSessionFiles, Before
<1> QED
  BY <1>5 DEF ChangesFrom

\* What a session recorded is captured when its tools have come to rest.
LEMMA CapturedStep == ASSUME IInv, [Next]_vars PROVE Captured'
<1>0. TypeOK /\ PlacesTrue /\ Captured /\ \A x \in Calls : Owned(x) /\ Placed(x)
  BY DEF IInv, PlacesTrue
<1>p. pc \in [Calls -> States] /\ tool \in [Calls -> Tools] /\ owner \in [Calls -> Sessions \cup {None}]
  BY <1>0 DEF TypeOK
<1>q. ASSUME NEW x \in Calls, Others(x), NEW s \in Sessions, Quiet(s)',
             owner[x] = s /\ Running(x) => tool[x] = "view" \/ (owner'[x] = s /\ Running(x)' /\ tool'[x] = tool[x])
      PROVE  Quiet(s)
  BY <1>q DEF Quiet, Others, Running
<1>k. ASSUME NEW x \in Calls, Others(x), change' = change, rows' = rows,
             Running(x) => tool[x] = "view" \/ (owner'[x] = owner[x] /\ Running(x)' /\ tool'[x] # "view")
      PROVE  Captured'
  <2> SUFFICES ASSUME NEW s \in Sessions, Quiet(s)', ChangesFrom(s)' # {} PROVE change[s] # {}
    BY <1>k DEF Captured
  <2>1. ChangesFrom(s) # {}
    BY <1>k, ChangesHide
  <2>2. Quiet(s)
    BY <1>k DEF Quiet, Others, Running
  <2> QED
    BY <1>0, <2>1, <2>2 DEF Captured
<1>1. ASSUME NEW x \in Calls, Others(x),
             NEW t \in Starts, NEW s \in Sessions, NEW ps \in (SUBSET Paths) \ {{}},
             NEW m \in Moves(t, ps), Start(x, t, s, ps, m) \/ Refuse(x, t, s, ps)
      PROVE  Captured'
  <2>1. pc[x] = "idle" /\ UNCHANGED <<rows, change>>
    BY <1>1 DEF Start, Refuse, history
  <2> QED
    BY <1>1, <1>k, <2>1 DEF Running
<1>2. ASSUME NEW x \in Calls, Others(x),
             \/ Deny(x) \/ Approve(x) \/ FailWrite(x) \/ FailAgain(x) \/ ReplaceAgain(x)
             \/ RecordNothing(x) \/ EndFile(x) \/ Cancel(x)
             \/ \E p \in Paths : Changes(x, p) \/ MoveFile(x, p) \/ LookUp(x, p)
      PROVE  Captured'
  <2>1. CASE Deny(x) \/ Approve(x) \/ FailWrite(x) \/ FailAgain(x)
    <3>1. /\ UNCHANGED <<rows, change, tool, owner>> /\ pc[x] \in {"asking", "writing", "moving", "again"}
          /\ \E c \in {"capture", "writing"} : pc' = [pc EXCEPT ![x] = c]
      BY <2>1 DEF Deny, Approve, FailWrite, FailAgain, Goto, history, what
    <3>2. tool[x] # "view" /\ pc'[x] \in {"capture", "writing"}
      BY <1>0, <1>p, <3>1 DEF Placed
    <3> QED
      BY <1>2, <1>k, <3>1, <3>2 DEF Running
  <2>2. CASE ReplaceAgain(x)
    <3>1. /\ UNCHANGED <<rows, change, owner>> /\ tool' = [tool EXCEPT ![x] = "redo"]
          /\ pc' = [pc EXCEPT ![x] = "asking"]
      BY <2>2 DEF ReplaceAgain, Goto, history
    <3>2. tool'[x] = "redo" /\ pc'[x] = "asking"
      BY <1>p, <3>1
    <3> QED
      BY <1>2, <1>k, <3>1, <3>2 DEF Running
  <2>3. CASE RecordNothing(x) \/ Cancel(x)
    <3>1. /\ UNCHANGED <<rows, change, tool, owner>> /\ pc[x] \in {"lookup", "record"}
          /\ pc' = pc \/ pc' = [pc EXCEPT ![x] = "capture"]
      BY <2>3 DEF RecordNothing, Cancel, history, what
    <3>2. tool[x] # "view" /\ pc'[x] \in {"capture", "lookup", "record"}
      BY <1>0, <1>p, <3>1 DEF Placed
    <3> QED
      BY <1>2, <1>k, <3>1, <3>2 DEF Running
  <2>4. CASE EndFile(x)
    <3>1. /\ UNCHANGED <<rows, change, tool, owner>> /\ pc[x] = "record"
          /\ \E c \in {"lookup", "again", "capture"} : pc' = [pc EXCEPT ![x] = c]
      BY <2>4 DEF EndFile, history, what
    <3>2. tool[x] # "view" /\ pc'[x] \in {"capture", "lookup", "again"}
      BY <1>0, <1>p, <3>1 DEF Placed
    <3> QED
      BY <1>2, <1>k, <3>1, <3>2 DEF Running
  <2>5. ASSUME NEW p \in Paths, Changes(x, p) PROVE Captured'
    <3>1. /\ UNCHANGED <<rows, change, tool, owner>> /\ pc[x] \in {"writing", "moving"}
          /\ pc'[x] \in {"writing", "lookup"}
      BY <1>0, <2>5, ChangeIs DEF history, what
    <3>2. tool[x] # "view"
      BY <1>0, <3>1 DEF Placed
    <3> QED
      BY <1>2, <1>k, <3>1, <3>2 DEF Running
  <2>7. ASSUME NEW p \in Paths, MoveFile(x, p) PROVE Captured'
    <3>1. UNCHANGED <<rows, change, tool, owner>> /\ tool[x] = "update" /\ pc'[x] = "moving"
      BY <1>0, <2>7, MoveIs DEF history, what
    <3> QED
      BY <1>2, <1>k, <3>1 DEF Running
  <2>6. ASSUME NEW p \in Paths, LookUp(x, p) PROVE Captured'
    <3>1. /\ UNCHANGED <<rows, change, tool, owner>> /\ pc[x] = "lookup"
          /\ pc' = [pc EXCEPT ![x] = "record"]
      BY <2>6 DEF LookUp, Goto, history, what
    <3>2. tool[x] # "view" /\ pc'[x] = "record"
      BY <1>0, <1>p, <3>1 DEF Placed
    <3> QED
      BY <1>2, <1>k, <3>1, <3>2 DEF Running
  <2> QED
    BY <1>2, <2>1, <2>2, <2>3, <2>4, <2>5, <2>6, <2>7
<1>3. ASSUME NEW x \in Calls, Others(x), EndView(x) PROVE Captured'
  <2>1. pc[x] = "read" /\ UNCHANGED <<rows, change>>
    BY <1>3 DEF EndView, Goto, history
  <2>2. tool[x] = "view"
    BY <1>0, <2>1 DEF Placed
  <2> QED
    BY <1>3, <1>k, <2>1, <2>2
<1>4. ASSUME NEW x \in Calls, Others(x), Record(x) PROVE Captured'
  <2>1. /\ pc[x] = "record" /\ UNCHANGED <<pc, tool, owner, change>>
    BY <1>4 DEF Record, what
  <2>2. tool[x] # "view"
    BY <1>0, <2>1 DEF Placed
  <2>3. rows \subseteq rows' /\ \A r \in rows' \ rows : r.sess = owner[x]
    BY <1>4, RecordIs
  <2> SUFFICES ASSUME NEW s \in Sessions, Quiet(s)', ChangesFrom(s)' # {} PROVE change[s] # {}
    BY <2>1 DEF Captured
  <2>4. Quiet(s) /\ owner[x] # s
    BY <1>4, <2>1, <2>2 DEF Quiet, Others, Running
  <2>5. ChangesFrom(s) # {}
    BY <2>3, <2>4, ChangesHide
  <2> QED
    BY <1>0, <2>4, <2>5 DEF Captured
<1>5. ASSUME NEW x \in Calls, Others(x), OnToolCompleted(x) PROVE Captured'
  <2>0. PICK s \in Sessions : s = owner[x]
    BY <1>0, <1>5 DEF Owned, OnToolCompleted, Goto
  <2>1. /\ rows' = rows /\ owner' = owner
        /\ change' = IF change[s] = {} THEN [change EXCEPT ![s] = ChangesFrom(s)] ELSE change
    BY <1>5, <2>0 DEF OnToolCompleted, history, what
  <2>2. change \in [Sessions -> SUBSET [path : Paths, before : Contents, after : Contents]]
    BY <1>0 DEF TypeOK
  <2> SUFFICES ASSUME NEW u \in Sessions, Quiet(u)', ChangesFrom(u)' # {} PROVE change'[u] # {}
    BY DEF Captured
  <2>3. ChangesFrom(u) # {}
    BY <2>1, ChangesHide
  <2>4. CASE u = s
    BY <2>1, <2>2, <2>3, <2>4
  <2>5. CASE u # s
    <3>1. Quiet(u)
      BY <1>5, <2>0, <2>1, <2>5 DEF Quiet, Others, Running
    <3> QED
      BY <1>0, <2>1, <2>2, <2>3, <2>5, <3>1 DEF Captured
  <2> QED
    BY <2>4, <2>5
<1>6. CASE Elsewhere
  <2> SUFFICES ASSUME NEW s \in Sessions, Quiet(s)', ChangesFrom(s)' # {} PROVE change'[s] # {}
    BY DEF Captured
  <2>1. Quiet(s) /\ change' = change
    BY <1>6 DEF Quiet, Running, Elsewhere, what
  <2>2. ChangesFrom(s) # {}
    BY <1>6, ChangesHide DEF Elsewhere
  <2> QED
    BY <1>0, <2>1, <2>2 DEF Captured
<1> QED
  BY <1>0, <1>1, <1>2, <1>3, <1>4, <1>5, <1>6, StepsAre DEF Acts

LEMMA FiniteStep == ASSUME IInv, [Next]_vars PROVE IsFiniteSet(rows')
<1>0. TypeOK /\ PlacesTrue /\ IsFiniteSet(rows)
  BY DEF IInv
<1>1. ASSUME NEW x \in Calls, Record(x) PROVE IsFiniteSet(rows')
  <2>1. rows' = rows \/ \E r : rows' = rows \cup {r}
    BY <1>1, RecordIs
  <2> QED
    BY <1>0, <2>1, FS_AddElement
<1>2. ASSUME NEW x \in Calls, NEW p \in Paths, Changes(x, p) \/ MoveFile(x, p) \/ LookUp(x, p)
      PROVE  rows' = rows
  BY <1>2 DEF Changes, WriteFile, RemoveMoved, MoveFile, LookUp, history
<1>3. ASSUME NEW x \in Calls,
             \/ Deny(x) \/ Approve(x) \/ FailWrite(x) \/ RecordNothing(x) \/ EndFile(x) \/ EndView(x)
             \/ FailAgain(x) \/ ReplaceAgain(x) \/ OnToolCompleted(x) \/ Cancel(x)
      PROVE  rows' = rows
  BY <1>3 DEF Deny, Approve, FailWrite, RecordNothing, EndFile, EndView, FailAgain, ReplaceAgain,
              OnToolCompleted, Cancel, history
<1>4. ASSUME NEW x \in Calls,
             NEW t \in Starts, NEW s \in Sessions, NEW ps \in (SUBSET Paths) \ {{}},
             NEW m \in Moves(t, ps), Start(x, t, s, ps, m) \/ Refuse(x, t, s, ps)
      PROVE  rows' = rows
  BY <1>4 DEF Start, Refuse, history
<1>5. CASE Elsewhere
  BY <1>0, <1>5 DEF Elsewhere
<1> QED
  BY <1>0, <1>1, <1>2, <1>3, <1>4, <1>5, StepsAre DEF Acts

------------------------------------------------------------------------------
\* A step that changes a file marks what others had moved there.
LEMMA MovesKept ==
  ASSUME TypeOK, MovesTrue, NEW p \in Paths, NEW others, Displaces(others, p),
         \A q \in Paths \ {p} : disk'[q] = disk[q],
         NEW x \in Calls, x \in others,
         UNCHANGED <<files, dest, new>>, wrote'[x] = wrote[x]
  PROVE  /\ \A q \in (Targets(x)' \cap wrote'[x]) \ files'[x] :
              disk'[q] = new'[x] \/ <<x, q>> \in displaced'
         /\ \A f \in (files'[x] \cap wrote'[x]) \ Targets(x)' :
              dest'[x][f] # None => dest'[x][f] \in wrote'[x]
<1>1. Targets(x)' = Targets(x) /\ wrote[x] \subseteq Paths
  BY DEF Targets, TypeOK
<1>2. displaced \subseteq displaced' /\ (p \in Targets(x) \cap wrote[x] => <<x, p>> \in displaced')
  BY DEF Displaces
<1> QED
  BY <1>1, <1>2 DEF MovesTrue

LEMMA MovesStep == ASSUME IInv, [Next]_vars PROVE MovesTrue'
<1>0. TypeOK /\ PlacesTrue /\ MovesTrue /\ \A x \in Calls : Owned(x) /\ Placed(x)
  BY DEF IInv, PlacesTrue
<1> DEFINE Good(x) ==
             /\ \A q \in (Targets(x) \cap wrote[x]) \ files[x] :
                  disk[q] = new[x] \/ <<x, q>> \in displaced
             /\ \A f \in (files[x] \cap wrote[x]) \ Targets(x) :
                  dest[x][f] # None => dest[x][f] \in wrote[x]
<1>g. MovesTrue <=> \A x \in Calls : Good(x)
  BY DEF MovesTrue
<1>s. ASSUME NEW x \in Calls, Others(x), UNCHANGED <<disk, displaced>>, Good(x)' PROVE MovesTrue'
  <2>1. ASSUME NEW y \in Calls, y # x PROVE Good(y)'
    <3>1. Targets(y)' = Targets(y)
      BY <1>s, <2>1 DEF Targets, Others
    <3> QED
      BY <1>0, <1>g, <1>s, <2>1, <3>1 DEF Others
  <2> QED
    BY <1>s, <2>1 DEF MovesTrue
<1>m. ASSUME NEW x \in Calls, Others(x), NEW p \in Paths, Displaces(Calls \ {x}, p),
             UNCHANGED <<files, dest, new>>, \A q \in Paths \ {p} : disk'[q] = disk[q], Good(x)'
      PROVE  MovesTrue'
  <2>1. ASSUME NEW y \in Calls, y # x PROVE Good(y)'
    BY <1>0, <1>m, <2>1, MovesKept DEF Others
  <2> QED
    BY <1>m, <2>1 DEF MovesTrue
<1>1. ASSUME NEW x \in Calls, Others(x),
             NEW t \in Starts, NEW s \in Sessions, NEW ps \in (SUBSET Paths) \ {{}},
             NEW m \in Moves(t, ps), Start(x, t, s, ps, m) \/ Refuse(x, t, s, ps)
      PROVE  MovesTrue'
  <2>1. pc[x] = "idle" /\ UNCHANGED <<disk, displaced, wrote>>
    BY <1>1 DEF Start, Refuse, world, ghost
  <2>2. wrote'[x] = {}
    BY <1>0, <2>1 DEF Owned
  <2> QED
    BY <1>1, <1>s, <2>1, <2>2
<1>2. ASSUME NEW x \in Calls, Others(x),
             \/ Deny(x) \/ FailWrite(x) \/ FailAgain(x) \/ EndView(x) \/ OnToolCompleted(x)
             \/ Record(x) \/ RecordNothing(x) \/ EndFile(x) \/ Cancel(x) \/ ReplaceAgain(x)
             \/ \E p \in Paths : LookUp(x, p)
      PROVE  MovesTrue'
  <2>1. UNCHANGED <<disk, displaced, wrote, files, dest, new>>
    BY <1>2 DEF Deny, FailWrite, FailAgain, EndView, OnToolCompleted, Record, RecordNothing, EndFile,
                Cancel, ReplaceAgain, LookUp, world, what, ghost
  <2>2. Good(x)'
    BY <1>0, <1>g, <2>1 DEF Targets
  <2> QED
    BY <1>2, <1>s, <2>1, <2>2
<1>3. ASSUME NEW x \in Calls, Others(x), Approve(x) PROVE MovesTrue'
  <2>1. pc[x] = "asking" /\ UNCHANGED <<disk, displaced, wrote, files, dest>>
    BY <1>3 DEF Approve, Goto, ghost
  <2>2. Targets(x)' = Targets(x)
    BY <2>1 DEF Targets
  <2>3. CASE tool[x] = "redo"
    <3>1. \A p \in Paths : dest[x][p] = None
      BY <1>0, <2>3 DEF Placed
    <3>2. Targets(x) = {}
      BY <1>0, <3>1 DEF Targets, TypeOK
    <3>3. Good(x)'
      BY <1>0, <2>1, <2>2, <3>1, <3>2 DEF TypeOK
    <3> QED
      BY <1>3, <1>s, <2>1, <3>3
  <2>4. CASE tool[x] # "redo"
    <3>1. wrote'[x] = {}
      BY <1>0, <2>1, <2>4 DEF Placed
    <3> QED
      BY <1>3, <1>s, <2>1, <3>1
  <2> QED
    BY <2>3, <2>4
<1>4. ASSUME NEW x \in Calls, Others(x), NEW p \in Paths, Changes(x, p) PROVE MovesTrue'
  <2>1. /\ p \in files[x] /\ (dest[x][p] # None => dest[x][p] \in wrote[x])
        /\ wrote'[x] = wrote[x] \cup {p} /\ UNCHANGED what
        /\ (\A q \in Paths \ {p} : disk'[q] = disk[q]) /\ Displaces(Calls \ {x}, p)
    BY <1>0, <1>4, ChangeIs
  <2>2. Targets(x)' = Targets(x) /\ UNCHANGED <<files, dest, new>>
    BY <2>1 DEF Targets, what
  <2>3. displaced \subseteq displaced' /\ wrote[x] \subseteq Paths
    BY <1>0, <2>1 DEF Displaces, TypeOK
  <2>4. Good(x)'
    BY <1>0, <1>g, <2>1, <2>2, <2>3
  <2> QED
    BY <1>4, <1>m, <2>1, <2>2, <2>4
<1>5. ASSUME NEW x \in Calls, Others(x), NEW p \in Paths, MoveFile(x, p) PROVE MovesTrue'
  <2>0. PICK q \in Paths : q = dest[x][p]
    BY <1>0, <1>5, MoveIs
  <2>1. /\ q \in Targets(x) /\ wrote'[x] = wrote[x] \cup {q} /\ UNCHANGED what
        /\ disk' = [disk EXCEPT ![q] = new[x]] /\ Displaces(Calls \ {x}, q)
    BY <1>0, <1>5, <2>0, MoveIs
  <2>5. disk'[q] = new[x] /\ \A r \in Paths \ {q} : disk'[r] = disk[r]
    BY <1>0, <2>1 DEF TypeOK
  <2>2. Targets(x)' = Targets(x) /\ UNCHANGED <<files, dest, new>>
    BY <2>1 DEF Targets, what
  <2>3. displaced \subseteq displaced' /\ wrote[x] \subseteq Paths
    BY <1>0, <2>1 DEF Displaces, TypeOK
  <2>4. Good(x)'
    BY <1>0, <1>g, <2>1, <2>2, <2>3, <2>5
  <2> QED
    BY <1>5, <1>m, <2>1, <2>2, <2>4, <2>5
<1>6. ASSUME NEW p \in Paths, EditOutside(p) \/ RemoveOutside(p), Elsewhere PROVE MovesTrue'
  <2>1. /\ Displaces(Calls, p)
        /\ \E c : disk' = [disk EXCEPT ![p] = c]
    BY <1>6 DEF EditOutside, RemoveOutside
  <2>2. \A q \in Paths \ {p} : disk'[q] = disk[q]
    BY <1>0, <2>1 DEF TypeOK
  <2>3. UNCHANGED <<files, dest, new, wrote>>
    BY <1>6 DEF Elsewhere, what
  <2>4. ASSUME NEW y \in Calls PROVE Good(y)'
    BY <1>0, <2>1, <2>2, <2>3, MovesKept
  <2> QED
    BY <2>4 DEF MovesTrue
<1>7. CASE (Pass \/ UNCHANGED vars) /\ Elsewhere
  <2>1. UNCHANGED <<disk, displaced, files, dest, new, wrote>>
    BY <1>7 DEF Pass, vars, Elsewhere, world, what, ghost
  <2> QED
    BY <1>0, <2>1 DEF MovesTrue, Targets
<1> HIDE DEF Good
<1> QED
  BY <1>0, <1>1, <1>2, <1>3, <1>4, <1>5, <1>6, <1>7, StepsAre DEF Acts

------------------------------------------------------------------------------
LEMMA NextKeeps == IInv /\ [Next]_vars => IInv'
<1> SUFFICES ASSUME IInv, [Next]_vars PROVE IInv'
  OBVIOUS
<1>1. IsFiniteSet(rows)'
  BY FiniteStep
<1> QED
  BY <1>1, TypeStep, OneRunsStep, PlacesStep, KnownStep, BasedStep, ExcusesStep, TellingStep, FirstStep,
     CapturedStep, MovesStep DEF IInv

LEMMA Invariant == Spec => []IInv
<1> QED
  BY InitIInv, NextKeeps, PTL DEF Spec

\* Three versions of a file are more than two.
LEMMA CrowdedCounts ==
  ASSUME IInv, NEW s, NEW p, Crowded(s, p)
  PROVE  Cardinality({v \in Taken(s, p) : v # Initial}) > 2
<1> DEFINE T == {v \in Taken(s, p) : v # Initial}
<1>1. PICK a, b, c \in T : a # b /\ b # c /\ a # c
  BY DEF Crowded
<1>2. IsFiniteSet(T)
  <2>1. IsFiniteSet(rows) /\ OfSession(s, p) \subseteq rows
    BY DEF IInv, OfSession, OfPath
  <2>2. IsFiniteSet(OfSession(s, p))
    BY <2>1, FS_Subset
  <2>3. IsFiniteSet(Taken(s, p))
    <3> DEFINE f == [r \in OfSession(s, p) |-> r.ver]
    <3>1. f \in Surjection(OfSession(s, p), Taken(s, p))
      BY DEF Taken, Surjection
    <3> HIDE DEF f
    <3> QED
      BY <2>2, <3>1, FS_Surjection
  <2> QED
    BY <2>3, FS_Subset
<1>3. {a, b, c} \subseteq T
  OBVIOUS
<1>4. Cardinality({a, b, c}) = 3
  <2>1. IsFiniteSet({}) /\ Cardinality({}) = 0
    BY FS_EmptySet
  <2>2. IsFiniteSet({a}) /\ Cardinality({a}) = 1
    BY FS_Singleton
  <2>3. IsFiniteSet({a} \cup {b}) /\ Cardinality({a} \cup {b}) = 2
    BY <1>1, <2>2, FS_AddElement
  <2>4. Cardinality(({a} \cup {b}) \cup {c}) = 3
    BY <1>1, <2>3, FS_AddElement
  <2>5. {a, b, c} = ({a} \cup {b}) \cup {c}
    OBVIOUS
  <2> QED
    BY <2>4, <2>5
<1>5. Cardinality({a, b, c}) <= Cardinality(T) /\ Cardinality(T) \in Nat
  BY <1>2, <1>3, FS_Subset, FS_CardinalityType
<1> QED
  BY <1>4, <1>5

\* The types hold, in every run of any number of calls, sessions and files.
THEOREM TypeCorrect == Spec => []TypeOK
<1>1. IInv => TypeOK
  BY DEF IInv
<1> QED
  BY <1>1, Invariant, PTL

\* A tool bases its change of a file only on content a call has shown or written,
\* or that slipped in between an access and its record, whatever sessions,
\* editors and shells do to the tree in between; of the target of a patch's move
\* nothing is asked (edit.go 265-276, write.go 118-130, patch.go 83-122).
THEOREM ChangesAreOfSeen == Spec => []BasedOnSeen
<1>1. IInv => BasedOnSeen
  BY DEF IInv
<1> QED
  BY <1>1, Invariant, PTL

\* What a call wrote to its files and reported is in its session's history,
\* a moved file's under its old path, unless its request was cancelled or three
\* versions took every attempt (history/file.go 61-156, patch.go 291-345).
THEOREM WritesAreRecorded == Spec => []RecordedUnlessCrowded
<1>1. IInv => RecordedUnlessCrowded
  <2> SUFFICES ASSUME IInv, NEW x \in Calls, pc[x] = "done", x \notin dead, reply[x] = "ok",
                      NEW p \in wrote[x] \cap files[x]
               PROVE  \/ \E r \in OfSession(owner[x], p) : r.content = Recorded(x)
                      \/ Cardinality({v \in Taken(owner[x], p) : v # Initial}) > 2
    BY DEF RecordedUnlessCrowded
  <2>1. Told(x, p)
    BY DEF IInv, TellingTrue, Telling
  <2> QED
    BY <2>1, CrowdedCounts DEF Told
<1> QED
  BY <1>1, Invariant, PTL

\* A session's first version of a file is what the file held right before the
\* session first wrote it, but in the cases OriginalKept names, a patch that moves
\* a file there among them: no other session's version, and no retried insert,
\* takes its place (edit.go 226-236, 336-356; history/file.go 68-71;
\* diff/patch.go 601-607).
THEOREM FirstVersionIsOriginal == Spec => []OriginalKept
<1>1. IInv => OriginalKept
  BY DEF IInv
<1> QED
  BY <1>1, Invariant, PTL

\* A session at rest whose latest versions differ from its first has its
\* checkpoint (mutationcp.go 76-126).
THEOREM RestIsCaptured == Spec => []CheckpointTaken
<1>1. IInv => CheckpointTaken
  BY DEF IInv, Captured, CheckpointTaken, Quiet
<1> QED
  BY <1>1, Invariant, PTL

\* A call that changed a file and reports an error is one of those named
\* (edit.go 140-155, patch.go 260-284).
THEOREM FailuresLeaveNothing == Spec => []FailureChangedNothing
<1>1. IInv => FailureChangedNothing
  BY DEF IInv, ExcusesTrue, Excused, FailureChangedNothing
<1> QED
  BY <1>1, Invariant, PTL

\* A file that a patch moved away is at its target until somebody else changes it
\* there, at whatever step the patch fails, unless the target is a file of the
\* patch itself (diff/patch.go 601-607).
THEOREM MovedIsThere == Spec => []MoveKeepsContent
<1>1. IInv => MoveKeepsContent
  <2> SUFFICES ASSUME IInv, NEW x \in Calls, NEW p \in (files[x] \cap wrote[x]) \ Targets(x),
                      dest[x][p] # None, dest[x][p] \notin files[x]
               PROVE  disk[dest[x][p]] = new[x] \/ <<x, dest[x][p]>> \in displaced
    BY DEF MoveKeepsContent
  <2>1. files[x] \subseteq Paths /\ dest[x][p] \in Targets(x)
    BY DEF IInv, TypeOK, Targets
  <2>2. dest[x][p] \in wrote[x]
    BY DEF IInv, MovesTrue
  <2> QED
    BY <2>1, <2>2 DEF IInv, MovesTrue
<1> QED
  BY <1>1, Invariant, PTL
==============================================================================
