----------------------------- MODULE FileHistory ------------------------------
(***************************************************************************)
(* The file history, internal/history/file.go over db/sql/files.sql: the    *)
(* versions of files that sessions recorded.  Rows are stamped in seconds   *)
(* and ordered by the stamp alone, so that which of a second's rows comes   *)
(* first is anybody's guess.                                                *)
(***************************************************************************)
EXTENDS Naturals, FiniteSets

CONSTANTS Sessions, Paths,
          MaxSec  \* bound on the seconds that pass

ASSUME FileHistoryAssumption == MaxSec \in Nat

VARIABLES rows, \* table files
          sec   \* the second it is

history == <<rows, sec>>

Empty == 0    \* the empty content; others are numbered as they are written
Initial == 0  \* the version "initial"; "v1" is 1 and so on
Unix == 100   \* the version "v" with the time in seconds, at second 0

Row == [sess : Sessions, path : Paths, ver : Nat, content : Nat, sec : 0 .. MaxSec]

HistoryInit ==
  /\ rows = {}
  /\ sec = 0

Tick ==
  /\ sec < MaxSec
  /\ sec' = sec + 1
  /\ UNCHANGED rows
------------------------------------------------------------------------------
OfPath(p) == {r \in rows : r.path = p}

OfSession(s, p) == {r \in OfPath(p) : r.sess = s}

\* ORDER BY created_at DESC: the rows that may come first.
Newest(rs) == {r \in rs : \A q \in rs : q.sec <= r.sec}

\* CreateVersion: the number after the path's latest, whose session it may be.
NextVersions(p) ==
  IF OfPath(p) = {} THEN {Initial}
  ELSE {IF r.ver = Initial THEN 1 ELSE r.ver + 1 : r \in Newest(OfPath(p))}

\* The versions createWithVersion tries in its three attempts.
Attempts(ver) ==
  IF ver = Initial THEN <<Initial, Unix + sec, Unix + sec + 1>> ELSE <<ver, ver + 1, ver + 2>>

Taken(s, p) == {r.ver : r \in OfSession(s, p)}

\* Mutant of Insert: one attempt.
InsertOnce(s, p, ver, content) ==
  rows' = IF ver \in Taken(s, p) THEN rows
          ELSE rows \cup {[sess |-> s, path |-> p, ver |-> ver, content |-> content, sec |-> sec]}

\* createWithVersion: UNIQUE(path, session_id, version) turns an attempt down;
\* with the third the row is lost.
Insert(s, p, ver, content) ==
  LET free == {i \in 1 .. 3 : Attempts(ver)[i] \notin Taken(s, p)}
  IN rows' = IF free = {} THEN rows
             ELSE LET i == CHOOSE j \in free : \A k \in free : j <= k
                  IN rows \cup {[sess |-> s, path |-> p, ver |-> Attempts(ver)[i],
                                 content |-> content, sec |-> sec]}

Create(s, p, content) ==
  /\ Insert(s, p, Initial, content)
  /\ UNCHANGED sec

CreateVersion(s, p, content) ==
  /\ \E ver \in NextVersions(p) : Insert(s, p, ver, content)
  /\ UNCHANGED sec

\* ListLatestSessionFiles: the session's rows among a path's latest of all
\* sessions.
LatestSessionFiles(s) == {r \in UNION {Newest(OfPath(p)) : p \in Paths} : r.sess = s}

\* ChangesFrom over the session's initial rows and its latest: a path without
\* an initial row is taken to have been empty.
Before(s, p) ==
  IF \E r \in OfSession(s, p) : r.ver = Initial
  THEN (CHOOSE r \in OfSession(s, p) : r.ver = Initial).content ELSE Empty

ChangesFrom(s) ==
  {[path |-> r.path, before |-> Before(s, r.path), after |-> r.content] :
     r \in {q \in LatestSessionFiles(s) : q.content # Before(s, q.path)}}

HistoryTypeOK ==
  /\ rows \subseteq Row
  /\ sec \in 0 .. MaxSec
==============================================================================
