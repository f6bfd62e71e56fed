-------------------------- MODULE Permission_proofs --------------------------
(***************************************************************************)
(* Proofs about Permission, for any number of callers, sessions, keys, key*)
(* presses in flight and lost events: prompts do not overlap, an outcome  *)
(* is the first answer to that very request (or a grant, or the session's *)
(* mode), nobody is asked again for what was allowed for the session, a   *)
(* non-interactive run never prompts, and it reports every refusal.       *)
(***************************************************************************)
EXTENDS Permission, TLAPS

\* Adding a copy of x to a bag adds x to its set; removing one adds nothing.
LEMMA BagAdd ==
  ASSUME NEW B, NEW x
  PROVE  BagToSet(B (+) SetToBag({x})) = BagToSet(B) \cup {x}
  BY DEF BagToSet, (+), SetToBag

LEMMA BagRemove ==
  ASSUME NEW B, NEW x
  PROVE  BagToSet(B (-) SetToBag({x})) \subseteq BagToSet(B)
  BY DEF BagToSet, (-), SetToBag

LEMMA BagOfNothing == BagToSet(EmptyBag) = {}
  BY DEF BagToSet, EmptyBag, SetToBag

\* A sequence with a new element at its end has that element more, and no
\* element twice if it had none.
LEMMA AppendNew ==
  ASSUME NEW S, NEW q \in Seq(S), NEW x \in S, IsInjective(q), x \notin ToSet(q)
  PROVE  ToSet(Append(q, x)) = ToSet(q) \cup {x} /\ IsInjective(Append(q, x))
<1> DEFINE p == Append(q, x)
<1>1. /\ DOMAIN q = 1 .. Len(q) /\ Len(q) \in Nat
      /\ DOMAIN p = 1 .. Len(q) + 1
      /\ \A i \in 1 .. Len(q) : p[i] = q[i]
      /\ p[Len(q) + 1] = x
  OBVIOUS
<1> HIDE DEF p
<1>2. ToSet(p) = ToSet(q) \cup {x}
  BY <1>1 DEF ToSet
<1>3. IsInjective(p)
  BY <1>1 DEF ToSet, IsInjective
<1> QED
  BY <1>2, <1>3 DEF p

\* Modes and links are settled before a session runs: in a non-interactive
\* process every running session has a mode, its own or its parent's.
Linked ==
  /\ \A s \in Sessions \ open : modes[s] = "ask"
  /\ \A s \in Subagents : modes[s] = "ask"
  /\ \A s \in Roots : parents[s] = None
  /\ \A s \in open \cap Subagents : parents[s] \in open \cap Roots
  /\ Headless => \A s \in open \cap Roots : modes[s] # "ask"

\* A Request under way has its session and key, and is where its mode sends it.
Placed ==
  \A c \in Callers :
    /\ pc[c] # "idle" => sess[c] \in open /\ key[c] \in Keys
    /\ pc[c] = "denying" => Mode(sess[c]) = "deny"
    /\ pc[c] \notin {"idle", "denying", "done"} => Mode(sess[c]) = "ask"

\* promptMu is held by whoever is past it; only its holder is registered, and
\* only a waiting request is on its way to the UI.
Locked ==
  \A c \in Callers :
    /\ pc[c] \in Registered \cup {"checking", "unlocking"} => lock = c
    /\ c \in pending <=> pc[c] \in Registered
    /\ c \in wire => pc[c] = "waiting"

\* The UI knows a request only once that was published and has arrived.
Seen(c) == pc[c] \in {"waiting", "answered", "unlocking", "done"} /\ c \notin wire

UIKnows ==
  /\ shown => dialog # None
  /\ dialog # None => Seen(dialog)
  /\ \A x \in BagToSet(answers) : Seen(x.id)
  /\ ui # "idle" => handling \in Answers /\ Seen(handling.id) /\ first[handling.id] # "none"
  /\ \A c \in Callers : first[c] # "none" => Seen(c)

\* A waiting request's channel holds the first answer to it or, while the UI
\* is still on its way to the channel with that answer, nothing.
FirstComesFirst ==
  \A c \in Callers :
    /\ first[c] = "none" => reply[c] = "none"
    /\ pc[c] = "waiting" /\ first[c] # "none" =>
         \/ reply[c] = Verdict(first[c])
         \/ reply[c] = "none" /\ ui # "idle" /\ handling.id = c /\ handling.act = first[c]

\* "Allow for session" is recorded before anything else is done about it.
Recorded ==
  \A c \in Callers : first[c] = "session" => HasSessionGrant(c)

\* What has an outcome was called.
Returned == \A c \in Callers : outcome[c] # "none" => pc[c] # "idle"

\* A non-interactive process has one session of the user's.
OneRun == \A s \in Roots : modes[s] # "ask" => open \cap Roots = {s}

\* Refusals are filed only under a session that refuses everything.
FiledWhereDenied == \A s \in Sessions : modes[s] # "deny" => denied[s] = <<>>

AllListed == \A s \in Roots : modes[s] = "deny" => Listed(s)

IInv ==
  /\ TypeOK
  /\ Linked
  /\ Placed
  /\ Locked
  /\ UIKnows
  /\ FirstComesFirst
  /\ Recorded
  /\ Returned
  /\ OutcomeIsDeserved
  /\ OneRun
  /\ FiledWhereDenied
  /\ AllListed

\* The initial states satisfy the inductive invariant.
LEMMA InitIInv == Init => IInv
<1> SUFFICES ASSUME Init PROVE IInv
  OBVIOUS
<1> USE PermissionAssumption DEF Init
<1>1. TypeOK
  <2>1. denied \in [Sessions -> Seq(Callers)]
    BY DEF Sessions
  <2>2. BagToSet(answers) \subseteq Answers
    BY BagOfNothing
  <2>3. drops \in 0 .. MaxDrops
    OBVIOUS
  <2>4. /\ pc \in [Callers -> States]
        /\ outcome \in [Callers -> Verdicts \cup {"none"}]
        /\ reply \in [Callers -> Verdicts \cup {"none"}]
        /\ first \in [Callers -> Actions \cup {"none"}]
    BY DEF States
  <2> QED
    BY <2>1, <2>2, <2>3, <2>4 DEF TypeOK
<1>2. Linked
  BY DEF Linked, Headless, Sessions
<1>3. Placed
  BY DEF Placed
<1>4. Locked
  BY DEF Locked, Registered
<1>5. UIKnows
  BY BagOfNothing DEF UIKnows
<1>6. FirstComesFirst /\ Recorded /\ Returned /\ OutcomeIsDeserved
  BY DEF FirstComesFirst, Recorded, Returned, OutcomeIsDeserved
<1>7. OneRun /\ FiledWhereDenied /\ AllListed
  BY DEF OneRun, FiledWhereDenied, AllListed, Listed, Sessions
<1> QED
  BY <1>1, <1>2, <1>3, <1>4, <1>5, <1>6, <1>7 DEF IInv

\* Every step preserves type correctness.
LEMMA NextTypeOK == TypeOK /\ Linked /\ Placed /\ UIKnows /\ [Next]_vars => TypeOK'
<1> SUFFICES ASSUME TypeOK, Linked, Placed, UIKnows, [Next]_vars PROVE TypeOK'
  OBVIOUS
<1> USE DEF TypeOK, sessions, request, channel, screen
<1>1. ASSUME NEW r \in Roots, StartInteractive(r) PROVE TypeOK'
  BY <1>1 DEF StartInteractive, Sessions
<1>2. ASSUME NEW r \in Roots, NEW m \in {"approve", "deny"}, StartHeadless(r, m) PROVE TypeOK'
  BY <1>2 DEF StartHeadless, Sessions
<1>3. ASSUME NEW r \in Subagents, NEW p \in Roots, OpenSubagent(r, p) PROVE TypeOK'
  BY <1>3 DEF OpenSubagent, Sessions
<1>4. ASSUME NEW c \in Callers, NEW r \in Sessions, NEW k \in Keys, Call(c, r, k) PROVE TypeOK'
  BY <1>4 DEF Call, States, Verdicts
<1>5. ASSUME NEW c \in Callers, RecordDenied(c) PROVE TypeOK'
  <2>1. ModeOwner(sess[c]) \in Sessions
    BY <1>5 DEF RecordDenied, Goto, ModeOwner, Placed, Sessions
  <2>2. Append(denied[ModeOwner(sess[c])], c) \in Seq(Callers)
    BY <2>1
  <2>3. denied' \in [Sessions -> Seq(Callers)]
    BY <1>5, <2>1, <2>2 DEF RecordDenied
  <2> QED
    BY <1>5, <2>3 DEF RecordDenied, Goto, States, Verdicts
<1>6. ASSUME NEW c \in Callers, LockPrompt(c) \/ Unlock(c) PROVE TypeOK'
  BY <1>6 DEF LockPrompt, Unlock, Goto, States
<1>7. ASSUME NEW c \in Callers, Covered(c) PROVE TypeOK'
  BY <1>7 DEF Covered, Goto, States, Verdicts
<1>8. ASSUME NEW c \in Callers, Register(c) \/ Unregister(c) PROVE TypeOK'
  BY <1>8 DEF Register, Unregister, Goto, States
<1>9. ASSUME NEW c \in Callers, Ask(c) PROVE TypeOK'
  BY <1>9 DEF Ask, Goto, States
<1>10. ASSUME NEW c \in Callers, Receive(c) PROVE TypeOK'
  BY <1>10 DEF Receive, Goto, States, Verdicts
<1>11. ASSUME NEW c \in Callers, DropEvent(c) PROVE TypeOK'
  BY <1>11, PermissionAssumption DEF DropEvent
<1>12. ASSUME NEW c \in wire, ShowDialog(c) PROVE TypeOK'
  BY <1>12 DEF ShowDialog
<1>13. ASSUME NEW x \in Answers, TakeAnswer(x) PROVE TypeOK'
  <2>1. x.id \in Callers /\ x.act \in Actions
    BY DEF Answers
  <2>2. BagToSet(answers') \subseteq Answers
    BY <1>13, BagRemove DEF TakeAnswer
  <2>3. x \in BagToSet(answers)
    BY <1>13 DEF TakeAnswer, BagIn
  <2>4. <<sess[x.id], key[x.id]>> \in Sessions \X Keys
    BY <2>1, <2>3 DEF UIKnows, Placed, Seen
  <2>5. grants' \subseteq Sessions \X Keys
    BY <1>13, <2>4 DEF TakeAnswer
  <2>6. first' \in [Callers -> Actions \cup {"none"}]
    BY <1>13, <2>1 DEF TakeAnswer
  <2> QED
    BY <1>13, <2>2, <2>5, <2>6 DEF TakeAnswer
<1>14. CASE LoadReply
  BY <1>14 DEF LoadReply
<1>15. CASE LoadNothing
  <2>1. lost' \subseteq Callers
    BY <1>15 DEF LoadNothing, HideDialog, UIKnows
  <2> QED
    BY <1>15, <2>1 DEF LoadNothing, HideDialog
<1>16. CASE SendReply
  <2>1. reply' \in [Callers -> Verdicts \cup {"none"}]
    BY <1>16 DEF SendReply, Verdict, Verdicts
  <2>2. lost' \subseteq Callers
    BY <1>16 DEF SendReply, HideDialog, UIKnows
  <2> QED
    BY <1>16, <2>1, <2>2 DEF SendReply, HideDialog
<1>17. ASSUME NEW a \in Actions, PressKey(a) PROVE TypeOK'
  <2>1. [id |-> dialog, act |-> a] \in Answers
    BY <1>17 DEF PressKey, UIKnows, Answers
  <2>2. BagToSet(answers') \subseteq Answers
    <3>1. answers' = answers (+) SetToBag({[id |-> dialog, act |-> a]})
      BY <1>17 DEF PressKey
    <3>2. BagToSet(answers') = BagToSet(answers) \cup {[id |-> dialog, act |-> a]}
      BY <3>1, BagAdd
    <3> QED
      BY <2>1, <3>2
  <2> QED
    BY <1>17, <2>2 DEF PressKey
<1>18. CASE UNCHANGED vars
  BY <1>18 DEF vars
<1> QED
  BY <1>1, <1>2, <1>3, <1>4, <1>5, <1>6, <1>7, <1>8, <1>9, <1>10, <1>11, <1>12, <1>13, <1>14,
     <1>15, <1>16, <1>17, <1>18
  DEF Next, RequestStep, UIStep, UserAnswers

\* Every step keeps modes and links settled before a session runs.
LEMMA NextLinked == TypeOK /\ Linked /\ [Next]_vars => Linked'
<1> SUFFICES ASSUME TypeOK, Linked, [Next]_vars PROVE Linked'
  OBVIOUS
<1> USE PermissionAssumption DEF TypeOK, Linked, Headless, Sessions
<1>1. ASSUME NEW r \in Roots, StartInteractive(r) PROVE Linked'
  BY <1>1 DEF StartInteractive
<1>2. ASSUME NEW r \in Roots, NEW m \in {"approve", "deny"}, StartHeadless(r, m) PROVE Linked'
  BY <1>2 DEF StartHeadless
<1>3. ASSUME NEW r \in Subagents, NEW p \in Roots, OpenSubagent(r, p) PROVE Linked'
  BY <1>3 DEF OpenSubagent
<1>4. ASSUME UNCHANGED <<modes, parents, open>> PROVE Linked'
  BY <1>4
<1>5. ASSUME NEW c \in Callers, RequestStep(c) PROVE UNCHANGED <<modes, parents, open>>
  BY <1>5 DEF RequestStep, RecordDenied, LockPrompt, Covered, Register, Ask, Receive,
              Unregister, Unlock, sessions
<1>6. ASSUME NEW c \in Callers, NEW s \in Sessions, NEW k \in Keys, Call(c, s, k)
      PROVE  UNCHANGED <<modes, parents, open>>
  BY <1>6 DEF Call, sessions
<1>7. ASSUME UIStep \/ UserAnswers \/ \E c \in Callers : DropEvent(c)
      PROVE  UNCHANGED <<modes, parents, open>>
  BY <1>7 DEF UIStep, ShowDialog, TakeAnswer, LoadReply, LoadNothing, SendReply, UserAnswers,
              PressKey, DropEvent, sessions
<1>8. CASE UNCHANGED vars
  BY <1>8, <1>4 DEF vars, sessions
<1> QED
  BY <1>1, <1>2, <1>3, <1>4, <1>5, <1>6, <1>7, <1>8 DEF Next

\* A Request under way keeps its session, its key and its mode.
Settled(c) ==
  sess'[c] = sess[c] /\ key'[c] = key[c] /\ Mode(sess[c])' = Mode(sess[c])

LEMMA NextSettled ==
  TypeOK /\ Linked /\ Placed /\ [Next]_vars =>
    open \subseteq open' /\ \A c \in Callers : pc[c] # "idle" => Settled(c)
<1> SUFFICES ASSUME TypeOK, Linked, Placed, [Next]_vars
             PROVE  open \subseteq open' /\ \A c \in Callers : pc[c] # "idle" => Settled(c)
  OBVIOUS
<1> USE DEF TypeOK, Settled, Mode, ModeOwner, sessions, request
<1>1. ASSUME NEW r \in Roots, StartInteractive(r)
      PROVE  open \subseteq open' /\ \A c \in Callers : pc[c] # "idle" => Settled(c)
  BY <1>1 DEF StartInteractive
<1>2. ASSUME NEW r \in Roots, NEW m \in {"approve", "deny"}, StartHeadless(r, m)
      PROVE  open \subseteq open' /\ \A c \in Callers : pc[c] # "idle" => Settled(c)
  BY <1>2 DEF StartHeadless, Placed
<1>3. ASSUME NEW r \in Subagents, NEW p \in Roots, OpenSubagent(r, p)
      PROVE  open \subseteq open' /\ \A c \in Callers : pc[c] # "idle" => Settled(c)
  <2>1. \A c \in Callers : pc[c] # "idle" => sess[c] # r
    BY <1>3 DEF OpenSubagent, Placed
  <2> QED
    BY <1>3, <2>1 DEF OpenSubagent
<1>4. ASSUME NEW d \in Callers, NEW r \in Sessions, NEW k \in Keys, Call(d, r, k)
      PROVE  open \subseteq open' /\ \A c \in Callers : pc[c] # "idle" => Settled(c)
  BY <1>4 DEF Call
<1>5. ASSUME NEW d \in Callers, RequestStep(d)
      PROVE  UNCHANGED <<modes, parents, open, sess, key>>
  BY <1>5 DEF RequestStep, RecordDenied, LockPrompt, Covered, Register, Ask, Receive,
              Unregister, Unlock
<1>6. ASSUME UIStep \/ UserAnswers \/ \E d \in Callers : DropEvent(d)
      PROVE  UNCHANGED <<modes, parents, open, sess, key>>
  BY <1>6 DEF UIStep, ShowDialog, TakeAnswer, LoadReply, LoadNothing, SendReply, UserAnswers,
              PressKey, DropEvent
<1>7. CASE UNCHANGED vars
  BY <1>7 DEF vars
<1>8. ASSUME UNCHANGED <<modes, parents, open, sess, key>>
      PROVE  open \subseteq open' /\ \A c \in Callers : pc[c] # "idle" => Settled(c)
  BY <1>8
<1> QED
  BY <1>1, <1>2, <1>3, <1>4, <1>5, <1>6, <1>7, <1>8 DEF Next

\* Every step keeps a Request where its mode sends it.
LEMMA NextPlaced == TypeOK /\ Linked /\ Placed /\ [Next]_vars => Placed'
<1> SUFFICES ASSUME TypeOK, Linked, Placed, [Next]_vars PROVE Placed'
  OBVIOUS
<1>1. open \subseteq open' /\ \A c \in Callers : pc[c] # "idle" => Settled(c)
  BY NextSettled
<1> USE DEF TypeOK, Placed, Goto, Settled
<1>2. ASSUME UNCHANGED pc PROVE Placed'
  BY <1>1, <1>2
<1>3. ASSUME NEW d \in Callers, NEW r \in Sessions, NEW k \in Keys, Call(d, r, k)
      PROVE  Placed'
  <2>1. \A c \in Callers \ {d} : pc'[c] = pc[c]
    BY <1>3 DEF Call
  <2>2. /\ sess'[d] \in open' /\ key'[d] \in Keys
        /\ pc'[d] = "denying" => Mode(sess[d])' = "deny"
        /\ pc'[d] \notin {"idle", "denying", "done"} => Mode(sess[d])' = "ask"
    BY <1>3 DEF Call, sessions, Mode, ModeOwner
  <2> QED
    BY <1>1, <2>1, <2>2
<1>4. ASSUME NEW d \in Callers, RequestStep(d)
      PROVE  Placed'
  <2>1. \A c \in Callers \ {d} : pc'[c] = pc[c]
    BY <1>4 DEF RequestStep, RecordDenied, LockPrompt, Covered, Register, Ask, Receive,
                Unregister, Unlock
  <2>2. /\ pc[d] # "idle" /\ pc'[d] # "denying"
        /\ pc'[d] # "done" => pc[d] \notin {"denying", "done"}
    BY <1>4 DEF RequestStep, RecordDenied, LockPrompt, Covered, Register, Ask, Receive,
                Unregister, Unlock
  <2> QED
    BY <1>1, <2>1, <2>2
<1>5. ASSUME \/ UIStep \/ UserAnswers \/ \E d \in Callers : DropEvent(d)
             \/ \E r \in Roots : StartInteractive(r)
             \/ \E r \in Roots, m \in {"approve", "deny"} : StartHeadless(r, m)
             \/ \E r \in Subagents, p \in Roots : OpenSubagent(r, p)
      PROVE  UNCHANGED pc
  BY <1>5 DEF UIStep, ShowDialog, TakeAnswer, LoadReply, LoadNothing, SendReply, UserAnswers,
              PressKey, DropEvent, StartInteractive, StartHeadless, OpenSubagent
<1>6. CASE UNCHANGED vars
  BY <1>6, <1>2 DEF vars
<1> QED
  BY <1>2, <1>3, <1>4, <1>5, <1>6 DEF Next

\* Every step keeps promptMu with the one request past it.
LEMMA NextLocked ==
  TypeOK /\ Locked /\ UIKnows /\ FirstComesFirst /\ [Next]_vars => Locked'
<1> SUFFICES ASSUME TypeOK, Locked, UIKnows, FirstComesFirst, [Next]_vars PROVE Locked'
  OBVIOUS
<1> USE DEF TypeOK, Locked, Registered, Goto, channel
<1>1. ASSUME NEW d \in Callers, NEW r \in Sessions, NEW k \in Keys, Call(d, r, k)
      PROVE  Locked'
  BY <1>1 DEF Call
<1>2. ASSUME NEW d \in Callers, RecordDenied(d) PROVE Locked'
  BY <1>2 DEF RecordDenied
<1>3. ASSUME NEW d \in Callers, LockPrompt(d) PROVE Locked'
  BY <1>3, PermissionAssumption DEF LockPrompt
<1>4. ASSUME NEW d \in Callers, Covered(d) PROVE Locked'
  BY <1>4 DEF Covered
<1>5. ASSUME NEW d \in Callers, Register(d) PROVE Locked'
  BY <1>5 DEF Register
<1>6. ASSUME NEW d \in Callers, Ask(d) PROVE Locked'
  BY <1>6 DEF Ask
<1>7. ASSUME NEW d \in Callers, Receive(d) PROVE Locked'
  <2>1. d \notin wire
    BY <1>7 DEF Receive, UIKnows, Seen, FirstComesFirst
  <2> QED
    BY <1>7, <2>1 DEF Receive
<1>8. ASSUME NEW d \in Callers, Unregister(d) PROVE Locked'
  BY <1>8 DEF Unregister
<1>9. ASSUME NEW d \in Callers, Unlock(d) PROVE Locked'
  BY <1>9 DEF Unlock
<1>10. ASSUME UNCHANGED <<pc, lock, pending>>, wire' \subseteq wire PROVE Locked'
  BY <1>10
<1>11. ASSUME \/ UIStep \/ UserAnswers \/ \E d \in Callers : DropEvent(d)
              \/ \E r \in Roots : StartInteractive(r)
              \/ \E r \in Roots, m \in {"approve", "deny"} : StartHeadless(r, m)
              \/ \E r \in Subagents, p \in Roots : OpenSubagent(r, p)
       PROVE  UNCHANGED <<pc, lock, pending>> /\ wire' \subseteq wire
  BY <1>11 DEF UIStep, ShowDialog, TakeAnswer, LoadReply, LoadNothing, SendReply, UserAnswers,
               PressKey, DropEvent, StartInteractive, StartHeadless, OpenSubagent
<1>12. CASE UNCHANGED vars
  BY <1>10, <1>12 DEF vars
<1> QED
  BY <1>1, <1>2, <1>3, <1>4, <1>5, <1>6, <1>7, <1>8, <1>9, <1>10, <1>11, <1>12
  DEF Next, RequestStep

\* Every step leaves the UI knowing published requests only.
LEMMA NextUIKnows ==
  TypeOK /\ Locked /\ UIKnows /\ [Next]_vars => UIKnows'
<1> SUFFICES ASSUME TypeOK, Locked, UIKnows, [Next]_vars PROVE UIKnows'
  OBVIOUS
<1> USE DEF TypeOK, UIKnows, Seen, screen
<1> DEFINE Kept == \A c \in Callers : Seen(c) => Seen(c)'
<1>1. ASSUME Kept, UNCHANGED screen PROVE UIKnows'
  <2>1. \A x \in BagToSet(answers) : x.id \in Callers
    BY DEF Answers
  <2>2. ui # "idle" => handling.id \in Callers
    BY DEF Answers
  <2> QED
    BY <1>1, <2>1, <2>2
<1>2. ASSUME NEW d \in Callers, NEW r \in Sessions, NEW k \in Keys, Call(d, r, k)
      PROVE  UIKnows'
  <2>1. Kept
    BY <1>2 DEF Call
  <2> QED
    BY <1>1, <1>2, <2>1 DEF Call
<1>3. ASSUME NEW d \in Callers, RequestStep(d)
      PROVE  UIKnows'
  <2>1. Kept
    BY <1>3 DEF RequestStep, RecordDenied, LockPrompt, Covered, Register, Ask, Receive,
                Unregister, Unlock, Goto
  <2>2. UNCHANGED screen
    BY <1>3 DEF RequestStep, RecordDenied, LockPrompt, Covered, Register, Ask, Receive,
                Unregister, Unlock
  <2> QED
    BY <1>1, <2>1, <2>2
<1>4. ASSUME NEW d \in Callers, DropEvent(d)
      PROVE  UIKnows'
  <2>1. Kept /\ UNCHANGED screen
    BY <1>4 DEF DropEvent
  <2> QED
    BY <1>1, <2>1
<1>5. ASSUME \/ \E r \in Roots : StartInteractive(r)
             \/ \E r \in Roots, m \in {"approve", "deny"} : StartHeadless(r, m)
             \/ \E r \in Subagents, p \in Roots : OpenSubagent(r, p)
      PROVE  UIKnows'
  <2>1. Kept /\ UNCHANGED screen
    BY <1>5 DEF StartInteractive, StartHeadless, OpenSubagent
  <2> QED
    BY <1>1, <2>1
<1>6. ASSUME NEW d \in wire, ShowDialog(d)
      PROVE  UIKnows'
  <2>1. Kept
    BY <1>6 DEF ShowDialog
  <2>2. Seen(d)' /\ d # None /\ ui' = "idle"
    BY <1>6, PermissionAssumption DEF ShowDialog, Locked
  <2>3. \A x \in BagToSet(answers) : x.id \in Callers
    BY DEF Answers
  <2>4. dialog' = d /\ UNCHANGED <<answers, handling, first>>
    BY <1>6 DEF ShowDialog
  <2>5. \A x \in BagToSet(answers') : Seen(x.id)'
    BY <2>1, <2>3, <2>4
  <2> QED
    BY <2>1, <2>2, <2>4, <2>5
<1>7. ASSUME NEW a \in Actions, PressKey(a)
      PROVE  UIKnows'
  <2>1. BagToSet(answers') = BagToSet(answers) \cup {[id |-> dialog, act |-> a]}
    BY <1>7, BagAdd DEF PressKey
  <2>2. UNCHANGED <<pc, wire, shown, dialog, ui, handling, first>>
    BY <1>7 DEF PressKey
  <2>3. Seen(dialog)
    BY <1>7 DEF PressKey
  <2>4. \A x \in BagToSet(answers') : Seen(x.id)'
    BY <2>1, <2>2, <2>3
  <2> QED
    BY <2>2, <2>4
<1>8. ASSUME NEW x \in Answers, TakeAnswer(x)
      PROVE  UIKnows'
  <2>1. BagToSet(answers') \subseteq BagToSet(answers)
    BY <1>8, BagRemove DEF TakeAnswer
  <2>2. Seen(x.id) /\ x.id \in Callers /\ x.act # "none"
    BY <1>8 DEF TakeAnswer, BagIn, Answers, Actions
  <2>3. first'[x.id] # "none" /\ \A c \in Callers \ {x.id} : first'[c] = first[c]
    BY <1>8, <2>2 DEF TakeAnswer
  <2>4. UNCHANGED <<pc, wire, shown, dialog>> /\ handling' = x
    BY <1>8 DEF TakeAnswer
  <2> QED
    BY <2>1, <2>2, <2>3, <2>4
<1>9. CASE LoadReply
  BY <1>9 DEF LoadReply
<1>10. CASE LoadNothing
  BY <1>10 DEF LoadNothing, HideDialog
<1>11. CASE SendReply
  BY <1>11 DEF SendReply, HideDialog
<1>12. CASE UNCHANGED vars
  BY <1>1, <1>12 DEF vars
<1> QED
  BY <1>2, <1>3, <1>4, <1>5, <1>6, <1>7, <1>8, <1>9, <1>10, <1>11, <1>12
  DEF Next, UIStep, UserAnswers

\* Every step leaves the first answer the one a waiting request gets.
LEMMA NextFirst ==
  TypeOK /\ Locked /\ UIKnows /\ FirstComesFirst /\ [Next]_vars => FirstComesFirst'
<1> SUFFICES ASSUME TypeOK, Locked, UIKnows, FirstComesFirst, [Next]_vars
             PROVE  FirstComesFirst'
  OBVIOUS
<1> USE DEF TypeOK, FirstComesFirst
<1> DEFINE NoNewWait == \A c \in Callers : pc'[c] = "waiting" => pc[c] = "waiting"
<1>1. ASSUME NoNewWait, UNCHANGED <<reply, first, ui, handling>> PROVE FirstComesFirst'
  BY <1>1
<1>2. ASSUME NEW d \in Callers, Ask(d) PROVE FirstComesFirst'
  <2>1. first[d] = "none"
    BY <1>2 DEF Ask, Goto, UIKnows, Seen
  <2> QED
    BY <1>2, <2>1 DEF Ask, Goto, channel, screen
<1>3. ASSUME NEW d \in Callers, Receive(d) PROVE FirstComesFirst'
  BY <1>3 DEF Receive, Goto, screen
<1>4. ASSUME NEW d \in Callers,
             \/ RecordDenied(d) \/ LockPrompt(d) \/ Covered(d) \/ Register(d) \/ Unregister(d)
             \/ Unlock(d) \/ DropEvent(d) \/ \E r \in Sessions, k \in Keys : Call(d, r, k)
      PROVE  NoNewWait /\ UNCHANGED <<reply, first, ui, handling>>
  BY <1>4 DEF RecordDenied, LockPrompt, Covered, Register, Unregister, Unlock, DropEvent, Call,
              Goto, channel, screen
<1>5. ASSUME \/ \E r \in Roots : StartInteractive(r)
             \/ \E r \in Roots, m \in {"approve", "deny"} : StartHeadless(r, m)
             \/ \E r \in Subagents, p \in Roots : OpenSubagent(r, p)
             \/ UserAnswers
      PROVE  NoNewWait /\ UNCHANGED <<reply, first, ui, handling>>
  BY <1>5 DEF StartInteractive, StartHeadless, OpenSubagent, UserAnswers, PressKey, channel,
              screen
<1>6. ASSUME NEW d \in wire, ShowDialog(d) PROVE FirstComesFirst'
  BY <1>6, <1>1 DEF ShowDialog, channel
<1>7. ASSUME NEW x \in Answers, TakeAnswer(x) PROVE FirstComesFirst'
  <2>1. x.id \in Callers /\ x.act \in Actions /\ x.act # "none"
    BY DEF Answers, Actions
  <2>2. /\ UNCHANGED <<pc, reply>> /\ ui = "idle" /\ ui' = "loading" /\ handling' = x
        /\ first' = [first EXCEPT ![x.id] = IF @ = "none" THEN x.act ELSE @]
    BY <1>7 DEF TakeAnswer, channel
  <2> QED
    BY <2>1, <2>2
<1>8. CASE LoadReply
  BY <1>8 DEF LoadReply, channel
<1>9. CASE LoadNothing
  <2>1. \A c \in Callers : pc[c] = "waiting" => handling.id # c
    BY <1>9 DEF LoadNothing, Locked, Registered
  <2> QED
    BY <1>9, <2>1 DEF LoadNothing, HideDialog, channel
<1>10. CASE SendReply
  <2>1. handling.id \in Callers /\ first[handling.id] # "none"
    BY <1>10 DEF SendReply, UIKnows, Answers
  <2>2. /\ UNCHANGED <<pc, first>> /\ reply[handling.id] = "none"
        /\ reply' = [reply EXCEPT ![handling.id] = Verdict(handling.act)]
    BY <1>10 DEF SendReply, HideDialog
  <2>3. \A c \in Callers \ {handling.id} : reply'[c] = reply[c]
    BY <2>2
  <2>4. pc[handling.id] = "waiting" => reply'[handling.id] = Verdict(first[handling.id])
    BY <2>1, <2>2 DEF Verdict
  <2> QED
    BY <2>1, <2>2, <2>3, <2>4
<1>11. CASE UNCHANGED vars
  BY <1>1, <1>11 DEF vars, channel, screen
<1> QED
  BY <1>1, <1>2, <1>3, <1>4, <1>5, <1>6, <1>7, <1>8, <1>9, <1>10, <1>11
  DEF Next, RequestStep, UIStep

\* Every step keeps grants, and records one with the answer it came in.
LEMMA NextRecorded ==
  TypeOK /\ Linked /\ Placed /\ UIKnows /\ Recorded /\ [Next]_vars =>
    Recorded' /\ grants \subseteq grants'
<1> SUFFICES ASSUME TypeOK, Linked, Placed, UIKnows, Recorded, [Next]_vars
             PROVE  Recorded' /\ grants \subseteq grants'
  OBVIOUS
<1>1. \A c \in Callers : pc[c] # "idle" => Settled(c)
  BY NextSettled
<1>2. \A c \in Callers : first[c] # "none" => Settled(c)
  BY <1>1 DEF UIKnows, Seen
<1> USE DEF TypeOK, Recorded, HasSessionGrant, Settled
<1>3. ASSUME UNCHANGED <<first, grants>> PROVE Recorded' /\ grants \subseteq grants'
  BY <1>2, <1>3
<1>4. ASSUME NEW x \in Answers, TakeAnswer(x) PROVE Recorded' /\ grants \subseteq grants'
  <2>1. x.id \in Callers
    BY DEF Answers
  <2>2. UNCHANGED <<sess, key>> /\ grants \subseteq grants'
    BY <1>4 DEF TakeAnswer, request
  <2>3. first' = [first EXCEPT ![x.id] = IF @ = "none" THEN x.act ELSE @]
    BY <1>4 DEF TakeAnswer
  <2>4. x.act = "session" => <<sess[x.id], key[x.id]>> \in grants'
    BY <1>4 DEF TakeAnswer
  <2> QED
    BY <2>1, <2>2, <2>3, <2>4
<1>5. ASSUME NEW d \in Callers,
             \/ RequestStep(d) \/ DropEvent(d)
             \/ \E r \in Sessions, k \in Keys : Call(d, r, k)
      PROVE  UNCHANGED <<first, grants>>
  BY <1>5 DEF RequestStep, RecordDenied, LockPrompt, Covered, Register, Ask, Receive,
              Unregister, Unlock, DropEvent, Call, screen
<1>6. ASSUME \/ \E r \in Roots : StartInteractive(r)
             \/ \E r \in Roots, m \in {"approve", "deny"} : StartHeadless(r, m)
             \/ \E r \in Subagents, p \in Roots : OpenSubagent(r, p)
             \/ UserAnswers \/ LoadReply \/ LoadNothing \/ SendReply
             \/ \E d \in wire : ShowDialog(d)
      PROVE  UNCHANGED <<first, grants>>
  BY <1>6 DEF StartInteractive, StartHeadless, OpenSubagent, UserAnswers, PressKey, LoadReply,
              LoadNothing, SendReply, HideDialog, ShowDialog, screen
<1>7. CASE UNCHANGED vars
  BY <1>3, <1>7 DEF vars, screen
<1> QED
  BY <1>3, <1>4, <1>5, <1>6, <1>7 DEF Next, UIStep

\* Every step gives a Request the outcome it deserves.
LEMMA NextDeserved ==
  IInv /\ [Next]_vars => Returned' /\ OutcomeIsDeserved'
<1> SUFFICES ASSUME IInv, [Next]_vars PROVE Returned' /\ OutcomeIsDeserved'
  OBVIOUS
<1>1. grants \subseteq grants' /\ \A c \in Callers : pc[c] # "idle" => Settled(c)
  BY NextRecorded, NextSettled DEF IInv
<1>2. \A c \in Callers : first[c] # "none" => first'[c] = first[c]
  <2>1. ASSUME NEW x \in Answers, TakeAnswer(x)
        PROVE  \A c \in Callers : first[c] # "none" => first'[c] = first[c]
    BY <2>1 DEF TakeAnswer, IInv, TypeOK
  <2>2. ASSUME NEW c \in Callers, RequestStep(c) PROVE first' = first
    BY <2>2 DEF RequestStep, RecordDenied, LockPrompt, Covered, Register, Ask, Receive, Unregister,
                Unlock, screen
  <2>3. ASSUME \/ \E c \in wire : ShowDialog(c)
               \/ LoadReply \/ LoadNothing \/ SendReply \/ UserAnswers
        PROVE  first' = first
    BY <2>3 DEF ShowDialog, LoadReply, LoadNothing, SendReply, HideDialog, UserAnswers, PressKey
  <2>4. ASSUME \/ \E s \in Roots : StartInteractive(s) \/ \E m \in {"approve", "deny"} : StartHeadless(s, m)
               \/ \E s \in Subagents, p \in Roots : OpenSubagent(s, p)
               \/ \E c \in Callers : DropEvent(c) \/ \E s \in Sessions, k \in Keys : Call(c, s, k)
        PROVE  first' = first
    BY <2>4 DEF StartInteractive, StartHeadless, OpenSubagent, DropEvent, Call, screen
  <2>5. UNCHANGED vars => first' = first
    BY DEF vars, screen
  <2> QED
    BY <2>1, <2>2, <2>3, <2>4, <2>5 DEF Next, UIStep
<1> DEFINE Deserved(c) ==
             \/ Mode(sess[c]) = (IF outcome[c] = "allow" THEN "approve" ELSE "deny")
             \/ first[c] # "none" /\ outcome[c] = Verdict(first[c])
             \/ outcome[c] = "allow" /\ HasSessionGrant(c)
<1>3. ASSUME NEW c \in Callers, outcome'[c] = outcome[c], outcome[c] # "none", pc[c] # "idle"
      PROVE  Deserved(c)'
  BY <1>1, <1>2, <1>3 DEF IInv, OutcomeIsDeserved, Settled, HasSessionGrant
<1> USE DEF IInv, TypeOK, Returned
<1>4. ASSUME UNCHANGED <<outcome, pc>> PROVE Returned' /\ OutcomeIsDeserved'
  BY <1>3, <1>4 DEF OutcomeIsDeserved
<1>5. ASSUME NEW d \in Callers, pc'[d] # "idle", outcome'[d] = "none" \/ Deserved(d)',
             \A c \in Callers \ {d} : outcome'[c] = outcome[c] /\ pc'[c] = pc[c]
      PROVE  Returned' /\ OutcomeIsDeserved'
  <2>1. Returned'
    BY <1>5
  <2>2. ASSUME NEW c \in Callers, outcome'[c] # "none" PROVE Deserved(c)'
    <3>1. CASE c = d
      BY <1>5, <2>2, <3>1
    <3>2. CASE c # d
      BY <1>3, <1>5, <2>2, <3>2
    <3> QED
      BY <3>1, <3>2
  <2> QED
    BY <2>1, <2>2 DEF OutcomeIsDeserved
<1>6. ASSUME NEW d \in Callers, NEW r \in Sessions, NEW k \in Keys, Call(d, r, k)
      PROVE  Returned' /\ OutcomeIsDeserved'
  <2>1. \A c \in Callers \ {d} : outcome'[c] = outcome[c] /\ pc'[c] = pc[c]
    BY <1>6 DEF Call
  <2>2. pc'[d] # "idle" /\ (outcome'[d] = "none" \/ Deserved(d)')
    BY <1>6 DEF Call, Mode, ModeOwner, sessions
  <2> QED
    BY <1>5, <2>1, <2>2
<1>7. ASSUME NEW d \in Callers, RecordDenied(d)
      PROVE  Returned' /\ OutcomeIsDeserved'
  <2>1. Mode(sess[d])' = "deny" /\ outcome'[d] = "deny"
    BY <1>1, <1>7 DEF RecordDenied, Goto, Placed, Settled
  <2> QED
    BY <1>5, <1>7, <2>1 DEF RecordDenied, Goto
<1>8. ASSUME NEW d \in Callers, Covered(d)
      PROVE  Returned' /\ OutcomeIsDeserved'
  <2>1. HasSessionGrant(d)' /\ outcome'[d] = "allow"
    BY <1>8 DEF Covered, HasSessionGrant
  <2> QED
    BY <1>5, <1>8, <2>1 DEF Covered, Goto
<1>9. ASSUME NEW d \in Callers, Receive(d)
      PROVE  Returned' /\ OutcomeIsDeserved'
  <2>1. first[d] # "none" /\ reply[d] = Verdict(first[d])
    BY <1>9 DEF Receive, Goto, FirstComesFirst
  <2>2. first'[d] # "none" /\ outcome'[d] = Verdict(first'[d])
    BY <1>2, <1>9, <2>1 DEF Receive
  <2> QED
    BY <1>5, <1>9, <2>2 DEF Receive, Goto
<1>10. ASSUME NEW d \in Callers,
              LockPrompt(d) \/ Register(d) \/ Ask(d) \/ Unregister(d) \/ Unlock(d)
       PROVE  Returned' /\ OutcomeIsDeserved'
  <2>1. pc[d] # "idle" /\ pc'[d] # "idle" /\ outcome' = outcome
    BY <1>10 DEF LockPrompt, Register, Ask, Unregister, Unlock, Goto, request
  <2>2. \A c \in Callers \ {d} : pc'[c] = pc[c]
    BY <1>10 DEF LockPrompt, Register, Ask, Unregister, Unlock, Goto
  <2>3. outcome'[d] = "none" \/ Deserved(d)'
    BY <1>3, <2>1
  <2> QED
    BY <1>5, <2>1, <2>2, <2>3
<1>11. ASSUME \/ UIStep \/ UserAnswers \/ \E d \in Callers : DropEvent(d)
              \/ \E r \in Roots : StartInteractive(r)
              \/ \E r \in Roots, m \in {"approve", "deny"} : StartHeadless(r, m)
              \/ \E r \in Subagents, p \in Roots : OpenSubagent(r, p)
       PROVE  UNCHANGED <<outcome, pc>>
  BY <1>11 DEF UIStep, ShowDialog, TakeAnswer, LoadReply, LoadNothing, SendReply, UserAnswers,
               PressKey, DropEvent, StartInteractive, StartHeadless, OpenSubagent, request
<1>12. CASE UNCHANGED vars
  BY <1>4, <1>12 DEF vars, request
<1> QED
  BY <1>4, <1>6, <1>7, <1>8, <1>9, <1>10, <1>11, <1>12 DEF Next, RequestStep

\* Every step leaves a non-interactive process with one session of the user's.
LEMMA NextOneRun == TypeOK /\ Linked /\ OneRun /\ [Next]_vars => OneRun'
<1> SUFFICES ASSUME TypeOK, Linked, OneRun, [Next]_vars PROVE OneRun'
  OBVIOUS
<1> USE PermissionAssumption DEF TypeOK, Linked, OneRun, Sessions, sessions
<1>1. ASSUME NEW r \in Roots, StartInteractive(r) PROVE OneRun'
  BY <1>1 DEF StartInteractive, Headless
<1>2. ASSUME NEW r \in Roots, NEW m \in {"approve", "deny"}, StartHeadless(r, m) PROVE OneRun'
  BY <1>2 DEF StartHeadless
<1>3. ASSUME NEW r \in Subagents, NEW p \in Roots, OpenSubagent(r, p) PROVE OneRun'
  BY <1>3 DEF OpenSubagent
<1>4. ASSUME \/ UIStep \/ UserAnswers \/ UNCHANGED vars
             \/ \E c \in Callers : DropEvent(c) \/ RequestStep(c)
             \/ \E c \in Callers, s \in Sessions, k \in Keys : Call(c, s, k)
      PROVE  UNCHANGED <<modes, open>>
  BY <1>4 DEF RequestStep, RecordDenied, LockPrompt, Covered, Register, Ask, Receive,
              Unregister, Unlock, Call, UIStep, ShowDialog, TakeAnswer, LoadReply, LoadNothing,
              SendReply, UserAnswers, PressKey, DropEvent, vars
<1>5. ASSUME UNCHANGED <<modes, open>> PROVE OneRun'
  BY <1>5
<1> QED
  BY <1>1, <1>2, <1>3, <1>4, <1>5 DEF Next

\* The session whose mode settles a running session's requests is a root's.
LEMMA OwnerOfDenied ==
  ASSUME TypeOK, Linked, OneRun, NEW s \in open, NEW r \in Roots, modes[r] # "ask"
  PROVE  ModeOwner(s) = r
<1>1. open \cap Roots = {r}
  BY DEF OneRun
<1>2. CASE s \in Roots
  BY <1>1, <1>2 DEF ModeOwner, TypeOK
<1>3. CASE s \in Subagents
  <2>1. modes[s] = "ask" /\ parents[s] = r
    BY <1>1, <1>3 DEF Linked
  <2>2. r # None
    BY PermissionAssumption DEF Sessions
  <2> QED
    BY <2>1, <2>2 DEF ModeOwner
<1> QED
  BY <1>2, <1>3 DEF TypeOK, Sessions

\* Every step files refusals only where everything is refused.
LEMMA NextFiled ==
  TypeOK /\ Linked /\ Placed /\ FiledWhereDenied /\ [Next]_vars => FiledWhereDenied'
<1> SUFFICES ASSUME TypeOK, Linked, Placed, FiledWhereDenied, [Next]_vars PROVE FiledWhereDenied'
  OBVIOUS
<1> USE DEF TypeOK, FiledWhereDenied, sessions
<1>1. ASSUME NEW r \in Roots, NEW m \in {"approve", "deny"}, StartHeadless(r, m)
      PROVE  FiledWhereDenied'
  <2>1. modes[r] # "deny"
    BY <1>1 DEF StartHeadless, Linked, Sessions
  <2> QED
    BY <1>1, <2>1 DEF StartHeadless
<1>2. ASSUME NEW c \in Callers, RecordDenied(c)
      PROVE  FiledWhereDenied'
  <2>1. Mode(sess[c]) = "deny"
    BY <1>2 DEF RecordDenied, Goto, Placed
  <2> QED
    BY <1>2, <2>1 DEF RecordDenied, Mode
<1>3. ASSUME \/ UIStep \/ UserAnswers \/ UNCHANGED vars
             \/ \E c \in Callers : \/ DropEvent(c) \/ LockPrompt(c) \/ Covered(c) \/ Register(c)
                                   \/ Ask(c) \/ Receive(c) \/ Unregister(c) \/ Unlock(c)
             \/ \E c \in Callers, s \in Sessions, k \in Keys : Call(c, s, k)
             \/ \E s \in Roots : StartInteractive(s)
             \/ \E s \in Subagents, p \in Roots : OpenSubagent(s, p)
      PROVE  UNCHANGED <<modes, denied>>
  BY <1>3 DEF LockPrompt, Covered, Register, Ask, Receive,
              Unregister, Unlock, Call, UIStep, ShowDialog, TakeAnswer, LoadReply, LoadNothing,
              SendReply, UserAnswers, PressKey, DropEvent, vars, StartInteractive, OpenSubagent
<1>4. ASSUME UNCHANGED <<modes, denied>> PROVE FiledWhereDenied'
  BY <1>4
<1> QED
  BY <1>1, <1>2, <1>3, <1>4 DEF Next, RequestStep

\* Every step files each refusal of a non-interactive run once, under the run's
\* own session.
LEMMA NextReported ==
  TypeOK /\ Linked /\ Placed /\ OneRun /\ FiledWhereDenied /\ AllListed /\ [Next]_vars
    => AllListed'
<1> SUFFICES ASSUME TypeOK, Linked, Placed, OneRun, FiledWhereDenied, AllListed,
                    [Next]_vars, NEW r \in Roots, modes'[r] = "deny"
             PROVE  /\ ToSet(denied'[r]) = {c \in Callers : pc'[c] = "done"}
                    /\ IsInjective(denied'[r])
  BY DEF AllListed, Listed
<1> DEFINE Done == {c \in Callers : pc[c] = "done"}
           Goal == /\ ToSet(denied'[r]) = {c \in Callers : pc'[c] = "done"}
                   /\ IsInjective(denied'[r])
<1>1. r \in Sessions /\ denied[r] \in Seq(Callers)
  BY DEF TypeOK, Sessions
<1>2. modes[r] = "deny" => /\ ToSet(denied[r]) = Done /\ IsInjective(denied[r])
                           /\ \A c \in Callers : pc[c] \in {"idle", "denying", "done"}
                           /\ \A c \in Callers : pc[c] # "idle" => ModeOwner(sess[c]) = r
  <2> SUFFICES ASSUME modes[r] = "deny"
               PROVE  /\ ToSet(denied[r]) = Done /\ IsInjective(denied[r])
                      /\ \A c \in Callers : pc[c] \in {"idle", "denying", "done"}
                      /\ \A c \in Callers : pc[c] # "idle" => ModeOwner(sess[c]) = r
    OBVIOUS
  <2>1. \A c \in Callers : pc[c] # "idle" => ModeOwner(sess[c]) = r
    BY OwnerOfDenied DEF Placed
  <2>2. \A c \in Callers : pc[c] \in {"idle", "denying", "done"}
    BY <2>1 DEF Placed, Mode
  <2> QED
    BY <2>1, <2>2 DEF AllListed, Listed
<1>3. ASSUME NEW m \in {"approve", "deny"}, NEW q \in Roots, StartHeadless(q, m)
      PROVE  Goal
  <2>1. q = r /\ modes[r] # "deny"
    BY <1>1, <1>3 DEF StartHeadless, TypeOK, Linked
  <2>2. denied'[r] = <<>> /\ pc' = pc
    BY <1>1, <1>3, <2>1 DEF StartHeadless, FiledWhereDenied
  <2>3. \A c \in Callers : pc[c] = "idle"
    BY <1>3 DEF StartHeadless, Placed
  <2> QED
    BY <2>2, <2>3 DEF ToSet, IsInjective
<1>4. ASSUME NEW c \in Callers, RecordDenied(c)
      PROVE  Goal
  <2>1. modes[r] = "deny" /\ pc[c] = "denying" /\ pc' = [pc EXCEPT ![c] = "done"]
    BY <1>4 DEF RecordDenied, Goto
  <2>2. denied'[r] = Append(denied[r], c)
    BY <1>1, <1>2, <1>4, <2>1 DEF RecordDenied, TypeOK
  <2>3. c \notin ToSet(denied[r])
    BY <1>2, <2>1
  <2>4. ToSet(denied'[r]) = ToSet(denied[r]) \cup {c} /\ IsInjective(denied'[r])
    BY <1>1, <1>2, <2>1, <2>2, <2>3, AppendNew
  <2>5. {d \in Callers : pc'[d] = "done"} = Done \cup {c}
    BY <2>1 DEF TypeOK
  <2> QED
    BY <1>2, <2>1, <2>4, <2>5
<1>5. ASSUME NEW c \in Callers, NEW s \in Sessions, NEW k \in Keys, Call(c, s, k)
      PROVE  Goal
  <2>1. UNCHANGED <<modes, denied>> /\ s \in open /\ pc[c] = "idle"
    BY <1>5 DEF Call, sessions
  <2>2. Mode(s) = "deny"
    BY <2>1, OwnerOfDenied DEF Mode
  <2>3. pc' = [pc EXCEPT ![c] = "denying"]
    BY <1>5, <2>2 DEF Call
  <2>4. {d \in Callers : pc'[d] = "done"} = Done
    BY <2>1, <2>3 DEF TypeOK
  <2> QED
    BY <1>2, <2>1, <2>4
<1>6. ASSUME NEW c \in Callers,
             \/ LockPrompt(c) \/ Covered(c) \/ Register(c) \/ Ask(c) \/ Receive(c)
             \/ Unregister(c) \/ Unlock(c)
      PROVE  Goal
  <2>1. pc[c] \notin {"idle", "denying", "done"} /\ modes' = modes
    BY <1>6 DEF LockPrompt, Covered, Register, Ask, Receive, Unregister, Unlock, Goto, sessions
  <2> QED
    BY <1>2, <2>1
<1>7. ASSUME \/ UIStep \/ UserAnswers \/ UNCHANGED vars
             \/ \E c \in Callers : DropEvent(c)
             \/ \E s \in Roots : StartInteractive(s)
             \/ \E s \in Subagents, p \in Roots : OpenSubagent(s, p)
      PROVE  Goal
  <2>1. UNCHANGED <<modes, denied, pc>>
    BY <1>7 DEF UIStep, ShowDialog, TakeAnswer, LoadReply, LoadNothing, SendReply, UserAnswers,
                PressKey, DropEvent, vars, StartInteractive, OpenSubagent, sessions
  <2> QED
    BY <1>2, <2>1
<1> QED
  BY <1>3, <1>4, <1>5, <1>6, <1>7 DEF Next, RequestStep

\* The inductive invariant holds in every reachable state.
LEMMA SpecIInv == Spec => []IInv
<1>1. IInv /\ [Next]_vars => IInv'
  <2> SUFFICES ASSUME IInv, [Next]_vars PROVE IInv'
    OBVIOUS
  <2>1. TypeOK' /\ Linked' /\ Placed' /\ Locked'
    BY NextTypeOK, NextLinked, NextPlaced, NextLocked DEF IInv
  <2>2. UIKnows' /\ FirstComesFirst' /\ Recorded'
    BY NextUIKnows, NextFirst, NextRecorded DEF IInv
  <2>3. Returned' /\ OutcomeIsDeserved'
    BY NextDeserved
  <2>4. OneRun' /\ FiledWhereDenied' /\ AllListed'
    BY NextOneRun, NextFiled, NextReported DEF IInv
  <2> QED
    BY <2>1, <2>2, <2>3, <2>4 DEF IInv
<1> QED
  BY InitIInv, <1>1, PTL DEF Spec

\* Type correctness.
THEOREM TypeCorrect == Spec => []TypeOK
<1>1. IInv => TypeOK
  BY DEF IInv
<1> QED
  BY SpecIInv, <1>1, PTL

\* Prompts never overlap: no request reaches the UI while an earlier one is
\* unanswered (permission.go 79-87).
THEOREM PromptsAreSerial == Spec => []PromptsDoNotOverlap
<1>1. IInv => PromptsDoNotOverlap
  BY DEF IInv, Locked, Registered, PromptsDoNotOverlap
<1> QED
  BY SpecIInv, <1>1, PTL

\* What Request returns is the first answer to it, a grant, or the session's
\* mode (permission.go 138-186).
THEOREM OutcomesAreDeserved == Spec => []OutcomeIsDeserved
<1>1. IInv => OutcomeIsDeserved
  BY DEF IInv
<1> QED
  BY SpecIInv, <1>1, PTL

\* A non-interactive run never prompts, its subagents included (permission.go
\* 53-58).
THEOREM HeadlessIsSilent == Spec => []HeadlessNeverPrompts
<1>1. IInv => HeadlessNeverPrompts
  <2> SUFFICES ASSUME IInv, Headless, NEW c \in Callers
               PROVE  pc[c] \in {"idle", "denying", "done"}
    BY DEF HeadlessNeverPrompts
  <2>1. CASE pc[c] = "idle"
    BY <2>1
  <2>2. CASE pc[c] # "idle"
    <3>1. sess[c] \in open
      BY <2>2 DEF IInv, Placed
    <3>2. Mode(sess[c]) # "ask"
      BY <3>1, PermissionAssumption DEF IInv, TypeOK, Linked, Mode, ModeOwner, Sessions
    <3> QED
      BY <3>2 DEF IInv, Placed
  <2> QED
    BY <2>1, <2>2
<1> QED
  BY SpecIInv, <1>1, PTL

\* A non-interactive run answers every request itself, its subagents' included,
\* and what it refused is listed once each under the session it reports on
\* (agent-tool.go 152-164, app.go 487-506).
THEOREM RefusalsAreFiled == Spec => []RefusalsAreReported
<1>1. IInv /\ HeadlessNeverPrompts => RefusalsAreReported
  BY DEF IInv, AllListed, RefusalsAreReported
<1> QED
  BY SpecIInv, HeadlessIsSilent, <1>1, PTL

\* After "allow for session" nobody is prompted again for the same session and
\* key (permission.go 84-86, 105-113).
THEOREM GrantsAreHonoured == Spec => AllowedNotAskedAgain
<1> DEFINE Honoured ==
             \A c, d \in Callers :
               /\ pc[c] = "done" /\ first[c] = "session"
               /\ sess[d] = sess[c] /\ key[d] = key[c]
               => ~(pc[d] = "checking" /\ pc'[d] = "asking")
<1>1. IInv /\ [Next]_vars => [Honoured]_vars
  <2> SUFFICES ASSUME IInv, [Next]_vars, NEW c \in Callers, NEW d \in Callers,
                      first[c] = "session", sess[d] = sess[c], key[d] = key[c],
                      pc[d] = "checking", pc'[d] = "asking"
               PROVE  FALSE
    OBVIOUS
  <2>1. HasSessionGrant(d)
    BY DEF IInv, Recorded, HasSessionGrant
  <2>2. ASSUME NEW e \in Callers, RequestStep(e)
        PROVE  Register(d)
    BY <2>2 DEF IInv, TypeOK, RequestStep, RecordDenied, LockPrompt, Covered, Register, Ask,
                Receive, Unregister, Unlock, Goto
  <2>3. ASSUME NEW e \in Callers, NEW r \in Sessions, NEW k \in Keys, Call(e, r, k)
        PROVE  FALSE
    BY <2>3 DEF IInv, TypeOK, Call
  <2>4. ASSUME \/ UIStep \/ UserAnswers \/ \E e \in Callers : DropEvent(e)
               \/ \E r \in Roots : StartInteractive(r)
               \/ \E r \in Roots, m \in {"approve", "deny"} : StartHeadless(r, m)
               \/ \E r \in Subagents, p \in Roots : OpenSubagent(r, p)
               \/ UNCHANGED vars
        PROVE  FALSE
    BY <2>4 DEF UIStep, ShowDialog, TakeAnswer, LoadReply, LoadNothing, SendReply, UserAnswers,
                PressKey, DropEvent, StartInteractive, StartHeadless, OpenSubagent, vars
  <2>5. Register(d)
    BY <2>2, <2>3, <2>4 DEF Next
  <2> QED
    BY <2>1, <2>5 DEF Register
<1> QED
  BY SpecIInv, <1>1, PTL DEF Spec, AllowedNotAskedAgain
==============================================================================
