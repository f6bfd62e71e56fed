------------------------------ MODULE Permission ------------------------------
(***************************************************************************)
(* The permission service, internal/permission/permission.go, with the two *)
(* parties around it: tool calls that block in Request until they are       *)
(* allowed or refused, and the terminal UI, which shows one dialog at a time *)
(* and answers by Grant, GrantPersistant or Deny (internal/tui/tui.go).     *)
(*                                                                         *)
(* A caller c is one call of Request; it stands for the uuid of its         *)
(* PermissionRequest too.  Between the two parties lie the broker and the   *)
(* forwarder of cmd/root.go, which gives an event up after two seconds, and  *)
(* the commands in which a key press becomes a PermissionResponseMsg.       *)
(***************************************************************************)
EXTENDS Naturals, FiniteSets, Sequences, SequencesExt, Bags

CONSTANTS Callers,     \* calls of Request
          Roots,       \* sessions of the user
          Subagents,   \* sessions of the agent tool, one level deep
          Keys,        \* tool, action, path and fingerprint of a request
          None,        \* no caller, no session, no key
          MaxInFlight, \* bound on key presses not yet handled as messages
          MaxDrops     \* bound on events the forwarder gives up

Sessions == Roots \cup Subagents

ASSUME PermissionAssumption ==
  /\ None \notin Callers \cup Sessions \cup Keys
  /\ Roots \cap Subagents = {}
  /\ MaxInFlight \in Nat
  /\ MaxDrops \in Nat

VARIABLES
  modes,     \* autoApproveSessions and denyAllSessions
  parents,   \* LinkSession: subagent session to parent session
  open,      \* sessions an agent runs in
  denied,    \* refusals recorded per deny-all session
  grants,    \* sessionPermissions
  pc,        \* where each Request is
  sess,      \* session of each Request
  key,       \* what each Request asks for
  lock,      \* holder of promptMu
  pending,   \* pendingRequests
  reply,     \* contents of each request's response channel, capacity 1
  outcome,   \* what Request returned
  wire,      \* published requests not yet handled by the UI
  drops,     \* events given up
  shown,     \* showPermissions
  dialog,    \* the request the dialog holds
  answers,   \* bag of the response messages on their way to the UI's Update
  ui,        \* where the UI is in handling a response message
  handling,  \* the response it handles
  first,     \* history: the first answer handled for each request
  lost       \* history: requests whose event was dropped or dialog hidden

sessions == <<modes, parents, open, denied>>
request  == <<sess, key, outcome>>
channel  == <<lock, pending, reply>>
screen   == <<shown, dialog, answers, ui, handling, first>>
vars == <<sessions, grants, pc, request, channel, wire, drops, screen, lost>>

Actions  == {"allow", "session", "deny"}    \* dialog.PermissionAction
Verdict(a) == IF a = "deny" THEN "deny" ELSE "allow"
Verdicts == {"allow", "deny"}

\* Steps of Request, in the code's order.
States == {"idle", "denying", "queued", "checking", "asking", "waiting",
           "answered", "unlocking", "done"}

\* Between the store in pendingRequests and its deferred Delete.
Registered == {"asking", "waiting", "answered"}

\* PermissionResponseMsg
Answers == [id : Callers, act : Actions]

Init ==
  /\ modes = [s \in Sessions |-> "ask"]
  /\ parents = [s \in Sessions |-> None]
  /\ open = {}
  /\ denied = [s \in Sessions |-> <<>>]
  /\ grants = {}
  /\ pc = [c \in Callers |-> "idle"]
  /\ sess = [c \in Callers |-> None]
  /\ key = [c \in Callers |-> None]
  /\ outcome = [c \in Callers |-> "none"]
  /\ lock = None
  /\ pending = {}
  /\ reply = [c \in Callers |-> "none"]
  /\ wire = {}
  /\ drops = 0
  /\ shown = FALSE
  /\ dialog = None
  /\ answers = EmptyBag
  /\ ui = "idle"
  /\ handling = None
  /\ first = [c \in Callers |-> "none"]
  /\ lost = {}

Goto(c, from, to) ==
  /\ pc[c] = from
  /\ pc' = [pc EXCEPT ![c] = to]

\* sessionModeLocked: the nearest session, from s upwards, that has a mode.
\* The agent tool is not among a subagent's tools, so chains have one link.
ModeOwner(s) ==
  IF modes[s] = "ask" /\ parents[s] # None THEN parents[s] ELSE s

Mode(s) == modes[ModeOwner(s)]

Headless == \E s \in Roots : modes[s] # "ask"

\* Mutant of HasSessionGrant: no second look at the grants under promptMu.
NoRecheck(c) == FALSE

HasSessionGrant(c) == <<sess[c], key[c]>> \in grants
------------------------------------------------------------------------------
\* The TUI, or a non-interactive run with or without --yes, starts on a root
\* session; a non-interactive process has no other.
StartInteractive(s) ==
  /\ ~Headless
  /\ s \notin open
  /\ open' = open \cup {s}
  /\ UNCHANGED <<modes, parents, denied, grants, pc, request, channel, wire, drops, screen, lost>>

StartHeadless(s, m) ==
  /\ open = {}
  /\ modes' = [modes EXCEPT ![s] = m]
  /\ open' = {s}
  /\ UNCHANGED <<parents, denied, grants, pc, request, channel, wire, drops, screen, lost>>

\* Mutant of OpenSubagent: the session is not linked.
OpenUnlinked(s, p) ==
  /\ p \in open
  /\ s \notin open
  /\ open' = open \cup {s}
  /\ UNCHANGED <<modes, parents, denied, grants, pc, request, channel, wire, drops, screen, lost>>

\* The agent tool creates a session, links it, and runs an agent in it.
OpenSubagent(s, p) ==
  /\ p \in open
  /\ s \notin open
  /\ parents' = [parents EXCEPT ![s] = p]
  /\ open' = open \cup {s}
  /\ UNCHANGED <<modes, denied, grants, pc, request, channel, wire, drops, screen, lost>>
------------------------------------------------------------------------------
\* Request reads the session's mode.
Call(c, s, k) ==
  /\ s \in open
  /\ pc[c] = "idle"
  /\ sess' = [sess EXCEPT ![c] = s]
  /\ key' = [key EXCEPT ![c] = k]
  /\ \/ /\ Mode(s) = "approve"
        /\ pc' = [pc EXCEPT ![c] = "done"]
        /\ outcome' = [outcome EXCEPT ![c] = "allow"]
     \/ /\ Mode(s) = "deny"
        /\ pc' = [pc EXCEPT ![c] = "denying"]
        /\ UNCHANGED outcome
     \/ /\ Mode(s) = "ask"
        /\ pc' = [pc EXCEPT ![c] = "queued"]
        /\ UNCHANGED outcome
  /\ UNCHANGED <<sessions, grants, channel, wire, drops, screen, lost>>

\* Mutant of RecordDenied: filed under the caller's own session.
RecordDeniedHere(c) ==
  /\ Goto(c, "denying", "done")
  /\ denied' = [denied EXCEPT ![sess[c]] = Append(@, c)]
  /\ outcome' = [outcome EXCEPT ![c] = "deny"]
  /\ UNCHANGED <<modes, parents, open, grants, sess, key, channel, wire, drops, screen, lost>>

RecordDenied(c) ==
  /\ Goto(c, "denying", "done")
  /\ denied' = [denied EXCEPT ![ModeOwner(sess[c])] = Append(@, c)]
  /\ outcome' = [outcome EXCEPT ![c] = "deny"]
  /\ UNCHANGED <<modes, parents, open, grants, sess, key, channel, wire, drops, screen, lost>>

\* Mutant of LockPrompt: promptMu is not taken.
LockNothing(c) ==
  /\ Goto(c, "queued", "checking")
  /\ lock' = c
  /\ UNCHANGED <<sessions, grants, request, pending, reply, wire, drops, screen, lost>>

LockPrompt(c) ==
  /\ Goto(c, "queued", "checking")
  /\ lock = None
  /\ lock' = c
  /\ UNCHANGED <<sessions, grants, request, pending, reply, wire, drops, screen, lost>>

\* Under promptMu: a session grant settles it, otherwise the request registers
\* its response channel.
Covered(c) ==
  /\ HasSessionGrant(c)
  /\ Goto(c, "checking", "unlocking")
  /\ outcome' = [outcome EXCEPT ![c] = "allow"]
  /\ UNCHANGED <<sessions, grants, sess, key, channel, wire, drops, screen, lost>>

Register(c) ==
  /\ ~HasSessionGrant(c)
  /\ Goto(c, "checking", "asking")
  /\ pending' = pending \cup {c}
  /\ UNCHANGED <<sessions, grants, request, lock, reply, wire, drops, screen, lost>>

\* Publish; at most one request is on its way to the UI, so the queues between
\* them keep no order that matters.
Ask(c) ==
  /\ Goto(c, "asking", "waiting")
  /\ wire' = wire \cup {c}
  /\ UNCHANGED <<sessions, grants, request, channel, drops, screen, lost>>

\* resp := <-respCh
Receive(c) ==
  /\ Goto(c, "waiting", "answered")
  /\ reply[c] # "none"
  /\ outcome' = [outcome EXCEPT ![c] = reply[c]]
  /\ reply' = [reply EXCEPT ![c] = "none"]
  /\ UNCHANGED <<sessions, grants, sess, key, lock, pending, wire, drops, screen, lost>>

\* The two defers, last first: pendingRequests.Delete, promptMu.Unlock.
Unregister(c) ==
  /\ Goto(c, "answered", "unlocking")
  /\ pending' = pending \ {c}
  /\ UNCHANGED <<sessions, grants, request, lock, reply, wire, drops, screen, lost>>

\* Mutant of Unlock: promptMu is never released.
KeepLock(c) ==
  /\ Goto(c, "unlocking", "done")
  /\ UNCHANGED <<sessions, grants, request, channel, wire, drops, screen, lost>>

Unlock(c) ==
  /\ Goto(c, "unlocking", "done")
  /\ lock' = None
  /\ UNCHANGED <<sessions, grants, request, pending, reply, wire, drops, screen, lost>>
------------------------------------------------------------------------------
\* The forwarder gives an event up when the UI takes none for two seconds, the
\* broker when the subscriber's buffer is full.
DropEvent(c) ==
  /\ c \in wire
  /\ drops < MaxDrops
  /\ wire' = wire \ {c}
  /\ drops' = drops + 1
  /\ lost' = lost \cup {c}
  /\ UNCHANGED <<sessions, grants, pc, request, channel, screen>>

\* The UI handles a published request: it fills and shows the dialog.
ShowDialog(c) ==
  /\ ~Headless
  /\ ui = "idle"
  /\ c \in wire
  /\ wire' = wire \ {c}
  /\ shown' = TRUE
  /\ dialog' = c
  /\ UNCHANGED <<sessions, grants, pc, request, channel, drops, answers, ui, handling,
                 first, lost>>

\* A key press in the dialog becomes a response message by way of a command
\* with a goroutine of its own: messages arrive in any order, and the dialog
\* stays up, taking further keys, until one is handled.
PressKey(a) ==
  /\ ui = "idle"
  /\ shown
  /\ BagCardinality(answers) < MaxInFlight
  /\ answers' = answers (+) SetToBag({[id |-> dialog, act |-> a]})
  /\ UNCHANGED <<sessions, grants, pc, request, channel, wire, drops, shown, dialog, ui,
                 handling, first, lost>>

\* The UI starts on a response; GrantPersistant first records the grant.
TakeAnswer(x) ==
  /\ ui = "idle"
  /\ ui' = "loading"
  /\ BagIn(x, answers)
  /\ answers' = answers (-) SetToBag({x})
  /\ handling' = x
  /\ grants' = grants \cup (IF x.act = "session" THEN {<<sess[x.id], key[x.id]>>} ELSE {})
  /\ first' = [first EXCEPT ![x.id] = IF @ = "none" THEN x.act ELSE @]
  /\ UNCHANGED <<sessions, pc, request, channel, wire, drops, shown, dialog, lost>>

\* The response is done with: whatever dialog is up is hidden, also that of a
\* request the response was not for.
HideDialog ==
  /\ ui' = "idle"
  /\ handling' = None
  /\ shown' = FALSE
  /\ lost' = lost \cup
       {c \in {dialog} : shown /\ c # handling.id /\ \A x \in BagToSet(answers) : x.id # c}
  /\ UNCHANGED <<dialog, answers, first>>

\* pendingRequests.Load finds the channel, or nothing is left to do.
LoadReply ==
  /\ ui = "loading"
  /\ handling.id \in pending
  /\ ui' = "sending"
  /\ UNCHANGED <<sessions, grants, pc, request, channel, wire, drops, shown, dialog,
                 answers, handling, first, lost>>

LoadNothing ==
  /\ ui = "loading"
  /\ handling.id \notin pending
  /\ HideDialog
  /\ UNCHANGED <<sessions, grants, pc, request, channel, wire, drops>>

\* Mutant of SendReply: an answer not yet received is replaced.
ReplaceReply ==
  /\ ui = "sending"
  /\ reply' = [reply EXCEPT ![handling.id] = Verdict(handling.act)]
  /\ HideDialog
  /\ UNCHANGED <<sessions, grants, pc, request, lock, pending, wire, drops>>

\* The send; it blocks the UI while an earlier answer fills the channel.
SendReply ==
  /\ ui = "sending"
  /\ reply[handling.id] = "none"
  /\ reply' = [reply EXCEPT ![handling.id] = Verdict(handling.act)]
  /\ HideDialog
  /\ UNCHANGED <<sessions, grants, pc, request, lock, pending, wire, drops>>
------------------------------------------------------------------------------
RequestStep(c) ==
  \/ RecordDenied(c) \/ LockPrompt(c) \/ Covered(c) \/ Register(c) \/ Ask(c)
  \/ Receive(c) \/ Unregister(c) \/ Unlock(c)

UIStep ==
  \/ \E c \in wire : ShowDialog(c)
  \/ \E x \in Answers : TakeAnswer(x)
  \/ LoadReply \/ LoadNothing \/ SendReply

UserAnswers == \E a \in Actions : PressKey(a)

Next ==
  \/ \E s \in Roots : StartInteractive(s) \/ \E m \in {"approve", "deny"} : StartHeadless(s, m)
  \/ \E s \in Subagents, p \in Roots : OpenSubagent(s, p)
  \/ \E c \in Callers :
       \/ \E s \in Sessions, k \in Keys : Call(c, s, k)
       \/ RequestStep(c)
       \/ DropEvent(c)
  \/ UIStep
  \/ UserAnswers

Spec == Init /\ [][Next]_vars

\* Goroutines run, the UI's loop runs, and the user answers a dialog that is
\* up.  Nothing makes a session start, a tool ask, or an event get lost.
Fairness ==
  /\ \A c \in Callers : WF_vars(RequestStep(c))
  /\ WF_vars(UIStep)
  /\ WF_vars(UserAnswers)

FairSpec == Spec /\ Fairness
------------------------------------------------------------------------------
TypeOK ==
  /\ modes \in [Sessions -> {"ask", "approve", "deny"}]
  /\ parents \in [Sessions -> Roots \cup {None}]
  /\ open \subseteq Sessions
  /\ denied \in [Sessions -> Seq(Callers)]
  /\ grants \subseteq Sessions \X Keys
  /\ pc \in [Callers -> States]
  /\ sess \in [Callers -> Sessions \cup {None}]
  /\ key \in [Callers -> Keys \cup {None}]
  /\ outcome \in [Callers -> Verdicts \cup {"none"}]
  /\ lock \in Callers \cup {None}
  /\ pending \subseteq Callers
  /\ reply \in [Callers -> Verdicts \cup {"none"}]
  /\ wire \subseteq Callers
  /\ drops \in 0 .. MaxDrops
  /\ shown \in BOOLEAN
  /\ dialog \in Callers \cup {None}
  /\ BagToSet(answers) \subseteq Answers
  /\ ui \in {"idle", "loading", "sending"}
  /\ handling \in Answers \cup {None}
  /\ first \in [Callers -> Actions \cup {"none"}]
  /\ lost \subseteq Callers

\* No request reaches the UI while an earlier one is still unanswered: the one
\* dialog is never overwritten (permission.go 79-87).
PromptsDoNotOverlap ==
  \A c \in Callers : pc[c] \in Registered \/ c \in wire =>
    \A d \in Callers \ {c} : pc[d] \notin Registered /\ d \notin wire

\* Request returns the first answer the user gave to that very request, or a
\* grant the user gave for the same session and key, or the session's mode:
\* never a late or repeated answer to another request (permission.go 138-186).
OutcomeIsDeserved ==
  \A c \in Callers : outcome[c] # "none" =>
    \/ Mode(sess[c]) = (IF outcome[c] = "allow" THEN "approve" ELSE "deny")
    \/ first[c] # "none" /\ outcome[c] = Verdict(first[c])
    \/ outcome[c] = "allow" /\ HasSessionGrant(c)

\* Once a request was answered "allow for session" nobody is prompted again for
\* the same session and key, callers queued at that moment included
\* (permission.go 84-86, 105-113).
AllowedNotAskedAgain ==
  [][\A c, d \in Callers :
       /\ pc[c] = "done" /\ first[c] = "session"
       /\ sess[d] = sess[c] /\ key[d] = key[c]
       => ~(pc[d] = "checking" /\ pc'[d] = "asking")]_vars

\* In a non-interactive run nobody waits for an answer that cannot come, in the
\* session itself or in a subagent's (permission.go 53-58, agent-tool.go 156-160).
HeadlessNeverPrompts ==
  Headless => \A c \in Callers : pc[c] \in {"idle", "denying", "done"}

\* What a non-interactive run refused is listed once each under s.
Listed(s) ==
  /\ ToSet(denied[s]) = {c \in Callers : pc[c] = "done"}
  /\ IsInjective(denied[s])

\* A non-interactive run answers every request itself, its subagents' included,
\* which it could not were they not linked to it first; and all it refused is
\* listed under the session it reports on (agent-tool.go 152-164, app.go 487-506).
RefusalsAreReported ==
  /\ HeadlessNeverPrompts
  /\ \A s \in Roots : modes[s] = "deny" => Listed(s)

\* The UI is stuck sending an answer nobody will receive.
UIBlocked ==
  /\ ui = "sending"
  /\ reply[handling.id] # "none"
  /\ pc[handling.id] \notin {"asking", "waiting"}

\* A queued request returns, whatever the others do, unless some request's
\* event was lost or dialog hidden, or the UI is blocked: promptMu passes on.
RequestReturns ==
  \A c \in Callers : pc[c] \in {"queued", "denying"} ~>
    (pc[c] = "done" \/ lost # {} \/ UIBlocked)

\* permission.go 183: "Wait for the response with a timeout": a request that
\* waits returns.
WaitEnds ==
  \A c \in Callers : pc[c] = "waiting" ~> pc[c] = "done"
==============================================================================
