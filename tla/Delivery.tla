------------------------------- MODULE Delivery -------------------------------
(***************************************************************************)
(* What the event broker promises a subscriber, with no locks and no        *)
(* buffers: it is handed events while they are being published, each at     *)
(* most once, between the opening and the closing of its channel, and the  *)
(* channel is closed once.  Events may be missing, and two subscribers may  *)
(* see two events published at the same time in different orders.           *)
(***************************************************************************)
EXTENDS Naturals, Sequences, SequencesExt

CONSTANTS Subs,   \* subscriptions
          Events  \* calls of Publish

VARIABLES phase,   \* of a subscriber's channel
          stream,  \* the events handed to a subscriber, in order
          inFlight, \* events being published
          past     \* events whose Publish has returned

vars == <<phase, stream, inFlight, past>>

Init ==
  /\ phase = [s \in Subs |-> "none"]
  /\ stream = [s \in Subs |-> <<>>]
  /\ inFlight = {}
  /\ past = {}

Announce(e) ==
  /\ e \notin inFlight \cup past
  /\ inFlight' = inFlight \cup {e}
  /\ UNCHANGED <<phase, stream, past>>

Retire(e) ==
  /\ e \in inFlight
  /\ inFlight' = inFlight \ {e}
  /\ past' = past \cup {e}
  /\ UNCHANGED <<phase, stream>>

\* A subscription to a broker that was shut down gets a closed channel.
Open(s) ==
  /\ phase[s] = "none"
  /\ \E p \in {"open", "closed"} : phase' = [phase EXCEPT ![s] = p]
  /\ UNCHANGED <<stream, inFlight, past>>

Hand(s, e) ==
  /\ phase[s] = "open"
  /\ e \in inFlight
  /\ e \notin ToSet(stream[s])
  /\ stream' = [stream EXCEPT ![s] = Append(@, e)]
  /\ UNCHANGED <<phase, inFlight, past>>

Close(s) ==
  /\ phase[s] = "open"
  /\ phase' = [phase EXCEPT ![s] = "closed"]
  /\ UNCHANGED <<stream, inFlight, past>>

Next ==
  \/ \E e \in Events : Announce(e) \/ Retire(e)
  \/ \E s \in Subs : Open(s) \/ Close(s) \/ \E e \in Events : Hand(s, e)

Spec == Init /\ [][Next]_vars
==============================================================================
