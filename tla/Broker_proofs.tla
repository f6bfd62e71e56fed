---------------------------- MODULE Broker_proofs ----------------------------
(***************************************************************************)
(* Proofs about Broker: for any number of subscribers, publishers and       *)
(* events, no send meets a closed channel and no channel is closed twice,   *)
(* an event is missed only where a buffer was full, and the broker keeps    *)
(* the promise of Delivery.                                                 *)
(***************************************************************************)
EXTENDS Broker, SequenceTheorems, FiniteSetTheorems, TLAPS

\* mu is held for reading by the publishers at work, for writing by at most one
\* goroutine that closes channels, and never both ways.
MuHeld ==
  /\ readers = {p \in Publishers : pub[p] = "sending"}
  /\ writer # None => readers = {}
  /\ \A s \in Subs : watch[s] = "closing" => writer = s
  /\ closer = "closing" => writer = Closer

\* Registered channels are open; until Shutdown has mu, a subscription whose
\* goroutine has yet to act is registered.
RegisteredAreOpen ==
  /\ subs \subseteq Subs
  /\ \A s \in subs : chan[s] = "open"
  /\ \A s \in Subs : watch[s] = "closing" => s \in subs
  /\ \A s \in Subs : watch[s] \in {"waiting", "cancelled"} /\ ~done => s \in subs
  /\ \A s \in Subs : chan[s] = "none" => watch[s] = "none"
  /\ closer = "idle" <=> ~done

\* What a publisher has still to serve is registered.
TodoIsRegistered ==
  \A p \in Publishers :
    /\ pub[p] # "sending" => todo[p] = {}
    /\ todo[p] \subseteq subs

\* The functions among the variables have their domains.
Domains ==
  /\ DOMAIN watch = Subs /\ watch = [s \in Subs |-> watch[s]]
  /\ DOMAIN chan = Subs /\ chan = [s \in Subs |-> chan[s]]
  /\ DOMAIN pub = Publishers /\ pub = [p \in Publishers |-> pub[p]]
  /\ DOMAIN todo = Publishers /\ todo = [p \in Publishers |-> todo[p]]

IInv == Domains /\ MuHeld /\ RegisteredAreOpen /\ TodoIsRegistered

\* The initial states satisfy the inductive invariant.
LEMMA InitIInv == Init => IInv
  BY DEF Init, IInv, Domains, MuHeld, RegisteredAreOpen, TodoIsRegistered

\* Every step preserves it.
LEMMA NextIInv == IInv /\ [Next]_vars => IInv'
<1> SUFFICES ASSUME IInv, [Next]_vars PROVE IInv'
  OBVIOUS
<1> USE BrokerAssumption
    DEF IInv, Domains, MuHeld, RegisteredAreOpen, TodoIsRegistered, Lock, Unlock, mu, publish
<1>1. ASSUME NEW s \in Subs, Subscribe(s) PROVE IInv'
  BY <1>1 DEF Subscribe
<1>2. ASSUME NEW s \in Subs, CancelContext(s) PROVE IInv'
  BY <1>2 DEF CancelContext
<1>3. ASSUME NEW s \in Subs, WatchLock(s) PROVE IInv'
  BY <1>3 DEF WatchLock
<1>4. ASSUME NEW s \in Subs, WatchClose(s) PROVE IInv'
  <2>1. writer = s /\ readers = {} /\ \A p \in Publishers : todo[p] = {}
    BY <1>4 DEF WatchClose
  <2>2. \A q \in Subs \ {s} : watch[q] # "closing"
    BY <2>1
  <2>3. closer # "closing"
    BY <2>1
  <2>4. Domains'
    BY <1>4 DEF WatchClose
  <2>5. MuHeld'
    BY <1>4, <2>1, <2>2, <2>3 DEF WatchClose
  <2>6. RegisteredAreOpen'
    BY <1>4, <2>2 DEF WatchClose
  <2>7. TodoIsRegistered'
    BY <1>4, <2>1 DEF WatchClose
  <2> QED
    BY <2>4, <2>5, <2>6, <2>7
<1>5. ASSUME NEW s \in Subs, Consume(s) PROVE IInv'
  BY <1>5 DEF Consume
<1>6. CASE ShutdownBegin
  BY <1>6 DEF ShutdownBegin
<1>7. CASE ShutdownLock
  BY <1>7 DEF ShutdownLock
<1>8. ASSUME NEW s \in Subs, ShutdownClose(s) PROVE IInv'
  BY <1>8 DEF ShutdownClose
<1>9. CASE ShutdownEnd
  BY <1>9 DEF ShutdownEnd
<1>10. ASSUME NEW p \in Publishers, PublishCall(p) PROVE IInv'
  BY <1>10 DEF PublishCall
<1>11. ASSUME NEW p \in Publishers, PublishLock(p) PROVE IInv'
  <2>1. CASE done
    BY <1>11, <2>1 DEF PublishLock
  <2>2. CASE ~done
    <3>1. Domains'
      BY <1>11, <2>2 DEF PublishLock
    <3>2. MuHeld'
      BY <1>11, <2>2 DEF PublishLock
    <3>3. RegisteredAreOpen' /\ TodoIsRegistered'
      BY <1>11, <2>2 DEF PublishLock
    <3> QED
      BY <3>1, <3>2, <3>3
  <2> QED
    BY <2>1, <2>2
<1>12. ASSUME NEW p \in Publishers, NEW s \in Subs, Send(p, s) \/ Drop(p, s) PROVE IInv'
  <2>1. /\ UNCHANGED <<readers, writer, done, subs, chan, watch, closer, pub>>
        /\ todo' = [todo EXCEPT ![p] = @ \ {s}]
    BY <1>12 DEF Send, Drop
  <2> QED
    BY <2>1
<1>13. ASSUME NEW p \in Publishers, PublishEnd(p) PROVE IInv'
  BY <1>13 DEF PublishEnd
<1>14. CASE UNCHANGED vars
  BY <1>14 DEF vars
<1> QED
  BY <1>1, <1>2, <1>3, <1>4, <1>5, <1>6, <1>7, <1>8, <1>9, <1>10, <1>11, <1>12, <1>13, <1>14
  DEF Next, WatchStep, ShutdownStep, PublishStep

\* No panic: Publish never sends on a closed channel, and no channel is closed
\* twice, whatever the interleaving of publishers, cancellations and Shutdown
\* (broker.go 93-107).
THEOREM NeverPanics == Spec => []NoPanic
<1>1. IInv => NoPanic
  BY DEF IInv, MuHeld, RegisteredAreOpen, TodoIsRegistered, NoPanic
<1> QED
  BY InitIInv, NextIInv, <1>1, PTL DEF Spec
------------------------------------------------------------------------------
\* subCount counts the registered channels until Shutdown unregisters them.
CountTrue ==
  /\ closer \in {"idle", "locking"} => subCount = Cardinality(subs)
  /\ closer = "over" => subs = {}

\* Each Publish has an event of its own, which no subscriber it still has to
\* serve has been handed.
EventsTrue ==
  /\ \A p \in Publishers : pub[p] # "idle" => event[p] \in Events /\ event[p] <= called
  /\ \A p, q \in Publishers : pub[p] # "idle" /\ pub[q] # "idle" /\ event[p] = event[q] => p = q
  /\ \A s \in Subs : \A e \in ToSet(sent[s]) : e <= called
  /\ \A p \in Publishers, s \in Subs :
       pub[p] = "locking" \/ (pub[p] = "sending" /\ s \in todo[p]) => event[p] \notin ToSet(sent[s])

\* Whom a Publish need not serve any more has the event, or had a full buffer,
\* or came later, or left.
Served(p, s) ==
  /\ ~done /\ pub[p] \in {"sending", "returned"} /\ s \notin todo[p]
  /\ chan[s] = "open" /\ s \in audience[event[p]] \ full
  => event[p] \in ToSet(sent[s])

ServedTrue ==
  /\ \A s \in Subs : chan[s] = "open" /\ ~done => s \in subs
  /\ \A e \in Events : \A s \in audience[e] : chan[s] # "none"
  /\ \A p \in Publishers, s \in Subs : Served(p, s)

FullInv == IInv /\ TypeOK /\ CountTrue /\ EventsTrue /\ ServedTrue

LEMMA ToSetOfAppend ==
  ASSUME NEW S, NEW q \in Seq(S), NEW e \in S
  PROVE  ToSet(Append(q, e)) = ToSet(q) \cup {e}
<1>1. /\ Append(q, e) \in Seq(S) /\ Len(Append(q, e)) = Len(q) + 1
      /\ \A i \in 1 .. Len(q) : Append(q, e)[i] = q[i]
      /\ Append(q, e)[Len(q) + 1] = e
  BY AppendProperties
<1>2. DOMAIN q = 1 .. Len(q) /\ DOMAIN Append(q, e) = 1 .. (Len(q) + 1) /\ Len(q) \in Nat
  BY <1>1
<1>3. ToSet(q) = {q[i] : i \in 1 .. Len(q)}
  BY <1>2 DEF ToSet
<1>4. ToSet(Append(q, e)) = {Append(q, e)[i] : i \in 1 .. (Len(q) + 1)}
  BY <1>2 DEF ToSet
<1>5. \A x \in ToSet(Append(q, e)) : x \in ToSet(q) \cup {e}
  BY <1>1, <1>2, <1>3, <1>4
<1>6. \A x \in ToSet(q) \cup {e} : x \in ToSet(Append(q, e))
  BY <1>1, <1>2, <1>3, <1>4
<1> QED
  BY <1>5, <1>6

LEMMA ToSetInRange == ASSUME NEW S, NEW q \in Seq(S) PROVE ToSet(q) \subseteq S
<1>1. DOMAIN q = 1 .. Len(q) /\ \A i \in 1 .. Len(q) : q[i] \in S
  OBVIOUS
<1> QED
  BY <1>1 DEF ToSet

LEMMA InitFullInv == Init => FullInv
<1> SUFFICES ASSUME Init PROVE FullInv
  OBVIOUS
<1>1. Cardinality(Subs) \in Nat /\ Cardinality({}) = 0
  BY BrokerAssumption, FS_CardinalityType, FS_EmptySet
<1>2. ToSet(<<>>) = {} /\ <<>> \in Seq(Events) /\ Len(<<>>) = 0
  BY DEF ToSet
<1>3. TypeOK
  <2>1. called \in 0 .. MaxEvents /\ subCount \in 0 .. Cardinality(Subs)
    BY <1>1, BrokerAssumption DEF Init
  <2>2. /\ buffer \in [Subs -> Seq(Events)] /\ sent \in [Subs -> Seq(Events)]
        /\ \A s \in Subs : Len(buffer[s]) <= BufferSize
    BY <1>2, BrokerAssumption DEF Init
  <2> QED
    BY <2>1, <2>2 DEF Init, TypeOK
<1>4. CountTrue /\ EventsTrue /\ ServedTrue
  BY <1>1, <1>2 DEF Init, CountTrue, EventsTrue, ServedTrue, Served
<1> QED
  BY <1>3, <1>4, InitIInv DEF FullInv

\* The number of registered channels, as channels come and go.
LEMMA Counts ==
  ASSUME FullInv
  PROVE  /\ IsFiniteSet(subs) /\ Cardinality(subs) \in 0 .. Cardinality(Subs)
         /\ Cardinality(Subs) \in Nat
         /\ \A s \in Subs \ subs : /\ Cardinality(subs \cup {s}) = Cardinality(subs) + 1
                                   /\ Cardinality(subs) + 1 <= Cardinality(Subs)
         /\ \A s \in subs : Cardinality(subs \ {s}) = Cardinality(subs) - 1
<1>1. subs \subseteq Subs /\ IsFiniteSet(Subs)
  BY BrokerAssumption DEF FullInv, TypeOK
<1>2. /\ IsFiniteSet(subs) /\ Cardinality(subs) <= Cardinality(Subs)
      /\ Cardinality(subs) \in Nat /\ Cardinality(Subs) \in Nat
  BY <1>1, FS_Subset, FS_CardinalityType
<1>3. ASSUME NEW s \in Subs \ subs
      PROVE  /\ Cardinality(subs \cup {s}) = Cardinality(subs) + 1
             /\ Cardinality(subs) + 1 <= Cardinality(Subs)
  <2>1. Cardinality(subs \cup {s}) = Cardinality(subs) + 1
    BY <1>2, FS_AddElement
  <2>2. (subs \cup {s}) \in SUBSET Subs
    BY <1>1
  <2>3. Cardinality(subs \cup {s}) <= Cardinality(Subs)
    BY <1>1, <2>2, FS_Subset
  <2> QED
    BY <2>1, <2>3
<1>4. ASSUME NEW s \in subs PROVE Cardinality(subs \ {s}) = Cardinality(subs) - 1
  BY <1>2, FS_RemoveElement
<1> QED
  BY <1>1, <1>2, <1>3, <1>4

\* A step that puts nothing into a channel and publishes nothing new.
LEMMA ChannelsOnly ==
  ASSUME FullInv, IInv', UNCHANGED <<event, called, audience, sent, full, pub, todo, buffer>>,
         readers' \subseteq Publishers, writer' \in Subs \cup {Closer, None}, done' \in BOOLEAN,
         done => done', subs' \subseteq Subs, subCount' \in 0 .. Cardinality(Subs), CountTrue',
         chan' \in [Subs -> {"none", "open", "closed"}],
         watch' \in [Subs -> {"none", "waiting", "cancelled", "closing", "over"}],
         closer' \in {"idle", "locking", "closing", "over"},
         \A s \in Subs : chan'[s] = "open" /\ ~done' => s \in subs',
         \A s \in Subs : chan[s] # "none" => chan'[s] # "none",
         \A s \in Subs : chan'[s] = "open" => chan[s] \in {"open", "none"}
  PROVE  FullInv'
<1> USE DEF FullInv
<1>1. TypeOK'
  BY DEF TypeOK
<1>2. EventsTrue'
  BY DEF EventsTrue
<1>3. ASSUME NEW p \in Publishers, NEW s \in Subs PROVE Served(p, s)'
  <2> SUFFICES ASSUME ~done', pub[p] \in {"sending", "returned"}, s \notin todo[p],
                      chan'[s] = "open", s \in audience[event[p]] \ full
               PROVE  event[p] \in ToSet(sent[s])
    BY DEF Served
  <2>1. event[p] \in Events
    BY DEF EventsTrue
  <2>2. chan[s] = "open" /\ ~done
    BY <2>1 DEF ServedTrue, TypeOK
  <2> QED
    BY <2>2 DEF ServedTrue, Served
<1>4. ServedTrue'
  BY <1>3 DEF ServedTrue, TypeOK
<1> QED
  BY <1>1, <1>2, <1>4

\* The steps of a Publish that hand nothing over.
LEMMA PublishOnly ==
  ASSUME FullInv, IInv', UNCHANGED <<writer, done, subs, subCount, chan, watch, closer, buffer,
                                     sent, called, audience, event>>,
         readers' \subseteq Publishers, full \subseteq full', full' \subseteq Subs,
         NEW p \in Publishers, pub[p] \in {"locking", "sending"},
         NEW to \in {"sending", "returned"}, pub' = [pub EXCEPT ![p] = to],
         NEW rest \in SUBSET Subs, todo' = [todo EXCEPT ![p] = rest],
         pub[p] = "sending" => rest \subseteq todo[p],
         ~done' => \A s \in Subs : chan[s] = "open" /\ s \notin rest =>
           pub[p] = "sending" /\ (s \notin todo[p] \/ s \in full')
  PROVE  FullInv'
<1> USE DEF FullInv
<1>1. /\ pub' \in [Publishers -> {"idle", "locking", "sending", "returned"}]
      /\ todo' \in [Publishers -> SUBSET Subs]
      /\ pub'[p] = to /\ todo'[p] = rest
      /\ \A q \in Publishers \ {p} : pub'[q] = pub[q] /\ todo'[q] = todo[q]
  BY DEF TypeOK
<1>2. TypeOK'
  BY <1>1 DEF TypeOK
<1>3. CountTrue'
  BY DEF CountTrue
<1>4. EventsTrue'
  <2>1. ASSUME NEW q \in Publishers, NEW s \in Subs,
               pub'[q] = "locking" \/ (pub'[q] = "sending" /\ s \in todo'[q])
        PROVE  event[q] \notin ToSet(sent[s])
    BY <1>1, <2>1 DEF EventsTrue
  <2>2. \A q \in Publishers : pub'[q] # "idle" => pub[q] # "idle"
    BY <1>1
  <2> QED
    BY <2>1, <2>2 DEF EventsTrue
<1>5. ASSUME NEW q \in Publishers, NEW s \in Subs PROVE Served(q, s)'
  <2>1. CASE q = p
    <3> SUFFICES ASSUME ~done', chan[s] = "open", s \in audience[event[p]] \ full', s \notin rest
                 PROVE  event[p] \in ToSet(sent[s])
      BY <1>1, <2>1 DEF Served
    <3> QED
      BY DEF ServedTrue, Served
  <2>2. CASE q # p
    BY <1>1, <2>2 DEF ServedTrue, Served
  <2> QED
    BY <2>1, <2>2
<1>6. ServedTrue'
  BY <1>5 DEF ServedTrue
<1> QED
  BY <1>2, <1>3, <1>4, <1>6

LEMMA PublishCallKeeps ==
  ASSUME FullInv, IInv', NEW p \in Publishers, PublishCall(p) PROVE FullInv'
<1> USE DEF FullInv, mu, history
<1> DEFINE e == called + 1
<1>1. /\ pub[p] \in {"idle", "returned"} /\ called < MaxEvents /\ called' = e
      /\ event' = [event EXCEPT ![p] = e]
      /\ audience' = [audience EXCEPT ![e] = {s \in Subs : chan[s] = "open"}]
      /\ pub' = [pub EXCEPT ![p] = "locking"]
      /\ UNCHANGED <<mu, done, subs, subCount, chan, buffer, watch, closer, todo, history>>
  BY DEF PublishCall
<1>2. called \in Nat /\ MaxEvents \in Nat /\ called <= MaxEvents
  BY BrokerAssumption DEF TypeOK
<1>3. e \in Events /\ e \in 0 .. MaxEvents /\ e > called /\ \A x \in Events : x <= called => x # e
  BY <1>1, <1>2 DEF Events
<1>4. /\ pub'[p] = "locking" /\ event'[p] = e
      /\ \A q \in Publishers \ {p} : pub'[q] = pub[q] /\ event'[q] = event[q]
      /\ \A x \in Events \ {e} : audience'[x] = audience[x]
      /\ audience'[e] = {s \in Subs : chan[s] = "open"}
  BY <1>1, <1>3 DEF TypeOK
<1> HIDE DEF e
<1>5. TypeOK'
  <2>1. /\ event' \in [Publishers -> Events \cup {None}]
        /\ pub' \in [Publishers -> {"idle", "locking", "sending", "returned"}]
        /\ audience' \in [Events -> SUBSET Subs]
    BY <1>1, <1>3 DEF TypeOK
  <2> QED
    BY <1>1, <1>3, <2>1 DEF TypeOK
<1>6. CountTrue'
  BY <1>1 DEF CountTrue
<1>7. \A s \in Subs : e \notin ToSet(sent[s])
  BY <1>2, <1>3 DEF EventsTrue
<1>8. EventsTrue'
  <2>1. ASSUME NEW q \in Publishers, pub'[q] # "idle"
        PROVE  event'[q] \in Events /\ event'[q] <= called'
    <3>1. CASE q = p
      BY <1>1, <1>3, <1>4, <3>1
    <3>2. CASE q # p
      <4>1. event'[q] \in Events /\ event'[q] <= called
        BY <1>4, <2>1, <3>2 DEF EventsTrue
      <4> QED
        BY <1>1, <1>2, <1>3, <4>1 DEF Events
    <3> QED
      BY <3>1, <3>2
  <2>2. ASSUME NEW q \in Publishers, NEW r \in Publishers, pub'[q] # "idle", pub'[r] # "idle",
               event'[q] = event'[r]
        PROVE  q = r
    <3>1. \A u \in Publishers \ {p} : pub[u] # "idle" => event[u] # e
      BY <1>3 DEF EventsTrue
    <3> QED
      BY <1>4, <2>2, <3>1 DEF EventsTrue
  <2>3. \A s \in Subs : \A x \in ToSet(sent[s]) : x <= called'
    <3>1. ASSUME NEW s \in Subs, NEW x \in ToSet(sent[s]) PROVE x <= called'
      <4>1. x <= called
        BY <3>1 DEF EventsTrue
      <4>2. x \in Nat
        <5>1. sent[s] \in Seq(Events)
          BY DEF TypeOK
        <5>2. x \in Events
          BY <3>1, <5>1, ToSetInRange
        <5> QED
          BY <5>2 DEF Events
      <4> QED
        BY <1>1, <1>2, <4>1, <4>2 DEF e
    <3> QED
      BY <3>1
  <2>4. ASSUME NEW q \in Publishers, NEW s \in Subs,
               pub'[q] = "locking" \/ (pub'[q] = "sending" /\ s \in todo[q])
        PROVE  event'[q] \notin ToSet(sent[s])
    BY <1>4, <1>7, <2>4 DEF EventsTrue
  <2> QED
    BY <1>1, <2>1, <2>2, <2>3, <2>4 DEF EventsTrue
<1>9. ServedTrue'
  <2>1. ASSUME NEW q \in Publishers, NEW s \in Subs PROVE Served(q, s)'
    <3>1. CASE q = p
      BY <1>4, <3>1 DEF Served
    <3>2. CASE q # p
      <4>1. pub[q] # "idle" => event[q] \in Events \ {e}
        BY <1>3 DEF EventsTrue
      <4> QED
        BY <1>1, <1>4, <3>2, <4>1 DEF ServedTrue, Served
    <3> QED
      BY <3>1, <3>2
  <2>2. \A x \in Events : \A s \in audience'[x] : chan[s] # "none"
    BY <1>4 DEF ServedTrue
  <2> QED
    BY <1>1, <2>1, <2>2 DEF ServedTrue
<1> QED
  BY <1>5, <1>6, <1>8, <1>9

LEMMA SendKeeps ==
  ASSUME FullInv, IInv', NEW p \in Publishers, NEW s \in Subs, Send(p, s) PROVE FullInv'
<1> USE DEF FullInv, mu
<1> DEFINE e == event[p]
<1>1. /\ pub[p] = "sending" /\ s \in todo[p] /\ Len(buffer[s]) < BufferSize
      /\ buffer' = [buffer EXCEPT ![s] = Append(buffer[s], event[p])]
      /\ sent' = [sent EXCEPT ![s] = Append(sent[s], event[p])]
      /\ todo' = [todo EXCEPT ![p] = todo[p] \ {s}]
      /\ UNCHANGED <<mu, done, subs, subCount, chan, watch, closer, pub, event, called, audience,
                     full>>
  BY DEF Send
<1>2. event[p] \in Events /\ event[p] <= called
  BY <1>1 DEF EventsTrue
<1>3. buffer[s] \in Seq(Events) /\ sent[s] \in Seq(Events)
  BY DEF TypeOK
<1>4. /\ Append(buffer[s], event[p]) \in Seq(Events) /\ Append(sent[s], event[p]) \in Seq(Events)
      /\ Len(Append(buffer[s], event[p])) = Len(buffer[s]) + 1
  BY <1>2, <1>3, AppendProperties
<1>5. /\ sent'[s] = Append(sent[s], event[p]) /\ \A z \in Subs \ {s} : sent'[z] = sent[z]
      /\ todo'[p] = todo[p] \ {s} /\ \A q \in Publishers \ {p} : todo'[q] = todo[q]
  BY <1>1 DEF TypeOK
<1>6. /\ ToSet(sent'[s]) = ToSet(sent[s]) \cup {event[p]}
      /\ \A z \in Subs \ {s} : ToSet(sent'[z]) = ToSet(sent[z])
  BY <1>2, <1>3, <1>5, ToSetOfAppend
<1>7. TypeOK'
  <2>1. /\ buffer' \in [Subs -> Seq(Events)] /\ sent' \in [Subs -> Seq(Events)]
        /\ todo' \in [Publishers -> SUBSET Subs]
    BY <1>1, <1>4 DEF TypeOK
  <2>2. ASSUME NEW z \in Subs PROVE Len(buffer'[z]) <= BufferSize
    <3>1. CASE z = s
      <4>1. Len(buffer'[z]) = Len(buffer[s]) + 1 /\ Len(buffer[s]) \in Nat
        BY <1>1, <1>3, <1>4, <3>1 DEF TypeOK
      <4> QED
        BY <1>1, <4>1, BrokerAssumption
    <3>2. CASE z # s
      BY <1>1, <3>2 DEF TypeOK
    <3> QED
      BY <3>1, <3>2
  <2> QED
    BY <1>1, <2>1, <2>2 DEF TypeOK
<1>8. CountTrue'
  BY <1>1 DEF CountTrue
<1>9. EventsTrue'
  <2>1. ASSUME NEW q \in Publishers, NEW z \in Subs,
               pub[q] = "locking" \/ (pub[q] = "sending" /\ z \in todo'[q])
        PROVE  event[q] \notin ToSet(sent'[z])
    <3>1. event[q] \notin ToSet(sent[z])
      BY <1>5, <2>1 DEF EventsTrue
    <3>2. z = s /\ event[q] = event[p] => FALSE
      BY <1>1, <1>5, <2>1 DEF EventsTrue
    <3> QED
      BY <1>6, <3>1, <3>2
  <2>2. \A z \in Subs : \A x \in ToSet(sent'[z]) : x <= called
    BY <1>2, <1>6 DEF EventsTrue
  <2> QED
    BY <1>1, <2>1, <2>2 DEF EventsTrue
<1>10. ServedTrue'
  <2>1. ASSUME NEW q \in Publishers, NEW z \in Subs PROVE Served(q, z)'
    <3>1. CASE q = p /\ z = s
      BY <1>1, <1>6, <3>1 DEF Served
    <3>2. CASE ~(q = p /\ z = s)
      <4>1. z \notin todo'[q] => z \notin todo[q]
        BY <1>5, <3>2
      <4>2. ToSet(sent[z]) \subseteq ToSet(sent'[z])
        BY <1>6
      <4>3. Served(q, z)
        BY DEF ServedTrue
      <4> QED
        BY <1>1, <4>1, <4>2, <4>3 DEF Served
    <3> QED
      BY <3>1, <3>2
  <2> QED
    BY <1>1, <2>1 DEF ServedTrue
<1> QED
  BY <1>7, <1>8, <1>9, <1>10

\* The steps that open and close channels.
LEMMA ChannelStepKeeps ==
  ASSUME FullInv, IInv', NEW s,
         \/ /\ s \in Subs
            /\ \/ Subscribe(s) \/ CancelContext(s) \/ WatchLock(s) \/ WatchClose(s)
               \/ ShutdownClose(s)
         \/ ShutdownBegin \/ ShutdownLock \/ ShutdownEnd
  PROVE  FullInv'
<1> USE DEF FullInv, mu, publish, history, Lock, Unlock
<1>1. UNCHANGED <<event, called, audience, sent, full, pub, todo, buffer, readers>>
  BY DEF Subscribe, CancelContext, WatchLock, WatchClose, ShutdownBegin, ShutdownLock,
         ShutdownClose, ShutdownEnd
<1>2. /\ subCount \in 0 .. Cardinality(Subs) /\ Cardinality(Subs) \in Nat
      /\ subs \subseteq Subs /\ readers \subseteq Publishers
      /\ \A z \in subs : chan[z] = "open"
  BY Counts DEF TypeOK, IInv, RegisteredAreOpen
<1>3. CASE s \in Subs /\ Subscribe(s) /\ done
  <2>1. /\ chan[s] = "none" /\ chan' = [chan EXCEPT ![s] = "closed"]
        /\ UNCHANGED <<writer, done, subs, subCount, watch, closer>>
    BY <1>3 DEF Subscribe
  <2> QED
    BY <1>1, <1>2, <2>1, ChannelsOnly DEF TypeOK, CountTrue, ServedTrue
<1>4. CASE s \in Subs /\ Subscribe(s) /\ ~done
  <2>1. /\ chan[s] = "none" /\ chan' = [chan EXCEPT ![s] = "open"]
        /\ subs' = subs \cup {s} /\ subCount' = subCount + 1
        /\ watch' = [watch EXCEPT ![s] = "waiting"]
        /\ UNCHANGED <<writer, done, closer>>
    BY <1>4 DEF Subscribe
  <2>2. s \notin subs /\ closer = "idle"
    BY <1>2, <1>4, <2>1 DEF IInv, RegisteredAreOpen
  <2>3. subCount' \in 0 .. Cardinality(Subs) /\ subCount' = Cardinality(subs')
    BY <1>2, <1>4, <2>1, <2>2, Counts DEF CountTrue
  <2>4. CountTrue'
    BY <2>1, <2>2, <2>3 DEF CountTrue
  <2> QED
    BY <1>1, <1>2, <1>4, <2>1, <2>3, <2>4, ChannelsOnly DEF TypeOK, ServedTrue
<1>5. CASE s \in Subs /\ (CancelContext(s) \/ WatchLock(s))
  <2>1. /\ UNCHANGED <<done, subs, subCount, chan, closer>>
        /\ writer' \in Subs \cup {Closer, None}
        /\ watch' \in [Subs -> {"none", "waiting", "cancelled", "closing", "over"}]
    BY <1>5 DEF CancelContext, WatchLock, TypeOK
  <2> QED
    BY <1>1, <1>2, <2>1, ChannelsOnly DEF TypeOK, CountTrue, ServedTrue
<1>6. CASE s \in Subs /\ WatchClose(s)
  <2>1. /\ watch[s] = "closing" /\ subs' = subs \ {s} /\ chan' = [chan EXCEPT ![s] = "closed"]
        /\ subCount' = subCount - 1 /\ writer' = None
        /\ watch' = [watch EXCEPT ![s] = "over"] /\ UNCHANGED <<done, closer>>
    BY <1>6 DEF WatchClose
  <2>2. s \in subs /\ closer # "closing" /\ closer # "over"
    BY <1>6, <2>1, BrokerAssumption DEF IInv, MuHeld, RegisteredAreOpen, CountTrue
  <2>3. closer \in {"idle", "locking"}
    BY <2>2 DEF TypeOK
  <2>4. subCount' \in 0 .. Cardinality(Subs) /\ subCount' = Cardinality(subs')
    <3>1. subCount = Cardinality(subs) /\ Cardinality(subs \ {s}) = Cardinality(subs) - 1
      BY <2>2, <2>3, Counts DEF CountTrue
    <3>2. Cardinality(subs \ {s}) \in Nat
      BY <2>2, Counts, FS_RemoveElement, FS_CardinalityType
    <3> QED
      BY <1>2, <2>1, <3>1, <3>2
  <2>5. CountTrue'
    BY <2>1, <2>2, <2>4 DEF CountTrue
  <2> QED
    BY <1>1, <1>2, <2>1, <2>4, <2>5, ChannelsOnly DEF TypeOK, ServedTrue
<1>7. CASE ShutdownBegin \/ ShutdownLock
  <2>1. /\ UNCHANGED <<subs, subCount, chan, watch>>
        /\ writer' \in Subs \cup {Closer, None} /\ done' \in BOOLEAN /\ (done => done')
        /\ closer \in {"idle", "locking"} /\ closer' \in {"locking", "closing"}
        /\ ~done' => ~done
    BY <1>7 DEF ShutdownBegin, ShutdownLock, TypeOK
  <2> QED
    BY <1>1, <1>2, <2>1, ChannelsOnly DEF TypeOK, CountTrue, ServedTrue
<1>8. CASE s \in Subs /\ ShutdownClose(s)
  <2>1. /\ closer = "closing" /\ s \in subs /\ subs' = subs \ {s}
        /\ chan' = [chan EXCEPT ![s] = "closed"]
        /\ UNCHANGED <<writer, done, subCount, watch, closer>>
    BY <1>8 DEF ShutdownClose
  <2>2. done
    BY <2>1 DEF IInv, RegisteredAreOpen
  <2> QED
    BY <1>1, <1>2, <2>1, <2>2, ChannelsOnly DEF TypeOK, CountTrue
<1>9. CASE ShutdownEnd
  <2>1. /\ closer = "closing" /\ subs = {} /\ subCount' = 0 /\ writer' = None /\ closer' = "over"
        /\ UNCHANGED <<done, subs, chan, watch>>
    BY <1>9 DEF ShutdownEnd
  <2> QED
    BY <1>1, <1>2, <2>1, ChannelsOnly DEF TypeOK, CountTrue, ServedTrue
<1> QED
  BY <1>3, <1>4, <1>5, <1>6, <1>7, <1>8, <1>9

\* The steps of publishers and consumers.
LEMMA PublishStepKeeps ==
  ASSUME FullInv, IInv', NEW p \in Publishers, PublishStep(p) PROVE FullInv'
<1> USE DEF FullInv, mu, history
<1>1. CASE PublishLock(p)
  <2> DEFINE to == IF done THEN "returned" ELSE "sending"
             rest == IF done THEN {} ELSE subs
  <2>1. /\ pub[p] = "locking" /\ pub' = [pub EXCEPT ![p] = to]
        /\ todo' = [todo EXCEPT ![p] = rest] /\ readers' \subseteq Publishers
        /\ UNCHANGED <<writer, done, subs, subCount, chan, buffer, watch, closer, event, called,
                       audience, history>>
    BY <1>1 DEF PublishLock, TypeOK
  <2>2. rest \in SUBSET Subs /\ to \in {"sending", "returned"} /\ full \subseteq Subs
    BY DEF TypeOK
  <2>3. ~done => \A s \in Subs : chan[s] = "open" => s \in rest
    BY DEF ServedTrue
  <2> HIDE DEF to, rest
  <2> QED
    BY <2>1, <2>2, <2>3, PublishOnly
<1>2. CASE PublishEnd(p)
  <2>1. /\ pub[p] = "sending" /\ todo[p] = {} /\ pub' = [pub EXCEPT ![p] = "returned"]
        /\ todo' = [todo EXCEPT ![p] = {}] /\ readers' \subseteq Publishers
        /\ UNCHANGED <<writer, done, subs, subCount, chan, buffer, watch, closer, event,
                       called, audience, history>>
    BY <1>2 DEF PublishEnd, TypeOK
  <2>2. full \subseteq Subs /\ {} \in SUBSET Subs
    BY DEF TypeOK
  <2> QED
    BY <2>1, <2>2, PublishOnly
<1>3. ASSUME NEW s \in Subs, Drop(p, s) PROVE FullInv'
  <2>1. /\ pub[p] = "sending" /\ full' = full \cup {s}
        /\ todo' = [todo EXCEPT ![p] = todo[p] \ {s}]
        /\ UNCHANGED <<mu, done, subs, subCount, chan, buffer, watch, closer, pub, event, called,
                       audience, sent>>
    BY <1>3 DEF Drop
  <2>2. /\ pub' = [pub EXCEPT ![p] = "sending"] /\ todo[p] \ {s} \in SUBSET Subs
        /\ full' \subseteq Subs /\ readers' \subseteq Publishers
    BY <2>1 DEF TypeOK
  <2>3. \A z \in Subs : z \notin todo[p] \ {s} => z \notin todo[p] \/ z \in full'
    BY <2>1
  <2> QED
    BY <2>1, <2>2, <2>3, PublishOnly
<1> QED
  BY <1>1, <1>2, <1>3, SendKeeps DEF PublishStep

LEMMA ConsumeKeeps == ASSUME FullInv, IInv', NEW s \in Subs, Consume(s) PROVE FullInv'
<1> USE DEF FullInv, mu, publish, history
<1>1. /\ buffer[s] # <<>> /\ buffer' = [buffer EXCEPT ![s] = Tail(buffer[s])]
      /\ UNCHANGED <<mu, done, subs, subCount, chan, watch, closer, publish, history>>
  BY DEF Consume
<1>2. buffer[s] \in Seq(Events) /\ Len(buffer[s]) <= BufferSize /\ BufferSize \in Nat
  BY BrokerAssumption DEF TypeOK
<1>3. Tail(buffer[s]) \in Seq(Events) /\ Len(Tail(buffer[s])) = Len(buffer[s]) - 1
  BY <1>1, <1>2, HeadTailProperties
<1>4. buffer' \in [Subs -> Seq(Events)] /\ \A z \in Subs : Len(buffer'[z]) <= BufferSize
  <2>1. buffer' \in [Subs -> Seq(Events)]
    BY <1>1, <1>3 DEF TypeOK
  <2>2. ASSUME NEW z \in Subs PROVE Len(buffer'[z]) <= BufferSize
    <3>1. CASE z = s
      <4>1. Len(buffer'[z]) = Len(buffer[s]) - 1 /\ Len(buffer[s]) \in Nat
        BY <1>1, <1>2, <1>3, <3>1 DEF TypeOK
      <4> QED
        BY <1>2, <4>1
    <3>2. CASE z # s
      BY <1>1, <3>2 DEF TypeOK
    <3> QED
      BY <3>1, <3>2
  <2> QED
    BY <2>1, <2>2
<1>5. TypeOK' /\ CountTrue'
  BY <1>1, <1>4 DEF TypeOK, CountTrue
<1>6. EventsTrue' /\ ServedTrue'
  BY <1>1 DEF EventsTrue, ServedTrue, Served
<1> QED
  BY <1>5, <1>6

LEMMA NextFullInv == FullInv /\ [Next]_vars => FullInv'
<1> SUFFICES ASSUME FullInv, [Next]_vars PROVE FullInv'
  OBVIOUS
<1>1. IInv'
  BY NextIInv DEF FullInv
<1>2. CASE UNCHANGED vars
  BY <1>1, <1>2 DEF vars, mu, publish, history, FullInv, TypeOK, CountTrue, EventsTrue, ServedTrue,
                    Served
<1>3. CASE ShutdownBegin \/ ShutdownStep \/ \E s \in Subs : Subscribe(s) \/ CancelContext(s) \/ WatchStep(s)
  BY <1>1, <1>3, ChannelStepKeeps DEF ShutdownStep, WatchStep
<1> QED
  BY <1>1, <1>2, <1>3, PublishCallKeeps, PublishStepKeeps, ConsumeKeeps DEF Next

LEMMA FullInvariant == Spec => []FullInv
  BY InitFullInv, NextFullInv, PTL DEF Spec

\* Every variable keeps its type: no buffer grows past BufferSize, and subCount
\* never sinks below zero (broker.go 41-47, 68-82, 112-122).
THEOREM TypeCorrect == Spec => []TypeOK
<1>1. FullInv => TypeOK
  BY DEF FullInv
<1> QED
  BY <1>1, FullInvariant, PTL

\* An open channel has every event whose Publish returned, unless its own
\* buffer was full (broker.go 93-124).
THEOREM MissedOnlyIfFullAlways == Spec => []MissedOnlyIfFull
<1>1. FullInv => MissedOnlyIfFull
  <2> SUFFICES ASSUME FullInv, NEW p \in Publishers, pub[p] = "returned", ~done,
                      NEW s \in audience[event[p]] \ full, chan[s] = "open"
               PROVE  event[p] \in ToSet(sent[s])
    BY DEF MissedOnlyIfFull
  <2>1. event[p] \in Events /\ todo[p] = {}
    BY DEF FullInv, EventsTrue, IInv, TodoIsRegistered
  <2>2. s \in Subs
    BY <2>1 DEF FullInv, TypeOK
  <2> QED
    BY <2>1, <2>2 DEF FullInv, ServedTrue, Served
<1> QED
  BY <1>1, FullInvariant, PTL
------------------------------------------------------------------------------
\* The refinement: every step of Broker is one of Delivery, or a stutter.
Past == 1 .. called \ InFlight

Flying(p) == pub[p] \in {"locking", "sending"}

LEMMA FlightIs == \A e : e \in InFlight <=> \E p \in Publishers : Flying(p) /\ event[p] = e
  BY DEF InFlight, Flying

LEMMA FlightKept ==
  ASSUME UNCHANGED <<event, called>>, \A p \in Publishers : Flying(p)' = Flying(p)
  PROVE  InFlight' = InFlight /\ Past' = Past
<1>1. \A e : e \in InFlight' <=> \E p \in Publishers : Flying(p)' /\ event'[p] = e
  BY DEF InFlight, Flying
<1>2. InFlight' = InFlight
  BY <1>1, FlightIs
<1> QED
  BY <1>2 DEF Past

\* An event whose Publish returns is retired.
LEMMA FlightEnds ==
  ASSUME FullInv, UNCHANGED <<event, called, chan, sent>>, NEW p \in Publishers, Flying(p),
         NEW to \in {"idle", "returned"}, pub' = [pub EXCEPT ![p] = to]
  PROVE  D!Next
<1> USE DEF FullInv
<1>1. event[p] \in Events /\ event[p] <= called
  BY DEF EventsTrue, Flying
<1>2. \A q \in Publishers \ {p} : Flying(q)' = Flying(q) /\ (Flying(q) => event[q] # event[p])
  BY DEF EventsTrue, Flying, TypeOK
<1>3. ~Flying(p)'
  BY DEF Flying, TypeOK
<1>4. \A e : e \in InFlight' <=> \E q \in Publishers : Flying(q)' /\ event[q] = e
  BY DEF InFlight, Flying
<1>5. event[p] \in InFlight /\ InFlight' = InFlight \ {event[p]}
  BY <1>2, <1>3, <1>4, FlightIs
<1>6. event[p] \in 1 .. called
  BY <1>1, BrokerAssumption DEF Events, TypeOK
<1>7. Past' = Past \cup {event[p]}
  BY <1>5, <1>6 DEF Past
<1>8. D!Retire(event[p])
  BY <1>5, <1>7 DEF D!Retire, Past
<1> QED
  BY <1>1, <1>8 DEF D!Next

LEMMA CallPromised ==
  ASSUME FullInv, NEW p \in Publishers, PublishCall(p) PROVE D!Next
<1> USE DEF FullInv
<1>1. /\ pub[p] \in {"idle", "returned"} /\ called < MaxEvents /\ called' = called + 1
      /\ event' = [event EXCEPT ![p] = called + 1] /\ pub' = [pub EXCEPT ![p] = "locking"]
      /\ UNCHANGED <<chan, sent>>
  BY DEF PublishCall, history
<1>2. called \in Nat /\ MaxEvents \in Nat
  BY BrokerAssumption DEF TypeOK
<1>3. called + 1 \in Events
  BY <1>1, <1>2 DEF Events
<1>4. /\ \A q \in Publishers \ {p} : Flying(q)' = Flying(q) /\ event'[q] = event[q]
      /\ ~Flying(p) /\ Flying(p)' /\ event'[p] = called + 1
  BY <1>1 DEF TypeOK, Flying
<1>5. \A e : e \in InFlight' <=> \E q \in Publishers : Flying(q)' /\ event'[q] = e
  BY DEF InFlight, Flying
<1>6. \A e \in InFlight : e \in Events /\ e <= called
  BY FlightIs DEF EventsTrue, Flying
<1>7. called + 1 \notin InFlight
  BY <1>2, <1>6
<1>8. InFlight' = InFlight \cup {called + 1}
  BY <1>4, <1>5, FlightIs
<1>9. Past' = Past /\ called + 1 \notin Past
  <2>1. 1 .. called' = (1 .. called) \cup {called + 1} /\ called + 1 \notin 1 .. called
    BY <1>1, <1>2
  <2> QED
    BY <1>8, <2>1 DEF Past
<1>10. D!Announce(called + 1)
  BY <1>1, <1>7, <1>8, <1>9 DEF D!Announce, Past
<1> QED
  BY <1>3, <1>10 DEF D!Next

LEMMA SendPromised ==
  ASSUME FullInv, NEW p \in Publishers, NEW s \in Subs, Send(p, s) PROVE D!Next
<1> USE DEF FullInv
<1>1. /\ pub[p] = "sending" /\ s \in todo[p]
      /\ sent' = [sent EXCEPT ![s] = Append(sent[s], event[p])]
      /\ UNCHANGED <<chan, pub, event, called>>
  BY DEF Send
<1>2. InFlight' = InFlight /\ Past' = Past
  BY <1>1, FlightKept DEF Flying
<1>3. event[p] \in InFlight /\ event[p] \in Events
  BY <1>1, FlightIs DEF Flying, EventsTrue
<1>4. event[p] \notin ToSet(sent[s]) /\ chan[s] = "open"
  BY <1>1 DEF EventsTrue, IInv, TodoIsRegistered, RegisteredAreOpen
<1>5. D!Hand(s, event[p])
  <2>1. event[p] \notin D!ToSet(sent[s])
    BY <1>4 DEF ToSet, D!ToSet
  <2> QED
    BY <1>1, <1>2, <1>3, <1>4, <2>1 DEF D!Hand, Past
<1> QED
  BY <1>3, <1>5 DEF D!Next

\* A step that publishes nothing and at most opens or closes one channel.
LEMMA ChannelPromised ==
  ASSUME FullInv, UNCHANGED <<event, called, pub, sent>>, NEW s \in Subs,
         \/ UNCHANGED chan
         \/ chan[s] = "none" /\ chan' = [chan EXCEPT ![s] = "open"]
         \/ chan[s] = "none" /\ chan' = [chan EXCEPT ![s] = "closed"]
         \/ chan[s] = "open" /\ chan' = [chan EXCEPT ![s] = "closed"]
  PROVE  D!Next \/ UNCHANGED D!vars
<1>1. InFlight' = InFlight /\ Past' = Past
  BY FlightKept DEF Flying
<1>2. CASE UNCHANGED chan
  BY <1>1, <1>2 DEF D!vars, Past
<1>3. CASE chan[s] = "none" /\ \E o \in {"open", "closed"} : chan' = [chan EXCEPT ![s] = o]
  <2>1. D!Open(s)
    BY <1>1, <1>3 DEF D!Open, Past
  <2> QED
    BY <2>1 DEF D!Next
<1>4. CASE chan[s] = "open" /\ chan' = [chan EXCEPT ![s] = "closed"]
  <2>1. D!Close(s)
    BY <1>1, <1>4 DEF D!Close, Past
  <2> QED
    BY <2>1 DEF D!Next
<1> QED
  BY <1>2, <1>3, <1>4

LEMMA Rests ==
  ASSUME UNCHANGED <<event, called, pub, sent, chan>> PROVE UNCHANGED D!vars
<1>1. InFlight' = InFlight /\ Past' = Past
  BY FlightKept DEF Flying
<1> QED
  BY <1>1 DEF D!vars, Past

LEMMA PublishPromised ==
  ASSUME FullInv, NEW p \in Publishers, PublishStep(p) PROVE D!Next \/ UNCHANGED D!vars
<1> USE DEF history
<1>1. CASE PublishLock(p) /\ done
  <2>1. /\ pub[p] = "locking" /\ pub' = [pub EXCEPT ![p] = "returned"]
        /\ UNCHANGED <<event, called, chan, sent>>
    BY <1>1 DEF PublishLock
  <2> QED
    BY <2>1, FlightEnds DEF Flying
<1>2. CASE PublishLock(p) /\ ~done
  <2>1. /\ pub[p] = "locking" /\ pub' = [pub EXCEPT ![p] = "sending"]
        /\ UNCHANGED <<event, called, chan, sent>>
    BY <1>2 DEF PublishLock
  <2>2. \A q \in Publishers : Flying(q)' = Flying(q)
    BY <2>1 DEF Flying, FullInv, TypeOK
  <2>3. InFlight' = InFlight /\ Past' = Past
    BY <2>1, <2>2, FlightKept
  <2> QED
    BY <2>1, <2>3 DEF D!vars, Past
<1>3. CASE PublishEnd(p)
  <2>1. /\ pub[p] = "sending" /\ pub' = [pub EXCEPT ![p] = "returned"]
        /\ UNCHANGED <<event, called, chan, sent>>
    BY <1>3 DEF PublishEnd
  <2> QED
    BY <2>1, FlightEnds DEF Flying
<1>4. ASSUME NEW s \in Subs, Drop(p, s) PROVE UNCHANGED D!vars
  BY <1>4, Rests DEF Drop
<1> QED
  BY <1>1, <1>2, <1>3, <1>4, SendPromised DEF PublishStep

LEMMA StepPromised == FullInv /\ [Next]_vars => [D!Next]_(D!vars)
<1> SUFFICES ASSUME FullInv, [Next]_vars PROVE D!Next \/ UNCHANGED D!vars
  OBVIOUS
<1> USE DEF mu, publish, history
<1>1. CASE UNCHANGED vars
  BY <1>1, Rests DEF vars
<1>2. ASSUME NEW s \in Subs, Subscribe(s) \/ WatchClose(s) \/ ShutdownClose(s)
      PROVE  D!Next \/ UNCHANGED D!vars
  <2>1. UNCHANGED <<event, called, pub, sent>>
    BY <1>2 DEF Subscribe, WatchClose, ShutdownClose
  <2>2. CASE Subscribe(s)
    BY <2>1, <2>2, ChannelPromised DEF Subscribe
  <2>3. CASE WatchClose(s)
    <3>1. chan[s] = "open" /\ chan' = [chan EXCEPT ![s] = "closed"]
      BY <2>3 DEF WatchClose, FullInv, IInv, RegisteredAreOpen
    <3> QED
      BY <2>1, <3>1, ChannelPromised
  <2>4. CASE ShutdownClose(s)
    <3>1. chan[s] = "open" /\ chan' = [chan EXCEPT ![s] = "closed"]
      BY <2>4 DEF ShutdownClose, FullInv, IInv, RegisteredAreOpen
    <3> QED
      BY <2>1, <3>1, ChannelPromised
  <2> QED
    BY <1>2, <2>2, <2>3, <2>4
<1>3. ASSUME NEW s \in Subs, CancelContext(s) \/ WatchLock(s) \/ Consume(s)
      PROVE  UNCHANGED D!vars
  BY <1>3, Rests DEF CancelContext, WatchLock, Consume
<1>4. CASE ShutdownBegin \/ ShutdownLock \/ ShutdownEnd
  BY <1>4, Rests DEF ShutdownBegin, ShutdownLock, ShutdownEnd
<1> QED
  BY <1>1, <1>2, <1>3, <1>4, CallPromised, PublishPromised DEF Next, WatchStep, ShutdownStep

LEMMA InitPromised == Init => D!Init
<1> SUFFICES ASSUME Init PROVE D!Init
  OBVIOUS
<1>1. InFlight = {}
  BY DEF Init, InFlight
<1>2. 1 .. called \ InFlight = {}
  BY DEF Init
<1> QED
  BY <1>1, <1>2 DEF Init, D!Init

\* The broker keeps the promise of Delivery: an event is handed over while it is
\* published, at most once, and only between the opening and the closing of the
\* channel (broker.go 28-124).
THEOREM PromiseAlways == Spec => Promise
  BY InitPromised, StepPromised, FullInvariant, PTL DEF Spec, Promise, D!Spec
==============================================================================
