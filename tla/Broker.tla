-------------------------------- MODULE Broker --------------------------------
(***************************************************************************)
(* The event broker, internal/pubsub/broker.go: every service publishes its *)
(* changes through one, and cmd/root.go subscribes the terminal UI to five.  *)
(* Subscriber channels are closed by Shutdown and by a goroutine that waits *)
(* for the subscriber's context; Publish sends on them.  A send on a closed *)
(* channel panics; the read-write lock has to keep the two apart.           *)
(***************************************************************************)
EXTENDS Naturals, Sequences, FiniteSets, SequencesExt

CONSTANTS Subs,       \* calls of Subscribe, and their channels
          Publishers, \* goroutines that publish
          Closer,     \* the goroutine that calls Shutdown
          None,       \* no writer, no event
          BufferSize, \* bufferSize: 64 in the code
          MaxEvents   \* bound on the calls of Publish

Events == 1 .. MaxEvents

ASSUME BrokerAssumption ==
  /\ IsFiniteSet(Subs)
  /\ BufferSize \in Nat \ {0}
  /\ MaxEvents \in Nat
  /\ None \notin Subs \cup {Closer} \cup Events
  /\ Closer \notin Subs

VARIABLES
  readers,  \* publishers that hold mu for reading
  writer,   \* the goroutine that holds mu for writing
  done,     \* the done channel is closed
  subs,     \* registered channels
  subCount,
  chan,     \* per channel: not made, open or closed
  buffer,   \* per channel: events not yet received
  watch,    \* per subscription: the goroutine waiting for its context
  closer,   \* where Shutdown is
  pub,      \* where each Publish is
  event,    \* what each Publish sends
  todo,     \* channels each Publish has still to serve
  called,   \* number of calls of Publish so far
  sent,     \* history: all events put into a channel
  full,     \* history: channels whose buffer was found full
  audience  \* history: channels open when an event's Publish was called

mu      == <<readers, writer>>
publish == <<pub, event, todo, called, audience>>
history == <<sent, full>>
vars == <<mu, done, subs, subCount, chan, buffer, watch, closer, publish, history>>

Init ==
  /\ readers = {}
  /\ writer = None
  /\ done = FALSE
  /\ subs = {}
  /\ subCount = 0
  /\ chan = [s \in Subs |-> "none"]
  /\ buffer = [s \in Subs |-> <<>>]
  /\ watch = [s \in Subs |-> "none"]
  /\ closer = "idle"
  /\ pub = [p \in Publishers |-> "idle"]
  /\ event = [p \in Publishers |-> None]
  /\ todo = [p \in Publishers |-> {}]
  /\ called = 0
  /\ sent = [s \in Subs |-> <<>>]
  /\ full = {}
  /\ audience = [e \in Events |-> {}]

Lock(q) == writer = None /\ readers = {} /\ writer' = q

Unlock == writer' = None
------------------------------------------------------------------------------
\* Subscribe, which has mu from its first line to its last.
Subscribe(s) ==
  /\ chan[s] = "none"
  /\ writer = None /\ readers = {}
  /\ IF done
       THEN /\ chan' = [chan EXCEPT ![s] = "closed"]
            /\ UNCHANGED <<subs, subCount, watch>>
       ELSE /\ chan' = [chan EXCEPT ![s] = "open"]
            /\ subs' = subs \cup {s}
            /\ subCount' = subCount + 1
            /\ watch' = [watch EXCEPT ![s] = "waiting"]
  /\ UNCHANGED <<mu, done, buffer, closer, publish, history>>

\* The subscriber's context is cancelled: <-ctx.Done() returns.
CancelContext(s) ==
  /\ watch[s] = "waiting"
  /\ watch' = [watch EXCEPT ![s] = "cancelled"]
  /\ UNCHANGED <<mu, done, subs, subCount, chan, buffer, closer, publish, history>>

\* It takes mu and asks whether Shutdown has closed done: if so, the channel is
\* left to Shutdown.  Nobody else enters mu between the two, so they are one step.
WatchLock(s) ==
  /\ watch[s] = "cancelled"
  /\ IF done
       THEN writer = None /\ readers = {} /\ UNCHANGED writer
       ELSE Lock(s)
  /\ watch' = [watch EXCEPT ![s] = IF done THEN "over" ELSE "closing"]
  /\ UNCHANGED <<readers, done, subs, subCount, chan, buffer, closer, publish, history>>

\* Mutant of WatchClose: the channel is closed but stays registered.
WatchForgetsDelete(s) ==
  /\ watch[s] = "closing"
  /\ chan' = [chan EXCEPT ![s] = "closed"]
  /\ subCount' = subCount - 1
  /\ Unlock
  /\ watch' = [watch EXCEPT ![s] = "over"]
  /\ UNCHANGED <<readers, done, subs, buffer, closer, publish, history>>

WatchClose(s) ==
  /\ watch[s] = "closing"
  /\ subs' = subs \ {s}
  /\ chan' = [chan EXCEPT ![s] = "closed"]
  /\ subCount' = subCount - 1
  /\ Unlock
  /\ watch' = [watch EXCEPT ![s] = "over"]
  /\ UNCHANGED <<readers, done, buffer, closer, publish, history>>

\* Shutdown, called at most once: done is closed before mu is taken.
ShutdownBegin ==
  /\ closer = "idle"
  /\ done' = TRUE
  /\ closer' = "locking"
  /\ UNCHANGED <<mu, subs, subCount, chan, buffer, watch, publish, history>>

ShutdownLock ==
  /\ closer = "locking"
  /\ Lock(Closer)
  /\ closer' = "closing"
  /\ UNCHANGED <<readers, done, subs, subCount, chan, buffer, watch, publish, history>>

\* Mutant of ShutdownClose: the channel is dropped without being closed.
ShutdownForgets(s) ==
  /\ closer = "closing"
  /\ s \in subs
  /\ subs' = subs \ {s}
  /\ UNCHANGED <<mu, done, subCount, chan, buffer, watch, closer, publish, history>>

\* One round of its loop over the registered channels.
ShutdownClose(s) ==
  /\ closer = "closing"
  /\ s \in subs
  /\ subs' = subs \ {s}
  /\ chan' = [chan EXCEPT ![s] = "closed"]
  /\ UNCHANGED <<mu, done, subCount, buffer, watch, closer, publish, history>>

ShutdownEnd ==
  /\ closer = "closing"
  /\ subs = {}
  /\ subCount' = 0
  /\ Unlock
  /\ closer' = "over"
  /\ UNCHANGED <<readers, done, subs, chan, buffer, watch, publish, history>>
------------------------------------------------------------------------------
PublishCall(p) ==
  /\ pub[p] \in {"idle", "returned"}
  /\ called < MaxEvents
  /\ called' = called + 1
  /\ event' = [event EXCEPT ![p] = called + 1]
  /\ audience' = [audience EXCEPT ![called + 1] = {s \in Subs : chan[s] = "open"}]
  /\ pub' = [pub EXCEPT ![p] = "locking"]
  /\ UNCHANGED <<mu, done, subs, subCount, chan, buffer, watch, closer, todo, history>>

\* Mutant of PublishLock: the lock only covers a copy of the subscriber set.
PublishCopies(p) ==
  /\ pub[p] = "locking"
  /\ writer = None
  /\ pub' = [pub EXCEPT ![p] = IF done THEN "returned" ELSE "sending"]
  /\ todo' = [todo EXCEPT ![p] = IF done THEN {} ELSE subs]
  /\ UNCHANGED <<mu, done, subs, subCount, chan, buffer, watch, closer, event, called,
                 audience, history>>

\* Publish takes mu for reading and returns at once if done is closed.  No
\* writer gets in between the two, so they are one step.
PublishLock(p) ==
  /\ pub[p] = "locking"
  /\ writer = None
  /\ pub' = [pub EXCEPT ![p] = IF done THEN "returned" ELSE "sending"]
  /\ todo' = [todo EXCEPT ![p] = IF done THEN {} ELSE subs]
  /\ readers' = IF done THEN readers ELSE readers \cup {p}
  /\ UNCHANGED <<writer, done, subs, subCount, chan, buffer, watch, closer, event, called,
                 audience, history>>

\* One round of the loop: the event goes into the buffer.
Send(p, s) ==
  /\ pub[p] = "sending"
  /\ s \in todo[p]
  /\ Len(buffer[s]) < BufferSize
  /\ buffer' = [buffer EXCEPT ![s] = Append(@, event[p])]
  /\ sent' = [sent EXCEPT ![s] = Append(@, event[p])]
  /\ todo' = [todo EXCEPT ![p] = @ \ {s}]
  /\ UNCHANGED <<mu, done, subs, subCount, chan, watch, closer, pub, event, called, audience,
                 full>>

\* Mutant of Drop: a full buffer ends the loop.
DropRest(p, s) ==
  /\ pub[p] = "sending"
  /\ s \in todo[p]
  /\ Len(buffer[s]) >= BufferSize
  /\ full' = full \cup {s}
  /\ todo' = [todo EXCEPT ![p] = {}]
  /\ UNCHANGED <<mu, done, subs, subCount, chan, buffer, watch, closer, pub, event, called,
                 audience, sent>>

\* Or, the buffer being full, it is dropped for this subscriber.
Drop(p, s) ==
  /\ pub[p] = "sending"
  /\ s \in todo[p]
  /\ Len(buffer[s]) >= BufferSize
  /\ full' = full \cup {s}
  /\ todo' = [todo EXCEPT ![p] = @ \ {s}]
  /\ UNCHANGED <<mu, done, subs, subCount, chan, buffer, watch, closer, pub, event, called,
                 audience, sent>>

PublishEnd(p) ==
  /\ pub[p] = "sending"
  /\ todo[p] = {}
  /\ readers' = readers \ {p}
  /\ pub' = [pub EXCEPT ![p] = "returned"]
  /\ UNCHANGED <<writer, done, subs, subCount, chan, buffer, watch, closer, event, todo,
                 called, audience, history>>

\* The consumer receives; a closed channel still yields what is in its buffer.
Consume(s) ==
  /\ buffer[s] # <<>>
  /\ buffer' = [buffer EXCEPT ![s] = Tail(@)]
  /\ UNCHANGED <<mu, done, subs, subCount, chan, watch, closer, publish, history>>
------------------------------------------------------------------------------
WatchStep(s) == WatchLock(s) \/ WatchClose(s)

ShutdownStep == ShutdownLock \/ (\E s \in Subs : ShutdownClose(s)) \/ ShutdownEnd

PublishStep(p) ==
  \/ PublishLock(p) \/ PublishEnd(p)
  \/ \E s \in Subs : Send(p, s) \/ Drop(p, s)

Next ==
  \/ \E s \in Subs : Subscribe(s) \/ CancelContext(s) \/ WatchStep(s) \/ Consume(s)
  \/ ShutdownBegin \/ ShutdownStep
  \/ \E p \in Publishers : PublishCall(p) \/ PublishStep(p)

Spec == Init /\ [][Next]_vars

\* Goroutines run.  Nothing makes a context be cancelled, a service publish, or
\* a consumer receive.
Fairness ==
  /\ \A s \in Subs : WF_vars(WatchStep(s))
  /\ WF_vars(ShutdownStep)
  /\ \A p \in Publishers : WF_vars(PublishStep(p))

FairSpec == Spec /\ Fairness
------------------------------------------------------------------------------
TypeOK ==
  /\ readers \subseteq Publishers
  /\ writer \in Subs \cup {Closer, None}
  /\ done \in BOOLEAN
  /\ subs \subseteq Subs
  /\ subCount \in 0 .. Cardinality(Subs)
  /\ chan \in [Subs -> {"none", "open", "closed"}]
  /\ buffer \in [Subs -> Seq(Events)]
  /\ \A s \in Subs : Len(buffer[s]) <= BufferSize
  /\ watch \in [Subs -> {"none", "waiting", "cancelled", "closing", "over"}]
  /\ closer \in {"idle", "locking", "closing", "over"}
  /\ pub \in [Publishers -> {"idle", "locking", "sending", "returned"}]
  /\ event \in [Publishers -> Events \cup {None}]
  /\ todo \in [Publishers -> SUBSET Subs]
  /\ called \in 0 .. MaxEvents
  /\ sent \in [Subs -> Seq(Events)]
  /\ full \subseteq Subs
  /\ audience \in [Events -> SUBSET Subs]

\* Publish never sends on a closed channel, and neither Shutdown nor a
\* subscriber's goroutine closes a channel twice: either would panic
\* (broker.go 93-107).
NoPanic ==
  /\ \A p \in Publishers : \A s \in todo[p] : chan[s] = "open"
  /\ \A s \in Subs : watch[s] = "closing" => chan[s] = "open"
  /\ closer = "closing" => \A s \in subs : chan[s] = "open"

\* A subscriber whose buffer was never full, and whose channel is still open
\* when Publish returns, has not missed the event: one slow subscriber costs
\* the others nothing (broker.go 93-124).
MissedOnlyIfFull ==
  \A p \in Publishers : pub[p] = "returned" /\ ~done =>
    \A s \in audience[event[p]] \ full :
      chan[s] = "open" => event[p] \in ToSet(sent[s])

\* A consumer that ranges over its channel comes to the end: the channel is
\* closed after its context is cancelled, whoever gets there first, and after
\* Shutdown (broker.go 32-49, 68-82).
CancelCloses ==
  \A s \in Subs :
    watch[s] = "cancelled" \/ (done /\ chan[s] = "open") ~> chan[s] = "closed"

\* The broker implements what Delivery promises.
InFlight == {event[p] : p \in {q \in Publishers : pub[q] \in {"locking", "sending"}}}

D == INSTANCE Delivery WITH
       phase <- chan, stream <- sent, inFlight <- InFlight,
       past <- 1 .. called \ InFlight

Promise == D!Spec
==============================================================================
