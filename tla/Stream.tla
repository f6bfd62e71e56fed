-------------------------------- MODULE Stream --------------------------------
(***************************************************************************)
(* The stream of one model call: the goroutine of a provider's adapter,     *)
(* internal/llm/provider/{anthropic,openai,copilot}.go, which retries what  *)
(* the service turned down, and the agent's loop over its events,           *)
(* internal/llm/agent/agent.go, joined by a channel without a buffer.       *)
(*                                                                         *)
(* Text and tool calls are named by the attempt they come from. A service   *)
(* that is overloaded, or finds the token expired, says so with the status  *)
(* of its response, and so before the first event of an attempt.            *)
(***************************************************************************)
EXTENDS Answer, SequencesExt

service == <<attempt, said, asked, chosen, sentStop>>
message == <<text, tools, outcome>>
vars == <<adapter, service, prov, offer, gone, listen, message>>

Adapters == {"anthropic", "openai", "copilot"}
Attempts == 1 .. MaxRetries + 1

\* then: where the goroutine goes on once the event is taken.
Event == [kind : {"text", "call", "complete", "error", "nil"}, then : {"stream", "over"}]
NoEvent == [kind |-> "none", then |-> "over"]

Init ==
  /\ adapter \in Adapters
  /\ attempt = 1
  /\ said = 0
  /\ asked = FALSE
  /\ chosen = FALSE
  /\ sentStop = FALSE
  /\ prov = "stream"
  /\ offer = NoEvent
  /\ gone = FALSE
  /\ listen = "range"
  /\ text = <<>>
  /\ tools = {}
  /\ outcome = "none"

Offer(kind, then) ==
  /\ prov' = "send"
  /\ offer' = [kind |-> kind, then |-> then]

Fresh == said = 0 /\ ~asked /\ ~chosen /\ ~sentStop

Cancel ==
  /\ ~gone
  /\ listen \in {"range", "check"} /\ prov # "crashed"
  /\ gone' = TRUE
  /\ UNCHANGED <<adapter, service, prov, offer, listen, message>>
------------------------------------------------------------------------------
SendText ==
  /\ prov = "stream" /\ ~sentStop
  /\ said < MaxDeltas
  /\ said' = said + 1
  /\ chosen' = TRUE
  /\ Offer("text", "stream")
  /\ UNCHANGED <<adapter, attempt, asked, sentStop, gone, listen, message>>

\* Only anthropic announces tool calls; the others send them with the answer.
SendCall ==
  /\ prov = "stream" /\ ~sentStop
  /\ ~asked
  /\ asked' = TRUE
  /\ chosen' = TRUE
  /\ IF adapter = "anthropic" THEN Offer("call", "stream") ELSE UNCHANGED <<prov, offer>>
  /\ UNCHANGED <<adapter, attempt, said, sentStop, gone, listen, message>>

\* A choice that says nothing: its role, say, or why it finished.
SendChoice ==
  /\ prov = "stream"
  /\ adapter # "anthropic"
  /\ chosen' = TRUE
  /\ UNCHANGED <<adapter, attempt, said, asked, sentStop, prov, offer, gone, listen, message>>

\* message_stop, after which anthropic's stream has still to end.
SendStop ==
  /\ prov = "stream" /\ ~sentStop
  /\ adapter = "anthropic"
  /\ sentStop' = TRUE
  /\ Offer("complete", "stream")
  /\ UNCHANGED <<adapter, attempt, said, asked, chosen, gone, listen, message>>

\* The stream ends without an error, or at its end of file, cut short or not.
\* openai and copilot read the first choice of what they gathered: if there is
\* none, the goroutine panics, nothing recovers it and the whole program dies.
EndStream ==
  /\ prov = "stream"
  /\ \/ adapter = "anthropic" /\ prov' = "over" /\ UNCHANGED offer
     \/ adapter # "anthropic" /\ chosen /\ Offer("complete", "over")
     \/ adapter # "anthropic" /\ ~chosen /\ prov' = "crashed" /\ UNCHANGED offer
  /\ UNCHANGED <<adapter, service, gone, listen, message>>

\* An error shouldRetry will not retry, a cancellation among them.
Fail ==
  /\ prov = "stream"
  /\ Offer("error", "over")
  /\ UNCHANGED <<adapter, service, gone, listen, message>>

\* Mutant of TurnDown: a stream that breaks half-way is retried as well.
TurnDownMidway ==
  /\ prov = "stream"
  /\ IF attempt > MaxRetries THEN Offer("error", "over")
     ELSE prov' = "backoff" /\ UNCHANGED offer
  /\ UNCHANGED <<adapter, service, gone, listen, message>>

\* The service is overloaded: maxRetries times the attempt is made again.
TurnDown ==
  /\ prov = "stream" /\ Fresh
  /\ IF attempt > MaxRetries THEN Offer("error", "over")
     ELSE prov' = "backoff" /\ UNCHANGED offer
  /\ UNCHANGED <<adapter, service, gone, listen, message>>

\* The token has expired. copilot exchanges it for another and tries again; when
\* it has tried maxRetries times it sends the error of a retry, which is nil.
Unauthorized ==
  /\ prov = "stream" /\ Fresh
  /\ adapter = "copilot"
  /\ IF attempt > MaxRetries THEN Offer("nil", "over")
     ELSE prov' = "backoff" /\ UNCHANGED offer
  /\ UNCHANGED <<adapter, service, gone, listen, message>>

Retry ==
  /\ prov = "backoff"
  /\ prov' = "stream"
  /\ attempt' = attempt + 1
  /\ said' = 0
  /\ asked' = FALSE
  /\ chosen' = FALSE
  /\ sentStop' = FALSE
  /\ UNCHANGED <<adapter, offer, gone, listen, message>>

\* Mutant of GiveUp: the goroutine returns without closing the channel.
GiveUpOpen ==
  /\ prov = "backoff"
  /\ gone
  /\ IF adapter = "anthropic"
     THEN Offer("error", "over")
     ELSE prov' = "gone" /\ UNCHANGED offer
  /\ UNCHANGED <<adapter, service, gone, listen, message>>

\* The context is done while the goroutine waits; openai and copilot ask the
\* error to be none before they send it, and close the channel without a word.
GiveUp ==
  /\ prov = "backoff"
  /\ gone
  /\ IF adapter = "anthropic"
     THEN Offer("error", "over")
     ELSE prov' = "over" /\ UNCHANGED offer
  /\ UNCHANGED <<adapter, service, gone, listen, message>>
------------------------------------------------------------------------------
Leave(how) ==
  /\ listen' = "left"
  /\ outcome' = how

\* The agent takes an event, and looks at its context before anything else;
\* it asks an error for its text, and a nil one makes it panic.
Take ==
  /\ listen = "range" /\ prov = "send"
  /\ prov' = offer.then
  /\ offer' = NoEvent
  /\ IF gone \/ offer.kind \in {"error", "nil"}
     THEN /\ Leave(CASE gone -> "cancelled"
                     [] offer.kind = "nil" -> "panicked"
                     [] OTHER -> "failed")
          /\ UNCHANGED <<text, tools>>
     ELSE /\ listen' = "check"
          /\ text' = IF offer.kind = "text" THEN Append(text, attempt) ELSE text
          /\ tools' = CASE offer.kind = "call" -> tools \cup {attempt}
                        [] offer.kind = "complete" -> (IF asked THEN {attempt} ELSE {})
                        [] OTHER -> tools
          /\ outcome' = IF offer.kind = "complete" THEN "answered" ELSE outcome
  /\ UNCHANGED <<adapter, service, gone>>

\* And looks again afterwards.
Check ==
  /\ listen = "check" /\ prov # "crashed"
  /\ IF gone THEN Leave("cancelled") ELSE listen' = "range" /\ UNCHANGED outcome
  /\ UNCHANGED <<adapter, service, prov, offer, gone, text, tools>>

\* The channel is closed: the loop ends, whatever came of the context.
EndLoop ==
  /\ listen = "range" /\ prov = "over"
  /\ listen' = "ended"
  /\ UNCHANGED <<adapter, service, prov, offer, gone, message>>
------------------------------------------------------------------------------
Provide ==
  \/ SendText \/ SendCall \/ SendChoice \/ SendStop \/ EndStream \/ Fail
  \/ TurnDown \/ Unauthorized \/ Retry \/ GiveUp

Consume == Take \/ Check \/ EndLoop

Next == Provide \/ Consume \/ Cancel

\* The service answers or fails, timers fire, and the agent's loop runs.
Spec == Init /\ [][Next]_vars /\ WF_vars(Provide) /\ WF_vars(Consume)
------------------------------------------------------------------------------
TypeOK ==
  /\ adapter \in Adapters
  /\ attempt \in Attempts
  /\ said \in 0 .. MaxDeltas
  /\ asked \in BOOLEAN
  /\ chosen \in BOOLEAN
  /\ sentStop \in BOOLEAN
  /\ prov \in {"stream", "send", "backoff", "over", "crashed"}
  /\ offer \in Event \cup {NoEvent}
  /\ gone \in BOOLEAN
  /\ listen \in {"range", "check", "ended", "left"}
  /\ text \in Seq(Attempts)
  /\ tools \subseteq Attempts
  /\ outcome \in {"none", "answered", "cancelled", "failed", "panicked"}

\* The agent's loop always ends, however often the service turns the call down;
\* and so does the adapter's goroutine, unless the agent left the loop: then it
\* stays in its next send for ever (anthropic.go 272-390, agent.go 544-554).
\* A stream without a choice ends both, and the program with them.
StreamEnds ==
  /\ <>(listen \in {"ended", "left"} \/ prov = "crashed")
  /\ <>[](prov \in {"over", "crashed"} \/ listen = "left")
==============================================================================
