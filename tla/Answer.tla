-------------------------------- MODULE Answer --------------------------------
(***************************************************************************)
(* The answer to one model call while it is streamed: how far the attempts  *)
(* of a provider's adapter are (internal/llm/provider), what the agent has  *)
(* made of them (internal/llm/agent/agent.go), and what the message it ends *)
(* up with must be. Stream has the steps of both.                           *)
(***************************************************************************)
EXTENDS Naturals, Sequences

CONSTANTS MaxRetries, \* 8 in the code
          MaxDeltas   \* bound on the text events of an attempt

ASSUME AnswerAssumption ==
  /\ MaxRetries \in Nat
  /\ MaxDeltas \in Nat

VARIABLES
  adapter,  \* whose: anthropic, openai or copilot
  attempt,  \* attempts, which the adapter counts from 1
  said,     \* text events of the attempt
  asked,    \* whether the attempt has announced a tool call
  chosen,   \* whether a choice came in it, which is what openai and copilot read
  sentStop, \* whether it has sent its message_stop
  prov,     \* where the adapter's goroutine is
  offer,    \* the event it sends
  gone,     \* the request was cancelled
  listen,   \* where the agent's loop is
  text,     \* content of the message, by attempt
  tools,    \* its tool calls, by attempt
  outcome   \* what the agent made of the stream
------------------------------------------------------------------------------
\* However often the call was turned down, the message of a turn that goes on
\* holds the text of one attempt, whole, and the tool calls of the same; if it
\* goes on without an answer, the service cut the stream off or the request was
\* cancelled while its adapter waited to retry; only a copilot service that takes
\* no token can make the agent panic; and only an openai or copilot stream that
\* ends well without a choice ends the program, which for those two never takes
\* such a stream for an answer (anthropic.go 345-383, openai.go 307-353,
\* copilot.go 488-533, agent.go 544-560, 649-655).
AnswerIsWhole ==
  /\ listen = "ended" =>
       /\ Len(text) = said
       /\ \A i \in 1 .. Len(text) : text[i] = attempt
       /\ tools \subseteq {attempt}
       /\ IF outcome = "answered"
          THEN (asked <=> attempt \in tools) /\ (chosen \/ adapter = "anthropic")
          ELSE adapter = "anthropic" \/ gone
  /\ outcome = "panicked" => adapter = "copilot" /\ attempt > MaxRetries
  /\ prov = "crashed" => adapter # "anthropic" /\ ~chosen /\ text = <<>> /\ outcome # "answered"
==============================================================================
