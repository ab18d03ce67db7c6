-------------------------- MODULE ProviderMessages --------------------------
(***************************************************************************)
(* How each provider puts a conversation on the wire (the Generate methods *)
(* of model/providers and toCodexInput).                                   *)
(*                                                                         *)
(* A message has a role, the number of tool calls it makes, the number of  *)
(* the call it answers (tool messages), the cost of its content in tokens  *)
(* and a mark on the prompt the thinker builds.  An item on the wire is a  *)
(* text, a call or a result; call and result numbers are those of the      *)
(* message they come from.  Cost 0 is an empty content.                    *)
(***************************************************************************)
EXTENDS Integers, Sequences, FiniteSetsExt

Message(role, cost)  == [role |-> role, cost |-> cost, calls |-> 0, answers |-> 0, prompt |-> FALSE]
Assistant(n, cost)   == [Message("assistant", cost) EXCEPT !.calls = n]
ToolResult(k, cost)  == [Message("tool", cost) EXCEPT !.answers = k]
Prompt               == [Message("system", 0) EXCEPT !.prompt = TRUE]

Text(role, m) == [type |-> "text", role |-> role, k |-> 0, prompt |-> m.prompt]
Call(k)       == [type |-> "call", role |-> "assistant", k |-> k, prompt |-> FALSE]
Result(m)     == [type |-> "result", role |-> "tool", k |-> m.answers, prompt |-> FALSE]

CallsOf(m) == [k \in 1..m.calls |-> Call(k)]

\* openai: roles, tool calls and call ids as they are.
OpenAIItems(m) ==
  IF m.role = "tool" THEN <<Result(m)>> ELSE <<Text(m.role, m)>> \o CallsOf(m)

\* zai: the same protocol.
ZaiItems(m) == OpenAIItems(m)

\* anthropic: results are sent, but an assistant's calls are not, and the system
\* prompt is a user message.
AnthropicItems(m) ==
  CASE m.role = "tool" -> <<Result(m)>>
    [] m.role = "assistant" -> <<Text("assistant", m)>>
    [] OTHER -> <<Text("user", m)>>

\* gemini: likewise; the role of the assistant is model.
GeminiItems(m) ==
  CASE m.role = "tool" -> <<Result(m)>>
    [] m.role = "assistant" -> <<Text("model", m)>>
    [] OTHER -> <<Text("user", m)>>

\* Mutant of CodexItems: an assistant message is its text or its calls.
CodexTextOrCalls(m) ==
  CASE m.role = "system" -> <<>>
    [] m.role = "user" -> <<Text("user", m)>>
    [] m.role = "assistant" -> IF m.cost > 0 THEN <<Text("assistant", m)>> ELSE CallsOf(m)
    [] m.role = "tool" -> <<Result(m)>>

\* openai-codex: the text if there is one, then the calls; system messages are
\* taken out.
CodexItems(m) ==
  CASE m.role = "system" -> <<>>
    [] m.role = "user" -> <<Text("user", m)>>
    [] m.role = "assistant" ->
         (IF m.cost > 0 THEN <<Text("assistant", m)>> ELSE <<>>) \o CallsOf(m)
    [] m.role = "tool" -> <<Result(m)>>

\* toCodexInput: the last system message becomes the instructions.
CodexInstructions(messages) ==
  LET system == {i \in DOMAIN messages : messages[i].role = "system"}
  IN IF system = {} THEN <<>> ELSE <<messages[Max(system)]>>

Items(kind, m) ==
  CASE kind = "openai" -> OpenAIItems(m)
    [] kind = "zai" -> ZaiItems(m)
    [] kind = "anthropic" -> AnthropicItems(m)
    [] kind = "gemini" -> GeminiItems(m)
    [] kind = "openai-codex" -> CodexItems(m)

\* The messages are put on the wire one after the other.
Wire(kind, messages) ==
  LET w[n \in 0..Len(messages)] ==
        IF n = 0 THEN <<>> ELSE w[n - 1] \o Items(kind, messages[n])
  IN w[Len(messages)]

\* The kinds that put an assistant's calls on the wire, and the others.
CallKinds == {"openai", "zai", "openai-codex"}
TextKinds == {"anthropic", "gemini"}

=============================================================================
