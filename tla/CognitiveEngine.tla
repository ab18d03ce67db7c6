-------------------------- MODULE CognitiveEngine --------------------------
(***************************************************************************)
(* The cognitive engine (internal/cognitive): plan, then turns of think,   *)
(* act and reflect over a context of plan, scratchpad, memories and        *)
(* history that Prune keeps within a token budget; and the memories a      *)
(* reflection leaves behind, stored by a goroutine of their own            *)
(* (orchestrator/memory).                                                  *)
(*                                                                         *)
(* Texts are their costs in tokens.  The model's answers are external: a   *)
(* call of the LLM fails, gives output that does not parse, or gives one   *)
(* of the answers the parsers know.                                        *)
(***************************************************************************)
EXTENDS Integers, SequencesExt, FiniteSetsExt, ProviderMessages

CONSTANTS
  MaxTurns,            \* orchestrator.max_turns
  MaxRetriesPerTurn,   \* maxRetriesPerTurn, 3 in the code
  StructuredRetryMax,  \* orchestrator.structured_retry_max
  TokenBudget,         \* orchestrator.token_budget
  PlanCosts,           \* the costs of a plan considered
  Thoughts,            \* the thoughts considered: tool calls and cost of the text
  OutputCosts,         \* the costs of a tool output considered
  TopMemories          \* facts a search returns at most, 5 in the code

ASSUME EngineAssumption ==
  /\ MaxTurns \in Nat \ {0}
  /\ MaxRetriesPerTurn \in Nat
  /\ StructuredRetryMax \in Nat
  /\ TokenBudget \in Nat \ {0}
  /\ PlanCosts \subseteq Nat
  /\ Thoughts \subseteq [calls : Nat \ {0}, cost : Nat]
  /\ OutputCosts \subseteq Nat
  /\ TopMemories \in Nat

VARIABLES
  eng,        \* the run in progress
  ctx,        \* its CognitiveContext
  facts       \* facts being stored, and facts a search can find

engineVars == <<eng, ctx, facts>>

NoRun == [phase |-> "none"]

EmptyContext ==
  [budget |-> TokenBudget, plan |-> 0, pad |-> <<>>, memories |-> <<>>, history |-> <<>>]

-----------------------------------------------------------------------------
(* Prune *)

Total(costs) ==
  LET sum[n \in 0..Len(costs)] == IF n = 0 THEN 0 ELSE sum[n - 1] + costs[n]
  IN sum[Len(costs)]

LastN(s, n)  == SubSeq(s, Len(s) - n + 1, Len(s))

\* The most entries at the end, or at the front, of a list that fit.
FitEnd(s, room)   == LastN(s, Max({n \in 0..Len(s) : Total(LastN(s, n)) <= room}))
FitFront(s, room) == SubSeq(s, 1, Max({n \in 0..Len(s) : Total(SubSeq(s, 1, n)) <= room}))

Costs(history) == [i \in DOMAIN history |-> history[i].cost]

\* The plan stays; the latest scratchpad entries, the first memories and the
\* latest messages follow while they fit.
Pruned(c, padRoom) ==
  LET pad  == FitEnd(c.pad, padRoom)
      room == padRoom - Total(pad)
      mems == FitFront(c.memories, room)
      left == room - Total(mems)
  IN [c EXCEPT !.pad = pad, !.memories = mems,
               !.history = LastN(@, Len(FitEnd(Costs(@), left)))]

\* Mutant of Prune: the scratchpad does not count against the budget.
PruneFreePad(c) ==
  IF c.budget <= 0 THEN c
  ELSE [Pruned([c EXCEPT !.pad = <<>>], Max({c.budget - c.plan, 0})) EXCEPT !.pad = c.pad]

Prune(c) ==
  IF c.budget <= 0 THEN c
  ELSE IF c.plan > c.budget
       THEN [c EXCEPT !.pad = <<>>, !.memories = <<>>, !.history = <<>>]
       ELSE Pruned(c, c.budget - c.plan)

\* Update merges a reflection's text and facts, then prunes.
Update(c, cost, mems) ==
  Prune([c EXCEPT !.pad = Append(@, cost), !.memories = @ \o mems])

-----------------------------------------------------------------------------
(* Run *)

\* Run begins with the context its options prepared.
StartRun(c) ==
  /\ eng' = [phase |-> "plan", turn |-> 0, retries |-> 0, attempt |-> 0, thinks |-> 0,
             outs |-> <<>>, calls |-> 0, mems |-> <<>>, stale |-> TRUE]
  /\ ctx' = c

\* Run returns; its context is gone.
End(result) ==
  /\ eng' = [phase |-> "done", result |-> result]
  /\ ctx' = EmptyContext

\* The next turn with context c, or the end of the turns.
NextTurn(e, c) ==
  IF e.turn + 1 < MaxTurns
  THEN /\ eng' = [e EXCEPT !.phase = "think", !.turn = @ + 1, !.attempt = 0, !.mems = <<>>]
       /\ ctx' = c
  ELSE End("max_turns")

\* A goroutine stores the facts; no more than a search returns are told apart.
SpawnRemember(mems) ==
  facts' = [facts EXCEPT !.storing = Min({@ + Len(mems), TopMemories})]

\* Plan: an answer that does not parse is asked for again, StructuredRetryMax
\* times; a failing call is not.
PlanInvalid ==
  /\ eng.phase \in {"plan", "replan"}
  /\ eng.attempt < StructuredRetryMax
  /\ eng' = [eng EXCEPT !.attempt = @ + 1]
  /\ UNCHANGED <<ctx, facts>>

\* The first plan must succeed; a replan that fails keeps the old plan.
PlanFails ==
  \/ eng.phase = "plan" /\ End("fatal") /\ UNCHANGED facts
  \/ eng.phase = "replan" /\ NextTurn(eng, ctx) /\ SpawnRemember(eng.mems)

PlanSucceeds ==
  \E cost \in PlanCosts :
    \/ /\ eng.phase = "plan"
       /\ eng' = [eng EXCEPT !.phase = "think", !.attempt = 0]
       /\ ctx' = [ctx EXCEPT !.plan = cost]
       /\ UNCHANGED facts
    \/ /\ eng.phase = "replan"
       /\ NextTurn([eng EXCEPT !.stale = TRUE], [ctx EXCEPT !.plan = cost])
       /\ SpawnRemember(eng.mems)

\* What Think sends: the prompt, the history, and the goal if there is none.
ThinkMessages ==
  <<Prompt>> \o ctx.history
             \o IF ctx.history = <<>> THEN <<Message("user", 0)>> ELSE <<>>

\* The loop ends when the request is cancelled or the call fails.
ThinkFails ==
  /\ eng.phase = "think"
  /\ \E result \in {"cancelled", "logic"} : End(result)
  /\ UNCHANGED facts

\* An answer without calls is final.
ThinkAnswers ==
  /\ eng.phase = "think"
  /\ End("answer")
  /\ UNCHANGED facts

ThinkCallsTools ==
  /\ eng.phase = "think"
  /\ \E t \in Thoughts :
       /\ ctx' = [ctx EXCEPT !.history = Append(@, Assistant(t.calls, t.cost))]
       /\ eng' = [eng EXCEPT !.phase = "act", !.calls = t.calls, !.outs = <<>>, !.thinks = @ + 1]
  /\ UNCHANGED facts

\* The actor runs the calls in order; a failing one has an output as well.
Act ==
  /\ eng.phase = "act"
  /\ Len(eng.outs) < eng.calls
  /\ \E cost \in OutputCosts : eng' = [eng EXCEPT !.outs = Append(@, cost)]
  /\ UNCHANGED <<ctx, facts>>

\* The outputs join the history, which is pruned before the reflection.
AppendOutputs ==
  /\ eng.phase = "act"
  /\ Len(eng.outs) = eng.calls
  /\ LET results == [k \in 1..eng.calls |-> ToolResult(k, eng.outs[k])]
     IN ctx' = Prune([ctx EXCEPT !.history = @ \o results])
  /\ eng' = [eng EXCEPT !.phase = "reflect", !.attempt = 0, !.stale = FALSE, !.outs = <<>>]
  /\ UNCHANGED facts

ReflectInvalid ==
  /\ eng.phase = "reflect"
  /\ eng.attempt < StructuredRetryMax
  /\ eng' = [eng EXCEPT !.attempt = @ + 1]
  /\ UNCHANGED <<ctx, facts>>

\* A reflection that fails is skipped: the turn is over, the retries are kept.
ReflectFails ==
  /\ eng.phase = "reflect"
  /\ NextTurn(eng, ctx)
  /\ UNCHANGED facts

\* Mutant of Retry: the retries of a turn are not counted.
RetryUncounted(c) ==
  /\ eng' = [eng EXCEPT !.phase = "think", !.attempt = 0]
  /\ ctx' = c

\* A retry repeats the turn until its retries are used up.
Retry(c) ==
  IF eng.retries >= MaxRetriesPerTurn
  THEN NextTurn([eng EXCEPT !.retries = 0], c)
  ELSE /\ eng' = [eng EXCEPT !.phase = "think", !.attempt = 0, !.retries = @ + 1]
       /\ ctx' = c

\* The facts of a reflection that asks for a retry or a stop are not stored.
Reflect(signal) ==
  /\ eng.phase = "reflect"
  /\ \E mems \in {<<>>, <<1>>} :
       LET c == Update(ctx, 1, mems)
       IN \/ signal = "retry" /\ Retry(c) /\ UNCHANGED facts
          \/ /\ signal = "replan"
             /\ eng' = [eng EXCEPT !.phase = "replan", !.attempt = 0, !.retries = 0, !.mems = mems]
             /\ ctx' = c
             /\ UNCHANGED facts
          \/ signal = "stop" /\ End("stopped") /\ UNCHANGED facts
          \/ /\ signal = "continue"
             /\ NextTurn([eng EXCEPT !.retries = 0], c)
             /\ SpawnRemember(mems)

\* The collection with one more document; what a search returns of it.
upsertVector  == Min({facts.found + 1, TopMemories})
searchVectors == facts.found

\* Remember embeds a fact and stores it, or fails and is forgotten.
Remember ==
  /\ facts.storing > 0
  /\ \E found \in {facts.found, upsertVector} :
       facts' = [storing |-> facts.storing - 1, found |-> found]
  /\ UNCHANGED <<eng, ctx>>

\* Retrieve: the facts found for a query, each of cost 1.
Retrieve == [i \in 1..searchVectors |-> 1]

Signals == {"continue", "retry", "replan", "stop"}

RunStep ==
  \/ PlanInvalid \/ PlanFails \/ PlanSucceeds
  \/ ThinkFails \/ ThinkAnswers \/ ThinkCallsTools
  \/ Act \/ AppendOutputs
  \/ ReflectInvalid \/ ReflectFails
  \/ \E signal \in Signals : Reflect(signal)

EngineInit ==
  /\ eng = NoRun
  /\ ctx = EmptyContext
  /\ facts = [storing |-> 0, found |-> 0]

-----------------------------------------------------------------------------
(* Properties *)

Running == eng.phase \notin {"none", "done"}

\* A run thinks at most MaxRetriesPerTurn + 1 times per turn, however retries,
\* failed reflections and replans follow each other (Run takes the turn back on
\* a retry and resets its count in some of the cases only).
ThinksBounded ==
  Running => eng.thinks <= (eng.turn + 1) * (MaxRetriesPerTurn + 1)

Used(c) == c.plan + Total(c.pad) + Total(c.memories) + Total(Costs(c.history))

\* When a turn begins or is reflected on, what the context holds is within the
\* budget, or nothing but the plan is left (Prune); not before the first prune,
\* and not after a replan, whose plan is only weighed by the next prune.
ContextFits ==
  eng.phase \in {"think", "reflect"} /\ ~eng.stale /\ ctx.budget > 0 =>
    Used(ctx) <= ctx.budget \/ Used(ctx) = ctx.plan

\* i and j are of one exchange: only calls and results are between them.
OneExchange(w, i, j) == i < j /\ \A n \in i+1..j-1 : w[n].type # "text"

\* Whatever was pruned, on the wire of a provider that sends tool calls every
\* call of the history is followed by its result, and every result follows its
\* call, except that a pruned history may begin with results whose calls were
\* dropped; the prompt comes first for a provider that keeps system messages, and
\* openai-codex takes it as its instructions unless a system line of the session
\* follows it.  The providers that send no calls send the prompt first, too, and
\* one item per message, the results among them where the history has them.
WireIsWellFormed ==
  eng.phase = "think" =>
    /\ \A kind \in CallKinds :
         LET w == Wire(kind, ThinkMessages)
         IN /\ \A i \in DOMAIN w : w[i].type = "call" =>
                 \E j \in DOMAIN w : OneExchange(w, i, j) /\ w[j].type = "result" /\ w[j].k = w[i].k
            /\ \A j \in DOMAIN w : w[j].type = "result" =>
                 \/ \E i \in DOMAIN w : OneExchange(w, i, j) /\ w[i].type = "call" /\ w[i].k = w[j].k
                 \/ ctx.budget > 0 /\ \A i \in 1..j : w[i].type = "result" \/ w[i].prompt
            /\ IF kind # "openai-codex" THEN w[1].prompt
               ELSE \/ CodexInstructions(ThinkMessages) = <<Prompt>>
                    \/ \E i \in DOMAIN ctx.history : ctx.history[i].role = "system"
    /\ \A kind \in TextKinds :
         LET w == Wire(kind, ThinkMessages)
         IN /\ w[1].prompt
            /\ Len(w) = Len(ThinkMessages)
            /\ \A i \in DOMAIN w :
                 LET m == ThinkMessages[i]
                 IN IF m.role = "tool" THEN w[i] = Result(m) ELSE w[i].type = "text"

=============================================================================
