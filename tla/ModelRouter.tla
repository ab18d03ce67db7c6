---------------------------- MODULE ModelRouter ----------------------------
(***************************************************************************)
(* The model router (internal/model/router.go, provider_adapter.go): which *)
(* providers a configuration yields, Route with its fallback, and          *)
(* RouteEmbedding with its try order.  The vendors behind the providers    *)
(* are external: a request is answered or fails.  A request of an          *)
(* openai-codex provider is the Generate of CodexProvider.                 *)
(*                                                                         *)
(* One request is in progress at a time: the router keeps no state between *)
(* requests, and its maps are not written after NewModelRouter.            *)
(***************************************************************************)
EXTENDS CodexProvider

CONSTANTS
  Names,       \* the model names, in the order sort.Strings gives them
  NoModel,     \* the empty model name
  Configs      \* the models configurations considered

VARIABLES
  cfg,        \* the configuration of this run
  request,    \* the request in progress
  cancelled,  \* its context is cancelled
  asked       \* the providers asked for it, in order

routerVars == <<cfg, request, cancelled, asked>>
vars == <<codexVars, routerVars>>

\* A configuration: the registry entries, each with its kind of provider and
\* whether it has an API key, the fallback model and max_fallback_attempts; and
\* whether the codex entry has a token of its own (api_key).
ConfigOK(c) ==
  /\ DOMAIN c.registry \subseteq Range(Names)
  /\ \A n \in DOMAIN c.registry : c.registry[n].key \in BOOLEAN
  /\ c.fallback \in Range(Names) \cup {NoModel}
  /\ c.max \in Nat
  /\ c.static \in BOOLEAN

ASSUME RouterAssumption ==
  /\ Names \in Seq(Range(Names))
  /\ NoModel \notin Range(Names)
  /\ \A c \in Configs : ConfigOK(c)

\* createProvider: ollama and openai-codex need no key, an unknown kind fails.
Created(entry) ==
  CASE entry.kind \in {"openai", "anthropic", "gemini", "zai"} -> entry.key
    [] entry.kind \in {"ollama", "openai-codex"} -> TRUE
    [] OTHER -> FALSE

\* initProviders leaves out the entries whose provider cannot be created.
Providers == {n \in DOMAIN cfg.registry : Created(cfg.registry[n])}

KindOf(n) == cfg.registry[n].kind

\* What Embed says: anthropic and zai do not support embeddings.
EmbedResults(n) ==
  CASE KindOf(n) \in {"anthropic", "zai"} -> {"unsupported"}
    [] KindOf(n) = "openai-codex" /\ ~cfg.static /\ tokenFile.kind # "token" -> {"error"}
    [] OTHER -> {"ok", "error"}

DefaultMax == 2
MaxAttempts == IF cfg.max <= 0 THEN DefaultMax ELSE cfg.max

\* appendUnique
AppendUnique(order, n) == IF n = NoModel \/ n \in Range(order) THEN order ELSE Append(order, n)

\* embeddingTryOrder: the requested model and the fallback, registered or not,
\* then the registered ones sorted; each once.
TryOrder(model) ==
  LET candidates == <<model, cfg.fallback>> \o Names
      order[k \in 0..Len(candidates)] ==
        IF k = 0 THEN <<>>
        ELSE IF k > 2 /\ candidates[k] \notin Providers THEN order[k - 1]
        ELSE AppendUnique(order[k - 1], candidates[k])
  IN order[Len(candidates)]

Idle == [op |-> "none"]

End(result) == request' = [op |-> request.op, model |-> request.model, phase |-> result]

-----------------------------------------------------------------------------
Init ==
  /\ CodexInit
  /\ cfg \in Configs
  /\ Providers # {} \/ DOMAIN cfg.registry = {}   \* else NewModelRouter fails
  /\ request = Idle
  /\ cancelled = FALSE
  /\ asked = <<>>

Cancel ==
  /\ ~cancelled
  /\ request # Idle
  /\ cancelled' = TRUE
  /\ UNCHANGED <<codexVars, cfg, request, asked>>

\* resolveProvider: the model's provider, else the fallback's.
Resolved(model) ==
  CASE model \in Providers -> model
    [] model \notin Providers /\ cfg.fallback # NoModel /\ model # cfg.fallback
       /\ cfg.fallback \in Providers -> cfg.fallback
    [] OTHER -> NoModel

StartRoute(model) ==
  /\ request = Idle
  /\ request' = [op |-> "route", model |-> model,
                 phase |-> IF Resolved(model) = NoModel THEN "not_found" ELSE "attempt",
                 attempt |-> 0, current |-> model, provider |-> Resolved(model)]
  /\ UNCHANGED <<codexVars, cfg, cancelled, asked>>

StartEmbedding(model) ==
  /\ request = Idle
  /\ request' = [op |-> "embed", model |-> model, phase |-> "try",
                 order |-> TryOrder(model), lastErr |-> FALSE]
  /\ UNCHANGED <<codexVars, cfg, cancelled, asked>>

\* After a failed Generate: give up, or go on with the fallback.
AfterFailure ==
  LET r == request
  IN IF cfg.fallback = NoModel \/ r.current = cfg.fallback
     THEN End("failed")
     ELSE IF cfg.fallback \notin Providers
     THEN End("not_found")
     ELSE IF r.attempt + 1 >= MaxAttempts
     THEN End("exhausted")
     ELSE request' = [r EXCEPT !.attempt = @ + 1, !.current = cfg.fallback,
                               !.provider = cfg.fallback]

Attempting == request.op = "route" /\ request.phase = "attempt"

\* A cancelled context ends the request at the top of the loop.
AbandonRoute ==
  /\ Attempting /\ gen = "idle"
  /\ cancelled
  /\ End("cancelled")
  /\ UNCHANGED <<codexVars, cfg, cancelled, asked>>

Ask(n) == asked' = Append(asked, n)

\* Generate of a provider other than codex: one vendor call.
Generate ==
  /\ Attempting /\ ~cancelled
  /\ KindOf(request.provider) # "openai-codex"
  /\ Ask(request.provider)
  /\ End("ok") \/ AfterFailure
  /\ UNCHANGED <<codexVars, cfg, cancelled>>

\* Generate of the codex provider: the request runs in CodexProvider.
GenerateCodex ==
  /\ Attempting /\ ~cancelled
  /\ KindOf(request.provider) = "openai-codex"
  /\ LoadToken(cfg.static)
  /\ Ask(request.provider)
  /\ UNCHANGED <<cfg, request, cancelled>>

CodexOK ==
  /\ Attempting /\ gen = "ok"
  /\ TakeResult
  /\ End("ok")
  /\ UNCHANGED <<cfg, cancelled, asked>>

CodexFailed ==
  /\ Attempting /\ gen = "failed"
  /\ TakeResult
  /\ AfterFailure
  /\ UNCHANGED <<cfg, cancelled, asked>>

Trying == request.op = "embed" /\ request.phase = "try"

\* A name of the try order that is not registered is passed over.
SkipUnregistered ==
  /\ Trying /\ request.order # <<>> /\ ~cancelled
  /\ Head(request.order) \notin Providers
  /\ request' = [request EXCEPT !.order = Tail(@)]
  /\ UNCHANGED <<codexVars, cfg, cancelled, asked>>

\* Mutant of TryEmbed: a provider without embeddings ends the search.
TryEmbedGivesUp ==
  /\ Trying /\ request.order # <<>> /\ ~cancelled
  /\ Head(request.order) \in Providers
  /\ Ask(Head(request.order))
  /\ \E result \in EmbedResults(Head(request.order)) :
       \/ result = "ok" /\ End("ok")
       \/ result = "unsupported" /\ End("not_found")
       \/ /\ result = "error"
          /\ request' = [request EXCEPT !.order = Tail(@), !.lastErr = TRUE]
  /\ UNCHANGED <<codexVars, cfg, cancelled>>

\* The next provider of the try order is asked; one that does not embed is
\* skipped without an error.
TryEmbed ==
  /\ Trying /\ request.order # <<>> /\ ~cancelled
  /\ Head(request.order) \in Providers
  /\ Ask(Head(request.order))
  /\ \E result \in EmbedResults(Head(request.order)) :
       \/ result = "ok" /\ End("ok")
       \/ /\ result # "ok"
          /\ request' = [request EXCEPT !.order = Tail(@),
                                        !.lastErr = @ \/ (result = "error")]
  /\ UNCHANGED <<codexVars, cfg, cancelled>>

EndEmbedding ==
  /\ Trying
  /\ IF request.order # <<>>
     THEN cancelled /\ End("cancelled")
     ELSE End(IF request.lastErr THEN "failed" ELSE "not_found")
  /\ UNCHANGED <<codexVars, cfg, cancelled, asked>>

Answered ==
  /\ request # Idle
  /\ request.phase \notin {"attempt", "try"}

\* The caller has its answer; the next request has a context of its own.
NextRequest ==
  /\ Answered
  /\ request' = Idle
  /\ cancelled' = FALSE
  /\ asked' = <<>>
  /\ UNCHANGED <<codexVars, cfg>>

Next ==
  \/ Login /\ UNCHANGED routerVars
  \/ Stream /\ UNCHANGED routerVars
  \/ \E model \in Range(Names) : StartRoute(model)
  \/ \E model \in Range(Names) : StartEmbedding(model)
  \/ Cancel
  \/ AbandonRoute
  \/ Generate
  \/ GenerateCodex
  \/ CodexOK
  \/ CodexFailed
  \/ SkipUnregistered
  \/ TryEmbed
  \/ EndEmbedding
  \/ NextRequest

Spec == Init /\ [][Next]_vars

-----------------------------------------------------------------------------
(* Properties *)

\* The router gives up, other than on a cancelled context, only when there is
\* no provider left that it promises to ask: an embedding when every provider
\* was asked, each once; a completion when the model's own provider was asked
\* and, with two attempts or more, the fallback's last (executeWithFallback,
\* RouteEmbedding).
GivesUpOnlyWhenExhausted ==
  Answered /\ request.phase \notin {"ok", "cancelled"} =>
    IF request.op = "embed"
    THEN Range(asked) = Providers /\ Len(asked) = Cardinality(Providers)
    ELSE /\ request.model \in Providers => asked # <<>> /\ asked[1] = request.model
         /\ cfg.fallback \in Providers /\ MaxAttempts > 1 =>
              asked # <<>> /\ asked[Len(asked)] = cfg.fallback

=============================================================================
