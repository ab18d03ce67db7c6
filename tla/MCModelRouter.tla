--------------------------- MODULE MCModelRouter ---------------------------
(* Small instances of ModelRouter for TLC.                                 *)
EXTENDS ModelRouter

CONSTANTS c1, c2, alpha, beta, omega

ModelNames == <<alpha, beta, omega>>

Entry(kind, key) == [kind |-> kind, key |-> key]

Config(registry, fallback, max, static) ==
  [registry |-> registry, fallback |-> fallback, max |-> max, static |-> static]

\* Registries with a codex model, with providers that do and do not embed, with
\* entries that lack their key or are of an unknown kind, and none; with and
\* without a fallback, one that is not registered included.
SmallConfigs ==
  {Config(alpha :> Entry("openai-codex", FALSE) @@ beta :> Entry("anthropic", TRUE), beta, 0, FALSE),
   Config(alpha :> Entry("openai-codex", FALSE) @@ beta :> Entry("zai", TRUE), omega, 2, TRUE)}
  \cup
  {Config(alpha :> Entry(k1, TRUE) @@ beta :> Entry(k2, key), fallback, max, FALSE) :
     k1 \in {"openai", "zai"}, k2 \in {"anthropic", "gemini", "azure"}, key \in BOOLEAN,
     fallback \in {alpha, beta, NoModel}, max \in 0..3}
  \cup
  {Config(<<>>, alpha, 2, FALSE)}

\* Two calls with ids of the vendor's own form, or of the parser's, and without.
TwoCallIDs ==
  {c1 :> ids[1] @@ c2 :> ids[2] :
     ids \in {<<-1, -2>>, <<-1, 0>>, <<0, 0>>, <<1, 0>>, <<2, 0>>, <<3, 0>>, <<1, 2>>}}

\* Bound: a response is streamed before the first login, or one of them between two
\* logins.  They share nothing but the token that a response begins with.
LoginsApart ==
  gen \in {"streaming", "ok"} /\ login.n > 0 =>
    /\ login.phase = "done"
    /\ vendor.id = c1 :> -1 @@ c2 :> 0

=============================================================================
