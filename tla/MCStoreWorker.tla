--------------------------- MODULE MCStoreWorker ---------------------------
(* Small instances of StoreWorker for TLC.                                 *)
EXTENDS StoreWorker, TLC

CONSTANTS u, v, w, s1, s2, k1

On(s, kind, first) == [kind |-> kind, session |-> s, key |-> k1, after |-> first]

Op(kind, first) == On(s1, kind, first)

Free(kind) == Op(kind, None)

\* Two submitters of a new session, one of which carries a /model; a /model and then
\* a /clear (of a session the index does not know yet); two /model commands of a
\* session beside the first event of another one; writers that rotate the
\* transcript; a /clear among writers; two submissions of one event.
MCScenarios ==
    { u :> Free("ensure") @@ v :> Free("ensure") @@ w :> Op("model", v),
      u :> Free("ensure") @@ v :> Free("model")  @@ w :> Op("clear", v),
      u :> On(s2, "model", None) @@ v :> On(s2, "model", None) @@ w :> Free("ensure"),
      u :> Free("write")  @@ v :> Free("write")  @@ w :> Free("write"),
      u :> Free("write")  @@ v :> Free("write")  @@ w :> Free("clear"),
      u :> Free("mark")   @@ v :> Free("mark")   @@ w :> Free("write") }

=============================================================================
