-------------------------- MODULE MCEventPipeline --------------------------
(* Small instances of EventPipeline for TLC.                               *)
EXTENDS EventPipeline, TLC

CONSTANTS c1, c2, c3, k1, k2, k3, s1, s2

OneSlot == [l \in Lanes |-> 1]

\* c1 and c2 are two submissions of one user message; c3 is a cron event of
\* the same session, so both lanes want the session at once.
DupKeyOf     == c1 :> k1 @@ c2 :> k1 @@ c3 :> k2
DupSessionOf == c1 :> s1 @@ c2 :> s1 @@ c3 :> s1
DupTypeOf    == c1 :> "user_message" @@ c2 :> "user_message" @@ c3 :> "cron"

\* The same with c3 a user message, which can fill the interactive lane.
FullTypeOf   == c1 :> "user_message" @@ c2 :> "user_message" @@ c3 :> "user_message"

\* A cron event with a slash content, which the router handles itself or sends
\* to the interactive lane, and two events that compete for the background
\* slot; c3 is malformed.
MixKeyOf     == c1 :> k1 @@ c2 :> k2 @@ c3 :> k3
MixSessionOf == c1 :> s1 @@ c2 :> s1 @@ c3 :> s2
MixTypeOf    == c1 :> "cron" @@ c2 :> "system_event" @@ c3 :> "system_event"

=============================================================================
