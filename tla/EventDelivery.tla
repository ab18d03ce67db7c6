--------------------------- MODULE EventDelivery ---------------------------
(***************************************************************************)
(* What the event pipeline promises, without queues, keys or locks: every  *)
(* submitted event is refused or accepted, an accepted event is run at     *)
(* most once, two events of one session never run at the same time, and    *)
(* an accepted event that is not malformed is dropped without a run only   *)
(* after shutdown began.                                                   *)
(***************************************************************************)

CONSTANTS Calls,       \* the events submitted (one Submit call each)
          Sessions,    \* session ids
          SessionOf    \* [Calls -> Sessions], the session an event resolves to

VARIABLES status,      \* where each event is
          stopping     \* shutdown has begun

vars == <<status, stopping>>

Status == {"new", "refused", "accepted", "running", "done", "rejected", "dropped"}

TypeOK ==
    /\ status \in [Calls -> Status]
    /\ stopping \in BOOLEAN

Init ==
    /\ status = [c \in Calls |-> "new"]
    /\ stopping = FALSE

Move(c, from, to) ==
    /\ status[c] = from
    /\ status' = [status EXCEPT ![c] = to]
    /\ UNCHANGED stopping

Accept(c) == Move(c, "new", "accepted")

Refuse(c) == Move(c, "new", "refused")

SessionFree(s) ==
    \A d \in Calls : SessionOf[d] = s => status[d] # "running"

Begin(c) ==
    /\ SessionFree(SessionOf[c])
    /\ Move(c, "accepted", "running")

End(c) == Move(c, "running", "done")

\* A worker that validates the event rejects it before it takes the session.
Reject(c) == Move(c, "accepted", "rejected")

Drop(c) ==
    /\ stopping
    /\ Move(c, "accepted", "dropped")

BeginShutdown ==
    /\ ~stopping
    /\ stopping' = TRUE
    /\ UNCHANGED status

Next ==
    \/ \E c \in Calls :
          Accept(c) \/ Refuse(c) \/ Begin(c) \/ End(c) \/ Reject(c) \/ Drop(c)
    \/ BeginShutdown

Spec == Init /\ [][Next]_vars

=============================================================================
