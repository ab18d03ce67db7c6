--------------------------- MODULE EventPipeline ---------------------------
(***************************************************************************)
(* The path of an event through heike: Ingress.Submit (idempotency mark,   *)
(* routing, session resolution, lane), the two lane workers with their     *)
(* shared session locks, and the shutdown sequence of RuntimeComponents.   *)
(*                                                                         *)
(* An event is named by the Submit call that carries it.  Two calls with   *)
(* the same key are two submissions of the same event (source:id).         *)
(***************************************************************************)
EXTENDS Naturals, Sequences

CONSTANTS Calls,       \* Submit calls
          Keys,        \* idempotency keys
          Sessions,    \* session ids
          KeyOf,       \* GenerateIdempotencyKey of the call's event
          SessionOf,   \* what ResolveSession returns for it
          TypeOf,      \* evt.Type as submitted
          Slash,       \* calls whose content starts with a slash
          Malformed,   \* calls whose event fails validateEvent (empty id or type)
          QueueSize,   \* capacity of each lane's channel
          MaxExpiries, \* bound: how often the TTL of a key's mark may pass
          None         \* no lane, no event

Lanes == {"interactive", "background"}

EventTypes == {"user_message", "command", "cron", "system_event"}

ASSUME KeyOfType      == KeyOf \in [Calls -> Keys]
ASSUME SessionOfType  == SessionOf \in [Calls -> Sessions]
ASSUME TypeOfType     == TypeOf \in [Calls -> EventTypes]
ASSUME SlashType      == Slash \subseteq Calls
ASSUME MalformedType  == Malformed \subseteq Calls
ASSUME QueueSizeType  == QueueSize \in [Lanes -> Nat \ {0}]
ASSUME MaxExpiriesType == MaxExpiries \in Nat
ASSUME NoneType       == None \notin Calls \cup Lanes

VARIABLES
    keys,       \* keys whose mark has not expired (ProcessedKeys.Keys)
    epoch,      \* history: how many marks of a key have expired
    markEpoch,  \* history: the epoch in which a call placed its mark
    pc,         \* where each Submit call is, or what it returned
    evType,     \* evt.Type, which the router may rewrite
    queue,      \* the buffered events of each lane
    closed,     \* the lane's channel is closed
    worker,     \* where each lane's worker goroutine is
    cur,        \* the event the worker holds
    started,    \* Worker.started
    quit,       \* Worker.quit is closed
    lock,       \* holder of each session's mutex
    done,       \* history: events that were run to the end (or to a panic)
    rejected,   \* history: events validateEvent refused
    discarded,  \* history: events Close read and dropped
    phase,      \* progress of RuntimeComponents.Start and Stop
    remaining,  \* drainQueue's local count
    ctxDone,    \* the runtime context is cancelled
    storeUp     \* the store worker still answers

submitVars   == <<keys, epoch, markEpoch, pc, evType>>
workerVars   == <<worker, cur, lock, done, rejected>>
controlVars  == <<started, quit, phase, remaining, ctxDone, storeUp>>
vars == <<submitVars, queue, closed, discarded, workerVars, controlVars>>

Returned ==
    {"accepted", "duplicate", "handled", "failed", "transient", "cancelled", "panicked"}

Pcs == {"idle", "marked", "resolving", "sending"} \cup Returned

WorkerStates == {"new", "waiting", "locking", "executing", "exited", "dead"}

Phases == {"init", "startBackground", "running",
           "stopInteractive", "waitInteractive", "stopBackground", "waitBackground",
           "closeInteractive", "drainInteractive", "closeBackground", "drainBackground",
           "stopStore", "stopped"}

Init ==
    /\ keys = {}
    /\ epoch = [k \in Keys |-> 0]
    /\ markEpoch = [c \in Calls |-> 0]
    /\ pc = [c \in Calls |-> "idle"]
    /\ evType = TypeOf
    /\ queue = [l \in Lanes |-> <<>>]
    /\ closed = [l \in Lanes |-> FALSE]
    /\ worker = [l \in Lanes |-> "new"]
    /\ cur = [l \in Lanes |-> None]
    /\ started = [l \in Lanes |-> FALSE]
    /\ quit = [l \in Lanes |-> FALSE]
    /\ lock = [s \in Sessions |-> None]
    /\ done = {}
    /\ rejected = {}
    /\ discarded = {}
    /\ phase = "init"
    /\ remaining = 0
    /\ ctxDone = FALSE
    /\ storeUp = TRUE

-----------------------------------------------------------------------------
(* Ingress.Submit, one action per place where another goroutine may run.   *)

Goto(c, label) == pc' = [pc EXCEPT ![c] = label]

\* Mutant of CheckAndMark: looks the key up and leaves no mark.
CheckWithoutMark(c) ==
    /\ pc[c] = "idle"
    /\ Goto(c, IF KeyOf[c] \in keys THEN "duplicate" ELSE "marked")
    /\ markEpoch' = [markEpoch EXCEPT ![c] = epoch[KeyOf[c]]]
    /\ UNCHANGED <<keys, epoch, evType, queue, closed, discarded, workerVars, controlVars>>

\* CheckAndMarkKey: the mark is placed before anything else can fail.
CheckAndMark(c) ==
    /\ pc[c] = "idle"
    /\ IF KeyOf[c] \in keys
       THEN /\ Goto(c, "duplicate")
            /\ UNCHANGED <<keys, markEpoch>>
       ELSE /\ Goto(c, "marked")
            /\ keys' = keys \cup {KeyOf[c]}
            /\ markEpoch' = [markEpoch EXCEPT ![c] = epoch[KeyOf[c]]]
    /\ UNCHANGED <<epoch, evType, queue, closed, discarded, workerVars, controlVars>>

\* The TTL of a mark passes: CheckAndMark would delete and re-mark, Prune deletes.
ExpireKey(k) ==
    /\ k \in keys
    /\ epoch[k] < MaxExpiries
    /\ keys' = keys \ {k}
    /\ epoch' = [epoch EXCEPT ![k] = @ + 1]
    /\ UNCHANGED <<markEpoch, pc, evType, queue, closed, discarded, workerVars, controlVars>>

\* Route: a slash command with a registered handler is run in place (any
\* command may have been registered), another one becomes a command event,
\* whatever its type was; text, and a slash line that shlex cannot split, go on
\* unchanged.
Route(c) ==
    /\ pc[c] = "marked"
    /\ \/ /\ c \in Slash
          /\ Goto(c, "handled")
          /\ UNCHANGED evType
       \/ /\ c \in Slash
          /\ Goto(c, "resolving")
          /\ evType' = [evType EXCEPT ![c] = "command"]
       \/ /\ Goto(c, "resolving")
          /\ UNCHANGED evType
    /\ UNCHANGED <<keys, epoch, markEpoch, queue, closed, discarded, workerVars, controlVars>>

\* ResolveWorkspace and ResolveSession: waits for the store's answer, which
\* may be an error.
Resolve(c) ==
    /\ pc[c] = "resolving"
    /\ storeUp
    /\ Goto(c, "sending") \/ Goto(c, "failed")
    /\ UNCHANGED <<keys, epoch, markEpoch, evType, queue, closed, discarded,
                   workerVars, controlVars>>

LaneOf(c) ==
    IF evType[c] \in {"user_message", "command"} THEN "interactive" ELSE "background"

Full(l) == Len(queue[l]) >= QueueSize[l]

Enqueue(c) ==
    /\ pc[c] = "sending"
    /\ ~closed[LaneOf(c)]
    /\ ~Full(LaneOf(c))
    /\ queue' = [queue EXCEPT ![LaneOf(c)] = Append(@, c)]
    /\ Goto(c, "accepted")
    /\ UNCHANGED <<keys, epoch, markEpoch, evType, closed, discarded, workerVars, controlVars>>

\* Mutant of SubmitTransient: a full lane drops the event and reports success.
SubmitDrops(c) ==
    /\ pc[c] = "sending"
    /\ ~closed[LaneOf(c)]
    /\ Full(LaneOf(c))
    /\ Goto(c, "accepted")
    /\ UNCHANGED <<keys, epoch, markEpoch, evType, queue, closed, discarded,
                   workerVars, controlVars>>

\* Mutant of SubmitTransient: the background send has no default case.
SubmitBlocks(c) ==
    /\ pc[c] = "sending"
    /\ LaneOf(c) = "interactive"
    /\ ~closed[LaneOf(c)]
    /\ Full(LaneOf(c))
    /\ Goto(c, "transient")
    /\ UNCHANGED <<keys, epoch, markEpoch, evType, queue, closed, discarded,
                   workerVars, controlVars>>

\* A full lane: the interactive sender gives up when its timer fires, the
\* background sender at once.
SubmitTransient(c) ==
    /\ pc[c] = "sending"
    /\ ~closed[LaneOf(c)]
    /\ Full(LaneOf(c))
    /\ Goto(c, "transient")
    /\ UNCHANGED <<keys, epoch, markEpoch, evType, queue, closed, discarded,
                   workerVars, controlVars>>

\* ctx.Done of the caller's context is a case of the interactive select only.
SubmitCancelled(c) ==
    /\ pc[c] = "sending"
    /\ LaneOf(c) = "interactive"
    /\ Goto(c, "cancelled")
    /\ UNCHANGED <<keys, epoch, markEpoch, evType, queue, closed, discarded,
                   workerVars, controlVars>>

\* Sending on a closed channel panics in the caller's goroutine.
SendOnClosed(c) ==
    /\ pc[c] = "sending"
    /\ closed[LaneOf(c)]
    /\ Goto(c, "panicked")
    /\ UNCHANGED <<keys, epoch, markEpoch, evType, queue, closed, discarded,
                   workerVars, controlVars>>

-----------------------------------------------------------------------------
(* Worker.eventLoop and Worker.processEvent                                *)

Receive(l) ==
    /\ worker[l] = "waiting"
    /\ queue[l] # <<>>
    /\ queue' = [queue EXCEPT ![l] = Tail(@)]
    /\ IF Head(queue[l]) \in Malformed
       THEN /\ rejected' = rejected \cup {Head(queue[l])}
            /\ UNCHANGED <<worker, cur>>
       ELSE /\ worker' = [worker EXCEPT ![l] = "locking"]
            /\ cur' = [cur EXCEPT ![l] = Head(queue[l])]
            /\ UNCHANGED rejected
    /\ UNCHANGED <<submitVars, closed, discarded, lock, done, controlVars>>

\* Mutant of LockSession: each lane with a lock manager of its own.
LockOwn(l) ==
    /\ worker[l] = "locking"
    /\ lock' = [lock EXCEPT ![SessionOf[cur[l]]] = l]
    /\ worker' = [worker EXCEPT ![l] = "executing"]
    /\ UNCHANGED <<submitVars, queue, closed, discarded, cur, done, rejected, controlVars>>

\* SimpleSessionLockManager.Lock, then orch.Execute begins.
LockSession(l) ==
    /\ worker[l] = "locking"
    /\ lock[SessionOf[cur[l]]] = None
    /\ lock' = [lock EXCEPT ![SessionOf[cur[l]]] = l]
    /\ worker' = [worker EXCEPT ![l] = "executing"]
    /\ UNCHANGED <<submitVars, queue, closed, discarded, cur, done, rejected, controlVars>>

\* Leaving processEvent runs the deferred Unlock, on a return and on a panic.
Leave(l, next) ==
    /\ worker[l] = "executing"
    /\ lock' = [lock EXCEPT ![SessionOf[cur[l]]] = None]
    /\ done' = done \cup {cur[l]}
    /\ cur' = [cur EXCEPT ![l] = None]
    /\ worker' = [worker EXCEPT ![l] = next]
    /\ UNCHANGED <<submitVars, queue, closed, discarded, rejected, controlVars>>

\* Mutant of Finish: the loop returns after an event.
FinishLeavesLoop(l) == Leave(l, "exited")

\* Execute returned, with or without an error (process only logs it).
Finish(l) == Leave(l, "waiting")

\* Mutant of Panic: Unlock is called after Execute and not deferred.
PanicKeepsLock(l) ==
    /\ worker[l] = "executing"
    /\ done' = done \cup {cur[l]}
    /\ cur' = [cur EXCEPT ![l] = None]
    /\ worker' = [worker EXCEPT ![l] = "dead"]
    /\ UNCHANGED <<submitVars, queue, closed, discarded, lock, rejected, controlVars>>

\* Execute panicked: SafeGo recovers, the goroutine is gone, started stays true.
Panic(l) == Leave(l, "dead")

\* One of the other cases of the select: context, quit, closed channel.
ExitLoop(l) ==
    /\ worker[l] = "waiting"
    /\ ctxDone \/ quit[l] \/ (closed[l] /\ queue[l] = <<>>)
    /\ worker' = [worker EXCEPT ![l] = "exited"]
    /\ UNCHANGED <<submitVars, queue, closed, discarded, cur, lock, done, rejected, controlVars>>

-----------------------------------------------------------------------------
(* RuntimeComponents.Start and Stop                                        *)

StartWorker(l, from, to) ==
    /\ phase = from
    /\ phase' = to
    /\ started' = [started EXCEPT ![l] = TRUE]
    /\ worker' = [worker EXCEPT ![l] = "waiting"]
    /\ UNCHANGED <<submitVars, queue, closed, discarded, cur, lock, done, rejected,
                   quit, remaining, ctxDone, storeUp>>

\* Mutant of Cancel: Stop does not cancel the runtime context.
StopWithoutCancel ==
    /\ phase \in {"init", "running"}
    /\ phase' = "stopInteractive"
    /\ UNCHANGED <<submitVars, queue, closed, discarded, workerVars,
                   started, quit, remaining, ctxDone, storeUp>>

\* Stop begins (also as the cleanup of a Start that failed before the workers).
Cancel ==
    /\ phase \in {"init", "running"}
    /\ phase' = "stopInteractive"
    /\ ctxDone' = TRUE
    /\ UNCHANGED <<submitVars, queue, closed, discarded, workerVars,
                   started, quit, remaining, storeUp>>

\* Worker.Stop up to its select: a worker that never started is skipped.
StopWorker(l, from, wait, next) ==
    /\ phase = from
    /\ IF started[l]
       THEN /\ quit' = [quit EXCEPT ![l] = TRUE]
            /\ phase' = wait
       ELSE /\ phase' = next
            /\ UNCHANGED quit
    /\ UNCHANGED <<submitVars, queue, closed, discarded, workerVars,
                   started, remaining, ctxDone, storeUp>>

\* Mutant of WaitWorker: waits for a regular end of the loop, without a timeout.
WaitForExit(l, from, next) ==
    /\ phase = from
    /\ worker[l] = "exited"
    /\ phase' = next
    /\ started' = [started EXCEPT ![l] = FALSE]
    /\ UNCHANGED <<submitVars, queue, closed, discarded, workerVars,
                   quit, remaining, ctxDone, storeUp>>

\* The select of Worker.Stop: the worker is gone, the timeout passed, or the
\* (already cancelled) context wins and started is left true.
WaitWorker(l, from, next) ==
    /\ phase = from
    /\ phase' = next
    /\ \/ started' = [started EXCEPT ![l] = FALSE]
       \/ ctxDone /\ UNCHANGED started
    /\ UNCHANGED <<submitVars, queue, closed, discarded, workerVars,
                   quit, remaining, ctxDone, storeUp>>

\* drainQueue reads the length; an empty lane is closed at once.
BeginDrain(l, from, drain, next) ==
    /\ phase = from
    /\ remaining' = Len(queue[l])
    /\ IF queue[l] = <<>>
       THEN /\ closed' = [closed EXCEPT ![l] = TRUE]
            /\ phase' = next
       ELSE /\ phase' = drain
            /\ UNCHANGED closed
    /\ UNCHANGED <<submitVars, queue, discarded, workerVars, started, quit, ctxDone, storeUp>>

\* Mutant of DrainOne: the loop goes on when nothing remains.
DrainPastZero(l, drain) ==
    /\ phase = drain
    /\ queue[l] # <<>>
    /\ discarded' = discarded \cup {Head(queue[l])}
    /\ queue' = [queue EXCEPT ![l] = Tail(@)]
    /\ remaining' = remaining - 1
    /\ UNCHANGED <<submitVars, closed, workerVars, started, quit, phase, ctxDone, storeUp>>

\* case <-ch: the event is read and dropped.
DrainOne(l, drain) ==
    /\ phase = drain
    /\ remaining > 0
    /\ queue[l] # <<>>
    /\ discarded' = discarded \cup {Head(queue[l])}
    /\ queue' = [queue EXCEPT ![l] = Tail(@)]
    /\ remaining' = remaining - 1
    /\ UNCHANGED <<submitVars, closed, workerVars, started, quit, phase, ctxDone, storeUp>>

\* The poll interval passed and the length moved under the drain.
DrainPoll(l, drain) ==
    /\ phase = drain
    /\ remaining > 0
    /\ remaining # Len(queue[l])
    /\ remaining' = Len(queue[l])
    /\ UNCHANGED <<submitVars, queue, closed, discarded, workerVars,
                   started, quit, phase, ctxDone, storeUp>>

\* Nothing remains, the drain stalled, or drainTimeout passed.
CloseLane(l, drain, next) ==
    /\ phase = drain
    /\ closed' = [closed EXCEPT ![l] = TRUE]
    /\ phase' = next
    /\ UNCHANGED <<submitVars, queue, discarded, workerVars,
                   started, quit, remaining, ctxDone, storeUp>>

StopStore ==
    /\ phase = "stopStore"
    /\ phase' = "stopped"
    /\ storeUp' = FALSE
    /\ UNCHANGED <<submitVars, queue, closed, discarded, workerVars,
                   started, quit, remaining, ctxDone>>

StartInteractive == StartWorker("interactive", "init", "startBackground")
StartBackground  == StartWorker("background", "startBackground", "running")
StopInteractive  == StopWorker("interactive", "stopInteractive", "waitInteractive", "stopBackground")
StopBackground   == StopWorker("background", "stopBackground", "waitBackground", "closeInteractive")
WaitInteractive  == WaitWorker("interactive", "waitInteractive", "stopBackground")
WaitBackground   == WaitWorker("background", "waitBackground", "closeInteractive")

CloseInteractive ==
    \/ BeginDrain("interactive", "closeInteractive", "drainInteractive", "closeBackground")
    \/ DrainOne("interactive", "drainInteractive")
    \/ DrainPoll("interactive", "drainInteractive")
    \/ CloseLane("interactive", "drainInteractive", "closeBackground")

CloseBackground ==
    \/ BeginDrain("background", "closeBackground", "drainBackground", "stopStore")
    \/ DrainOne("background", "drainBackground")
    \/ DrainPoll("background", "drainBackground")
    \/ CloseLane("background", "drainBackground", "stopStore")

-----------------------------------------------------------------------------

Submit(c) ==
    \/ CheckAndMark(c) \/ Route(c) \/ Resolve(c) \/ Enqueue(c)
    \/ SubmitTransient(c) \/ SubmitCancelled(c) \/ SendOnClosed(c)

Work(l) == Receive(l) \/ LockSession(l) \/ Finish(l) \/ Panic(l) \/ ExitLoop(l)

Stop == StopInteractive \/ WaitInteractive \/ StopBackground \/ WaitBackground
        \/ CloseInteractive \/ CloseBackground \/ StopStore

Next ==
    \/ \E c \in Calls : Submit(c)
    \/ \E k \in Keys : ExpireKey(k)
    \/ \E l \in Lanes : Work(l)
    \/ StartInteractive \/ StartBackground
    \/ Cancel
    \/ Stop

Spec == Init /\ [][Next]_vars

\* The Go scheduler runs every runnable goroutine; a run by the orchestrator
\* ends while the store answers (bounded turns and retries).  Nobody is obliged
\* to submit, to panic, to cancel or to let a mark expire.
Fairness ==
    /\ \A c \in Calls :
          /\ WF_vars(Route(c))
          /\ WF_vars(Resolve(c))
          /\ WF_vars(Enqueue(c) \/ SubmitTransient(c) \/ SendOnClosed(c))
    /\ \A l \in Lanes :
          /\ WF_vars(Receive(l))
          /\ WF_vars(LockSession(l))
          /\ WF_vars(storeUp /\ Finish(l))
          /\ WF_vars(ExitLoop(l))
    /\ WF_vars(StartInteractive)
    /\ WF_vars(StartBackground)
    /\ WF_vars(StopInteractive \/ WaitInteractive \/ StopBackground \/ WaitBackground)
    /\ WF_vars(BeginDrain("interactive", "closeInteractive", "drainInteractive", "closeBackground"))
    /\ WF_vars(BeginDrain("background", "closeBackground", "drainBackground", "stopStore"))
    /\ WF_vars(CloseLane("interactive", "drainInteractive", "closeBackground"))
    /\ WF_vars(CloseLane("background", "drainBackground", "stopStore"))
    /\ WF_vars(StopStore)

FairSpec == Spec /\ Fairness

-----------------------------------------------------------------------------
(* Properties                                                              *)

TypeOK ==
    /\ keys \subseteq Keys
    /\ epoch \in [Keys -> Nat]
    /\ markEpoch \in [Calls -> Nat]
    /\ pc \in [Calls -> Pcs]
    /\ evType \in [Calls -> EventTypes]
    /\ queue \in [Lanes -> Seq(Calls)]
    /\ closed \in [Lanes -> BOOLEAN]
    /\ worker \in [Lanes -> WorkerStates]
    /\ cur \in [Lanes -> Calls \cup {None}]
    /\ started \in [Lanes -> BOOLEAN]
    /\ quit \in [Lanes -> BOOLEAN]
    /\ lock \in [Sessions -> Lanes \cup {None}]
    /\ done \subseteq Calls
    /\ rejected \subseteq Calls
    /\ discarded \subseteq Calls
    /\ phase \in Phases
    /\ remaining \in Nat
    /\ ctxDone \in BOOLEAN
    /\ storeUp \in BOOLEAN

\* Session lock per session_id: the two lanes never run events of one session
\* at the same time, across errors, panics and shutdown (worker.go processEvent).
SessionExclusive ==
    \A l, m \in Lanes :
        /\ worker[l] = "executing"
        /\ worker[m] = "executing"
        /\ SessionOf[cur[l]] = SessionOf[cur[m]]
        => l = m

\* A session's mutex is held exactly by the worker that runs one of its events:
\* no error, panic or exit leaves a session locked for ever (lock.go, the
\* deferred Unlock of processEvent).
LockMatchesExecution ==
    \A s \in Sessions, l \in Lanes :
        lock[s] = l <=> worker[l] = "executing" /\ SessionOf[cur[l]] = s

\* A key is let through once per life of its mark: two submissions of one
\* event both get past CheckAndMarkKey only if the mark expired in between.
OncePerMark ==
    \A c, d \in Calls :
        /\ c # d
        /\ KeyOf[c] = KeyOf[d]
        /\ pc[c] \notin {"idle", "duplicate"}
        /\ pc[d] \notin {"idle", "duplicate"}
        => markEpoch[c] # markEpoch[d]

InQueue(c) == \E l \in Lanes : \E i \in 1..Len(queue[l]) : queue[l][i] = c

Held(c) == \E l \in Lanes : cur[l] = c

\* Every accepted event is in exactly one place, and only accepted events are:
\* waiting in a lane, held by a worker, run, refused as malformed, or thrown away
\* by Close.  None is run twice, or run after Close threw it away, although Close
\* and a worker that Stop did not wait for read the same channel
\* (Ingress.Submit, Ingress.Close, Worker.eventLoop).
Accounted ==
    /\ \A c \in Calls :
          pc[c] = "accepted" <=>
              InQueue(c) \/ Held(c) \/ c \in done \cup rejected \cup discarded
    /\ \A l \in Lanes : \A i, j \in 1..Len(queue[l]) :
          queue[l][i] = queue[l][j] => i = j
    /\ \A c \in Calls : InQueue(c) =>
          ~Held(c) /\ c \notin done \cup rejected \cup discarded
    /\ \A l, m \in Lanes : queue[l] # <<>> /\ l # m =>
          \A i \in 1..Len(queue[l]), j \in 1..Len(queue[m]) : queue[l][i] # queue[m][j]
    /\ \A c \in Calls : Held(c) => c \notin done \cup rejected \cup discarded
    /\ \A l, m \in Lanes : cur[l] = cur[m] /\ cur[l] # None => l = m
    /\ done \cap discarded = {}
    /\ rejected \cap discarded = {}
    /\ done \cap rejected = {}

\* A submission that failed transiently (lane full) can be retried: a later
\* submission of the same event is refused as a duplicate only if some other
\* submission of it is under way or was taken (ErrTransient, errors.go).
RetryAfterTransientIsTaken ==
    [][\A c, d \in Calls :
          /\ KeyOf[c] = KeyOf[d]
          /\ pc[c] = "transient"
          /\ pc[d] = "idle"
          /\ pc'[d] = "duplicate"
          => \E e \in Calls :
                /\ KeyOf[e] = KeyOf[d]
                /\ pc[e] \in {"marked", "resolving", "sending", "accepted", "handled"}]_vars

\* No Submit call panics, whenever shutdown happens (Ingress.Close).
NoSendOnClosed == \A c \in Calls : pc[c] # "panicked"

\* While the runtime is up and its lane's worker did not die of a panic, an
\* accepted event is run or refused (Worker.eventLoop).
AcceptedIsProcessed ==
    \A c \in Calls :
        pc[c] = "accepted" ~>
            \/ c \in done \cup rejected
            \/ ctxDone
            \/ worker[LaneOf(c)] = "dead"

\* A Submit call that passed the duplicate check returns as long as the store
\* answers: the interactive timer bounds the wait (Ingress.Submit).
SubmitReturns ==
    \A c \in Calls : pc[c] = "marked" ~> pc[c] \in Returned \/ ~storeUp

\* Shutdown always completes: neither a stuck run, nor a full lane, nor a late
\* submitter blocks RuntimeComponents.Stop.
StopCompletes == ctxDone ~> phase = "stopped"

-----------------------------------------------------------------------------
(* The pipeline implements EventDelivery.                                  *)

Executing(c) == \E l \in Lanes : cur[l] = c /\ worker[l] = "executing"

StatusOf(c) ==
    IF c \in done THEN "done"
    ELSE IF c \in rejected THEN "rejected"
    ELSE IF c \in discarded THEN "dropped"
    ELSE IF Executing(c) THEN "running"
    ELSE IF pc[c] = "accepted" THEN "accepted"
    ELSE IF pc[c] \in Returned THEN "refused"
    ELSE "new"

Delivery == INSTANCE EventDelivery WITH
    status <- [c \in Calls |-> StatusOf(c)],
    stopping <- ctxDone

\* Every behaviour of the pipeline is one the abstract delivery contract allows.
ImplementsDelivery == Delivery!Spec

=============================================================================
