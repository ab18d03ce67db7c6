------------------------ MODULE EventPipelineProofs ------------------------
(***************************************************************************)
(* Proofs about EventPipeline, for every set of calls, keys and sessions   *)
(* and every lane capacity.                                                *)
(***************************************************************************)
EXTENDS EventPipeline, TLAPS

\* A worker holds an event exactly between Receive and the end of processEvent.
HoldsWhileBusy ==
    \A l \in Lanes : worker[l] \in {"locking", "executing"} <=> cur[l] # None

\* A lane's worker goroutine does not exist before Start creates it.
NotYetStarted ==
    /\ phase = "init" => \A l \in Lanes : worker[l] = "new"
    /\ phase = "startBackground" => worker["background"] = "new"

\* A call's mark is the current mark of its key, or that mark has expired.
MarkIsCurrentOrExpired ==
    \A c \in Calls : pc[c] \notin {"idle", "duplicate"} =>
        /\ markEpoch[c] <= epoch[KeyOf[c]]
        /\ markEpoch[c] = epoch[KeyOf[c]] => KeyOf[c] \in keys

\* The events in the lanes, and the events a worker holds.
Queued  == {c \in Calls : InQueue(c)}
HeldSet == {c \in Calls : Held(c)}

\* An event is in a lane once, and in one lane.
QueuedOnce ==
    /\ \A l \in Lanes : \A i, j \in 1..Len(queue[l]) :
          queue[l][i] = queue[l][j] => i = j
    /\ \A l, m \in Lanes : queue[l] # <<>> /\ l # m =>
          \A i \in 1..Len(queue[l]), j \in 1..Len(queue[m]) : queue[l][i] # queue[m][j]

\* Workers hold different events.
HeldOnce == \A l, m \in Lanes : cur[l] = cur[m] /\ cur[l] # None => l = m

\* Accounted over sets: the places of an event are disjoint and hold together
\* exactly the accepted events.
Places ==
    /\ {c \in Calls : pc[c] = "accepted"} = Queued \cup HeldSet \cup done \cup rejected \cup discarded
    /\ Queued \cap (HeldSet \cup done \cup rejected \cup discarded) = {}
    /\ HeldSet \cap (done \cup rejected \cup discarded) = {}
    /\ done \cap discarded = {}
    /\ rejected \cap discarded = {}
    /\ done \cap rejected = {}

\* The phases of a shutdown follow the cancellation of the runtime context.
ShutdownCancels == phase \notin {"init", "startBackground", "running"} => ctxDone

IInv ==
    /\ TypeOK
    /\ HoldsWhileBusy
    /\ NotYetStarted
    /\ LockMatchesExecution
    /\ MarkIsCurrentOrExpired
    /\ OncePerMark
    /\ Places
    /\ QueuedOnce
    /\ HeldOnce
    /\ ShutdownCancels

-----------------------------------------------------------------------------

LEMMA LaneOfType ==
    ASSUME NEW c \in Calls
    PROVE  LaneOf(c) \in Lanes
  BY DEF LaneOf, Lanes

\* The pipeline's variables keep their types.
LEMMA TypeInvariant == TypeOK /\ HoldsWhileBusy /\ [Next]_vars => TypeOK'
  <1> SUFFICES ASSUME TypeOK, HoldsWhileBusy, [Next]_vars
               PROVE  TypeOK'
    OBVIOUS
  <1> USE KeyOfType, SessionOfType, NoneType DEF TypeOK
  <1>1. ASSUME NEW c \in Calls, Submit(c)
        PROVE  TypeOK'
    <2>1. CASE CheckAndMark(c)
      <3> USE <2>1 DEF CheckAndMark, Goto, Pcs, Returned, workerVars, controlVars
      <3>1. CASE KeyOf[c] \in keys
        BY <3>1
      <3>2. CASE KeyOf[c] \notin keys
        <4>1. KeyOf[c] \in Keys
          OBVIOUS
        <4>2. epoch[KeyOf[c]] \in Nat
          BY <4>1
        <4>3. markEpoch' \in [Calls -> Nat]
          BY <3>2, <4>2
        <4>4. keys' \subseteq Keys
          BY <3>2, <4>1
        <4>5. pc' = [pc EXCEPT ![c] = "marked"]
          BY <3>2
        <4>6. pc' \in [Calls -> Pcs]
          BY <4>5
        <4>7. QED
          BY <4>3, <4>4, <4>6
      <3>3. QED
        BY <3>1, <3>2
    <2>2. CASE Route(c)
      <3>1. pc' \in [Calls -> Pcs]
        BY <2>2 DEF Route, Goto, Pcs, Returned
      <3>2. evType' \in [Calls -> EventTypes]
        BY <2>2 DEF Route, EventTypes
      <3>3. QED
        BY <2>2, <3>1, <3>2 DEF Route, workerVars, controlVars
    <2>3. CASE Resolve(c)
      BY <2>3 DEF Resolve, Goto, Pcs, Returned, workerVars, controlVars
    <2>4. CASE Enqueue(c)
      <3>1. queue' \in [Lanes -> Seq(Calls)]
        BY <2>4, LaneOfType DEF Enqueue
      <3>2. QED
        BY <2>4, <3>1 DEF Enqueue, Goto, Pcs, Returned, workerVars, controlVars
    <2>5. CASE SubmitTransient(c)
      BY <2>5 DEF SubmitTransient, Goto, Pcs, Returned, workerVars, controlVars
    <2>6. CASE SubmitCancelled(c)
      BY <2>6 DEF SubmitCancelled, Goto, Pcs, Returned, workerVars, controlVars
    <2>7. CASE SendOnClosed(c)
      BY <2>7 DEF SendOnClosed, Goto, Pcs, Returned, workerVars, controlVars
    <2>8. QED
      BY <1>1, <2>1, <2>2, <2>3, <2>4, <2>5, <2>6, <2>7 DEF Submit
  <1>2. ASSUME NEW k \in Keys, ExpireKey(k)
        PROVE  TypeOK'
    BY <1>2 DEF ExpireKey, workerVars, controlVars
  <1>3. ASSUME NEW l \in Lanes, Work(l)
        PROVE  TypeOK'
    <2>1. CASE Receive(l)
      <3> USE <2>1 DEF Receive, WorkerStates, submitVars, controlVars
      <3>1. /\ Head(queue[l]) \in Calls
            /\ Tail(queue[l]) \in Seq(Calls)
        OBVIOUS
      <3>2. queue' \in [Lanes -> Seq(Calls)]
        BY <3>1
      <3>3. CASE Head(queue[l]) \in Malformed
        BY <3>1, <3>2, <3>3
      <3>4. CASE Head(queue[l]) \notin Malformed
        BY <3>1, <3>2, <3>4
      <3>5. QED
        BY <3>3, <3>4
    <2>2. CASE LockSession(l)
      BY <2>2 DEF LockSession, WorkerStates, submitVars, controlVars
    <2>3. ASSUME NEW next \in {"waiting", "dead"}, Leave(l, next)
          PROVE  TypeOK'
      <3>1. cur[l] \in Calls
        BY <2>3 DEF HoldsWhileBusy, Leave
      <3>2. QED
        BY <2>3, <3>1 DEF Leave, WorkerStates, submitVars, controlVars
    <2>4. CASE ExitLoop(l)
      BY <2>4 DEF ExitLoop, WorkerStates, submitVars, controlVars
    <2>5. QED
      BY <1>3, <2>1, <2>2, <2>3, <2>4 DEF Work, Finish, Panic
  <1>4. CASE StartInteractive \/ StartBackground
    BY <1>4 DEF StartInteractive, StartBackground, StartWorker, WorkerStates,
                Phases, Lanes, submitVars
  <1>5. CASE Cancel
    BY <1>5 DEF Cancel, Phases, submitVars, workerVars
  <1>6. ASSUME NEW l \in Lanes, NEW from, NEW wait \in Phases, NEW next \in Phases,
               StopWorker(l, from, wait, next)
        PROVE  TypeOK'
    <2>1. quit' \in [Lanes -> BOOLEAN] /\ phase' \in Phases
      BY <1>6 DEF StopWorker
    <2>2. QED
      BY <1>6, <2>1 DEF StopWorker, submitVars, workerVars
  <1>7. ASSUME NEW l \in Lanes, NEW from, NEW next \in Phases, WaitWorker(l, from, next)
        PROVE  TypeOK'
    BY <1>7 DEF WaitWorker, submitVars, workerVars
  <1>8. ASSUME NEW l \in Lanes, NEW from, NEW drain \in Phases, NEW next \in Phases,
               BeginDrain(l, from, drain, next)
        PROVE  TypeOK'
    <2>1. remaining' \in Nat
      BY <1>8 DEF BeginDrain
    <2>2. closed' \in [Lanes -> BOOLEAN] /\ phase' \in Phases
      BY <1>8 DEF BeginDrain
    <2>3. QED
      BY <1>8, <2>1, <2>2 DEF BeginDrain, submitVars, workerVars
  <1>9. ASSUME NEW l \in Lanes, NEW drain, DrainOne(l, drain)
        PROVE  TypeOK'
    <2>1. /\ Head(queue[l]) \in Calls
          /\ Tail(queue[l]) \in Seq(Calls)
      BY <1>9 DEF DrainOne
    <2>2. remaining' \in Nat
      BY <1>9 DEF DrainOne
    <2>3. QED
      BY <1>9, <2>1, <2>2 DEF DrainOne, submitVars, workerVars
  <1>10. ASSUME NEW l \in Lanes, NEW drain, DrainPoll(l, drain)
        PROVE  TypeOK'
    BY <1>10 DEF DrainPoll, submitVars, workerVars
  <1>11. ASSUME NEW l \in Lanes, NEW drain, NEW next \in Phases, CloseLane(l, drain, next)
        PROVE  TypeOK'
    BY <1>11 DEF CloseLane, submitVars, workerVars
  <1>12. CASE StopStore
    BY <1>12 DEF StopStore, Phases, submitVars, workerVars
  <1>13. CASE Stop
    <2>1. /\ "interactive" \in Lanes /\ "background" \in Lanes
          /\ {"stopBackground", "closeInteractive", "closeBackground", "stopStore",
              "waitInteractive", "waitBackground", "drainInteractive", "drainBackground"}
             \subseteq Phases
      BY DEF Lanes, Phases
    <2>2. CASE StopInteractive \/ StopBackground
      BY <1>6, <2>1, <2>2 DEF StopInteractive, StopBackground
    <2>3. CASE WaitInteractive \/ WaitBackground
      BY <1>7, <2>1, <2>3 DEF WaitInteractive, WaitBackground
    <2>4. CASE CloseInteractive
      BY <1>8, <1>9, <1>10, <1>11, <2>1, <2>4 DEF CloseInteractive
    <2>5. CASE CloseBackground
      BY <1>8, <1>9, <1>10, <1>11, <2>1, <2>5 DEF CloseBackground
    <2>6. QED
      BY <1>12, <1>13, <2>2, <2>3, <2>4, <2>5 DEF Stop
  <1>14. CASE UNCHANGED vars
    BY <1>14 DEF vars, submitVars, workerVars, controlVars
  <1>15. QED
    BY <1>1, <1>2, <1>3, <1>4, <1>5, <1>13, <1>14 DEF Next

-----------------------------------------------------------------------------
\* Steps that leave the workers and their locks alone, and do not go back to
\* the start phases, preserve what is said about them.
LEMMA WorkersUntouched ==
    ASSUME HoldsWhileBusy, NotYetStarted, LockMatchesExecution,
           UNCHANGED <<worker, cur, lock>>,
           phase' = phase \/ phase' \notin {"init", "startBackground"}
    PROVE  (HoldsWhileBusy /\ NotYetStarted /\ LockMatchesExecution)'
  BY DEF HoldsWhileBusy, NotYetStarted, LockMatchesExecution

\* Locks follow the workers: Receive, Lock, the two ways out of processEvent
\* and the start of a worker keep the mutexes in step with what is running.
LEMMA WorkerInvariant ==
    ASSUME TypeOK, HoldsWhileBusy, NotYetStarted, LockMatchesExecution, [Next]_vars
    PROVE  (HoldsWhileBusy /\ NotYetStarted /\ LockMatchesExecution)'
  <1> USE NoneType, SessionOfType
  <1>1. ASSUME NEW c \in Calls, Submit(c)
        PROVE  UNCHANGED <<worker, cur, lock, phase>>
    BY <1>1 DEF Submit, CheckAndMark, Route, Resolve, Enqueue, SubmitTransient,
                SubmitCancelled, SendOnClosed, workerVars, controlVars
  <1>2. ASSUME NEW k \in Keys, ExpireKey(k)
        PROVE  UNCHANGED <<worker, cur, lock, phase>>
    BY <1>2 DEF ExpireKey, workerVars, controlVars
  <1>3. ASSUME NEW l \in Lanes, Work(l)
        PROVE  (HoldsWhileBusy /\ NotYetStarted /\ LockMatchesExecution)'
    <2>0. worker[l] # "new" /\ phase' = phase
      BY <1>3 DEF Work, Receive, LockSession, Finish, Panic, Leave, ExitLoop, controlVars
    <2>1. CASE Receive(l)
      <3>1. Head(queue[l]) \in Calls
        BY <2>1 DEF Receive, TypeOK
      <3>2. CASE Head(queue[l]) \in Malformed
        BY <2>0, <2>1, <3>2 DEF Receive, HoldsWhileBusy, NotYetStarted, LockMatchesExecution
      <3>3. CASE Head(queue[l]) \notin Malformed
        <4>1. HoldsWhileBusy'
          BY <2>1, <3>1, <3>3 DEF Receive, HoldsWhileBusy, TypeOK
        <4>2. NotYetStarted'
          BY <2>0, <2>1, <3>3 DEF Receive, NotYetStarted, TypeOK, Lanes
        <4>3. LockMatchesExecution'
          <5>1. /\ worker[l] = "waiting" /\ lock' = lock
                /\ worker' = [worker EXCEPT ![l] = "locking"]
                /\ cur' = [cur EXCEPT ![l] = Head(queue[l])]
            BY <2>1, <3>3 DEF Receive
          <5>2. QED
            BY <5>1 DEF LockMatchesExecution, TypeOK
        <4>4. QED
          BY <4>1, <4>2, <4>3
      <3>4. QED
        BY <3>2, <3>3
    <2>2. CASE LockSession(l)
      <3>1. cur[l] \in Calls /\ SessionOf[cur[l]] \in Sessions
        BY <2>2 DEF LockSession, HoldsWhileBusy, TypeOK
      <3>2. HoldsWhileBusy'
        BY <2>2 DEF LockSession, HoldsWhileBusy, TypeOK
      <3>3. NotYetStarted'
        BY <2>0, <2>2 DEF LockSession, NotYetStarted, TypeOK, Lanes
      <3>4. LockMatchesExecution'
        BY <2>2, <3>1 DEF LockSession, LockMatchesExecution, TypeOK
      <3>5. QED
        BY <3>2, <3>3, <3>4
    <2>3. ASSUME NEW next \in {"waiting", "dead"}, Leave(l, next)
          PROVE  (HoldsWhileBusy /\ NotYetStarted /\ LockMatchesExecution)'
      <3>1. cur[l] \in Calls /\ SessionOf[cur[l]] \in Sessions
        BY <2>3 DEF Leave, HoldsWhileBusy, TypeOK
      <3>2. HoldsWhileBusy'
        BY <2>3 DEF Leave, HoldsWhileBusy, TypeOK
      <3>3. NotYetStarted'
        BY <2>0, <2>3 DEF Leave, NotYetStarted, TypeOK, Lanes
      <3>4. LockMatchesExecution'
        BY <2>3, <3>1 DEF Leave, LockMatchesExecution, TypeOK
      <3>5. QED
        BY <3>2, <3>3, <3>4
    <2>4. CASE ExitLoop(l)
      <3>1. HoldsWhileBusy' /\ LockMatchesExecution'
        BY <2>4 DEF ExitLoop, HoldsWhileBusy, LockMatchesExecution, TypeOK
      <3>2. NotYetStarted'
        BY <2>0, <2>4 DEF ExitLoop, NotYetStarted, TypeOK, Lanes
      <3>3. QED
        BY <3>1, <3>2
    <2>5. QED
      BY <1>3, <2>1, <2>2, <2>3, <2>4 DEF Work, Finish, Panic
  <1>4. ASSUME NEW l \in Lanes, worker[l] = "new", worker' = [worker EXCEPT ![l] = "waiting"],
               UNCHANGED <<cur, lock>>
        PROVE  HoldsWhileBusy' /\ LockMatchesExecution'
    BY <1>4 DEF HoldsWhileBusy, LockMatchesExecution, TypeOK
  <1>5. CASE StartInteractive
    <2>1. NotYetStarted'
      BY <1>5 DEF StartInteractive, StartWorker, NotYetStarted, TypeOK, Lanes
    <2>2. QED
      BY <1>4, <1>5, <2>1 DEF StartInteractive, StartWorker, NotYetStarted, Lanes
  <1>6. CASE StartBackground
    <2>1. NotYetStarted'
      BY <1>6 DEF StartBackground, StartWorker, NotYetStarted
    <2>2. QED
      BY <1>4, <1>6, <2>1 DEF StartBackground, StartWorker, NotYetStarted, Lanes
  <1>7. CASE Cancel
    BY <1>7, WorkersUntouched DEF Cancel, workerVars
  <1>8. CASE Stop
    <2>1. UNCHANGED <<worker, cur, lock>>
          /\ (phase' = phase \/ phase' \notin {"init", "startBackground"})
      BY <1>8 DEF Stop, StopInteractive, StopBackground, StopWorker, WaitInteractive,
                  WaitBackground, WaitWorker, CloseInteractive, CloseBackground,
                  BeginDrain, DrainOne, DrainPoll, CloseLane, StopStore, workerVars
    <2>2. QED
      BY <2>1, WorkersUntouched
  <1>9. CASE UNCHANGED vars
    BY <1>9, WorkersUntouched DEF vars, workerVars, controlVars
  <1>10. QED
    BY <1>1, <1>2, <1>3, <1>5, <1>6, <1>7, <1>8, <1>9, WorkersUntouched DEF Next

-----------------------------------------------------------------------------
\* A mark is placed only where there is none, so it belongs to a new epoch.
LEMMA MarkInvariant ==
    ASSUME TypeOK, MarkIsCurrentOrExpired, OncePerMark, [Next]_vars
    PROVE  (MarkIsCurrentOrExpired /\ OncePerMark)'
  <1> USE KeyOfType DEF TypeOK, MarkIsCurrentOrExpired, OncePerMark
  <1>1. ASSUME NEW c \in Calls, CheckAndMark(c)
        PROVE  (MarkIsCurrentOrExpired /\ OncePerMark)'
    <2>1. CASE KeyOf[c] \in keys
      BY <1>1, <2>1 DEF CheckAndMark, Goto
    <2>2. CASE KeyOf[c] \notin keys
      <3>1. /\ pc' = [pc EXCEPT ![c] = "marked"]
            /\ keys' = keys \cup {KeyOf[c]}
            /\ markEpoch' = [markEpoch EXCEPT ![c] = epoch[KeyOf[c]]]
            /\ epoch' = epoch
        BY <1>1, <2>2 DEF CheckAndMark, Goto
      <3>2. MarkIsCurrentOrExpired'
        BY <3>1
      <3>3. \A d \in Calls : d # c /\ KeyOf[d] = KeyOf[c] /\ pc[d] \notin {"idle", "duplicate"}
                              => markEpoch[d] # epoch[KeyOf[c]]
        BY <2>2
      <3>4. OncePerMark'
        BY <3>1, <3>3
      <3>5. QED
        BY <3>2, <3>4
    <2>3. QED
      BY <2>1, <2>2
  <1>2. ASSUME NEW c \in Calls, NEW label, Goto(c, label), label \notin {"idle", "duplicate"},
               pc[c] \notin {"idle", "duplicate"}, UNCHANGED <<keys, epoch, markEpoch>>
        PROVE  (MarkIsCurrentOrExpired /\ OncePerMark)'
    BY <1>2 DEF Goto
  <1>3. ASSUME NEW c \in Calls, Submit(c)
        PROVE  (MarkIsCurrentOrExpired /\ OncePerMark)'
    <2>1. CASE Route(c)
      BY <1>2, <2>1 DEF Route
    <2>2. CASE Resolve(c)
      BY <1>2, <2>2 DEF Resolve
    <2>3. CASE Enqueue(c) \/ SubmitTransient(c) \/ SubmitCancelled(c) \/ SendOnClosed(c)
      BY <1>2, <2>3 DEF Enqueue, SubmitTransient, SubmitCancelled, SendOnClosed
    <2>4. QED
      BY <1>1, <1>3, <2>1, <2>2, <2>3 DEF Submit
  <1>4. ASSUME NEW k \in Keys, ExpireKey(k)
        PROVE  (MarkIsCurrentOrExpired /\ OncePerMark)'
    BY <1>4 DEF ExpireKey
  <1>5. ASSUME UNCHANGED submitVars
        PROVE  (MarkIsCurrentOrExpired /\ OncePerMark)'
    BY <1>5 DEF submitVars
  <1>6. ASSUME NEW l \in Lanes, Work(l)
        PROVE  UNCHANGED submitVars
    BY <1>6 DEF Work, Receive, LockSession, Finish, Panic, Leave, ExitLoop
  <1>7. CASE StartInteractive \/ StartBackground \/ Cancel \/ Stop
    <2>1. UNCHANGED submitVars
      BY <1>7 DEF StartInteractive, StartBackground, StartWorker, Cancel, Stop,
                  StopInteractive, StopBackground, StopWorker, WaitInteractive,
                  WaitBackground, WaitWorker, CloseInteractive, CloseBackground,
                  BeginDrain, DrainOne, DrainPoll, CloseLane, StopStore
    <2>2. QED
      BY <1>5, <2>1
  <1>8. CASE UNCHANGED vars
    BY <1>5, <1>8 DEF vars
  <1>9. QED
    BY <1>3, <1>4, <1>5, <1>6, <1>7, <1>8 DEF Next

-----------------------------------------------------------------------------
(* Where an accepted event is                                              *)

LEMMA AccountedIsPlaces ==
    ASSUME TypeOK
    PROVE  Accounted <=> Places /\ QueuedOnce /\ HeldOnce
  BY DEF TypeOK, Accounted, Places, QueuedOnce, HeldOnce, Queued, HeldSet

\* A send on a lane adds an event that was in none.
LEMMA SendAddsOne ==
    ASSUME TypeOK, QueuedOnce, NEW l \in Lanes, NEW c \in Calls, c \notin Queued,
           queue' = [queue EXCEPT ![l] = Append(@, c)]
    PROVE  QueuedOnce' /\ Queued' = Queued \cup {c}
  <1>1. /\ \A m \in Lanes : queue[m] \in Seq(Calls) /\ Len(queue[m]) \in Nat
        /\ \A m \in Lanes : m # l => queue'[m] = queue[m]
        /\ Len(queue'[l]) = Len(queue[l]) + 1
        /\ \A i \in 1..Len(queue[l]) : queue'[l][i] = queue[l][i]
        /\ queue'[l][Len(queue[l]) + 1] = c
    BY DEF TypeOK
  <1>2. \A m \in Lanes : \A i \in 1..Len(queue[m]) : queue[m][i] # c /\ queue[m][i] \in Calls
    BY <1>1 DEF Queued, InQueue
  <1>3. \A i \in 1..Len(queue'[l]) : i \in 1..Len(queue[l]) \/ i = Len(queue[l]) + 1
    BY <1>1
  <1>4. QueuedOnce'
    <2>1. \A m \in Lanes : \A i, j \in 1..Len(queue'[m]) : queue'[m][i] = queue'[m][j] => i = j
      BY <1>1, <1>2, <1>3 DEF QueuedOnce
    <2>2. \A m, n \in Lanes : m # n =>
             \A i \in 1..Len(queue[m]), j \in 1..Len(queue[n]) : queue[m][i] # queue[n][j]
      <3>1. \A m \in Lanes : queue[m] = <<>> => 1..Len(queue[m]) = {}
        BY <1>1
      <3>2. QED
        BY <3>1 DEF QueuedOnce
    <2>3. \A m, n \in Lanes : m # n =>
             \A i \in 1..Len(queue'[m]), j \in 1..Len(queue'[n]) : queue'[m][i] # queue'[n][j]
      BY <1>1, <1>2, <1>3, <2>2
    <2>4. QED
      BY <2>1, <2>3 DEF QueuedOnce
  <1>5. ASSUME NEW d \in Calls
        PROVE  InQueue(d)' <=> InQueue(d) \/ d = c
    <2>1. CASE d = c
      BY <1>1, <2>1 DEF InQueue
    <2>2. CASE d # c
      BY <1>1, <1>3, <2>2 DEF InQueue
    <2>3. QED
      BY <2>1, <2>2
  <1>6. QED
    BY <1>4, <1>5 DEF Queued

\* A receive from a lane takes out its first event, wherever it is done.
LEMMA ReceiveTakesOne ==
    ASSUME TypeOK, QueuedOnce, NEW l \in Lanes, queue[l] # <<>>,
           queue' = [queue EXCEPT ![l] = Tail(@)]
    PROVE  /\ QueuedOnce'
           /\ Head(queue[l]) \in Queued
           /\ Queued' = Queued \ {Head(queue[l])}
  <1>1. /\ \A m \in Lanes : queue[m] \in Seq(Calls) /\ Len(queue[m]) \in Nat
        /\ \A m \in Lanes : m # l => queue'[m] = queue[m]
        /\ Len(queue[l]) > 0
        /\ Len(queue'[l]) = Len(queue[l]) - 1
        /\ \A i \in 1..Len(queue'[l]) : queue'[l][i] = queue[l][i + 1]
        /\ Head(queue[l]) = queue[l][1]
    BY DEF TypeOK
  <1>2. \A i \in 1..Len(queue'[l]) : i + 1 \in 1..Len(queue[l]) /\ i + 1 # 1
    BY <1>1
  <1>3. \A i \in 1..Len(queue[l]) : i = 1 \/ (i - 1 \in 1..Len(queue'[l]) /\ (i - 1) + 1 = i)
    BY <1>1
  <1>4. \A m, n \in Lanes : m # n =>
           \A i \in 1..Len(queue[m]), j \in 1..Len(queue[n]) : queue[m][i] # queue[n][j]
    <2>1. \A m \in Lanes : queue[m] = <<>> => 1..Len(queue[m]) = {}
      BY <1>1
    <2>2. QED
      BY <2>1 DEF QueuedOnce
  <1>5. Head(queue[l]) \in Queued
    BY <1>1 DEF Queued, InQueue
  <1>6. QueuedOnce'
    <2>1. ASSUME NEW m \in Lanes, NEW i \in 1..Len(queue'[m]), NEW j \in 1..Len(queue'[m]),
                 queue'[m][i] = queue'[m][j]
          PROVE  i = j
      <3>1. CASE m = l
        BY <1>1, <1>2, <2>1, <3>1 DEF QueuedOnce
      <3>2. CASE m # l
        BY <1>1, <2>1, <3>2 DEF QueuedOnce
      <3>3. QED
        BY <3>1, <3>2
    <2>2. \A m, n \in Lanes : m # n =>
             \A i \in 1..Len(queue'[m]), j \in 1..Len(queue'[n]) : queue'[m][i] # queue'[n][j]
      BY <1>1, <1>2, <1>4
    <2>3. QED
      BY <2>1, <2>2 DEF QueuedOnce
  <1>7. ASSUME NEW d \in Calls
        PROVE  InQueue(d)' <=> InQueue(d) /\ d # queue[l][1]
    <2>1. ASSUME InQueue(d)'
          PROVE  InQueue(d) /\ d # queue[l][1]
      <3>1. PICK m \in Lanes : \E i \in 1..Len(queue'[m]) : queue'[m][i] = d
        BY <2>1 DEF InQueue
      <3>2. CASE m = l
        BY <1>1, <1>2, <3>1, <3>2 DEF InQueue, QueuedOnce
      <3>3. CASE m # l
        BY <1>1, <1>4, <3>1, <3>3 DEF InQueue
      <3>4. QED
        BY <3>2, <3>3
    <2>2. ASSUME InQueue(d), d # queue[l][1]
          PROVE  InQueue(d)'
      <3>1. PICK m \in Lanes : \E i \in 1..Len(queue[m]) : queue[m][i] = d
        BY <2>2 DEF InQueue
      <3>2. CASE m = l
        <4>1. PICK i \in 1..Len(queue[l]) : queue[l][i] = d
          BY <3>1, <3>2
        <4>2. i - 1 \in 1..Len(queue'[l]) /\ queue'[l][i - 1] = d
          BY <1>1, <1>3, <2>2, <4>1
        <4>3. QED
          BY <4>2 DEF InQueue
      <3>3. CASE m # l
        BY <1>1, <3>1, <3>3 DEF InQueue
      <3>4. QED
        BY <3>2, <3>3
    <2>3. QED
      BY <2>1, <2>2
  <1>8. QED
    BY <1>1, <1>5, <1>6, <1>7 DEF Queued

\* Who holds which event changes only with cur.
LEMMA HeldFollowsCur == cur' = cur => HeldSet' = HeldSet /\ (HeldOnce => HeldOnce')
  BY DEF HeldSet, Held, HeldOnce

LEMMA QueuedFollowsQueue == queue' = queue => Queued' = Queued /\ (QueuedOnce => QueuedOnce')
  BY DEF Queued, InQueue, QueuedOnce

\* A worker takes an event it does not hold, and gives it up at the end.
LEMMA HoldAddsOne ==
    ASSUME TypeOK, HeldOnce, NEW l \in Lanes, NEW c \in Calls, cur[l] = None, c \notin HeldSet,
           cur' = [cur EXCEPT ![l] = c]
    PROVE  HeldOnce' /\ HeldSet' = HeldSet \cup {c}
  BY NoneType DEF TypeOK, HeldOnce, HeldSet, Held

LEMMA LeaveTakesOne ==
    ASSUME TypeOK, HeldOnce, NEW l \in Lanes, cur[l] # None, cur' = [cur EXCEPT ![l] = None]
    PROVE  HeldOnce' /\ cur[l] \in HeldSet /\ HeldSet' = HeldSet \ {cur[l]}
  BY NoneType DEF TypeOK, HeldOnce, HeldSet, Held

\* Every step moves at most one event, from one place to the next.
LEMMA PlacesInvariant ==
    ASSUME TypeOK, HoldsWhileBusy, Places, QueuedOnce, HeldOnce, [Next]_vars
    PROVE  (Places /\ QueuedOnce /\ HeldOnce)'
  <1> USE DEF Places
  <1>1. ASSUME UNCHANGED <<pc, queue, cur, done, rejected, discarded>>
        PROVE  (Places /\ QueuedOnce /\ HeldOnce)'
    BY <1>1, HeldFollowsCur, QueuedFollowsQueue
  <1>2. ASSUME NEW c \in Calls, Submit(c)
        PROVE  (Places /\ QueuedOnce /\ HeldOnce)'
    <2>1. CASE Enqueue(c)
      <3>1. pc[c] = "sending" /\ pc' = [pc EXCEPT ![c] = "accepted"]
            /\ UNCHANGED <<cur, done, rejected, discarded>>
        BY <2>1 DEF Enqueue, Goto, workerVars
      <3>2. c \notin Queued \cup HeldSet \cup done \cup rejected \cup discarded
        BY <3>1
      <3>3. QueuedOnce' /\ Queued' = Queued \cup {c}
        BY <2>1, <3>2, LaneOfType, SendAddsOne DEF Enqueue
      <3>4. HeldSet' = HeldSet /\ HeldOnce'
        BY <3>1, HeldFollowsCur
      <3>5. {d \in Calls : pc'[d] = "accepted"} = {d \in Calls : pc[d] = "accepted"} \cup {c}
        BY <3>1 DEF TypeOK
      <3>6. QED
        BY <3>1, <3>2, <3>3, <3>4, <3>5
    <2>2. CASE ~Enqueue(c)
      <3>1. /\ pc[c] \in {"idle", "marked", "resolving", "sending"}
            /\ \E label \in Pcs \ {"accepted"} : pc' = [pc EXCEPT ![c] = label]
            /\ UNCHANGED <<queue, cur, done, rejected, discarded>>
        BY <1>2, <2>2 DEF Submit, CheckAndMark, Route, Resolve, SubmitTransient, SubmitCancelled,
                          SendOnClosed, Goto, Pcs, Returned, workerVars
      <3>2. {d \in Calls : pc'[d] = "accepted"} = {d \in Calls : pc[d] = "accepted"}
        BY <3>1 DEF TypeOK
      <3>3. QED
        BY <3>1, <3>2, HeldFollowsCur, QueuedFollowsQueue
    <2>3. QED
      BY <2>1, <2>2
  <1>3. ASSUME NEW l \in Lanes, Receive(l)
        PROVE  (Places /\ QueuedOnce /\ HeldOnce)'
    <2>1. QueuedOnce' /\ Head(queue[l]) \in Queued /\ Queued' = Queued \ {Head(queue[l])}
      BY <1>3, ReceiveTakesOne DEF Receive
    <2>2. pc' = pc /\ UNCHANGED <<done, discarded>> /\ Head(queue[l]) \in Calls
      BY <1>3, <2>1 DEF Receive, submitVars, Queued
    <2>3. CASE Head(queue[l]) \in Malformed
      <3>1. rejected' = rejected \cup {Head(queue[l])} /\ cur' = cur
        BY <1>3, <2>3 DEF Receive
      <3>2. QED
        BY <2>1, <2>2, <3>1, HeldFollowsCur
    <2>4. CASE Head(queue[l]) \notin Malformed
      <3>1. rejected' = rejected /\ cur[l] = None /\ cur' = [cur EXCEPT ![l] = Head(queue[l])]
        BY <1>3, <2>4 DEF Receive, HoldsWhileBusy
      <3>2. HeldOnce' /\ HeldSet' = HeldSet \cup {Head(queue[l])}
        BY <2>1, <2>2, <3>1, HoldAddsOne
      <3>3. QED
        BY <2>1, <2>2, <3>1, <3>2
    <2>5. QED
      BY <2>3, <2>4
  <1>4. ASSUME NEW l \in Lanes, NEW next, Leave(l, next)
        PROVE  (Places /\ QueuedOnce /\ HeldOnce)'
    <2>1. cur[l] # None /\ cur' = [cur EXCEPT ![l] = None] /\ done' = done \cup {cur[l]}
          /\ UNCHANGED <<pc, queue, rejected, discarded>>
      BY <1>4 DEF Leave, HoldsWhileBusy, submitVars
    <2>2. HeldOnce' /\ cur[l] \in HeldSet /\ HeldSet' = HeldSet \ {cur[l]}
      BY <2>1, LeaveTakesOne
    <2>3. QED
      BY <2>1, <2>2, QueuedFollowsQueue
  <1>5. ASSUME NEW l \in Lanes, NEW drain, DrainOne(l, drain)
        PROVE  (Places /\ QueuedOnce /\ HeldOnce)'
    <2>1. QueuedOnce' /\ Head(queue[l]) \in Queued /\ Queued' = Queued \ {Head(queue[l])}
      BY <1>5, ReceiveTakesOne DEF DrainOne
    <2>2. discarded' = discarded \cup {Head(queue[l])} /\ UNCHANGED <<pc, cur, done, rejected>>
      BY <1>5 DEF DrainOne, submitVars, workerVars
    <2>3. QED
      BY <2>1, <2>2, HeldFollowsCur
  <1>6. ASSUME NEW l \in Lanes, Work(l)
        PROVE  (Places /\ QueuedOnce /\ HeldOnce)'
    <2>1. CASE LockSession(l) \/ ExitLoop(l)
      BY <1>1, <2>1 DEF LockSession, ExitLoop, submitVars
    <2>2. QED
      BY <1>3, <1>4, <1>6, <2>1 DEF Work, Finish, Panic
  <1>7. CASE Stop
    <2>1. CASE \E l \in Lanes, drain \in Phases : DrainOne(l, drain)
      BY <1>5, <2>1
    <2>2. CASE ~\E l \in Lanes, drain \in Phases : DrainOne(l, drain)
      <3>1. ~DrainOne("interactive", "drainInteractive") /\ ~DrainOne("background", "drainBackground")
        BY <2>2 DEF Lanes, Phases
      <3>2. UNCHANGED <<pc, queue, cur, done, rejected, discarded>>
        BY <1>7, <3>1 DEF Stop, StopInteractive, StopBackground, StopWorker, WaitInteractive,
                  WaitBackground, WaitWorker, CloseInteractive, CloseBackground,
                  BeginDrain, DrainPoll, CloseLane, StopStore, workerVars, submitVars
      <3>3. QED
        BY <1>1, <3>2
    <2>3. QED
      BY <2>1, <2>2
  <1>8. CASE (\E k \in Keys : ExpireKey(k)) \/ StartInteractive \/ StartBackground \/ Cancel
    BY <1>1, <1>8 DEF ExpireKey, StartInteractive, StartBackground, StartWorker, Cancel,
                      submitVars, workerVars
  <1>9. CASE UNCHANGED vars
    BY <1>1, <1>9 DEF vars, submitVars, workerVars
  <1>10. QED
    BY <1>2, <1>6, <1>7, <1>8, <1>9 DEF Next

-----------------------------------------------------------------------------
LEMMA InitIInv == Init => IInv
  <1> SUFFICES ASSUME Init
               PROVE  IInv
    OBVIOUS
  <1> USE KeyOfType, SessionOfType, TypeOfType, NoneType DEF Init
  <1>1. TypeOK
    <2>1. queue \in [Lanes -> Seq(Calls)]
      OBVIOUS
    <2>2. lock \in [Sessions -> Lanes \cup {None}] /\ cur \in [Lanes -> Calls \cup {None}]
      OBVIOUS
    <2>3. pc \in [Calls -> Pcs] /\ worker \in [Lanes -> WorkerStates] /\ phase \in Phases
      BY DEF Pcs, WorkerStates, Phases
    <2>4. /\ keys \subseteq Keys /\ epoch \in [Keys -> Nat] /\ markEpoch \in [Calls -> Nat]
          /\ evType \in [Calls -> EventTypes]
      OBVIOUS
    <2>5. QED
      BY <2>1, <2>2, <2>3, <2>4 DEF TypeOK
  <1>2. HoldsWhileBusy /\ NotYetStarted /\ LockMatchesExecution
    BY DEF HoldsWhileBusy, NotYetStarted, LockMatchesExecution, Lanes
  <1>3. MarkIsCurrentOrExpired /\ OncePerMark
    BY DEF MarkIsCurrentOrExpired, OncePerMark
  <1>4. Places /\ QueuedOnce /\ HeldOnce
    <2>1. \A l \in Lanes : queue[l] = <<>> /\ 1..Len(queue[l]) = {} /\ cur[l] = None
      OBVIOUS
    <2>2. Queued = {} /\ HeldSet = {}
      BY <2>1 DEF Queued, InQueue, HeldSet, Held
    <2>3. QED
      BY <2>1, <2>2 DEF Places, QueuedOnce, HeldOnce
  <1>5. ShutdownCancels
    BY DEF ShutdownCancels
  <1>6. QED
    BY <1>1, <1>2, <1>3, <1>4, <1>5 DEF IInv

LEMMA ShutdownInvariant == ShutdownCancels /\ [Next]_vars => ShutdownCancels'
  <1> SUFFICES ASSUME ShutdownCancels, [Next]_vars
               PROVE  ShutdownCancels'
    OBVIOUS
  <1> USE DEF ShutdownCancels
  <1>1. ASSUME NEW c \in Calls, Submit(c)
        PROVE  UNCHANGED <<phase, ctxDone>>
    BY <1>1 DEF Submit, CheckAndMark, Route, Resolve, Enqueue, SubmitTransient,
                SubmitCancelled, SendOnClosed, controlVars
  <1>2. ASSUME NEW l \in Lanes, Work(l)
        PROVE  UNCHANGED <<phase, ctxDone>>
    BY <1>2 DEF Work, Receive, LockSession, Finish, Panic, Leave, ExitLoop, controlVars
  <1>3. ASSUME NEW k \in Keys, ExpireKey(k)
        PROVE  UNCHANGED <<phase, ctxDone>>
    BY <1>3 DEF ExpireKey, controlVars
  <1>4. CASE StartInteractive \/ StartBackground \/ Cancel
    BY <1>4 DEF StartInteractive, StartBackground, StartWorker, Cancel
  <1>5. CASE Stop
    BY <1>5 DEF Stop, StopInteractive, StopBackground, StopWorker, WaitInteractive,
                WaitBackground, WaitWorker, CloseInteractive, CloseBackground,
                BeginDrain, DrainOne, DrainPoll, CloseLane, StopStore
  <1>6. CASE UNCHANGED vars
    BY <1>6 DEF vars, controlVars
  <1>7. QED
    BY <1>1, <1>2, <1>3, <1>4, <1>5, <1>6 DEF Next

\* The inductive invariant holds in every reachable state.
THEOREM Invariance == Spec => []IInv
  <1>1. IInv /\ [Next]_vars => IInv'
    BY TypeInvariant, WorkerInvariant, MarkInvariant, PlacesInvariant, ShutdownInvariant DEF IInv
  <1>2. QED
    BY InitIInv, <1>1, PTL DEF Spec

\* Type correctness of the pipeline.
THEOREM TypeCorrect == Spec => []TypeOK
  BY Invariance, PTL DEF IInv

\* A session's mutex is held exactly while an event of that session is run.
THEOREM LocksFollowExecution == Spec => []LockMatchesExecution
  BY Invariance, PTL DEF IInv

\* Session lock per session_id: for any number of calls and sessions the two
\* lane workers never run events of one session together.
THEOREM SessionMutualExclusion == Spec => []SessionExclusive
  <1>1. IInv => SessionExclusive
    <2> SUFFICES ASSUME IInv, NEW l \in Lanes, NEW m \in Lanes,
                        worker[l] = "executing", worker[m] = "executing",
                        SessionOf[cur[l]] = SessionOf[cur[m]]
                 PROVE  l = m
      BY DEF SessionExclusive
    <2>1. SessionOf[cur[l]] \in Sessions
      BY SessionOfType DEF IInv, TypeOK, HoldsWhileBusy
    <2>2. lock[SessionOf[cur[l]]] = l /\ lock[SessionOf[cur[l]]] = m
      BY <2>1 DEF IInv, LockMatchesExecution
    <2>3. QED
      BY <2>2
  <1>2. QED
    BY Invariance, <1>1, PTL

\* A key passes the duplicate check once per life of its mark.
THEOREM MarkedOnce == Spec => []OncePerMark
  BY Invariance, PTL DEF IInv

\* Every accepted event is in exactly one place, and none is run twice or run
\* after Close threw it away, for any number of calls and any capacity of the
\* lanes.
THEOREM EventsAccounted == Spec => []Accounted
  <1>1. IInv => Accounted
    BY AccountedIsPlaces DEF IInv
  <1>2. QED
    BY Invariance, <1>1, PTL

-----------------------------------------------------------------------------
(* The pipeline implements EventDelivery                                   *)

\* The status of an event depends on its own places only.
LEMMA StatusSame ==
    ASSUME NEW c \in Calls, pc'[c] = pc[c], Executing(c)' <=> Executing(c),
           c \in done' <=> c \in done,
           c \in rejected' <=> c \in rejected,
           c \in discarded' <=> c \in discarded
    PROVE  StatusOf(c)' = StatusOf(c)
  BY DEF StatusOf

LEMMA ExecutingFollowsWorkers ==
    ASSUME UNCHANGED <<worker, cur>>, NEW c
    PROVE  Executing(c)' <=> Executing(c)
  BY DEF Executing

\* When no event changes its status the abstract specification stutters or
\* begins to stop.
LEMMA Stutters ==
    ASSUME \A c \in Calls : StatusOf(c)' = StatusOf(c),
           ctxDone' = ctxDone \/ (~ctxDone /\ ctxDone' = TRUE)
    PROVE  [Delivery!Next]_(Delivery!vars)
  BY DEF Delivery!Next, Delivery!vars, Delivery!BeginShutdown

\* When one event changes its status the abstract specification moves it.
LEMMA Moves ==
    ASSUME NEW c \in Calls, NEW from, NEW to, StatusOf(c) = from, StatusOf(c)' = to,
           \A d \in Calls : d # c => StatusOf(d)' = StatusOf(d),
           ctxDone' = ctxDone
    PROVE  Delivery!Move(c, from, to)
  BY DEF Delivery!Move

\* What the status of an event says in a state of the invariant.
LEMMA StatusFacts ==
    ASSUME IInv, NEW c \in Calls
    PROVE  /\ c \in Queued => StatusOf(c) = "accepted"
           /\ Executing(c) <=> StatusOf(c) = "running"
           /\ c \in HeldSet /\ ~Executing(c) => StatusOf(c) = "accepted"
           /\ pc[c] \in {"idle", "marked", "resolving", "sending"} => StatusOf(c) = "new"
           /\ pc[c] \in Returned \ {"accepted"} => StatusOf(c) = "refused"
           /\ pc[c] = "accepted" => StatusOf(c) \notin {"new", "refused"}
  <1>1. Executing(c) => c \in HeldSet
    BY DEF Executing, HeldSet, Held
  <1>2. pc[c] = "accepted" <=> c \in Queued \cup HeldSet \cup done \cup rejected \cup discarded
    BY DEF IInv, Places
  <1>3. QED
    BY <1>1, <1>2 DEF IInv, Places, StatusOf, Returned

LEMMA SubmitRefines ==
    ASSUME IInv, IInv', NEW c \in Calls, Submit(c)
    PROVE  [Delivery!Next]_(Delivery!vars)
  <1>1. /\ pc[c] \in {"idle", "marked", "resolving", "sending"}
        /\ \E label \in Pcs : pc' = [pc EXCEPT ![c] = label]
        /\ UNCHANGED <<worker, cur, done, rejected, discarded, ctxDone>>
    BY DEF Submit, CheckAndMark, Route, Resolve, Enqueue, SubmitTransient, SubmitCancelled,
           SendOnClosed, Goto, Pcs, Returned, workerVars, controlVars
  <1>2. \A d \in Calls : d # c => StatusOf(d)' = StatusOf(d)
    BY <1>1, StatusSame, ExecutingFollowsWorkers DEF IInv, TypeOK
  <1>3. StatusOf(c) = "new"
    BY <1>1, StatusFacts
  <1>4. StatusOf(c)' \in {"new", "accepted", "refused"}
    <2>1. c \notin HeldSet \cup done \cup rejected \cup discarded
      BY <1>1 DEF IInv, Places
    <2>2. ~Executing(c)
      BY <2>1 DEF Executing, HeldSet, Held
    <2>3. ~Executing(c)' /\ c \notin done' \cup rejected' \cup discarded'
      BY <1>1, <2>1, <2>2, ExecutingFollowsWorkers
    <2>4. QED
      BY <2>3 DEF StatusOf
  <1>5. CASE StatusOf(c)' = "new"
    BY <1>1, <1>2, <1>3, <1>5, Stutters
  <1>6. CASE StatusOf(c)' \in {"accepted", "refused"}
    BY <1>1, <1>2, <1>3, <1>6, Moves DEF Delivery!Next, Delivery!Accept, Delivery!Refuse
  <1>7. QED
    BY <1>4, <1>5, <1>6

LEMMA WorkRefines ==
    ASSUME IInv, IInv', NEW l \in Lanes, Work(l)
    PROVE  [Delivery!Next]_(Delivery!vars)
  <1>0. UNCHANGED <<pc, ctxDone>>
    BY DEF Work, Receive, LockSession, Finish, Panic, Leave, ExitLoop, submitVars, controlVars
  <1>1. CASE Receive(l)
    <2>1. PICK h \in Calls : h = Head(queue[l]) /\ h \in Queued
      BY <1>1, ReceiveTakesOne DEF Receive, IInv, Queued
    <2>2. UNCHANGED <<done, discarded>> /\ worker[l] = "waiting" /\ cur[l] = None
      BY <1>1 DEF Receive, IInv, HoldsWhileBusy
    <2>3. \A c \in Calls : Executing(c)' <=> Executing(c)
      <3>1. \A m \in Lanes : m # l => worker'[m] = worker[m] /\ cur'[m] = cur[m]
        BY <1>1 DEF Receive, IInv, TypeOK
      <3>2. worker'[l] # "executing"
        BY <1>1, <2>2 DEF Receive, IInv, TypeOK
      <3>3. QED
        BY <2>2, <3>1, <3>2 DEF Executing
    <2>4. CASE h \in Malformed
      <3>1. rejected' = rejected \cup {h}
        BY <1>1, <2>1, <2>4 DEF Receive
      <3>2. \A d \in Calls : d # h => StatusOf(d)' = StatusOf(d)
        BY <1>0, <2>2, <2>3, <3>1, StatusSame
      <3>3. StatusOf(h) = "accepted"
        BY <2>1, StatusFacts
      <3>4. h \notin done
        BY <2>1 DEF IInv, Places
      <3>5. StatusOf(h)' = "rejected"
        BY <2>2, <3>1, <3>4 DEF StatusOf
      <3>6. QED
        BY <1>0, <2>1, <3>2, <3>3, <3>5, Moves DEF Delivery!Next, Delivery!Reject
    <2>5. CASE h \notin Malformed
      <3>1. rejected' = rejected
        BY <1>1, <2>1, <2>5 DEF Receive
      <3>2. QED
        BY <1>0, <2>2, <2>3, <3>1, StatusSame, Stutters
    <2>6. QED
      BY <2>4, <2>5
  <1>2. CASE LockSession(l)
    <2>0. PICK c \in Calls : c = cur[l]
      BY <1>2 DEF LockSession, IInv, TypeOK, HoldsWhileBusy
    <2>1. /\ worker[l] = "locking" /\ lock[SessionOf[c]] = None
          /\ worker' = [worker EXCEPT ![l] = "executing"]
          /\ UNCHANGED <<cur, done, rejected, discarded>>
      BY <1>2, <2>0 DEF LockSession
    <2>2. c \in HeldSet
      BY <2>0, <2>1 DEF IInv, TypeOK, HoldsWhileBusy, HeldSet, Held
    <2>3. ~Executing(c) /\ Executing(c)'
      BY <2>0, <2>1, NoneType DEF Executing, IInv, TypeOK, HeldOnce
    <2>4. \A d \in Calls : d # c => (Executing(d)' <=> Executing(d))
      BY <2>0, <2>1 DEF Executing, IInv, TypeOK
    <2>5. \A d \in Calls : d # c => StatusOf(d)' = StatusOf(d)
      BY <1>0, <2>1, <2>4, StatusSame
    <2>6. StatusOf(c) = "accepted"
      BY <2>2, <2>3, StatusFacts
    <2>7. StatusOf(c)' = "running"
      BY <2>1, <2>2, <2>3 DEF StatusOf, IInv, Places
    <2>8. \A d \in Calls : SessionOf[d] = SessionOf[c] => StatusOf(d) # "running"
      <3> SUFFICES ASSUME NEW d \in Calls, SessionOf[d] = SessionOf[c], StatusOf(d) = "running"
                   PROVE  FALSE
        OBVIOUS
      <3>1. PICK m \in Lanes : cur[m] = d /\ worker[m] = "executing"
        BY StatusFacts DEF Executing
      <3>2. lock[SessionOf[c]] = m
        BY <2>2, <3>1, SessionOfType DEF IInv, LockMatchesExecution
      <3>3. QED
        BY <2>1, <3>2, NoneType
    <2>9. QED
      BY <1>0, <2>2, <2>5, <2>6, <2>7, <2>8, Moves
         DEF Delivery!Next, Delivery!Begin, Delivery!SessionFree
  <1>3. ASSUME NEW next \in {"waiting", "dead"}, Leave(l, next)
        PROVE  [Delivery!Next]_(Delivery!vars)
    <2>0. PICK c \in Calls : c = cur[l]
      BY <1>3 DEF Leave, IInv, TypeOK, HoldsWhileBusy
    <2>1. /\ worker[l] = "executing" /\ worker' = [worker EXCEPT ![l] = next]
          /\ cur' = [cur EXCEPT ![l] = None] /\ done' = done \cup {c}
          /\ UNCHANGED <<rejected, discarded>>
      BY <1>3, <2>0 DEF Leave
    <2>2. Executing(c)
      BY <2>0, <2>1 DEF Executing
    <2>3. \A d \in Calls : d # c => (Executing(d)' <=> Executing(d))
      BY <2>0, <2>1 DEF Executing, IInv, TypeOK
    <2>4. \A d \in Calls : d # c => StatusOf(d)' = StatusOf(d)
      BY <1>0, <2>1, <2>3, StatusSame
    <2>5. StatusOf(c) = "running"
      BY <2>2, StatusFacts
    <2>6. StatusOf(c)' = "done"
      BY <2>1 DEF StatusOf
    <2>7. QED
      BY <1>0, <2>2, <2>4, <2>5, <2>6, Moves DEF Delivery!Next, Delivery!End
  <1>4. CASE ExitLoop(l)
    <2>1. \A d \in Calls : Executing(d)' <=> Executing(d)
      BY <1>4 DEF ExitLoop, Executing, IInv, TypeOK
    <2>2. QED
      BY <1>0, <1>4, <2>1, StatusSame, Stutters DEF ExitLoop
  <1>5. QED
    BY <1>1, <1>2, <1>3, <1>4 DEF Work, Finish, Panic

LEMMA StopRefines ==
    ASSUME IInv, IInv', Stop
    PROVE  [Delivery!Next]_(Delivery!vars)
  <1>0. UNCHANGED <<pc, worker, cur, done, rejected, ctxDone>>
    BY DEF Stop, StopInteractive, StopBackground, StopWorker, WaitInteractive,
           WaitBackground, WaitWorker, CloseInteractive, CloseBackground,
           BeginDrain, DrainOne, DrainPoll, CloseLane, StopStore, submitVars, workerVars
  <1>1. ASSUME NEW l \in Lanes, NEW drain \in {"drainInteractive", "drainBackground"},
               DrainOne(l, drain)
        PROVE  [Delivery!Next]_(Delivery!vars)
    <2>1. PICK h \in Calls : h = Head(queue[l]) /\ h \in Queued
      BY <1>1, ReceiveTakesOne DEF DrainOne, IInv, Queued
    <2>2. discarded' = discarded \cup {h} /\ ctxDone
      BY <1>1, <2>1 DEF DrainOne, IInv, ShutdownCancels
    <2>3. \A d \in Calls : d # h => StatusOf(d)' = StatusOf(d)
      BY <1>0, <2>2, StatusSame, ExecutingFollowsWorkers
    <2>4. StatusOf(h) = "accepted"
      BY <2>1, StatusFacts
    <2>5. StatusOf(h)' = "dropped"
      BY <1>0, <2>1, <2>2 DEF StatusOf, IInv, Places
    <2>6. QED
      BY <1>0, <2>1, <2>2, <2>3, <2>4, <2>5, Moves DEF Delivery!Next, Delivery!Drop
  <1>2. CASE ~DrainOne("interactive", "drainInteractive") /\ ~DrainOne("background", "drainBackground")
    <2>1. discarded' = discarded
      BY <1>2 DEF Stop, StopInteractive, StopBackground, StopWorker, WaitInteractive,
             WaitBackground, WaitWorker, CloseInteractive, CloseBackground,
             BeginDrain, DrainPoll, CloseLane, StopStore
    <2>2. QED
      BY <1>0, <2>1, StatusSame, ExecutingFollowsWorkers, Stutters
  <1>3. QED
    BY <1>1, <1>2 DEF Lanes

\* Every step of the pipeline is a step of the delivery contract or a stutter.
LEMMA StepRefines ==
    ASSUME IInv, IInv', [Next]_vars
    PROVE  [Delivery!Next]_(Delivery!vars)
  <1>1. CASE \E k \in Keys : ExpireKey(k)
    BY <1>1, StatusSame, ExecutingFollowsWorkers, Stutters DEF ExpireKey, workerVars, controlVars
  <1>2. CASE StartInteractive \/ StartBackground
    <2>1. UNCHANGED <<pc, cur, done, rejected, discarded, ctxDone>>
      BY <1>2 DEF StartInteractive, StartBackground, StartWorker, submitVars
    <2>2. \A d \in Calls : Executing(d)' <=> Executing(d)
      <3>1. ASSUME NEW l \in Lanes, worker[l] = "new", worker' = [worker EXCEPT ![l] = "waiting"]
            PROVE  \A d \in Calls : Executing(d)' <=> Executing(d)
        BY <2>1, <3>1 DEF Executing, IInv, TypeOK
      <3>2. QED
        BY <1>2, <3>1 DEF StartInteractive, StartBackground, StartWorker, IInv, NotYetStarted, Lanes
    <2>3. QED
      BY <2>1, <2>2, StatusSame, Stutters
  <1>3. CASE Cancel
    BY <1>3, StatusSame, ExecutingFollowsWorkers, Stutters
       DEF Cancel, submitVars, workerVars, IInv, TypeOK
  <1>4. CASE UNCHANGED vars
    BY <1>4, StatusSame, ExecutingFollowsWorkers, Stutters
       DEF vars, submitVars, workerVars, controlVars
  <1>5. QED
    BY <1>1, <1>2, <1>3, <1>4, SubmitRefines, WorkRefines, StopRefines DEF Next

\* The pipeline keeps the delivery contract for every number of calls, keys and
\* sessions and every capacity of the lanes: each event is refused or accepted, an
\* accepted one is run at most once, never beside another of its session, and
\* dropped only after the shutdown began.
THEOREM PipelineImplementsDelivery == Spec => ImplementsDelivery
  <1>1. Init => Delivery!Init
    <2> SUFFICES ASSUME Init
                 PROVE  Delivery!Init
      OBVIOUS
    <2>1. \A c \in Calls : StatusOf(c) = "new"
      BY NoneType DEF Init, StatusOf, Executing, Returned
    <2>2. QED
      BY <2>1 DEF Init, Delivery!Init
  <1>2. IInv /\ IInv' /\ [Next]_vars => [Delivery!Next]_(Delivery!vars)
    BY StepRefines
  <1>3. QED
    BY Invariance, <1>1, <1>2, PTL DEF Spec, ImplementsDelivery, Delivery!Spec

=============================================================================
