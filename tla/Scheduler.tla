----------------------------- MODULE Scheduler -----------------------------
(***************************************************************************)
(* The cron scheduler of a workspace: the tick loop, the lease that guards *)
(* a run of a task, the submission of its event, completion, stop, and     *)
(* what failing submissions, failing writes, crashes and restarts leave in *)
(* tasks.json.                                                             *)
(*                                                                         *)
(* A due time identifies an occurrence of a task: it is the NextRun that   *)
(* ShouldFire found in the past.  Zero is the NextRun of a task that never *)
(* ran.                                                                    *)
(***************************************************************************)
EXTENDS Naturals

CONSTANTS Tasks,          \* the tasks of tasks.json
          ScheduleOf,     \* "cron", "bad" (cannot be parsed) or "empty"
          Period,         \* distance of the fire times of a schedule
          LeaseDuration,
          MaxTime,        \* bound: the clock stops there
          MaxFailures,    \* bound: failing submissions and writes
          MaxRestarts,    \* bound: process restarts
          None

ASSUME ScheduleOfType == ScheduleOf \in [Tasks -> {"cron", "bad", "empty"}]
ASSUME PeriodType     == Period \in [Tasks -> Nat \ {0}]
ASSUME DurationType   == LeaseDuration \in Nat
ASSUME BoundsType     == MaxTime \in Nat /\ MaxFailures \in Nat /\ MaxRestarts \in Nat
ASSUME NoneType       == None \notin Tasks /\ None \notin [run : Nat, expires : Nat]

VARIABLES
    now,
    nextRun,    \* Task.NextRun in memory
    lease,      \* Task.Lease in memory: run id and expiry, or None
    diskNext, diskLease,  \* the same in tasks.json
    running,    \* Scheduler.running
    ctxDone,    \* the scheduler's context is cancelled
    pending,    \* a tick waits in the ticker's channel
    serving,    \* ingress is open and the store worker runs
    loop,       \* where the goroutine of run is
    todo,       \* tasks this tick has not looked at yet
    cur,        \* the task being executed
    due,        \* the occurrence it is executed for
    runs,       \* number of run ids drawn, the last one is the current run's
    failures, restarts,
    fired,      \* history: occurrences whose event was submitted
    faultAt     \* history: time of the last fault that touched a task

memVars  == <<nextRun, lease>>
diskVars == <<diskNext, diskLease>>
ctlVars  == <<running, ctxDone, pending, serving>>
loopVars == <<loop, todo, cur, due>>
histVars == <<fired, faultAt>>
vars == <<now, memVars, diskVars, ctlVars, loopVars, runs, failures, restarts, histVars>>

LoopStates == {"none", "idle", "cron", "acquire", "submit", "mark", "exited"}

Lease == [run : Nat, expires : Nat]

Init ==
    /\ now = 1
    /\ nextRun = [t \in Tasks |-> 0]
    /\ lease = [t \in Tasks |-> None]
    /\ diskNext = nextRun
    /\ diskLease = lease
    /\ running = FALSE
    /\ ctxDone = FALSE
    /\ pending = FALSE
    /\ serving = TRUE
    /\ loop = "none"
    /\ todo = {}
    /\ cur = None
    /\ due = 0
    /\ runs = 0
    /\ failures = 0
    /\ restarts = 0
    /\ fired = [t \in Tasks |-> {}]
    /\ faultAt = [t \in Tasks |-> 0]

\* cron.Schedule.Next: the first fire time after n.
NextTime(t, n) == n + Period[t] - (n % Period[t])

\* The events of a task's fault are bounded, and remembered with their time.
Fault(t) ==
    /\ failures < MaxFailures
    /\ failures' = failures + 1
    /\ faultAt' = [faultAt EXCEPT ![t] = now]

NoFault == UNCHANGED <<failures, faultAt>>

-----------------------------------------------------------------------------
(* Start and Stop                                                          *)

\* recoverExpiredLeases looks at the leases, counts the expired ones and leaves all
\* of them as they are.
RecoverExpiredLeases == UNCHANGED <<lease, diskLease>>

\* processCatchUp counts the missed tasks, may submit a notice of their number, and
\* leaves the runs themselves to the first tick.
ProcessCatchUp == UNCHANGED <<nextRun, diskNext>>

Start ==
    /\ ~running
    /\ loop = "none"
    /\ running' = TRUE
    /\ RecoverExpiredLeases
    /\ ProcessCatchUp
    /\ loop' = "idle"
    /\ UNCHANGED <<now, ctxDone, pending, serving, todo, cur, due, runs, failures, restarts, histVars>>

\* The runtime context, whose child the scheduler's context is, is cancelled.
Cancel ==
    /\ running
    /\ ~ctxDone
    /\ ctxDone' = TRUE
    /\ UNCHANGED <<now, memVars, diskVars, running, pending, serving, loopVars, runs,
                   failures, restarts, histVars>>

\* Mutant of Stop: the scheduler's context is left alone.
StopTickerOnly ==
    /\ running
    /\ running' = FALSE
    /\ UNCHANGED <<now, memVars, diskVars, ctxDone, pending, serving, loopVars, runs,
                   failures, restarts, histVars>>

\* Stop: running is cleared, the ticker stops (a tick in its channel stays) and
\* the context is cancelled.  The wait for tasks in flight also listens to that
\* context, so Stop returns at once and the loop is on its own.
Stop ==
    /\ running
    /\ running' = FALSE
    /\ ctxDone' = TRUE
    /\ UNCHANGED <<now, memVars, diskVars, pending, serving, loopVars, runs,
                   failures, restarts, histVars>>

\* RuntimeComponents.Stop goes on behind the scheduler's Stop, which did not wait:
\* the lanes are closed and the store worker ends.
StopRuntime ==
    /\ ~running
    /\ ctxDone
    /\ serving
    /\ serving' = FALSE
    /\ UNCHANGED <<now, memVars, diskVars, running, ctxDone, pending, loopVars, runs,
                   failures, restarts, histVars>>

TickerFires ==
    /\ running
    /\ loop # "none"
    /\ ~pending
    /\ pending' = TRUE
    /\ UNCHANGED <<now, memVars, diskVars, running, ctxDone, serving, loopVars, runs,
                   failures, restarts, histVars>>

-----------------------------------------------------------------------------
(* run and onTick                                                          *)

LoopExit ==
    /\ loop = "idle"
    /\ ctxDone
    /\ loop' = "exited"
    /\ UNCHANGED <<now, memVars, diskVars, ctlVars, todo, cur, due, runs,
                   failures, restarts, histVars>>

\* The select may take a waiting tick although the context is cancelled.
BeginTick ==
    /\ loop = "idle"
    /\ pending
    /\ pending' = FALSE
    /\ loop' = "cron"
    /\ todo' = {t \in Tasks : ScheduleOf[t] # "empty"}
    /\ UNCHANGED <<now, memVars, diskVars, running, ctxDone, serving, cur, due, runs,
                   failures, restarts, histVars>>

\* ShouldFire advances NextRun in memory only.
ShouldFire(t) ==
    /\ loop = "cron"
    /\ t \in todo
    /\ todo' = todo \ {t}
    /\ IF nextRun[t] <= now /\ ScheduleOf[t] = "cron"
       THEN /\ nextRun' = [nextRun EXCEPT ![t] = NextTime(t, now)]
            /\ cur' = t
            /\ due' = nextRun[t]
            /\ loop' = "acquire"
       ELSE UNCHANGED <<nextRun, cur, due, loop>>
    /\ UNCHANGED <<now, lease, diskVars, ctlVars, runs, failures, restarts, histVars>>

\* executeTask returns to processCronJobs.
LeaveTask ==
    /\ loop' = "cron"
    /\ cur' = None
    /\ due' = 0

\* Mutant of Leased: a lease never expires.
LeasedForEver(t) == lease[t] # None

Leased(t) == lease[t] # None /\ now < lease[t].expires

\* save of the whole task list.
SaveTasks(next, leases) ==
    /\ diskNext' = next
    /\ diskLease' = leases

\* Mutant of AcquireLease: the lease is given an expiry in the past.
AcquireExpired ==
    /\ loop = "acquire"
    /\ ~Leased(cur)
    /\ runs' = runs + 1
    /\ lease' = [lease EXCEPT ![cur] = [run |-> runs + 1, expires |-> now - LeaseDuration]]
    /\ SaveTasks(nextRun, lease')
    /\ loop' = "submit"
    /\ NoFault
    /\ UNCHANGED <<now, nextRun, ctlVars, todo, cur, due, restarts, fired>>

\* Mutant of AcquireLease: the lease is taken in memory and not saved.
AcquireUnsaved ==
    /\ loop = "acquire"
    /\ ~Leased(cur)
    /\ runs' = runs + 1
    /\ lease' = [lease EXCEPT ![cur] = [run |-> runs + 1, expires |-> now + LeaseDuration]]
    /\ loop' = "submit"
    /\ NoFault
    /\ UNCHANGED <<now, nextRun, diskVars, ctlVars, todo, cur, due, restarts, fired>>

\* A valid lease refuses the run; otherwise the lease is taken in memory and
\* saved, and stays in memory when the save fails.
AcquireLease ==
    /\ loop = "acquire"
    /\ \/ /\ Leased(cur)
          /\ LeaveTask
          /\ NoFault
          /\ UNCHANGED <<lease, diskVars, runs>>
       \/ /\ ~Leased(cur)
          /\ runs' = runs + 1
          /\ lease' = [lease EXCEPT ![cur] = [run |-> runs + 1, expires |-> now + LeaseDuration]]
          /\ \/ /\ SaveTasks(nextRun, lease')
                /\ loop' = "submit"
                /\ NoFault
                /\ UNCHANGED <<cur, due>>
             \/ /\ Fault(cur)
                /\ LeaveTask
                /\ UNCHANGED diskVars
    /\ UNCHANGED <<now, nextRun, ctlVars, todo, restarts, fired>>

\* A closed lane takes no event.
SubmitSucceeds ==
    /\ loop = "submit"
    /\ serving
    /\ loop' = "mark"
    /\ fired' = [fired EXCEPT ![cur] = @ \cup {due}]
    /\ UNCHANGED <<now, memVars, diskVars, ctlVars, todo, cur, due, runs,
                   failures, restarts, faultAt>>

\* The lane is full, or the store refuses: the lease is not given back.
SubmitFails ==
    /\ loop = "submit"
    /\ Fault(cur)
    /\ LeaveTask
    /\ UNCHANGED <<now, memVars, diskVars, ctlVars, todo, runs, restarts, fired>>

OwnLease(t) == lease[t] # None /\ lease[t].run = runs

\* Mutant of MarkTaskDone: NextRun is advanced and the lease kept.
MarkKeepsLease ==
    /\ loop = "mark"
    /\ LeaveTask
    /\ nextRun' = [nextRun EXCEPT ![cur] = NextTime(cur, now)]
    /\ SaveTasks(nextRun', lease)
    /\ NoFault
    /\ UNCHANGED <<now, lease, ctlVars, todo, runs, restarts, fired>>

\* The lease is dropped only by the run that holds it.
MarkTaskDone ==
    /\ loop = "mark"
    /\ LeaveTask
    /\ IF OwnLease(cur)
       THEN /\ lease' = [lease EXCEPT ![cur] = None]
            /\ nextRun' = [nextRun EXCEPT ![cur] = NextTime(cur, now)]
            /\ \/ SaveTasks(nextRun', lease') /\ NoFault
               \/ Fault(cur) /\ UNCHANGED diskVars
       ELSE NoFault /\ UNCHANGED <<memVars, diskVars>>
    /\ UNCHANGED <<now, ctlVars, todo, runs, restarts, fired>>

\* processHeartbeat ends the tick: its event is submitted, the error logged.
Heartbeat ==
    /\ loop = "cron"
    /\ todo = {}
    /\ loop' = "idle"
    /\ UNCHANGED <<now, memVars, diskVars, ctlVars, todo, cur, due, runs,
                   failures, restarts, histVars>>

-----------------------------------------------------------------------------

\* The process ends at any point, and a new one loads tasks.json; a run that held
\* its lease on disk is cut off.
Restart ==
    /\ restarts < MaxRestarts
    /\ restarts' = restarts + 1
    /\ nextRun' = diskNext
    /\ lease' = diskLease
    /\ running' = FALSE
    /\ ctxDone' = FALSE
    /\ pending' = FALSE
    /\ serving' = TRUE
    /\ loop' = "none"
    /\ todo' = {}
    /\ cur' = None
    /\ due' = 0
    /\ faultAt' = IF loop \in {"submit", "mark"} THEN [faultAt EXCEPT ![cur] = now] ELSE faultAt
    /\ UNCHANGED <<now, diskVars, runs, failures, fired>>

ClockTick ==
    /\ now < MaxTime
    /\ now' = now + 1
    /\ UNCHANGED <<memVars, diskVars, ctlVars, loopVars, runs, failures, restarts, histVars>>

Work ==
    \/ BeginTick
    \/ \E t \in Tasks : ShouldFire(t)
    \/ AcquireLease
    \/ MarkTaskDone

\* A call of Submit returns, that of a task or that of the heartbeat.
SubmitEnds == SubmitSucceeds \/ SubmitFails \/ Heartbeat

Next ==
    \/ Start \/ Cancel \/ Stop \/ StopRuntime \/ TickerFires \/ LoopExit
    \/ Work \/ SubmitEnds \/ Restart \/ ClockTick

Spec == Init /\ [][Next]_vars

\* The loop's goroutine goes on when it can and a running ticker ticks.  Submit
\* returns as long as ingress is open and the store answers (SubmitReturns of
\* EventPipeline); a call that meets a stopped store waits for ever, and one
\* that meets a closed lane panics, which is one of the ends Restart stands for.
\* Nobody must stop or fail, and the clock may pass any step.
FairSpec ==
    /\ Spec
    /\ WF_vars(Work)
    /\ WF_vars(serving /\ SubmitEnds)
    /\ WF_vars(TickerFires)
    /\ WF_vars(LoopExit)

-----------------------------------------------------------------------------
(* Properties                                                              *)

TypeOK ==
    /\ now \in Nat
    /\ nextRun \in [Tasks -> Nat]
    /\ lease \in [Tasks -> Lease \cup {None}]
    /\ diskNext \in [Tasks -> Nat]
    /\ diskLease \in [Tasks -> Lease \cup {None}]
    /\ running \in BOOLEAN
    /\ ctxDone \in BOOLEAN
    /\ pending \in BOOLEAN
    /\ serving \in BOOLEAN
    /\ loop \in LoopStates
    /\ todo \subseteq Tasks
    /\ cur \in Tasks \cup {None}
    /\ loop \in {"acquire", "submit", "mark"} <=> cur # None
    /\ due \in Nat
    /\ runs \in Nat
    /\ failures \in Nat
    /\ restarts \in Nat
    /\ fired \in [Tasks -> SUBSET Nat]
    /\ faultAt \in [Tasks -> Nat]

\* An occurrence of a task is submitted at most once, although the process may
\* end between the submission and MarkTaskDone, a write may fail, and NextRun is
\* first advanced in memory only: the save of the lease carries it to disk before
\* the event is submitted (ShouldFire, AcquireLease, executeTask).
FiresOncePerDue == loop \in {"acquire", "submit"} => due \notin fired[cur]

\* A task is refused its run by a valid lease only within LeaseDuration of a
\* fault of its own: a failed submission or write, or a crash in the middle of a
\* run.  Otherwise no lease outlives its run (AcquireLease, MarkTaskDone).
BlockedOnlyAfterFault ==
    \A t \in Tasks :
        (cur # t \/ loop = "acquire") /\ Leased(t) => now < faultAt[t] + LeaseDuration

Due(t) == nextRun[t] <= now /\ (lease[t] = None \/ lease[t].expires <= now)

\* The bounds on failures and restarts are used up: nothing fails from here on.
NoMoreFaults == failures = MaxFailures /\ restarts = MaxRestarts

\* Once nothing fails any more, a task that is due and not leased is submitted while
\* the scheduler runs, also one that was missed while the process was down or
\* whose earlier run was cut off with its lease on disk (processCronJobs).
DueFires ==
    \A t \in {u \in Tasks : ScheduleOf[u] = "cron"} :
        (Due(t) /\ running /\ NoMoreFaults) ~> (loop = "mark" /\ cur = t) \/ ctxDone

\* The loop is in Submit, for a task or for the heartbeat.
Submitting == loop = "submit" \/ (loop = "cron" /\ todo = {})

\* Stop ends the loop, whatever waits in the ticker and however far a tick has
\* come, unless the runtime, which does not wait for it, closes ingress and the
\* store under a Submit in flight (run, Stop, RuntimeComponents.Stop).
StopEndsLoop ==
    (~running /\ loop # "none") ~> (loop \in {"exited", "none"} \/ (Submitting /\ ~serving))

=============================================================================
