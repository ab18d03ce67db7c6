-------------------------- MODULE SchedulerProofs --------------------------
(***************************************************************************)
(* Proofs about Scheduler, for every set of tasks, every period, lease     *)
(* duration and bound.                                                     *)
(***************************************************************************)
EXTENDS Scheduler, TLAPS

Executing == {"acquire", "submit", "mark"}

\* The run of t holds its lease, in memory and on disk.
Holds(t) == cur = t /\ loop \in {"submit", "mark"}

\* What was submitted lies in the past, and before the next run of the task, in
\* memory and on disk: no restart brings it back.
FiredIsBehind ==
    \A t \in Tasks : \A d \in fired[t] : d <= now /\ d < nextRun[t] /\ d < diskNext[t]

\* The occurrence being executed is taken: NextRun is beyond it, on disk too once the
\* lease is saved.
DueIsTaken ==
    /\ loop \in Executing => due <= now /\ due < nextRun[cur]
    /\ loop \in {"submit", "mark"} => due < diskNext[cur]

\* The executing run owns the lease of its task.
RunOwnsLease == loop \in {"submit", "mark"} => OwnLease(cur)

\* A lease of a running task was taken at most now; every other lease that is left
\* is one a fault has left behind.
LeaseBounded(ls) ==
    \A t \in Tasks : ls[t] # None =>
        /\ ls[t].expires <= now + LeaseDuration
        /\ ~Holds(t) => ls[t].expires <= faultAt[t] + LeaseDuration

FaultIsPast == \A t \in Tasks : faultAt[t] <= now

IInv ==
    /\ TypeOK
    /\ FiredIsBehind
    /\ DueIsTaken
    /\ FiresOncePerDue
    /\ RunOwnsLease
    /\ LeaseBounded(lease)
    /\ LeaseBounded(diskLease)
    /\ FaultIsPast

-----------------------------------------------------------------------------

\* The next fire time of a schedule lies after the time it is computed for.
LEMMA NextTimeLater ==
    ASSUME NEW t \in Tasks, NEW n \in Nat
    PROVE  NextTime(t, n) \in Nat /\ NextTime(t, n) > n
  <1>1. Period[t] \in Nat /\ Period[t] > 0
    BY PeriodType
  <1>2. n % Period[t] \in 0..(Period[t] - 1)
    BY <1>1
  <1>3. QED
    BY <1>1, <1>2 DEF NextTime

LEMMA InitIInv == Init => IInv
  <1> SUFFICES ASSUME Init
               PROVE  IInv
    OBVIOUS
  <1> USE NoneType DEF Init
  <1>1. TypeOK
    BY DEF TypeOK, LoopStates
  <1>2. FiredIsBehind /\ DueIsTaken /\ FiresOncePerDue /\ RunOwnsLease /\ FaultIsPast
    BY DEF FiredIsBehind, DueIsTaken, Executing, FiresOncePerDue, RunOwnsLease, FaultIsPast
  <1>3. LeaseBounded(lease) /\ LeaseBounded(diskLease)
    BY DEF LeaseBounded
  <1>4. QED
    BY <1>1, <1>2, <1>3 DEF IInv

LEMMA StepIInv == IInv /\ [Next]_vars => IInv'
  <1> SUFFICES ASSUME IInv, [Next]_vars
               PROVE  IInv'
    OBVIOUS
  <1> USE NoneType, DurationType DEF IInv, TypeOK, LoopStates, Executing, FiredIsBehind, DueIsTaken,
          FiresOncePerDue, RunOwnsLease, OwnLease, LeaseBounded, Holds, FaultIsPast, Lease,
          memVars, diskVars, ctlVars, loopVars, histVars
  <1>1. CASE Start
    BY <1>1 DEF Start, RecoverExpiredLeases, ProcessCatchUp
  <1>2. CASE Cancel
    BY <1>2 DEF Cancel
  <1>3. CASE Stop
    BY <1>3 DEF Stop
  <1>4. CASE TickerFires
    BY <1>4 DEF TickerFires
  <1>5. CASE LoopExit
    BY <1>5 DEF LoopExit
  <1>6. CASE BeginTick
    BY <1>6 DEF BeginTick
  <1>7. ASSUME NEW t \in Tasks, ShouldFire(t)
        PROVE  IInv'
    <2> USE <1>7 DEF ShouldFire
    <2> DEFINE n == NextTime(t, now)
    <2>1. n \in Nat /\ n > now
      BY NextTimeLater
    <2> HIDE DEF n
    <2>2. nextRun' = nextRun \/ nextRun' = [nextRun EXCEPT ![t] = n]
      BY DEF n
    <2>3. TypeOK'
      BY <2>1, <2>2
    <2>4. FiredIsBehind' /\ DueIsTaken' /\ FiresOncePerDue' /\ FaultIsPast' /\ RunOwnsLease'
      <3>1. CASE nextRun[t] <= now /\ ScheduleOf[t] = "cron"
        <4>1. /\ cur = None /\ cur' = t /\ due' = nextRun[t] /\ loop' = "acquire"
              /\ nextRun' = [nextRun EXCEPT ![t] = n]
          BY <3>1 DEF n
        <4>2. FiredIsBehind'
          <5> SUFFICES ASSUME NEW u \in Tasks, NEW d \in fired[u]
                       PROVE  d <= now /\ d < nextRun'[u] /\ d < diskNext[u]
            OBVIOUS
          <5>1. d \in Nat /\ d <= now /\ d < nextRun[u] /\ d < diskNext[u]
            OBVIOUS
          <5>2. nextRun'[u] = IF u = t THEN n ELSE nextRun[u]
            BY <4>1
          <5> HIDE <1>7 DEF ShouldFire
          <5>3. QED
            BY <2>1, <5>1, <5>2
        <4>3. DueIsTaken' /\ RunOwnsLease' /\ FaultIsPast'
          <5>1. nextRun'[t] = n /\ nextRun[t] \in Nat /\ UNCHANGED <<now, faultAt>>
            BY <4>1
          <5> HIDE <1>7 DEF ShouldFire
          <5>2. DueIsTaken' /\ RunOwnsLease'
            BY <2>1, <3>1, <4>1, <5>1
          <5>3. FaultIsPast'
            BY <5>1
          <5>4. QED
            BY <5>2, <5>3
        <4>4. FiresOncePerDue'
          BY <4>1
        <4>5. QED
          BY <4>2, <4>3, <4>4
      <3>2. CASE ~(nextRun[t] <= now /\ ScheduleOf[t] = "cron")
        BY <3>2
      <3>3. QED
        BY <3>1, <3>2
    <2>5. LeaseBounded(lease)' /\ LeaseBounded(diskLease)'
      OBVIOUS
    <2>6. QED
      BY <2>3, <2>4, <2>5
  <1>8. CASE AcquireLease
    <2> USE <1>8 DEF AcquireLease, LeaveTask, Leased, SaveTasks, Fault, NoFault
    <2>1. TypeOK'
      OBVIOUS
    <2>2. FiredIsBehind' /\ DueIsTaken' /\ FiresOncePerDue' /\ FaultIsPast'
      OBVIOUS
    <2>3. RunOwnsLease'
      OBVIOUS
    <2>4. LeaseBounded(lease)'
      OBVIOUS
    <2>5. LeaseBounded(diskLease)'
      OBVIOUS
    <2>6. QED
      BY <2>1, <2>2, <2>3, <2>4, <2>5
  <1>9. CASE SubmitSucceeds
    BY <1>9 DEF SubmitSucceeds
  <1>10. CASE SubmitFails
    BY <1>10 DEF SubmitFails, LeaveTask, Fault
  <1>11. CASE MarkTaskDone
    <2> DEFINE n == NextTime(cur, now)
               ls == [lease EXCEPT ![cur] = None]
               nr == [nextRun EXCEPT ![cur] = n]
    <2>1. /\ cur \in Tasks /\ n \in Nat /\ n > now
          /\ loop = "mark" /\ loop' = "cron" /\ cur' = None /\ due' = 0
      BY <1>11, NextTimeLater DEF MarkTaskDone, LeaveTask
    <2>2. /\ lease' = ls /\ nextRun' = nr
          /\ UNCHANGED <<now, ctlVars, todo, runs, restarts, fired>>
          /\ \/ diskNext' = nr /\ diskLease' = ls /\ UNCHANGED <<failures, faultAt>>
             \/ /\ failures' = failures + 1
                /\ faultAt' = [faultAt EXCEPT ![cur] = now]
                /\ UNCHANGED diskVars
      BY <1>11 DEF MarkTaskDone, LeaveTask, SaveTasks, Fault, NoFault
    <2> HIDE DEF n
    <2>3. nr \in [Tasks -> Nat] /\ ls \in [Tasks -> Lease \cup {None}]
      BY <2>1
    <2>4. TypeOK'
      BY <2>1, <2>2, <2>3
    <2>5. FiredIsBehind' /\ DueIsTaken' /\ FiresOncePerDue' /\ RunOwnsLease' /\ FaultIsPast'
      BY <2>1, <2>2, <2>3
    <2>6. LeaseBounded(lease)'
      BY <2>1, <2>2, <2>3
    <2>7. LeaseBounded(diskLease)'
      <3>1. CASE diskLease' = ls /\ UNCHANGED faultAt
        BY <2>1, <2>2, <2>3, <3>1
      <3>2. CASE faultAt' = [faultAt EXCEPT ![cur] = now] /\ UNCHANGED diskVars
        BY <2>1, <2>2, <3>2
      <3>3. QED
        BY <2>2, <3>1, <3>2
    <2>8. QED
      BY <2>4, <2>5, <2>6, <2>7
  <1>12. CASE Heartbeat
    BY <1>12 DEF Heartbeat
  <1>13. CASE Restart
    <2> USE <1>13 DEF Restart
    <2>1. /\ faultAt' \in [Tasks -> Nat]
          /\ \A t \in Tasks : faultAt[t] <= faultAt'[t] /\ faultAt'[t] <= now
          /\ \A t \in Tasks : Holds(t) => faultAt'[t] = now
      <3>1. CASE loop \in {"submit", "mark"}
        BY <3>1
      <3>2. CASE loop \notin {"submit", "mark"}
        BY <3>2
      <3>3. QED
        BY <3>1, <3>2
    <2>2. TypeOK'
      <3>1. /\ nextRun' \in [Tasks -> Nat] /\ lease' \in [Tasks -> Lease \cup {None}]
            /\ loop' = "none" /\ cur' = None /\ due' = 0 /\ todo' = {}
            /\ running' = FALSE /\ ctxDone' = FALSE /\ pending' = FALSE /\ serving' = TRUE
            /\ restarts' \in Nat
            /\ UNCHANGED <<now, diskNext, diskLease, runs, failures, fired>>
        OBVIOUS
      <3> HIDE <1>13 DEF Restart
      <3>2. loop' \in {"acquire", "submit", "mark"} <=> cur' # None
        BY <3>1
      <3>3. QED
        BY <2>1, <3>1, <3>2
    <2>3. FiredIsBehind' /\ DueIsTaken' /\ FiresOncePerDue' /\ RunOwnsLease' /\ FaultIsPast'
      BY <2>1
    <2>4. LeaseBounded(diskLease)'
      <3> SUFFICES ASSUME NEW t \in Tasks, diskLease[t] # None
                   PROVE  /\ diskLease[t].expires <= now + LeaseDuration
                          /\ diskLease[t].expires <= faultAt'[t] + LeaseDuration
        OBVIOUS
      <3>1. CASE Holds(t)
        BY <2>1, <3>1
      <3>2. CASE ~Holds(t)
        <4>1. diskLease[t] \in Lease
          OBVIOUS
        <4>2. diskLease[t].expires <= faultAt[t] + LeaseDuration
          BY <3>2
        <4>3. QED
          BY <2>1, <4>1, <4>2
      <3>3. QED
        BY <3>1, <3>2
    <2>5. LeaseBounded(lease)'
      BY <2>4
    <2>6. QED
      BY <2>2, <2>3, <2>4, <2>5
  <1>14. CASE ClockTick
    BY <1>14 DEF ClockTick
  <1>15. CASE UNCHANGED vars
    BY <1>15 DEF vars
  <1>16. CASE StopRuntime
    BY <1>16 DEF StopRuntime
  <1>17. QED
    BY <1>1, <1>2, <1>3, <1>4, <1>5, <1>6, <1>7, <1>8, <1>9, <1>10, <1>11, <1>12,
       <1>13, <1>14, <1>15, <1>16 DEF Next, Work, SubmitEnds

\* The inductive invariant holds in every reachable state.
THEOREM Invariance == Spec => []IInv
  BY InitIInv, StepIInv, PTL DEF Spec

\* Type correctness of the scheduler.
THEOREM TypeCorrect == Spec => []TypeOK
  BY Invariance, PTL DEF IInv

\* No occurrence of a task is submitted twice, whatever fails or crashes
\* (ShouldFire, AcquireLease, MarkTaskDone).
THEOREM FiresOnce == Spec => []FiresOncePerDue
  BY Invariance, PTL DEF IInv

\* A valid lease that no run holds was left behind by a fault less than a lease
\* duration ago (AcquireLease, MarkTaskDone, executeTask).
THEOREM LeasesExplained == Spec => []BlockedOnlyAfterFault
  <1>1. IInv => BlockedOnlyAfterFault
    <2> SUFFICES ASSUME IInv, NEW t \in Tasks, cur # t \/ loop = "acquire", Leased(t)
                 PROVE  now < faultAt[t] + LeaseDuration
      BY DEF BlockedOnlyAfterFault
    <2>1. lease[t] \in Lease /\ now < lease[t].expires /\ ~Holds(t)
      BY NoneType DEF IInv, TypeOK, Leased, Holds
    <2>2. lease[t].expires <= faultAt[t] + LeaseDuration
      BY <2>1 DEF IInv, LeaseBounded, Leased
    <2>3. QED
      BY <2>1, <2>2, DurationType DEF IInv, TypeOK, Lease
  <1>2. QED
    BY Invariance, <1>1, PTL

=============================================================================
