---------------------------- MODULE MCScheduler ----------------------------
(* A small instance of Scheduler for TLC.                                  *)
EXTENDS Scheduler, TLC

CONSTANTS t1, t2, t3, t4

\* Two tasks whose fire times meet, one whose schedule cannot be parsed, one
\* without a schedule.
MCScheduleOf == t1 :> "cron" @@ t2 :> "cron" @@ t3 :> "bad" @@ t4 :> "empty"
MCPeriod     == t1 :> 1 @@ t2 :> 2 @@ t3 :> 1 @@ t4 :> 1

=============================================================================
