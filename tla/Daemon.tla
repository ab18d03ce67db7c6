------------------------------- MODULE Daemon -------------------------------
(***************************************************************************)
(* Processes running `heike daemon` on one workspace: the manager that     *)
(* brings its components up and down (internal/daemon/manager.go), the     *)
(* Runtime component around the store worker and its file lock             *)
(* (cmd/heike/runtime), the HTTP server and its handlers                   *)
(* (internal/daemon/components/http.go), and daemon.go's deferred Stop.    *)
(*                                                                         *)
(* In a process the main goroutine, the goroutine gracefulShutdown starts  *)
(* (the helper), the store's loop and the request handlers interleave; the *)
(* components' mutexes are state.  What is inside the runtime is in the    *)
(* other modules: here it is the store worker that must not run twice.     *)
(* "Other" is any further component AddComponent may be given.             *)
(***************************************************************************)
EXTENDS FileLock, Sequences, SequencesExt

CONSTANTS
  Registries,   \* the components considered: order of registration and deps,
                \* and, as a bound, the number of processes started with them
  Slots         \* bound: requests a server has in progress

Components == {"Runtime", "HTTPServer", "Other"}

ASSUME DaemonAssumption ==
  \A g \in Registries : g.launches \in Nat /\ g.order \in Seq(Components) \ {<<>>}

\* daemon.go adds the runtime before the server that uses it.
ASSUME RegistryAssumption ==
  \A g \in Registries : \A i, j \in DOMAIN g.order :
    g.order[i] = "Runtime" /\ g.order[j] = "HTTPServer" => i < j

VARIABLES
  reg,       \* the registry of this program
  launches,  \* number of processes started
  main,      \* Daemon.Start and the deferred Stop, per process
  helper,    \* the component shutdownComponents is at, 0 if it does not run
  health,    \* Daemon.health
  rt,        \* the Runtime component
  http,      \* the HTTPServer component
  reqs       \* the requests in progress

daemonVars == <<reg, launches, main, helper, health, rt, http, reqs>>
vars == <<lockVars, daemonVars>>

Actors == {"main", "helper"}
Free   == ""
None   == [kind |-> "none"]

\* gaveUp: a wait of the shutdown was given up, or the whole shutdown left out.
Down       == [phase |-> "down", i |-> 0, force |-> FALSE, ctx |-> FALSE, gaveUp |-> FALSE]
NewRuntime == [built |-> FALSE, started |-> FALSE, stopped |-> FALSE, mu |-> Free,
               store |-> "none", closes |-> 0]
NewServer  == [started |-> FALSE, server |-> "none", mu |-> Free]
NoRequests == [r \in Slots |-> None]

Init ==
  /\ LockInit
  /\ reg \in Registries
  /\ launches = 0
  /\ main = [p \in Procs |-> Down]
  /\ helper = [p \in Procs |-> 0]
  /\ health = [p \in Procs |-> "starting"]
  /\ rt = [p \in Procs |-> NewRuntime]
  /\ http = [p \in Procs |-> NewServer]
  /\ reqs = [p \in Procs |-> NoRequests]

Goto(p, phase, i) == main' = [main EXCEPT ![p].phase = phase, ![p].i = i]

-----------------------------------------------------------------------------
(* The order of initialisation *)

N == Len(reg.order)
Registered == Range(reg.order)

\* What the depth-first search from a component adds to the order, to depth k.
Visit[k \in Nat] ==
  [c \in Registered |->
     IF k = 0 THEN <<>>
     ELSE Append(FlattenSeq([j \in DOMAIN reg.deps[c] |-> Visit[k - 1][reg.deps[c][j]]]), c)]

MissingDependency == \E c \in Registered : ~(Range(reg.deps[c]) \subseteq Registered)

Circular == \E c \in Registered : \E e \in Range(reg.deps[c]) : Contains(Visit[N][e], c)

\* resolveInitOrder: each component behind its dependencies, once.
InitOrder ==
  FoldLeft(LAMBDA order, c : IF Contains(order, c) THEN order ELSE Append(order, c),
           <<>>, FlattenSeq([i \in 1..N |-> Visit[N][reg.order[i]]]))

-----------------------------------------------------------------------------
(* Start: checks, initialisation, start *)

Launch(p, force) ==
  /\ main[p].phase = "down"
  /\ launches < reg.launches
  /\ launches' = launches + 1
  /\ main' = [main EXCEPT ![p] = [Down EXCEPT !.phase = "validate", !.force = force]]
  /\ UNCHANGED <<lockVars, reg, helper, health, rt, http, reqs>>

\* SIGINT or SIGTERM cancels the context.
Signal(p) ==
  /\ main[p].phase # "down" /\ ~main[p].ctx
  /\ main' = [main EXCEPT ![p].ctx = TRUE]
  /\ UNCHANGED <<lockVars, reg, launches, helper, health, rt, http, reqs>>

ValidateConfig(p) ==
  /\ main[p].phase = "validate"
  /\ \/ Goto(p, "deferred", 0)
     \/ Goto(p, IF Stale /\ main[p].force THEN "clean" ELSE "preinit", 0)
  /\ UNCHANGED <<lockVars, reg, launches, helper, health, rt, http, reqs>>

CleanupStaleLocks(p) ==
  /\ main[p].phase = "clean"
  /\ RemoveLockFile
  /\ Goto(p, "preinit", 0)
  /\ UNCHANGED <<reg, launches, helper, health, rt, http, reqs>>

\* preInitChecks ends with a look at its context, whose timeout may have passed;
\* initializeComponents begins with the dependencies.
PreInitChecks(p) ==
  /\ main[p].phase = "preinit"
  /\ \/ Goto(p, "deferred", 0)
     \/ /\ ~main[p].ctx
        /\ IF MissingDependency \/ Circular THEN Goto(p, "rollback", N) ELSE Goto(p, "init", 1)
  /\ UNCHANGED <<lockVars, reg, launches, helper, health, rt, http, reqs>>

InitDone(p) ==
  IF main[p].i < N THEN Goto(p, "init", main[p].i + 1) ELSE Goto(p, "start", 1)

InitFailed(p) == Goto(p, "rollback", N)

\* The component initializeComponents is at; getComponentByName may find none.
Initializing(p) ==
  LET name == InitOrder[main[p].i] IN IF name \in Registered THEN name ELSE "none"

\* Init of the HTTP server and of others.
InitComponent(p) ==
  /\ main[p].phase = "init" /\ Initializing(p) # "Runtime"
  /\ \/ InitDone(p)
     \/ Initializing(p) # "none" /\ InitFailed(p)
  /\ UNCHANGED <<lockVars, reg, launches, helper, health, rt, http, reqs>>

\* Init of Runtime refuses when it was stopped and builds its parts once: first
\* the adapters, which fail when they lack a token, then the store worker.
BuildAdapters(p) ==
  /\ main[p].phase = "init" /\ Initializing(p) = "Runtime"
  /\ \/ InitFailed(p) /\ UNCHANGED lockVars
     \/ /\ ~rt[p].stopped
        /\ IF rt[p].built THEN InitDone(p) /\ UNCHANGED lockVars
           ELSE Goto(p, "lock", main[p].i) /\ NewFileLock(p)
  /\ UNCHANGED <<reg, launches, helper, health, rt, http, reqs>>

AcquireLock(p) ==
  /\ main[p].phase = "lock"
  /\ OpenLock(p) \/ TryLock(p) \/ AbandonLock(p)
  /\ UNCHANGED daemonVars

\* NewWorker gives the lock back when it cannot load its files.
StartStore(p) ==
  /\ main[p].phase = "lock" /\ ~Acquiring(p)
  /\ \/ /\ held[p]
        /\ Goto(p, "build", main[p].i)
        /\ rt' = [rt EXCEPT ![p].store = "running"]
        /\ UNCHANGED lockVars
     \/ Unlock(p) /\ InitFailed(p) /\ UNCHANGED rt
  /\ UNCHANGED <<reg, launches, helper, health, http, reqs>>

\* The rest of NewRuntimeComponents; a failure stops what there is.
BuildRuntime(p) ==
  /\ main[p].phase = "build"
  /\ \/ InitDone(p) /\ rt' = [rt EXCEPT ![p].built = TRUE]
     \/ Goto(p, "cleanup", main[p].i) /\ rt' = [rt EXCEPT ![p].store = "quitting"]
  /\ UNCHANGED <<lockVars, reg, launches, helper, health, http, reqs>>

EndCleanup(p) ==
  /\ main[p].phase = "cleanup" /\ rt[p].store = "ended"
  /\ Unlock(p)
  /\ rt' = [rt EXCEPT ![p].store = "none"]
  /\ InitFailed(p)
  /\ UNCHANGED <<reg, launches, helper, health, http, reqs>>

\* Start of Runtime, which succeeds once it is initialised, as does the server's.
StartRuntime(p) == rt' = [rt EXCEPT ![p].started = TRUE]

\* gracefulShutdown starts the helper; when the timeout of the configuration does
\* not parse it is not called, and Start returns at once.
Shutdown(p) ==
  \/ helper' = [helper EXCEPT ![p] = 1] /\ Goto(p, "shutdown", 0)
  \/ /\ main' = [main EXCEPT ![p].phase = "deferred", ![p].i = 0, ![p].gaveUp = TRUE]
     /\ UNCHANGED helper

\* startComponents, in the order of registration.
StartComponent(p) ==
  /\ main[p].phase = "start"
  /\ LET c    == reg.order[main[p].i]
         last == main[p].i = N
     IN /\ IF c = "Runtime" THEN StartRuntime(p) ELSE UNCHANGED rt
        /\ http' = IF c = "HTTPServer"
                   THEN [http EXCEPT ![p].started = TRUE, ![p].server = "starting"] ELSE http
        /\ \/ /\ Goto(p, IF last THEN "running" ELSE "start", IF last THEN 0 ELSE main[p].i + 1)
              /\ health' = IF last THEN [health EXCEPT ![p] = "running"] ELSE health
              /\ UNCHANGED helper
           \/ c = "Other" /\ Shutdown(p) /\ UNCHANGED health
  /\ UNCHANGED <<lockVars, reg, launches, reqs>>

\* The context is cancelled.
BeginShutdown(p) ==
  /\ main[p].phase = "running" /\ main[p].ctx
  /\ health' = [health EXCEPT ![p] = "stopping"]
  /\ Shutdown(p)
  /\ UNCHANGED <<lockVars, reg, launches, rt, http, reqs>>

\* gracefulShutdown returns when the helper is done, or on its timeout or the
\* cancellation of its parent; then the helper goes on by itself.
EndShutdown(p) ==
  /\ main[p].phase = "shutdown"
  /\ main' = [main EXCEPT ![p].phase = "deferred", ![p].gaveUp = @ \/ helper[p] <= N]
  /\ UNCHANGED <<lockVars, reg, launches, helper, health, rt, http, reqs>>

-----------------------------------------------------------------------------
(* Stopping components *)

\* Mutant of Stopping: components are shut down in the order of registration.
StoppingForward(p, a) ==
  CASE a = "main" /\ main[p].phase = "rollback" -> reg.order[main[p].i]
    [] a = "main" /\ main[p].phase = "deferred" -> "Runtime"
    [] a = "helper" /\ helper[p] \in 1..N -> reg.order[helper[p]]
    [] OTHER -> "none"

\* The component an actor is to stop: rollback goes back over the components,
\* shutdownComponents has them in shutdownOrder, and the deferred call of
\* daemon.go stops Runtime.
Stopping(p, a) ==
  CASE a = "main" /\ main[p].phase = "rollback" -> reg.order[main[p].i]
    [] a = "main" /\ main[p].phase = "deferred" -> "Runtime"
    [] a = "helper" /\ helper[p] \in 1..N -> Reverse(reg.order)[helper[p]]
    [] OTHER -> "none"

\* Stop has returned to the actor, with or without an error; m is main.
Stopped(p, a, m) ==
  IF a = "helper"
  THEN /\ helper' = [helper EXCEPT ![p] = @ + 1]
       /\ health' = IF helper[p] = N THEN [health EXCEPT ![p] = "stopped"] ELSE health
       /\ main' = m
  ELSE /\ main' = IF m[p].phase = "deferred" THEN [m EXCEPT ![p].phase = "return"]
                  ELSE IF m[p].i > 1 THEN [m EXCEPT ![p].i = @ - 1]
                  ELSE [m EXCEPT ![p].phase = "deferred", ![p].i = 0]
       /\ health' = IF m[p].phase = "rollback" /\ m[p].i = 1
                    THEN [health EXCEPT ![p] = "stopped"] ELSE health
       /\ UNCHANGED helper

StopOther(p, a) ==
  /\ Stopping(p, a) = "Other"
  /\ Stopped(p, a, main)
  /\ UNCHANGED <<lockVars, reg, launches, rt, http, reqs>>

\* Mutant of StopRuntime: the early return leaves the mutex locked.
StopRuntimeKeepsMutex(p, a) ==
  /\ Stopping(p, a) = "Runtime"
  /\ rt[p].mu = Free
  /\ IF rt[p].stopped \/ ~rt[p].built
     THEN /\ rt' = [rt EXCEPT ![p].stopped = TRUE, ![p].started = FALSE, ![p].mu = a]
          /\ Stopped(p, a, main)
     ELSE /\ rt' = [rt EXCEPT ![p].mu = a, ![p].store = "quitting", ![p].closes = @ + 1]
          /\ UNCHANGED <<main, helper, health>>
  /\ UNCHANGED <<lockVars, reg, launches, http, reqs>>

\* Stop of Runtime: the first one stops the parts, ingress among them, and
\* closes the store's quit channel, which must not happen twice.
StopRuntime(p, a) ==
  /\ Stopping(p, a) = "Runtime"
  /\ rt[p].mu = Free
  /\ IF rt[p].stopped \/ ~rt[p].built
     THEN /\ rt' = [rt EXCEPT ![p].stopped = TRUE, ![p].started = FALSE]
          /\ Stopped(p, a, main)
     ELSE /\ rt' = [rt EXCEPT ![p].mu = a, ![p].store = "quitting", ![p].closes = @ + 1]
          /\ UNCHANGED <<main, helper, health>>
  /\ UNCHANGED <<lockVars, reg, launches, http, reqs>>

\* The store's loop ends after the request it is at.
LoopExit(p) ==
  /\ rt[p].store = "quitting"
  /\ rt' = [rt EXCEPT ![p].store = "ended"]
  /\ UNCHANGED <<lockVars, reg, launches, main, helper, health, http, reqs>>

\* Mutant of EndRuntimeStop: the file lock is given back while the loop runs.
UnlockAtOnce(p, a) ==
  /\ Stopping(p, a) = "Runtime" /\ rt[p].mu = a
  /\ Unlock(p)
  /\ rt' = [rt EXCEPT ![p].stopped = TRUE, ![p].started = FALSE, ![p].mu = Free]
  /\ Stopped(p, a, main)
  /\ UNCHANGED <<reg, launches, http, reqs>>

\* Worker.Stop waits for the loop and gives the file lock back.
EndRuntimeStop(p, a) ==
  /\ Stopping(p, a) = "Runtime" /\ rt[p].mu = a
  /\ rt[p].store = "ended"
  /\ Unlock(p)
  /\ rt' = [rt EXCEPT ![p].store = "none", ![p].stopped = TRUE, ![p].started = FALSE,
                      ![p].mu = Free]
  /\ Stopped(p, a, main)
  /\ UNCHANGED <<reg, launches, http, reqs>>

\* Stop of the server holds its mutex while Shutdown waits for the requests;
\* only the helper meets a server that was started.
StopHTTP(p, a) ==
  /\ Stopping(p, a) = "HTTPServer"
  /\ http[p].mu = Free
  /\ IF ~http[p].started
     THEN Stopped(p, a, main) /\ UNCHANGED http
     ELSE /\ http' = [http EXCEPT ![p].mu = a, ![p].server = "closed"]
          /\ UNCHANGED <<main, helper, health>>
  /\ UNCHANGED <<lockVars, reg, launches, rt, reqs>>

EndHTTPStop(p) ==
  /\ http[p].mu = "helper"
  /\ reqs[p] = NoRequests
  /\ http' = [http EXCEPT ![p].started = FALSE, ![p].mu = Free]
  /\ Stopped(p, "helper", main)
  /\ UNCHANGED <<lockVars, reg, launches, rt, reqs>>

\* server.shutdown_timeout, or the context of the shutdown, ends the wait.
HTTPStopTimeout(p) ==
  /\ http[p].mu = "helper"
  /\ http' = [http EXCEPT ![p].mu = Free]
  /\ Stopped(p, "helper", [main EXCEPT ![p].gaveUp = TRUE])
  /\ UNCHANGED <<lockVars, reg, launches, rt, reqs>>

StopStep(p, a) ==
  \/ StopOther(p, a)
  \/ StopRuntime(p, a)
  \/ EndRuntimeStop(p, a)
  \/ StopHTTP(p, a)

\* The process is gone: what it had open is closed by the operating system.
Vanish(p) ==
  /\ Unlock(p)
  /\ main' = [main EXCEPT ![p] = Down]
  /\ helper' = [helper EXCEPT ![p] = 0]
  /\ health' = [health EXCEPT ![p] = "starting"]
  /\ rt' = [rt EXCEPT ![p] = NewRuntime]
  /\ http' = [http EXCEPT ![p] = NewServer]
  /\ reqs' = [reqs EXCEPT ![p] = NoRequests]
  /\ UNCHANGED <<reg, launches>>

Exit(p) == main[p].phase = "return" /\ Vanish(p)

Kill(p) == main[p].phase # "down" /\ Vanish(p)

-----------------------------------------------------------------------------
(* The HTTP server *)

\* The goroutine of Start listens; a port in use is only logged.
ListenAndServe(p) ==
  /\ http[p].server = "starting"
  /\ \E server \in {"listening", "failed"} : http' = [http EXCEPT ![p].server = server]
  /\ UNCHANGED <<lockVars, reg, launches, main, helper, health, rt, reqs>>

Kinds == {"api", "health", "stream"}

Arrive(p, r, kind) ==
  /\ http[p].server = "listening"
  /\ reqs[p][r] = None
  /\ reqs' = [reqs EXCEPT ![p][r] = [kind |-> kind, at |-> 1]]
  /\ UNCHANGED <<lockVars, reg, launches, main, helper, health, rt, http>>

Answer(p, r) == reqs' = [reqs EXCEPT ![p][r] = None]
Proceed(p, r) == reqs' = [reqs EXCEPT ![p][r].at = @ + 1]

Serving(p) == rt[p].started /\ ~rt[p].stopped

\* /health asks each component in turn, each under its own mutex.
HealthStep(p, r) ==
  /\ reqs[p][r].kind = "health"
  /\ LET c == reg.order[reqs[p][r].at]
     IN /\ c = "Runtime" => rt[p].mu = Free
        /\ c = "HTTPServer" => http[p].mu = Free
  /\ IF reqs[p][r].at = N THEN Answer(p, r) ELSE Proceed(p, r)

\* Events, sessions, approvals and status: runtimeForAPI looks at the runtime
\* under its mutex, and what it returns is used after the mutex is free again.
APIStep(p, r) ==
  /\ reqs[p][r].kind = "api"
  /\ \/ /\ reqs[p][r].at = 1
        /\ rt[p].mu = Free
        /\ IF Serving(p) THEN Proceed(p, r) ELSE Answer(p, r)
     \/ reqs[p][r].at = 2 /\ Answer(p, r)

\* A stream reads the transcript every tick until the runtime is gone.
StreamStep(p, r) ==
  /\ reqs[p][r].kind = "stream"
  /\ rt[p].mu = Free /\ ~Serving(p)
  /\ Answer(p, r)

RequestStep(p, r) ==
  /\ HealthStep(p, r) \/ APIStep(p, r) \/ StreamStep(p, r)
  /\ UNCHANGED <<lockVars, reg, launches, main, helper, health, rt, http>>

\* The client of a stream closes it.
ClientLeaves(p, r) ==
  /\ reqs[p][r].kind = "stream"
  /\ Answer(p, r)
  /\ UNCHANGED <<lockVars, reg, launches, main, helper, health, rt, http>>

-----------------------------------------------------------------------------
MainStep(p) ==
  \/ ValidateConfig(p)
  \/ CleanupStaleLocks(p)
  \/ PreInitChecks(p)
  \/ InitComponent(p)
  \/ BuildAdapters(p)
  \/ AcquireLock(p)
  \/ StartStore(p)
  \/ BuildRuntime(p)
  \/ EndCleanup(p)
  \/ StartComponent(p)
  \/ BeginShutdown(p)
  \/ EndShutdown(p)
  \/ StopStep(p, "main")
  \/ Exit(p)

HelperStep(p) == StopStep(p, "helper") \/ EndHTTPStop(p) \/ HTTPStopTimeout(p)

Next ==
  \/ GrowOld /\ UNCHANGED daemonVars
  \/ \E p \in Procs :
       \/ \E force \in BOOLEAN : Launch(p, force)
       \/ Signal(p)
       \/ MainStep(p)
       \/ HelperStep(p)
       \/ LoopExit(p)
       \/ Kill(p)
       \/ ListenAndServe(p)
       \/ \E r \in Slots, kind \in Kinds : Arrive(p, r, kind)
       \/ \E r \in Slots : RequestStep(p, r)
       \/ \E r \in Slots : ClientLeaves(p, r)

Fairness ==
  \A p \in Procs :
    /\ WF_vars(MainStep(p))
    /\ WF_vars(HelperStep(p))
    /\ WF_vars(LoopExit(p))

Spec == Init /\ [][Next]_vars /\ Fairness

-----------------------------------------------------------------------------
(* Properties *)

Writing(p) == rt[p].store \in {"running", "quitting"}

\* Two processes never write one workspace at once, through failed starts,
\* shutdowns that time out, kills and restarts, unless --force-clean-locks has
\* removed the file that one of them has locked or was about to lock
\* (NewFileLock, Worker.Stop, CleanupStaleLocks).
OneWriter ==
  \A p, q \in Procs :
    p # q /\ Writing(p) /\ Writing(q) =>
      /\ held[p] /\ held[q]
      /\ handle[p] \in removed \/ handle[q] \in removed

\* Shutdown is orderly in each process: Runtime stops when every request is
\* answered, unless the wait for the requests or for the components was given up,
\* or never begun because its timeout does not parse; the store worker is told to
\* quit once, although the helper and the deferred call may both stop Runtime; and
\* a process that returns, or says that it is stopped, has stopped its store and
\* given the lock back.
ShutdownIsOrderly ==
  \A p \in Procs :
    /\ rt[p].built /\ rt[p].store # "running" /\ ~main[p].gaveUp => reqs[p] = NoRequests
    /\ rt[p].closes <= 1
    /\ main[p].phase = "return" \/ health[p] = "stopped" => ~Writing(p) /\ ~held[p]

\* A process that was told to stop, or that failed to start, ends, even if a
\* health request waits for the mutex that the server's Stop holds while it waits
\* for that request, or a stream is never closed (HTTPServerComponent.Stop,
\* gracefulShutdown, the deferred Stop).
ExitsWhenTold ==
  \A p \in Procs :
    main[p].ctx \/ main[p].phase \in {"rollback", "shutdown", "deferred"}
      ~> main[p].phase = "down"

=============================================================================
