---------------------------- MODULE DaemonProofs ----------------------------
(* Proofs about Daemon, for every number of processes and of requests, and *)
(* every registry that meets the assumptions.                              *)
EXTENDS Daemon, TLAPS

Early    == {"down", "validate", "clean", "preinit", "init", "lock", "build", "cleanup",
             "start", "running"}
Building == {"lock", "build", "cleanup"}
Phases   == Early \cup {"rollback", "shutdown", "deferred", "return"}

MainType == [phase : Phases, i : Nat, force : BOOLEAN, ctx : BOOLEAN, gaveUp : BOOLEAN]
RuntimeType ==
  [built : BOOLEAN, started : BOOLEAN, stopped : BOOLEAN, mu : Actors \cup {Free},
   store : {"none", "running", "quitting", "ended"}, closes : Nat]
ServerType ==
  [started : BOOLEAN, server : {"none", "starting", "listening", "failed", "closed"},
   mu : Actors \cup {Free}]
Healths == {"starting", "running", "stopping", "stopped"}

LockTypeOK ==
  /\ lockFile \in Nat /\ files \in Nat /\ removed \subseteq Nat
  /\ handle \in [Procs -> Nat]
  /\ held \in [Procs -> BOOLEAN]
  /\ tries \in [Procs -> Nat]

TypeOK ==
  /\ LockTypeOK
  /\ reg \in Registries
  /\ main \in [Procs -> MainType]
  /\ helper \in [Procs -> Nat]
  /\ health \in [Procs -> Healths]
  /\ rt \in [Procs -> RuntimeType]
  /\ http \in [Procs -> ServerType]
  /\ DOMAIN reqs = Procs
  /\ \A p \in Procs : DOMAIN reqs[p] = Slots

\* What a process has open is the file that is there or one that was removed.
HandlesKnown ==
  /\ lockFile <= files
  /\ \A p \in Procs :
       /\ handle[p] <= files
       /\ handle[p] # NoFile => handle[p] = lockFile \/ handle[p] \in removed

\* The advisory lock: who holds it has the file open, has ended its attempts,
\* and is alone with that file.
LockExclusive ==
  /\ \A p \in Procs : held[p] => handle[p] # NoFile /\ tries[p] = 0
  /\ \A p, q \in Procs : held[p] /\ held[q] /\ handle[p] = handle[q] => p = q

\* The runtime of a process is built while the process starts, once, and stopped
\* once, by whoever has its mutex; it has the lock as long as it is there.
RuntimeLife(p) ==
  /\ main[p].phase \in Early =>
       helper[p] = 0 /\ ~rt[p].stopped /\ rt[p].mu = Free
  /\ main[p].phase \in {"down", "validate", "clean", "preinit"} \cup Building => ~rt[p].built
  /\ tries[p] > 0 => main[p].phase = "lock"
  /\ main[p].phase = "lock" => rt[p].store = "none"
  /\ main[p].phase = "build" => held[p] /\ rt[p].store = "running"
  /\ main[p].phase = "cleanup" => held[p] /\ rt[p].store \in {"quitting", "ended"}
  /\ held[p] \/ rt[p].store # "none" =>
       main[p].phase \in Building \/ (rt[p].built /\ ~rt[p].stopped)
  /\ rt[p].built /\ ~rt[p].stopped =>
       /\ held[p]
       /\ rt[p].mu = Free => rt[p].store = "running"
       /\ rt[p].mu # Free => rt[p].store \in {"quitting", "ended"}
  /\ rt[p].mu # Free => rt[p].built /\ ~rt[p].stopped
  /\ rt[p].mu = Free /\ (~rt[p].built \/ ~rt[p].stopped) => rt[p].closes = 0
  /\ rt[p].closes <= 1
  /\ main[p].phase = "return" => rt[p].stopped

LockInv == TypeOK /\ HandlesKnown /\ LockExclusive /\ \A p \in Procs : RuntimeLife(p)

ShutdownOrder == Reverse(reg.order)

\* The server of a process: it takes requests from the time it is started until the
\* helper closes it, and it has none left when that is over, or the wait was given up.
ServerLife(p) ==
  /\ main[p].phase \in (Early \ {"start", "running"}) \cup {"rollback"} => ~http[p].started
  /\ ~http[p].started =>
       http[p].server \in {"none", "closed"} /\ http[p].mu = Free /\ reqs[p] = NoRequests
  /\ http[p].started => "HTTPServer" \in Registered
  /\ http[p].mu # Free =>
       /\ http[p].mu = "helper" /\ http[p].server = "closed"
       /\ helper[p] \in 1..N /\ ShutdownOrder[helper[p]] = "HTTPServer"
  /\ ~main[p].gaveUp /\ helper[p] > 0
       /\ (\A k \in 1..N : ShutdownOrder[k] = "HTTPServer" => k < helper[p]) => ~http[p].started
  /\ ~main[p].gaveUp /\ main[p].phase \in {"deferred", "return"} => ~http[p].started
  /\ ~main[p].gaveUp /\ rt[p].built /\ rt[p].store # "running" => ~http[p].started

\* What the helper and the rollback have passed is stopped.
Progress(p) ==
  /\ helper[p] <= N + 1
  /\ helper[p] > 0 => main[p].phase \in {"shutdown", "deferred", "return"}
  /\ main[p].phase = "shutdown" => helper[p] > 0
  /\ \A k \in 1..N : ShutdownOrder[k] = "Runtime" /\ k < helper[p] => rt[p].stopped
  /\ main[p].phase \in {"start", "rollback"} => main[p].i \in 1..N
  /\ main[p].phase = "rollback" =>
       \A k \in 1..N : reg.order[k] = "Runtime" /\ k > main[p].i => rt[p].stopped
  /\ rt[p].built \/ main[p].phase \in Building => "Runtime" \in Registered
  /\ health[p] = "stopped" =>
       main[p].phase \notin Early \cup {"rollback"} /\ (rt[p].built => rt[p].stopped)

IInv == LockInv /\ \A p \in Procs : ServerLife(p) /\ Progress(p)

LEMMA OrderType ==
    ASSUME reg \in Registries
    PROVE  /\ reg.order \in Seq(Components)
           /\ N \in Nat \ {0}
           /\ Registered \subseteq Components
  BY DaemonAssumption DEF N, Registered, Range

LEMMA InitIInv == Init => IInv
  <1> SUFFICES ASSUME Init
               PROVE  IInv
    OBVIOUS
  <1>1. TypeOK
    BY DEF Init, LockInit, TypeOK, LockTypeOK, Down, NewRuntime, NewServer, NoRequests,
           MainType, RuntimeType, ServerType, Phases, Early, NoFile, Free, Actors, Healths
  <1>2. HandlesKnown /\ LockExclusive
    BY DEF Init, LockInit, HandlesKnown, LockExclusive, NoFile
  <1>3. ASSUME NEW p \in Procs
        PROVE  RuntimeLife(p) /\ ServerLife(p) /\ Progress(p)
    <2>1. /\ main[p] = Down /\ rt[p] = NewRuntime /\ http[p] = NewServer /\ reqs[p] = NoRequests
          /\ helper[p] = 0 /\ health[p] = "starting" /\ ~held[p] /\ tries[p] = 0
      BY DEF Init, LockInit
    <2>2. RuntimeLife(p)
      BY <2>1 DEF RuntimeLife, Down, NewRuntime, Early, Building
    <2>3. ServerLife(p)
      BY <2>1 DEF ServerLife, Down, NewRuntime, NewServer, Early
    <2>4. Progress(p)
      BY <1>1, <2>1, OrderType DEF Progress, Down, NewRuntime, Early, Building, TypeOK
    <2>5. QED
      BY <2>2, <2>3, <2>4
  <1>4. QED
    BY <1>1, <1>2, <1>3 DEF IInv, LockInv

-----------------------------------------------------------------------------
(* The lock file *)

LockFacts == LockTypeOK /\ HandlesKnown /\ LockExclusive

\* The steps on the lock file, and what a process must not do with a lock it has.
LockOp(p) ==
  \/ UNCHANGED lockVars
  \/ GrowOld
  \/ RemoveLockFile
  \/ ~held[p] /\ NewFileLock(p)
  \/ OpenLock(p)
  \/ TryLock(p)
  \/ AbandonLock(p)
  \/ Unlock(p)

\* No step of a process on the file makes two processes hold one file.
LEMMA LockSteps ==
    ASSUME LockFacts, NEW p \in Procs, LockOp(p)
    PROVE  /\ LockFacts'
           /\ \A q \in Procs \ {p} : held'[q] = held[q] /\ tries'[q] = tries[q]
  <1> USE DEF LockFacts, LockTypeOK, HandlesKnown, LockExclusive, NoFile
  <1>1. CASE UNCHANGED lockVars
    BY <1>1 DEF lockVars
  <1>2. CASE GrowOld
    BY <1>2 DEF GrowOld
  <1>3. CASE RemoveLockFile
    <2>1. CASE UNCHANGED <<lockFile, removed>>
      BY <1>3, <2>1 DEF RemoveLockFile
    <2>2. CASE lockFile' = NoFile /\ removed' = removed \cup {lockFile}
      <3>1. HandlesKnown'
        BY <1>3, <2>2 DEF RemoveLockFile
      <3>2. LockTypeOK' /\ LockExclusive'
        BY <1>3, <2>2 DEF RemoveLockFile
      <3>3. QED
        BY <1>3, <3>1, <3>2 DEF RemoveLockFile
    <2>3. QED
      BY <1>3, <2>1, <2>2 DEF RemoveLockFile
  <1>4. CASE ~held[p] /\ NewFileLock(p)
    BY <1>4, FileLockAssumption DEF NewFileLock
  <1>5. CASE OpenLock(p)
    BY <1>5 DEF OpenLock
  <1>6. CASE TryLock(p)
    <2>1. CASE Lockable(p)
      <3>1. held' = [held EXCEPT ![p] = TRUE] /\ tries' = [tries EXCEPT ![p] = 0]
            /\ UNCHANGED <<handle, lockFile, files, removed>>
        BY <1>6, <2>1 DEF TryLock
      <3>2. LockExclusive'
        BY <1>6, <2>1, <3>1 DEF TryLock, Lockable
      <3>3. QED
        BY <3>1, <3>2
    <2>2. CASE ~Lockable(p)
      BY <1>6, <2>2 DEF TryLock
    <2>3. QED
      BY <2>1, <2>2
  <1>7. CASE AbandonLock(p)
    BY <1>7 DEF AbandonLock
  <1>8. CASE Unlock(p)
    BY <1>8 DEF Unlock
  <1>9. QED
    BY <1>1, <1>2, <1>3, <1>4, <1>5, <1>6, <1>7, <1>8 DEF LockOp

-----------------------------------------------------------------------------
(* The steps of a process *)

\* What the invariant says of a process depends on that process only.
Life(p) == RuntimeLife(p) /\ ServerLife(p) /\ Progress(p)

Same(q) ==
  /\ main'[q] = main[q] /\ helper'[q] = helper[q] /\ health'[q] = health[q]
  /\ rt'[q] = rt[q] /\ http'[q] = http[q] /\ reqs'[q] = reqs[q]
  /\ held'[q] = held[q] /\ tries'[q] = tries[q]

LEMMA OthersKeep ==
    ASSUME NEW q \in Procs, Life(q), Same(q), reg' = reg
    PROVE  Life(q)'
  BY DEF Life, Same, RuntimeLife, ServerLife, Progress, N, ShutdownOrder, Registered

LEMMA GotoFacts ==
    ASSUME TypeOK, NEW p \in Procs, NEW phase \in Phases, NEW i \in Nat, Goto(p, phase, i)
    PROVE  /\ main' \in [Procs -> MainType]
           /\ main'[p].phase = phase /\ main'[p].i = i /\ main'[p].gaveUp = main[p].gaveUp
           /\ \A q \in Procs \ {p} : main'[q] = main[q]
  BY DEF Goto, TypeOK, MainType

\* What a step of p establishes.
Good(p) ==
  /\ TypeOK' /\ LockOp(p) /\ reg' = reg
  /\ \A q \in Procs \ {p} : Same(q)
  /\ Life(p)'

\* A step changes the state of its own process only, within the types.
Local(p) ==
  /\ LockOp(p) /\ reg' = reg
  /\ main' \in [Procs -> MainType] /\ \A q \in Procs \ {p} : main'[q] = main[q]
  /\ helper' \in [Procs -> Nat] /\ \A q \in Procs \ {p} : helper'[q] = helper[q]
  /\ health' \in [Procs -> Healths] /\ \A q \in Procs \ {p} : health'[q] = health[q]
  /\ rt' \in [Procs -> RuntimeType] /\ \A q \in Procs \ {p} : rt'[q] = rt[q]
  /\ http' \in [Procs -> ServerType] /\ \A q \in Procs \ {p} : http'[q] = http[q]
  /\ DOMAIN reqs' = Procs /\ DOMAIN reqs'[p] = Slots
  /\ \A q \in Procs \ {p} : reqs'[q] = reqs[q]

LEMMA LocalIsGood ==
    ASSUME IInv, NEW p \in Procs, Local(p), Life(p)'
    PROVE  Good(p)
  <1>1. LockFacts' /\ \A q \in Procs \ {p} : held'[q] = held[q] /\ tries'[q] = tries[q]
    BY LockSteps DEF IInv, LockInv, TypeOK, LockFacts, Local
  <1>2. QED
    BY <1>1 DEF Good, Same, TypeOK, IInv, LockInv, LockFacts, Local

LEMMA MainOnly ==
    ASSUME IInv, NEW p \in Procs, main' \in [Procs -> MainType],
           \A q \in Procs \ {p} : main'[q] = main[q],
           LockOp(p), UNCHANGED <<reg, helper, health, rt, http, reqs>>
    PROVE  Local(p)
  BY DEF Local, TypeOK, IInv, LockInv

\* A step that moves main from one phase to another and leaves the rest alone.
LEMMA Moved ==
    ASSUME IInv, NEW p \in Procs, LockOp(p),
           UNCHANGED <<reg, helper, health, rt, http, reqs>>,
           held'[p] = held[p], tries'[p] = tries[p],
           main' \in [Procs -> MainType], \A q \in Procs \ {p} : main'[q] = main[q],
           main'[p].gaveUp = main[p].gaveUp \/ main[p].phase = "down",
           \/ main'[p].phase = main[p].phase /\ main'[p].i = main[p].i
           \/ main[p].phase = "down" /\ main'[p].phase = "validate"
           \/ /\ main[p].phase \in {"validate", "clean", "preinit"}
              /\ main'[p].phase \in {"clean", "preinit", "init", "deferred"}
           \/ /\ main[p].phase \in {"preinit", "init"}
              /\ main'[p].phase = "rollback" /\ main'[p].i = N
           \/ main[p].phase = "init" /\ main'[p].phase = "init"
           \/ main[p].phase = "init" /\ main'[p].phase = "start" /\ main'[p].i = 1
           \/ /\ main[p].phase = "init" /\ main'[p].phase = "lock" /\ ~rt[p].built
              /\ "Runtime" \in Registered
    PROVE  Good(p)
  <1>0. TypeOK /\ Life(p) /\ N \in Nat \ {0}
    BY OrderType DEF Life, TypeOK, IInv, LockInv
  <1>1. RuntimeLife(p)'
    BY <1>0 DEF Life, RuntimeLife, Early, Building
  <1>2. ServerLife(p)'
    BY <1>0 DEF Life, RuntimeLife, ServerLife, Early, Building, N, ShutdownOrder, Registered
  <1>3. Progress(p)'
    BY <1>0 DEF Life, RuntimeLife, Progress, Early, Building, N, ShutdownOrder, Registered
  <1>4. QED
    BY <1>1, <1>2, <1>3, MainOnly, LocalIsGood DEF Life

LEMMA BeginSteps ==
    ASSUME IInv, NEW p \in Procs
    PROVE  /\ \A force \in BOOLEAN : Launch(p, force) => Good(p)
           /\ Signal(p) => Good(p)
           /\ ValidateConfig(p) => Good(p)
           /\ CleanupStaleLocks(p) => Good(p)
           /\ PreInitChecks(p) => Good(p)
           /\ InitComponent(p) => Good(p)
  <1>0. TypeOK /\ N \in Nat \ {0}
    BY OrderType DEF TypeOK, IInv, LockInv
  <1> USE DEF Phases, Early, LockOp, lockVars
  <1>1. ASSUME NEW force \in BOOLEAN, Launch(p, force)
        PROVE  Good(p)
    <2>1. /\ main' \in [Procs -> MainType] /\ main[p].phase = "down"
          /\ main'[p].phase = "validate"
          /\ \A q \in Procs \ {p} : main'[q] = main[q]
      BY <1>0, <1>1 DEF Launch, TypeOK, MainType, Down
    <2>2. QED
      BY <1>1, <2>1, Moved DEF Launch
  <1>2. CASE Signal(p)
    <2>1. /\ main' \in [Procs -> MainType] /\ main'[p].phase = main[p].phase
          /\ main'[p].i = main[p].i /\ main'[p].gaveUp = main[p].gaveUp
          /\ \A q \in Procs \ {p} : main'[q] = main[q]
      BY <1>0, <1>2 DEF Signal, TypeOK, MainType
    <2>2. QED
      BY <1>2, <2>1, Moved DEF Signal
  <1>3. CASE ValidateConfig(p)
    <2>1. PICK phase \in {"deferred", "clean", "preinit"} : Goto(p, phase, 0)
      BY <1>3 DEF ValidateConfig
    <2>2. QED
      BY <1>0, <1>3, <2>1, GotoFacts, Moved DEF ValidateConfig
  <1>4. CASE CleanupStaleLocks(p)
    BY <1>0, <1>4, GotoFacts, Moved DEF CleanupStaleLocks, RemoveLockFile
  <1>5. CASE PreInitChecks(p)
    <2>1. \/ Goto(p, "deferred", 0) \/ Goto(p, "rollback", N) \/ Goto(p, "init", 1)
      BY <1>5 DEF PreInitChecks
    <2>2. QED
      BY <1>0, <1>5, <2>1, GotoFacts, Moved DEF PreInitChecks
  <1>6. CASE InitComponent(p)
    <2>1. \/ Goto(p, "init", main[p].i + 1) \/ Goto(p, "start", 1) \/ Goto(p, "rollback", N)
      BY <1>6 DEF InitComponent, InitDone, InitFailed
    <2>2. main[p].i + 1 \in Nat
      BY <1>0 DEF TypeOK, MainType
    <2>3. QED
      BY <1>0, <1>6, <2>1, <2>2, GotoFacts, Moved DEF InitComponent
  <1>7. QED
    BY <1>1, <1>2, <1>3, <1>4, <1>5, <1>6

LEMMA BuildSteps ==
    ASSUME IInv, NEW p \in Procs
    PROVE  /\ BuildAdapters(p) => Good(p)
           /\ AcquireLock(p) => Good(p)
           /\ StartStore(p) => Good(p)
           /\ BuildRuntime(p) => Good(p)
           /\ EndCleanup(p) => Good(p)
  <1>0. TypeOK /\ N \in Nat \ {0} /\ Life(p)
    BY OrderType DEF TypeOK, IInv, LockInv, Life
  <1>1. CASE BuildAdapters(p)
    <2>1. CASE UNCHANGED lockVars
      <3>1. \/ Goto(p, "init", main[p].i + 1) \/ Goto(p, "start", 1) \/ Goto(p, "rollback", N)
            \/ Goto(p, "lock", main[p].i) /\ NewFileLock(p)
        BY <1>1 DEF BuildAdapters, InitDone, InitFailed
      <3>2. main[p].i + 1 \in Nat /\ ~(NewFileLock(p) /\ UNCHANGED lockVars /\ main[p].phase = "init")
        BY <1>0, FileLockAssumption DEF TypeOK, LockTypeOK, MainType, NewFileLock, lockVars, Life, RuntimeLife
      <3>3. QED
        BY <1>0, <1>1, <2>1, <3>1, <3>2, GotoFacts, Moved
           DEF BuildAdapters, Phases, Early, LockOp, lockVars
    <2>2. CASE ~rt[p].built /\ Goto(p, "lock", main[p].i) /\ NewFileLock(p)
      <3>1. /\ main[p].phase = "init" /\ "Runtime" \in Registered
            /\ UNCHANGED <<reg, launches, helper, health, rt, http, reqs>>
        BY <1>1 DEF BuildAdapters, Initializing
      <3>2. /\ main' \in [Procs -> MainType] /\ main'[p].phase = "lock"
            /\ main'[p].gaveUp = main[p].gaveUp /\ \A q \in Procs \ {p} : main'[q] = main[q]
        BY <1>0, <2>2, GotoFacts DEF Phases, Early, TypeOK, MainType
      <3>3. ~held[p] /\ held' = held /\ LockOp(p)
        BY <1>0, <2>2, <3>1 DEF Life, RuntimeLife, Building, NewFileLock, LockOp
      <3>4. RuntimeLife(p)'
        BY <1>0, <2>2, <3>1, <3>2, <3>3 DEF Life, RuntimeLife, Early, Building
      <3>5. ServerLife(p)'
        BY <1>0, <2>2, <3>1, <3>2 DEF Life, RuntimeLife, ServerLife, Early, Building, N, ShutdownOrder, Registered
      <3>6. Progress(p)'
        BY <1>0, <2>2, <3>1, <3>2
           DEF Life, RuntimeLife, Progress, Early, Building, N, ShutdownOrder, Registered
      <3>7. QED
        BY <3>1, <3>2, <3>3, <3>4, <3>5, <3>6, MainOnly, LocalIsGood DEF Life
    <2>3. QED
      BY <1>1, <2>1, <2>2 DEF BuildAdapters
  <1>2. CASE AcquireLock(p)
    <2>1. main[p].phase = "lock" /\ LockOp(p) /\ UNCHANGED daemonVars
      BY <1>2 DEF AcquireLock, LockOp
    <2>3. RuntimeLife(p)'
      BY <1>0, <2>1 DEF Life, RuntimeLife, Early, Building, daemonVars
    <2>4. ServerLife(p)' /\ Progress(p)'
      BY <1>0, <2>1 DEF Life, ServerLife, Progress, N, ShutdownOrder, Registered, daemonVars
    <2>5. QED
      BY <1>0, <2>1, <2>3, <2>4, MainOnly, LocalIsGood DEF Life, daemonVars, TypeOK
  <1>3. CASE StartStore(p)
    <2>0. main[p].phase = "lock" /\ tries[p] = 0 /\ ~rt[p].built /\ ~rt[p].stopped
          /\ UNCHANGED <<reg, launches, helper, health, http, reqs>> /\ LockOp(p)
      BY <1>0, <1>3
         DEF StartStore, Acquiring, Life, RuntimeLife, Early, Building, TypeOK, LockTypeOK, LockOp
    <2>1. CASE /\ held[p] /\ Goto(p, "build", main[p].i)
               /\ rt' = [rt EXCEPT ![p].store = "running"] /\ UNCHANGED lockVars
      <3>1. /\ main' \in [Procs -> MainType] /\ main'[p].phase = "build"
            /\ main'[p].gaveUp = main[p].gaveUp /\ \A q \in Procs \ {p} : main'[q] = main[q]
        BY <1>0, <2>1, GotoFacts DEF Phases, Early, TypeOK, MainType
      <3>2. /\ rt' \in [Procs -> RuntimeType] /\ rt'[p] = [rt[p] EXCEPT !.store = "running"]
            /\ \A q \in Procs \ {p} : rt'[q] = rt[q]
        BY <1>0, <2>1 DEF TypeOK, RuntimeType
      <3>3. /\ rt'[p].built = rt[p].built /\ rt'[p].stopped = rt[p].stopped
            /\ rt'[p].mu = rt[p].mu /\ rt'[p].closes = rt[p].closes /\ rt'[p].store = "running"
        BY <1>0, <3>2 DEF TypeOK, RuntimeType
      <3>4. RuntimeLife(p)'
        BY <1>0, <2>0, <2>1, <3>1, <3>3 DEF Life, RuntimeLife, Early, Building, lockVars
      <3>5. ServerLife(p)'
        BY <1>0, <2>0, <3>1, <3>3 DEF Life, ServerLife, Early, N, ShutdownOrder, Registered
      <3>6. Progress(p)'
        BY <1>0, <2>0, <3>1, <3>3
           DEF Life, Progress, Early, Building, N, ShutdownOrder, Registered
      <3>7. QED
        BY <1>0, <2>0, <3>1, <3>2, <3>4, <3>5, <3>6, LocalIsGood DEF Life, Local, TypeOK
    <2>2. CASE Unlock(p) /\ InitFailed(p) /\ UNCHANGED rt
      <3>1. /\ main' \in [Procs -> MainType] /\ main'[p].phase = "rollback" /\ main'[p].i = N
            /\ main'[p].gaveUp = main[p].gaveUp /\ \A q \in Procs \ {p} : main'[q] = main[q]
        BY <1>0, <2>2, GotoFacts DEF Phases, InitFailed
      <3>2. ~held'[p] /\ tries'[p] = 0
        BY <1>0, <2>2 DEF Unlock, TypeOK, LockTypeOK
      <3>3. RuntimeLife(p)'
        BY <1>0, <2>0, <2>2, <3>1, <3>2 DEF Life, RuntimeLife, Early, Building
      <3>4. ServerLife(p)'
        BY <1>0, <2>0, <2>2, <3>1 DEF Life, RuntimeLife, ServerLife, Early, N, ShutdownOrder, Registered
      <3>5. Progress(p)'
        BY <1>0, <2>0, <2>2, <3>1
           DEF Life, RuntimeLife, Progress, Early, Building, N, ShutdownOrder, Registered
      <3>6. QED
        BY <2>0, <2>2, <3>1, <3>3, <3>4, <3>5, MainOnly, LocalIsGood DEF Life
    <2>3. QED
      BY <1>3, <2>1, <2>2 DEF StartStore
  <1>4. CASE BuildRuntime(p)
    <2>0. /\ main[p].phase = "build" /\ rt[p].store = "running" /\ held[p] /\ "Runtime" \in Registered
          /\ ~rt[p].built /\ ~rt[p].stopped /\ rt[p].mu = Free /\ helper[p] = 0
          /\ ~http[p].started /\ health[p] # "stopped" /\ main[p].i + 1 \in Nat
          /\ UNCHANGED <<lockVars, reg, launches, helper, health, http, reqs>> /\ LockOp(p)
      BY <1>0, <1>4 DEF BuildRuntime, Life, RuntimeLife, ServerLife, Progress, Early, Building,
                        LockOp, TypeOK, MainType
    <2>1. PICK built \in BOOLEAN, store \in {"running", "quitting"},
               phase \in {"init", "start", "cleanup"}, i \in Nat :
            /\ rt' = [rt EXCEPT ![p].built = built, ![p].store = store]
            /\ Goto(p, phase, i) /\ (phase = "start" => i = 1)
            /\ phase = "cleanup" <=> ~built
            /\ store = "running" <=> built
      <3>1. CASE InitDone(p) /\ rt' = [rt EXCEPT ![p].built = TRUE]
        <4>1. rt' = [rt EXCEPT ![p].built = TRUE, ![p].store = "running"]
          BY <1>0, <2>0, <3>1 DEF TypeOK, RuntimeType
        <4>2. QED
          BY <2>0, <3>1, <4>1 DEF InitDone
      <3>2. CASE Goto(p, "cleanup", main[p].i) /\ rt' = [rt EXCEPT ![p].store = "quitting"]
        <4>1. rt' = [rt EXCEPT ![p].built = FALSE, ![p].store = "quitting"]
          BY <1>0, <2>0, <3>2 DEF TypeOK, RuntimeType
        <4>2. main[p].i \in Nat
          BY <1>0 DEF TypeOK, MainType
        <4>3. QED
          BY <2>0, <3>2, <4>1, <4>2
      <3>3. QED
        BY <1>4, <3>1, <3>2 DEF BuildRuntime
    <2>2. /\ main' \in [Procs -> MainType] /\ main'[p].phase = phase /\ main'[p].i = i
          /\ main'[p].gaveUp = main[p].gaveUp /\ \A q \in Procs \ {p} : main'[q] = main[q]
      BY <1>0, <2>1, GotoFacts DEF Phases, Early
    <2>3. /\ rt' \in [Procs -> RuntimeType] /\ \A q \in Procs \ {p} : rt'[q] = rt[q]
          /\ rt'[p].built = built /\ rt'[p].stopped = rt[p].stopped /\ rt'[p].mu = rt[p].mu
          /\ rt'[p].closes = rt[p].closes /\ rt'[p].store = store
      BY <1>0, <2>1 DEF TypeOK, RuntimeType
    <2>4. RuntimeLife(p)'
      BY <1>0, <2>0, <2>1, <2>2, <2>3 DEF Life, RuntimeLife, Early, Building, lockVars
    <2>5. ServerLife(p)'
      BY <1>0, <2>0, <2>1, <2>2, <2>3
         DEF Life, ServerLife, Early, N, ShutdownOrder, Registered
    <2>6. Progress(p)'
      BY <1>0, <2>0, <2>1, <2>2, <2>3
         DEF Life, Progress, Early, Building, N, ShutdownOrder, Registered
    <2>7. QED
      BY <1>0, <2>0, <2>2, <2>3, <2>4, <2>5, <2>6, LocalIsGood DEF Life, Local, TypeOK
  <1>5. CASE EndCleanup(p)
    <2>0. /\ main[p].phase = "cleanup" /\ ~rt[p].built /\ ~rt[p].stopped
          /\ UNCHANGED <<reg, launches, helper, health, http, reqs>> /\ LockOp(p)
      BY <1>0, <1>5 DEF EndCleanup, Life, RuntimeLife, Early, Building, LockOp
    <2>1. /\ main' \in [Procs -> MainType] /\ main'[p].phase = "rollback" /\ main'[p].i = N
          /\ main'[p].gaveUp = main[p].gaveUp /\ \A q \in Procs \ {p} : main'[q] = main[q]
      BY <1>0, <1>5, GotoFacts DEF EndCleanup, Phases, InitFailed
    <2>2. ~held'[p] /\ tries'[p] = 0
      BY <1>0, <1>5 DEF EndCleanup, Unlock, TypeOK, LockTypeOK
    <2>3. /\ rt' \in [Procs -> RuntimeType] /\ \A q \in Procs \ {p} : rt'[q] = rt[q]
          /\ rt'[p].built = rt[p].built /\ rt'[p].stopped = rt[p].stopped
          /\ rt'[p].mu = rt[p].mu /\ rt'[p].closes = rt[p].closes /\ rt'[p].store = "none"
      BY <1>0, <1>5 DEF EndCleanup, TypeOK, RuntimeType
    <2>4. RuntimeLife(p)'
      BY <1>0, <2>0, <2>1, <2>2, <2>3 DEF Life, RuntimeLife, Early, Building
    <2>5. ServerLife(p)'
      BY <1>0, <2>0, <2>1, <2>3
         DEF Life, RuntimeLife, ServerLife, Early, N, ShutdownOrder, Registered
    <2>6. Progress(p)'
      BY <1>0, <2>0, <2>1, <2>3
         DEF Life, RuntimeLife, Progress, Early, Building, N, ShutdownOrder, Registered
    <2>7. QED
      BY <1>0, <2>0, <2>1, <2>3, <2>4, <2>5, <2>6, LocalIsGood DEF Life, Local, TypeOK
  <1>6. QED
    BY <1>1, <1>2, <1>3, <1>4, <1>5

\* The server is stopped before the runtime, and is one of those to be stopped.
LEMMA ServerFirst ==
    ASSUME reg \in Registries
    PROVE  /\ \A j, k \in 1..N :
                ShutdownOrder[j] = "Runtime" /\ ShutdownOrder[k] = "HTTPServer" => k < j
           /\ \A c \in Registered : \E k \in 1..N : ShutdownOrder[k] = c
           /\ \A c \in Registered : \E k \in 1..N : reg.order[k] = c
  <1>1. reg.order \in Seq(Components) /\ N \in Nat /\ DOMAIN reg.order = 1..N
    BY OrderType DEF N
  <1>2. \A k \in 1..N : ShutdownOrder[k] = reg.order[N - k + 1] /\ N - k + 1 \in 1..N
    BY <1>1 DEF ShutdownOrder, Reverse, N
  <1>3. \A j, k \in 1..N :
          ShutdownOrder[j] = "Runtime" /\ ShutdownOrder[k] = "HTTPServer" => k < j
    <2> SUFFICES ASSUME NEW j \in 1..N, NEW k \in 1..N,
                        ShutdownOrder[j] = "Runtime", ShutdownOrder[k] = "HTTPServer"
                 PROVE  k < j
      OBVIOUS
    <2>1. N - j + 1 < N - k + 1
      BY <1>1, <1>2, RegistryAssumption
    <2>2. QED
      BY <1>1, <2>1
  <1>4. \A c \in Registered : \E k \in 1..N : reg.order[k] = c
    BY <1>1 DEF Registered, Range
  <1>5. \A c \in Registered : \E k \in 1..N : ShutdownOrder[k] = c
    <2> SUFFICES ASSUME NEW c \in Registered
                 PROVE  \E k \in 1..N : ShutdownOrder[k] = c
      OBVIOUS
    <2>1. PICK k \in 1..N : reg.order[k] = c
      BY <1>4
    <2>2. N - k + 1 \in 1..N /\ N - (N - k + 1) + 1 = k
      BY <1>1
    <2>3. QED
      BY <1>2, <2>1, <2>2
  <1>6. QED
    BY <1>3, <1>4, <1>5

\* The helper begins with nothing passed.
LEMMA FirstOfOrder ==
    ASSUME reg \in Registries, reg' = reg
    PROVE  /\ N' = N /\ Registered' = Registered /\ ShutdownOrder' = ShutdownOrder
           /\ "HTTPServer" \in Registered =>
                \E k \in 1..N : ShutdownOrder[k] = "HTTPServer" /\ ~(k < 1)
  BY ServerFirst DEF N, Registered, ShutdownOrder

\* Start leaves the graceful shutdown out.
LeftOut(p) ==
  /\ main' = [main EXCEPT ![p].phase = "deferred", ![p].i = 0, ![p].gaveUp = TRUE]
  /\ helper' = helper

\* Then the deferred Stop finds the process as it was running.
LEMMA LeftOutKeeps ==
    ASSUME IInv, TypeOK, N \in Nat \ {0}, NEW p \in Procs, Life(p), LeftOut(p),
           main[p].phase \in {"start", "running"}, helper[p] = 0, rt[p].mu = Free,
           ~rt[p].stopped, rt[p].built => rt[p].store = "running",
           UNCHANGED <<lockVars, reg, http, reqs>>, LockOp(p),
           rt' \in [Procs -> RuntimeType], \A q \in Procs \ {p} : rt'[q] = rt[q],
           rt'[p].built = rt[p].built, rt'[p].stopped = rt[p].stopped,
           rt'[p].mu = rt[p].mu, rt'[p].closes = rt[p].closes, rt'[p].store = rt[p].store,
           health' \in [Procs -> Healths], \A q \in Procs \ {p} : health'[q] = health[q],
           health'[p] # "stopped"
    PROVE  Good(p)
  <1>1. /\ main' \in [Procs -> MainType] /\ \A q \in Procs \ {p} : main'[q] = main[q]
        /\ main'[p].gaveUp /\ main'[p].phase = "deferred"
    <2> DEFINE r == [main[p] EXCEPT !.phase = "deferred", !.i = 0, !.gaveUp = TRUE]
    <2>1. r \in MainType /\ r.gaveUp /\ r.phase = "deferred"
      BY DEF TypeOK, MainType, Phases
    <2>2. main' = [main EXCEPT ![p] = r]
      BY DEF LeftOut, TypeOK
    <2> HIDE DEF r
    <2>3. QED
      BY <2>1, <2>2 DEF TypeOK
  <1>2. RuntimeLife(p)'
    BY <1>1 DEF Life, LeftOut, RuntimeLife, Early, Building, lockVars
  <1>3. ServerLife(p)'
    BY <1>1 DEF LeftOut, Life, ServerLife, Early, N, ShutdownOrder, Registered
  <1>4. Progress(p)'
    BY <1>1 DEF LeftOut, Life, Progress, Early, Building, N, ShutdownOrder, Registered
  <1>5. QED
    BY <1>1, <1>2, <1>3, <1>4, LocalIsGood DEF LeftOut, Life, Local, TypeOK

LEMMA StartSteps ==
    ASSUME IInv, NEW p \in Procs
    PROVE  /\ StartComponent(p) => Good(p)
           /\ BeginShutdown(p) => Good(p)
           /\ EndShutdown(p) => Good(p)
  <1>0. TypeOK /\ N \in Nat \ {0} /\ Life(p)
    BY OrderType DEF TypeOK, IInv, LockInv, Life
  <1>1. CASE StartComponent(p)
    <2>0. /\ main[p].phase = "start" /\ main[p].i \in 1..N
          /\ helper[p] = 0 /\ rt[p].mu = Free /\ ~rt[p].stopped /\ health[p] # "stopped"
          /\ UNCHANGED <<lockVars, reg, launches, reqs>> /\ LockOp(p)
          /\ rt[p].built => rt[p].store = "running"
      BY <1>0, <1>1 DEF StartComponent, Life, RuntimeLife, Progress, Early, LockOp
    <2>1. reg.order[main[p].i] \in Registered
      BY <1>0, <2>0, OrderType DEF Registered, Range, N, TypeOK
    <2>2. /\ rt' \in [Procs -> RuntimeType] /\ \A q \in Procs \ {p} : rt'[q] = rt[q]
          /\ rt'[p].built = rt[p].built /\ rt'[p].stopped = rt[p].stopped
          /\ rt'[p].mu = rt[p].mu /\ rt'[p].closes = rt[p].closes /\ rt'[p].store = rt[p].store
      <3>1. rt' = rt \/ rt' = [rt EXCEPT ![p].started = TRUE]
        BY <1>1 DEF StartComponent, StartRuntime
      <3>2. CASE rt' = [rt EXCEPT ![p].started = TRUE]
        BY <1>0, <3>2 DEF TypeOK, RuntimeType
      <3>3. CASE rt' = rt
        BY <1>0, <3>3 DEF TypeOK
      <3>4. QED
        BY <3>1, <3>2, <3>3
    <2>3. /\ http' \in [Procs -> ServerType] /\ \A q \in Procs \ {p} : http'[q] = http[q]
          /\ http'[p].mu = http[p].mu
          /\ \/ http'[p] = http[p]
             \/ http'[p].started /\ http'[p].server = "starting" /\ "HTTPServer" \in Registered
      BY <1>0, <1>1, <2>1 DEF StartComponent, TypeOK, ServerType
    <2>5. CASE \/ Goto(p, "running", 0) /\ health' = [health EXCEPT ![p] = "running"] /\ helper' = helper
               \/ /\ Goto(p, "start", main[p].i + 1) /\ main[p].i + 1 \in 1..N
                  /\ UNCHANGED <<health, helper>>
      <3>1. /\ main' \in [Procs -> MainType] /\ \A q \in Procs \ {p} : main'[q] = main[q]
            /\ main'[p].gaveUp = main[p].gaveUp /\ main'[p].phase \in {"start", "running"}
            /\ main'[p].phase = "start" => main'[p].i \in 1..N
        BY <1>0, <2>0, <2>5, GotoFacts DEF Phases, Early
      <3>2. /\ health' \in [Procs -> Healths] /\ \A q \in Procs \ {p} : health'[q] = health[q]
            /\ health'[p] # "stopped"
        BY <1>0, <2>0, <2>5 DEF TypeOK, Healths
      <3>3. RuntimeLife(p)'
        BY <1>0, <2>0, <2>2, <2>5, <3>1 DEF Life, RuntimeLife, Early, Building, lockVars
      <3>4. ServerLife(p)'
        BY <1>0, <2>0, <2>2, <2>3, <2>5, <3>1
           DEF Life, ServerLife, Early, N, ShutdownOrder, Registered
      <3>5. Progress(p)'
        BY <1>0, <2>0, <2>2, <2>5, <3>1, <3>2
           DEF Life, Progress, Early, Building, N, ShutdownOrder, Registered
      <3>6. QED
        BY <1>0, <2>0, <2>2, <2>3, <2>5, <3>1, <3>2, <3>3, <3>4, <3>5, LocalIsGood
           DEF Life, Local, TypeOK
    <2>4. CASE LeftOut(p) /\ health' = health /\ http' = http
      <3>1. health' \in [Procs -> Healths] /\ \A q \in Procs \ {p} : health'[q] = health[q]
        BY <1>0, <2>4 DEF TypeOK
      <3>2. health'[p] # "stopped" /\ http'[p].mu = http[p].mu
        BY <1>0, <2>0, <2>4 DEF Life, Progress, Early
      <3>3. QED
        BY <1>0, <2>0, <2>2, <2>4, <3>1, <3>2, LeftOutKeeps
    <2>6. CASE /\ Goto(p, "shutdown", 0) /\ helper' = [helper EXCEPT ![p] = 1]
               /\ health' = health /\ http' = http
      <3>1. /\ main' \in [Procs -> MainType] /\ \A q \in Procs \ {p} : main'[q] = main[q]
            /\ main'[p].gaveUp = main[p].gaveUp /\ main'[p].phase = "shutdown"
        BY <1>0, <2>6, GotoFacts DEF Phases
      <3>2. /\ helper' \in [Procs -> Nat] /\ \A q \in Procs \ {p} : helper'[q] = helper[q]
            /\ helper'[p] = 1
        BY <1>0, <2>6 DEF TypeOK
      <3>3. RuntimeLife(p)'
        BY <1>0, <2>0, <2>2, <2>6, <3>1, <3>2 DEF Life, RuntimeLife, Early, Building, lockVars
      <3>4. ServerLife(p)'
        <4>1. /\ N' = N /\ Registered' = Registered /\ ShutdownOrder' = ShutdownOrder
              /\ "HTTPServer" \in Registered =>
                   \E k \in 1..N : ShutdownOrder[k] = "HTTPServer" /\ ~(k < 1)
          BY <1>0, <2>0, FirstOfOrder DEF TypeOK
        <4>2. QED
          BY <1>0, <2>0, <2>2, <2>6, <3>1, <3>2, <4>1 DEF Life, ServerLife, Early, NoRequests
      <3>5. Progress(p)'
        BY <1>0, <2>0, <2>2, <2>6, <3>1, <3>2
           DEF Life, Progress, Early, Building, N, ShutdownOrder, Registered
      <3>6. QED
        BY <1>0, <2>0, <2>2, <2>6, <3>1, <3>2, <3>3, <3>4, <3>5, LocalIsGood
           DEF Life, Local, TypeOK
    <2>7. QED
      <3>1. \/ \/ Goto(p, "running", 0) /\ health' = [health EXCEPT ![p] = "running"] /\ helper' = helper
               \/ /\ Goto(p, "start", main[p].i + 1) /\ main[p].i + 1 \in 1..N
                  /\ UNCHANGED <<health, helper>>
            \/ Shutdown(p) /\ health' = health /\ http' = http
        BY <1>0, <1>1, <2>0 DEF StartComponent
      <3>2. QED
        BY <2>4, <2>5, <2>6, <3>1 DEF Shutdown, LeftOut
  <1>2. CASE BeginShutdown(p)
    <2>0. /\ main[p].phase = "running" /\ helper[p] = 0 /\ rt[p].mu = Free /\ ~rt[p].stopped
          /\ UNCHANGED <<lockVars, reg, rt, http, reqs>> /\ LockOp(p)
          /\ rt[p].built => rt[p].store = "running"
      BY <1>0, <1>2 DEF BeginShutdown, Life, RuntimeLife, Progress, Early, LockOp
    <2>1. CASE Goto(p, "shutdown", 0) /\ helper' = [helper EXCEPT ![p] = 1]
      <3>1. /\ main' \in [Procs -> MainType] /\ \A q \in Procs \ {p} : main'[q] = main[q]
            /\ main'[p].gaveUp = main[p].gaveUp /\ main'[p].phase = "shutdown"
        BY <1>0, <2>1, GotoFacts DEF Phases
      <3>2. /\ helper' \in [Procs -> Nat] /\ \A q \in Procs \ {p} : helper'[q] = helper[q]
            /\ helper'[p] = 1
            /\ health' \in [Procs -> Healths] /\ \A q \in Procs \ {p} : health'[q] = health[q]
            /\ health'[p] = "stopping"
        BY <1>0, <1>2, <2>1 DEF BeginShutdown, TypeOK, Healths
      <3>3. RuntimeLife(p)'
        BY <1>0, <2>0, <3>1, <3>2 DEF Life, RuntimeLife, Early, Building, lockVars
      <3>4. ServerLife(p)'
        <4>1. /\ N' = N /\ Registered' = Registered /\ ShutdownOrder' = ShutdownOrder
              /\ "HTTPServer" \in Registered =>
                   \E k \in 1..N : ShutdownOrder[k] = "HTTPServer" /\ ~(k < 1)
          BY <1>0, <2>0, FirstOfOrder DEF TypeOK
        <4>2. QED
          BY <1>0, <2>0, <3>1, <3>2, <4>1 DEF Life, ServerLife, Early, NoRequests
      <3>5. Progress(p)'
        BY <1>0, <2>0, <3>1, <3>2
           DEF Life, Progress, Early, Building, N, ShutdownOrder, Registered
      <3>6. QED
        BY <1>0, <2>0, <3>1, <3>2, <3>3, <3>4, <3>5, LocalIsGood DEF Life, Local, TypeOK
    <2>2. CASE LeftOut(p)
      <3>1. /\ health' \in [Procs -> Healths] /\ \A q \in Procs \ {p} : health'[q] = health[q]
            /\ health'[p] # "stopped"
        BY <1>0, <1>2 DEF BeginShutdown, TypeOK, Healths
      <3>2. QED
        BY <1>0, <2>0, <2>2, <3>1, LeftOutKeeps DEF TypeOK
    <2>3. QED
      BY <1>2, <2>1, <2>2 DEF BeginShutdown, Shutdown, LeftOut
  <1>3. CASE EndShutdown(p)
    <2>0. /\ main[p].phase = "shutdown" /\ helper[p] > 0
          /\ UNCHANGED <<lockVars, reg, helper, health, rt, http, reqs>> /\ LockOp(p)
      BY <1>0, <1>3 DEF EndShutdown, Life, Progress, LockOp
    <2>1. /\ main' \in [Procs -> MainType] /\ \A q \in Procs \ {p} : main'[q] = main[q]
          /\ main'[p].gaveUp <=> (main[p].gaveUp \/ helper[p] <= N)
          /\ main'[p].phase = "deferred"
      <3>1. PICK gaveUp \in BOOLEAN :
              /\ gaveUp <=> (main[p].gaveUp \/ helper[p] <= N)
              /\ main' = [main EXCEPT ![p].phase = "deferred", ![p].gaveUp = gaveUp]
        BY <1>0, <1>3 DEF EndShutdown, TypeOK, MainType
      <3> DEFINE r == [main[p] EXCEPT !.phase = "deferred", !.gaveUp = gaveUp]
      <3>2. r \in MainType /\ r.gaveUp = gaveUp /\ r.phase = "deferred"
        BY <1>0 DEF TypeOK, MainType, Phases
      <3>3. main' = [main EXCEPT ![p] = r]
        BY <1>0, <3>1 DEF TypeOK
      <3> HIDE DEF r
      <3>4. QED
        BY <1>0, <3>1, <3>2, <3>3 DEF TypeOK
    <2>2. RuntimeLife(p)'
      BY <1>0, <2>0, <2>1 DEF Life, RuntimeLife, Early, Building, lockVars
    <2>3. ServerLife(p)'
      BY <1>0, <2>0, <2>1 DEF Life, ServerLife, Early, N, ShutdownOrder, Registered, TypeOK
    <2>4. Progress(p)'
      BY <1>0, <2>0, <2>1
         DEF Life, Progress, Early, Building, N, ShutdownOrder, Registered
    <2>5. QED
      BY <2>0, <2>1, <2>2, <2>3, <2>4, MainOnly, LocalIsGood DEF Life
  <1>4. QED
    BY <1>1, <1>2, <1>3

-----------------------------------------------------------------------------
(* Stopping *)

\* An actor goes on when what it had to stop is stopped.
LEMMA StoppedFacts ==
    ASSUME IInv, NEW p \in Procs, NEW a \in Actors, NEW m \in [Procs -> MainType],
           Stopping(p, a) \in Components, Stopped(p, a, m),
           \A q \in Procs \ {p} : m[q] = main[q],
           m[p].phase = main[p].phase, m[p].i = main[p].i
    PROVE  /\ main' \in [Procs -> MainType] /\ \A q \in Procs \ {p} : main'[q] = main[q]
           /\ main'[p].gaveUp = m[p].gaveUp
           /\ helper' \in [Procs -> Nat] /\ \A q \in Procs \ {p} : helper'[q] = helper[q]
           /\ health' \in [Procs -> Healths] /\ \A q \in Procs \ {p} : health'[q] = health[q]
           /\ \/ /\ a = "helper" /\ helper[p] \in 1..N /\ ShutdownOrder[helper[p]] = Stopping(p, a)
                 /\ helper'[p] = helper[p] + 1
                 /\ main'[p].phase = main[p].phase /\ main'[p].i = main[p].i
                 /\ health'[p] = IF helper[p] = N THEN "stopped" ELSE health[p]
              \/ /\ a = "main" /\ main[p].phase = "deferred" /\ Stopping(p, a) = "Runtime"
                 /\ main'[p].phase = "return"
                 /\ helper'[p] = helper[p] /\ health'[p] = health[p]
              \/ /\ a = "main" /\ main[p].phase = "rollback"
                 /\ Stopping(p, a) = reg.order[main[p].i] /\ main[p].i > 1
                 /\ main'[p].phase = "rollback" /\ main'[p].i = main[p].i - 1
                 /\ helper'[p] = helper[p] /\ health'[p] = health[p]
              \/ /\ a = "main" /\ main[p].phase = "rollback"
                 /\ Stopping(p, a) = reg.order[1] /\ main[p].i = 1
                 /\ main'[p].phase = "deferred"
                 /\ helper'[p] = helper[p] /\ health'[p] = "stopped"
  <1>0. TypeOK /\ N \in Nat \ {0} /\ Life(p)
    BY OrderType DEF TypeOK, IInv, LockInv, Life
  <1>1. "none" \notin Components
    BY DEF Components
  <1>2. CASE a = "helper"
    <2>1. helper[p] \in 1..N /\ ShutdownOrder[helper[p]] = Stopping(p, a)
      BY <1>1, <1>2 DEF Stopping, ShutdownOrder
    <2>2. QED
      BY <1>0, <1>2, <2>1 DEF Stopped, TypeOK, Healths
  <1>3. CASE a = "main"
    <2>1. /\ main[p].phase \in {"deferred", "rollback"}
          /\ main[p].phase = "deferred" => Stopping(p, a) = "Runtime"
          /\ main[p].phase = "rollback" => Stopping(p, a) = reg.order[main[p].i]
      BY <1>1, <1>3 DEF Stopping
    <2>2. helper' = helper
      BY <1>3 DEF Stopped
    <2>3. CASE main[p].phase = "deferred"
      <3>1. main' = [m EXCEPT ![p].phase = "return"] /\ health' = health
        BY <1>3, <2>3 DEF Stopped
      <3>2. QED
        BY <1>0, <1>3, <2>1, <2>2, <2>3, <3>1 DEF TypeOK, MainType, Phases
    <2>4. CASE main[p].phase = "rollback" /\ main[p].i > 1
      <3>1. main' = [m EXCEPT ![p].i = @ - 1] /\ health' = health
        BY <1>3, <2>4 DEF Stopped
      <3>2. QED
        BY <1>0, <1>3, <2>1, <2>2, <2>4, <3>1 DEF TypeOK, MainType, Phases
    <2>5. CASE main[p].phase = "rollback" /\ ~(main[p].i > 1)
      <3>1. main[p].i = 1
        BY <1>0, <2>5 DEF Life, Progress
      <3>2. main' = [m EXCEPT ![p].phase = "deferred", ![p].i = 0] /\ health' = [health EXCEPT ![p] = "stopped"]
        BY <1>3, <2>5, <3>1 DEF Stopped
      <3>3. QED
        BY <1>0, <1>3, <2>1, <2>2, <2>5, <3>1, <3>2 DEF TypeOK, MainType, Phases, Healths
    <2>6. QED
      BY <2>1, <2>3, <2>4, <2>5
  <1>4. QED
    BY <1>2, <1>3 DEF Actors

LEMMA StoppedProgress ==
    ASSUME IInv, NEW p \in Procs, NEW a \in Actors, NEW m \in [Procs -> MainType],
           Stopping(p, a) \in Components, Stopped(p, a, m), reg' = reg,
           \A q \in Procs \ {p} : m[q] = main[q],
           m[p].phase = main[p].phase, m[p].i = main[p].i,
           rt'[p].built = rt[p].built, rt[p].stopped => rt'[p].stopped,
           Stopping(p, a) = "Runtime" => rt'[p].stopped
    PROVE  Progress(p)'
  <1>0. TypeOK /\ N \in Nat \ {0} /\ Life(p)
    BY OrderType DEF TypeOK, IInv, LockInv, Life
  <1>1. /\ N' = N /\ Registered' = Registered /\ ShutdownOrder' = ShutdownOrder
    BY DEF N, Registered, ShutdownOrder
  <1>2. /\ \A c \in Registered : \E k \in 1..N : ShutdownOrder[k] = c
        /\ \A c \in Registered : \E k \in 1..N : reg.order[k] = c
    BY <1>0, ServerFirst DEF TypeOK
  <1>3. CASE /\ a = "helper" /\ helper[p] \in 1..N /\ ShutdownOrder[helper[p]] = Stopping(p, a)
             /\ helper'[p] = helper[p] + 1
             /\ main'[p].phase = main[p].phase /\ main'[p].i = main[p].i
             /\ health'[p] = IF helper[p] = N THEN "stopped" ELSE health[p]
    <2>1. \A k \in 1..N : ShutdownOrder[k] = "Runtime" /\ k < helper'[p] => rt'[p].stopped
      BY <1>0, <1>3 DEF Life, Progress
    <2>2. helper[p] = N /\ rt[p].built => rt'[p].stopped
      BY <1>0, <1>2, <1>3, <2>1 DEF Life, Progress
    <2>3. QED
      BY <1>0, <1>1, <1>3, <2>1, <2>2 DEF Life, Progress, Early, Building
  <1>4. CASE /\ a = "main" /\ main[p].phase = "deferred" /\ Stopping(p, a) = "Runtime"
             /\ main'[p].phase = "return"
             /\ helper'[p] = helper[p] /\ health'[p] = health[p]
    BY <1>0, <1>1, <1>4 DEF Life, Progress, Early, Building
  <1>5. CASE /\ a = "main" /\ main[p].phase = "rollback"
             /\ Stopping(p, a) = reg.order[main[p].i] /\ main[p].i > 1
             /\ main'[p].phase = "rollback" /\ main'[p].i = main[p].i - 1
             /\ helper'[p] = helper[p] /\ health'[p] = health[p]
    BY <1>0, <1>1, <1>5 DEF Life, Progress, Early, Building
  <1>6. CASE /\ a = "main" /\ main[p].phase = "rollback"
             /\ Stopping(p, a) = reg.order[1] /\ main[p].i = 1
             /\ main'[p].phase = "deferred"
             /\ helper'[p] = helper[p] /\ health'[p] = "stopped"
    <2>1. rt[p].built => rt'[p].stopped
      BY <1>0, <1>2, <1>6 DEF Life, Progress
    <2>2. QED
      BY <1>0, <1>1, <1>6, <2>1 DEF Life, Progress, Early, Building
  <1>7. QED
    BY <1>3, <1>4, <1>5, <1>6, StoppedFacts

\* The server is as it was, and its component is not the one that was stopped.
LEMMA StoppedServer ==
    ASSUME IInv, NEW p \in Procs, NEW a \in Actors,
           Stopping(p, a) \in Components \ {"HTTPServer"}, Stopped(p, a, main),
           UNCHANGED <<reg, http, reqs>>,
           rt'[p].built = rt[p].built,
           rt[p].built /\ rt'[p].store # "running" => rt[p].store # "running"
    PROVE  ServerLife(p)'
  <1>0. TypeOK /\ N \in Nat \ {0} /\ Life(p)
    BY OrderType DEF TypeOK, IInv, LockInv, Life
  <1>1. N' = N /\ Registered' = Registered /\ ShutdownOrder' = ShutdownOrder
    BY DEF N, Registered, ShutdownOrder
  <1>2. main'[p].gaveUp = main[p].gaveUp
    BY <1>0, StoppedFacts DEF TypeOK
  <1>3. CASE a = "helper"
    <2>1. /\ helper[p] \in 1..N /\ ShutdownOrder[helper[p]] # "HTTPServer"
          /\ helper'[p] = helper[p] + 1 /\ main'[p].phase = main[p].phase
      BY <1>0, <1>3, StoppedFacts DEF TypeOK
    <2>2. (\A k \in 1..N : ShutdownOrder[k] = "HTTPServer" => k < helper'[p])
            => \A k \in 1..N : ShutdownOrder[k] = "HTTPServer" => k < helper[p]
      BY <1>0, <2>1
    <2>3. http[p].mu = Free
      BY <1>0, <2>1 DEF Life, ServerLife
    <2>4. QED
      BY <1>0, <1>1, <1>2, <2>1, <2>2, <2>3 DEF Life, ServerLife, NoRequests, TypeOK
  <1>4. CASE a = "main"
    <2>1. /\ main[p].phase \in {"deferred", "rollback"} /\ main'[p].phase \in {"deferred", "rollback", "return"}
          /\ helper'[p] = helper[p] /\ (main[p].phase = "deferred" => main'[p].phase = "return")
      BY <1>0, <1>4, StoppedFacts DEF TypeOK
    <2>2. QED
      BY <1>0, <1>1, <1>2, <2>1 DEF Life, ServerLife, NoRequests, Early
  <1>5. QED
    BY <1>3, <1>4 DEF Actors

\* While main is in its deferred call or goes back, or the helper is at Runtime, the
\* server has been stopped, or the wait was given up.
LEMMA ServerDone ==
    ASSUME IInv, NEW p \in Procs, NEW a \in Actors, Stopping(p, a) = "Runtime", ~main[p].gaveUp
    PROVE  ~http[p].started
  <1>0. TypeOK /\ N \in Nat \ {0} /\ Life(p)
    BY OrderType DEF TypeOK, IInv, LockInv, Life
  <1>1. CASE a = "helper"
    <2>1. helper[p] \in 1..N /\ ShutdownOrder[helper[p]] = "Runtime"
      BY <1>1 DEF Stopping, ShutdownOrder
    <2>2. \A k \in 1..N : ShutdownOrder[k] = "HTTPServer" => k < helper[p]
      BY <1>0, <2>1, ServerFirst DEF TypeOK
    <2>3. QED
      BY <1>0, <2>1, <2>2 DEF Life, ServerLife
  <1>2. CASE a = "main"
    BY <1>0, <1>2 DEF Stopping, Life, ServerLife
  <1>3. QED
    BY <1>1, <1>2 DEF Actors

LEMMA StopRuntimeSteps ==
    ASSUME IInv, NEW p \in Procs, NEW a \in Actors
    PROVE  /\ StopOther(p, a) => Good(p)
           /\ StopRuntime(p, a) => Good(p)
           /\ EndRuntimeStop(p, a) => Good(p)
  <1>0. TypeOK /\ N \in Nat \ {0} /\ Life(p) /\ main \in [Procs -> MainType]
    BY OrderType DEF TypeOK, IInv, LockInv, Life
  <1>1. "Runtime" \in Components \ {"HTTPServer"} /\ "Other" \in Components \ {"HTTPServer"}
    BY DEF Components
  <1>2. CASE StopOther(p, a)
    <2>1. /\ Stopping(p, a) \in Components \ {"HTTPServer"} /\ Stopping(p, a) = "Other"
          /\ Stopped(p, a, main)
          /\ UNCHANGED <<lockVars, reg, rt, http, reqs>> /\ LockOp(p)
      BY <1>1, <1>2 DEF StopOther, LockOp
    <2>2. ServerLife(p)' /\ Progress(p)'
      BY <1>0, <2>1, StoppedServer, StoppedProgress
    <2>3. RuntimeLife(p)'
      <3>1. /\ main[p].phase \notin Early /\ main'[p].phase \notin Early
            /\ main'[p].phase = "return" => main[p].phase = "return"
        BY <1>0, <2>1, StoppedFacts DEF Early, Life, RuntimeLife, Progress
      <3>2. QED
        BY <1>0, <2>1, <3>1 DEF Life, RuntimeLife, Early, Building, lockVars
    <2>4. Local(p)
      BY <1>0, <2>1, StoppedFacts DEF Local, TypeOK
    <2>5. QED
      BY <2>2, <2>3, <2>4, LocalIsGood DEF Life
  <1>3. CASE StopRuntime(p, a) /\ (rt[p].stopped \/ ~rt[p].built)
    <2>1. /\ Stopping(p, a) = "Runtime" /\ rt[p].mu = Free
          /\ rt' = [rt EXCEPT ![p].stopped = TRUE, ![p].started = FALSE]
          /\ Stopped(p, a, main)
          /\ UNCHANGED <<lockVars, reg, http, reqs>> /\ LockOp(p)
      BY <1>3 DEF StopRuntime, LockOp
    <2>2. /\ rt' \in [Procs -> RuntimeType] /\ \A q \in Procs \ {p} : rt'[q] = rt[q]
          /\ rt'[p].built = rt[p].built /\ rt'[p].stopped
          /\ rt'[p].mu = rt[p].mu /\ rt'[p].closes = rt[p].closes /\ rt'[p].store = rt[p].store
      <3> DEFINE r == [rt[p] EXCEPT !.stopped = TRUE, !.started = FALSE]
      <3>1. /\ r \in RuntimeType /\ r.built = rt[p].built /\ r.stopped
            /\ r.mu = rt[p].mu /\ r.closes = rt[p].closes /\ r.store = rt[p].store
        BY <1>0 DEF TypeOK, RuntimeType
      <3>2. rt' = [rt EXCEPT ![p] = r]
        BY <1>0, <2>1 DEF TypeOK
      <3> HIDE DEF r
      <3>3. QED
        BY <1>0, <3>1, <3>2 DEF TypeOK
    <2>3. ServerLife(p)' /\ Progress(p)'
      BY <1>0, <1>1, <2>1, <2>2, StoppedServer, StoppedProgress
    <2>4. RuntimeLife(p)'
      <3>1. /\ main[p].phase \notin Early
            /\ main'[p].phase \notin Early
        BY <1>0, <1>1, <2>1, StoppedFacts DEF Early, Life, RuntimeLife, Progress
      <3>2. ~held[p] /\ rt[p].store = "none"
        BY <1>0, <1>3, <3>1 DEF Life, RuntimeLife, Early, Building
      <3>3. QED
        BY <1>0, <2>1, <2>2, <3>1, <3>2 DEF Life, RuntimeLife, Early, Building, lockVars
    <2>5. Local(p)
      BY <1>0, <1>1, <2>1, <2>2, StoppedFacts DEF Local, TypeOK
    <2>6. QED
      BY <2>3, <2>4, <2>5, LocalIsGood DEF Life
  <1>4. CASE StopRuntime(p, a) /\ ~rt[p].stopped /\ rt[p].built
    <2>1. /\ Stopping(p, a) = "Runtime" /\ rt[p].mu = Free
          /\ rt' = [rt EXCEPT ![p].mu = a, ![p].store = "quitting", ![p].closes = @ + 1]
          /\ UNCHANGED <<lockVars, reg, http, reqs, main, helper, health>> /\ LockOp(p)
      BY <1>4 DEF StopRuntime, LockOp
    <2>2. /\ rt' \in [Procs -> RuntimeType] /\ \A q \in Procs \ {p} : rt'[q] = rt[q]
          /\ rt'[p].built = rt[p].built /\ rt'[p].stopped = rt[p].stopped
          /\ rt'[p].mu = a /\ rt'[p].closes = rt[p].closes + 1 /\ rt'[p].store = "quitting"
      BY <1>0, <2>1 DEF TypeOK, RuntimeType
    <2>3. main[p].phase \notin Early
      BY <1>0, <2>1 DEF Life, RuntimeLife, Stopping, Early, Actors
    <2>4. RuntimeLife(p)'
      <3>1. held' = held /\ tries' = tries /\ main' = main /\ helper' = helper /\ a # Free
        BY <2>1 DEF lockVars, Actors, Free
      <3>2. held[p] /\ rt'[p].closes = 1
        BY <1>0, <1>4, <2>1, <2>2 DEF Life, RuntimeLife
      <3>3. QED
        BY <1>0, <1>4, <2>2, <2>3, <3>1, <3>2 DEF Life, RuntimeLife, Early, Building
    <2>5. ServerLife(p)'
      <3>1. ~main[p].gaveUp => ~http[p].started
        BY <2>1, ServerDone
      <3>2. QED
        BY <1>0, <2>1, <2>2, <3>1 DEF Life, ServerLife, N, ShutdownOrder, Registered, NoRequests
    <2>6. Progress(p)'
      BY <1>0, <2>1, <2>2 DEF Life, Progress, N, ShutdownOrder, Registered
    <2>7. QED
      BY <1>0, <2>1, <2>2, <2>4, <2>5, <2>6, LocalIsGood DEF Life, Local, TypeOK
  <1>5. CASE EndRuntimeStop(p, a)
    <2>1. /\ Stopping(p, a) = "Runtime" /\ rt[p].mu = a /\ rt[p].store = "ended" /\ Unlock(p)
          /\ rt' = [rt EXCEPT ![p].store = "none", ![p].stopped = TRUE, ![p].started = FALSE,
                              ![p].mu = Free]
          /\ Stopped(p, a, main)
          /\ UNCHANGED <<reg, http, reqs>> /\ LockOp(p)
      BY <1>5 DEF EndRuntimeStop, LockOp
    <2>2. /\ rt' \in [Procs -> RuntimeType] /\ \A q \in Procs \ {p} : rt'[q] = rt[q]
          /\ rt'[p].built = rt[p].built /\ rt'[p].stopped
          /\ rt'[p].mu = Free /\ rt'[p].closes = rt[p].closes /\ rt'[p].store = "none"
      <3> DEFINE r == [rt[p] EXCEPT !.store = "none", !.stopped = TRUE, !.started = FALSE,
                                    !.mu = Free]
      <3>1. /\ r \in RuntimeType /\ r.built = rt[p].built /\ r.stopped
            /\ r.mu = Free /\ r.closes = rt[p].closes /\ r.store = "none"
        BY <1>0 DEF TypeOK, RuntimeType
      <3>2. rt' = [rt EXCEPT ![p] = r]
        BY <1>0, <2>1 DEF TypeOK
      <3> HIDE DEF r
      <3>3. QED
        BY <1>0, <3>1, <3>2 DEF TypeOK
    <2>3. ServerLife(p)' /\ Progress(p)'
      BY <1>0, <1>1, <2>1, <2>2, StoppedServer, StoppedProgress
    <2>4. RuntimeLife(p)'
      <3>1. main[p].phase \notin Early /\ main'[p].phase \notin Early
        BY <1>0, <1>1, <2>1, StoppedFacts DEF Early, Life, RuntimeLife, Progress
      <3>2. ~held'[p] /\ tries'[p] = 0
        BY <1>0, <2>1 DEF Unlock, TypeOK, LockTypeOK
      <3>3. rt[p].built
        BY <1>0, <2>1 DEF Life, RuntimeLife, Actors, Free
      <3>4. QED
        BY <1>0, <2>1, <2>2, <3>1, <3>2, <3>3 DEF Life, RuntimeLife, Early, Building
    <2>5. Local(p)
      BY <1>0, <1>1, <2>1, <2>2, StoppedFacts DEF Local, TypeOK
    <2>6. QED
      BY <2>3, <2>4, <2>5, LocalIsGood DEF Life
  <1>6. QED
    BY <1>0, <1>2, <1>3, <1>4, <1>5 DEF TypeOK, RuntimeType

LEMMA LoopExitStep ==
    ASSUME IInv, NEW p \in Procs, LoopExit(p)
    PROVE  Good(p)
  <1>0. TypeOK /\ N \in Nat \ {0} /\ Life(p)
    BY OrderType DEF TypeOK, IInv, LockInv, Life
  <1>1. /\ rt[p].store = "quitting" /\ LockOp(p)
        /\ UNCHANGED <<lockVars, reg, main, helper, health, http, reqs>>
    BY DEF LoopExit, LockOp
  <1>2. /\ rt' \in [Procs -> RuntimeType] /\ \A q \in Procs \ {p} : rt'[q] = rt[q]
        /\ rt'[p].built = rt[p].built /\ rt'[p].stopped = rt[p].stopped
        /\ rt'[p].mu = rt[p].mu /\ rt'[p].closes = rt[p].closes /\ rt'[p].store = "ended"
    BY <1>0 DEF LoopExit, TypeOK, RuntimeType
  <1>3. RuntimeLife(p)'
    BY <1>0, <1>1, <1>2 DEF Life, RuntimeLife, lockVars
  <1>4. ServerLife(p)'
    BY <1>0, <1>1, <1>2 DEF Life, ServerLife, N, ShutdownOrder, Registered, NoRequests
  <1>5. Progress(p)'
    BY <1>0, <1>1, <1>2 DEF Life, Progress, N, ShutdownOrder, Registered
  <1>6. QED
    BY <1>0, <1>1, <1>2, <1>3, <1>4, <1>5, LocalIsGood DEF Life, Local, TypeOK

\* A step of the server and of the one who stops it leaves the runtime alone.
LEMMA RuntimeKept ==
    ASSUME IInv, NEW p \in Procs, UNCHANGED <<lockVars, rt>>,
           \/ main'[p].phase = main[p].phase /\ helper'[p] = helper[p]
           \/ /\ main[p].phase \notin Early /\ main'[p].phase \notin Early
              /\ main'[p].phase = "return" => main[p].phase = "return"
    PROVE  RuntimeLife(p)'
  <1>1. RuntimeLife(p)
    BY DEF IInv, LockInv
  <1>2. QED
    BY <1>1 DEF RuntimeLife, lockVars, Early, Building

LEMMA StopServerSteps ==
    ASSUME IInv, NEW p \in Procs, NEW a \in Actors
    PROVE  /\ StopHTTP(p, a) => Good(p)
           /\ EndHTTPStop(p) => Good(p)
           /\ HTTPStopTimeout(p) => Good(p)
  <1>0. TypeOK /\ N \in Nat \ {0} /\ Life(p) /\ main \in [Procs -> MainType]
    BY OrderType DEF TypeOK, IInv, LockInv, Life
  <1>1. "HTTPServer" \in Components /\ "helper" \in Actors /\ "helper" # Free
    BY DEF Components, Actors, Free
  \* The helper has been through with the server.
  <1>2. ASSUME NEW m \in [Procs -> MainType], Stopping(p, "helper") = "HTTPServer",
               Stopped(p, "helper", m),
               m[p].phase = main[p].phase, m[p].i = main[p].i,
               \A q \in Procs \ {p} : m[q] = main[q],
               UNCHANGED <<lockVars, reg, rt, reqs>>,
               http' \in [Procs -> ServerType], \A q \in Procs \ {p} : http'[q] = http[q],
               http'[p].mu = Free, http'[p].server = "closed" \/ http'[p] = http[p],
               m[p].gaveUp \/ (~http'[p].started /\ reqs[p] = NoRequests),
               ~http[p].started => ~http'[p].started,
               ~http'[p].started => reqs[p] = NoRequests,
               main[p].gaveUp => m[p].gaveUp
        PROVE  Good(p)
    <2>1. /\ main' \in [Procs -> MainType] /\ \A q \in Procs \ {p} : main'[q] = main[q]
          /\ main'[p].gaveUp = m[p].gaveUp /\ main'[p].phase = main[p].phase
          /\ helper' \in [Procs -> Nat] /\ \A q \in Procs \ {p} : helper'[q] = helper[q]
          /\ health' \in [Procs -> Healths] /\ \A q \in Procs \ {p} : health'[q] = health[q]
          /\ helper[p] \in 1..N
      BY <1>1, <1>2, StoppedFacts
    <2>2. main[p].phase \notin Early \cup {"rollback"}
      BY <1>0, <2>1 DEF Life, Progress, Early
    <2>3. RuntimeLife(p)'
      BY <1>2, <2>1, <2>2, RuntimeKept
    <2>4. Progress(p)'
      BY <1>1, <1>2, StoppedProgress
    <2>5. ServerLife(p)'
      BY <1>0, <1>2, <2>1, <2>2 DEF Life, ServerLife, N, ShutdownOrder, Registered, NoRequests
    <2>6. QED
      BY <1>0, <1>2, <2>1, <2>3, <2>4, <2>5, LocalIsGood DEF Life, Local, LockOp, TypeOK
  <1>3. CASE StopHTTP(p, a) /\ ~http[p].started
    <2>1. /\ Stopping(p, a) = "HTTPServer" /\ Stopped(p, a, main) /\ http[p].mu = Free
          /\ UNCHANGED <<lockVars, reg, rt, http, reqs>> /\ reqs[p] = NoRequests
      BY <1>0, <1>3 DEF StopHTTP, Life, ServerLife
    <2>2. CASE a = "helper"
      BY <1>0, <1>2, <1>3, <2>1, <2>2 DEF TypeOK
    <2>3. CASE a = "main"
      <3>1. /\ main' \in [Procs -> MainType] /\ \A q \in Procs \ {p} : main'[q] = main[q]
            /\ main'[p].gaveUp = main[p].gaveUp /\ main[p].phase = "rollback"
            /\ main'[p].phase \in {"rollback", "deferred"}
            /\ helper'[p] = helper[p]
            /\ helper' \in [Procs -> Nat] /\ \A q \in Procs \ {p} : helper'[q] = helper[q]
            /\ health' \in [Procs -> Healths] /\ \A q \in Procs \ {p} : health'[q] = health[q]
        BY <1>0, <1>1, <2>1, <2>3, StoppedFacts
      <3>2. RuntimeLife(p)'
        BY <2>1, <3>1, RuntimeKept DEF Early
      <3>3. Progress(p)'
        BY <1>0, <1>1, <2>1, StoppedProgress
      <3>4. ServerLife(p)'
        BY <1>0, <1>3, <2>1, <3>1 DEF Life, ServerLife, N, ShutdownOrder, Registered, NoRequests
      <3>5. QED
        BY <1>0, <2>1, <3>1, <3>2, <3>3, <3>4, LocalIsGood DEF Life, Local, LockOp, TypeOK
    <2>4. QED
      BY <2>2, <2>3 DEF Actors
  <1>4. CASE StopHTTP(p, a) /\ http[p].started
    <2>1. /\ Stopping(p, a) = "HTTPServer" /\ http[p].mu = Free
          /\ http' = [http EXCEPT ![p].mu = a, ![p].server = "closed"]
          /\ UNCHANGED <<lockVars, reg, rt, reqs, main, helper, health>> /\ LockOp(p)
      BY <1>4 DEF StopHTTP, LockOp
    <2>2. /\ http' \in [Procs -> ServerType] /\ \A q \in Procs \ {p} : http'[q] = http[q]
          /\ http'[p].mu = a /\ http'[p].server = "closed" /\ http'[p].started = http[p].started
      BY <1>0, <2>1 DEF TypeOK, ServerType
    <2>3. a = "helper" /\ helper[p] \in 1..N /\ ShutdownOrder[helper[p]] = "HTTPServer"
      <3>1. a # "main"
        BY <1>0, <1>4, <2>1 DEF Stopping, Life, ServerLife
      <3>2. QED
        BY <2>1, <3>1 DEF Stopping, ShutdownOrder, Actors
    <2>4. RuntimeLife(p)'
      BY <2>1, RuntimeKept
    <2>5. Progress(p)'
      BY <1>0, <2>1 DEF Life, Progress, N, ShutdownOrder, Registered
    <2>6. ServerLife(p)'
      BY <1>0, <1>4, <2>1, <2>2, <2>3 DEF Life, ServerLife, N, ShutdownOrder, Registered, NoRequests
    <2>7. QED
      BY <1>0, <2>1, <2>2, <2>4, <2>5, <2>6, LocalIsGood DEF Life, Local, TypeOK
  <1>5. ASSUME http[p].mu = "helper"
        PROVE  Stopping(p, "helper") = "HTTPServer" /\ http[p].server = "closed"
    BY <1>0, <1>1, <1>5 DEF Life, ServerLife, Stopping, ShutdownOrder
  <1>6. CASE EndHTTPStop(p)
    <2>1. /\ http' \in [Procs -> ServerType] /\ \A q \in Procs \ {p} : http'[q] = http[q]
          /\ http'[p].mu = Free /\ http'[p].server = http[p].server /\ ~http'[p].started
      <3> DEFINE r == [http[p] EXCEPT !.started = FALSE, !.mu = Free]
      <3>1. r \in ServerType /\ r.mu = Free /\ r.server = http[p].server /\ ~r.started
        BY <1>0 DEF TypeOK, ServerType
      <3>2. http' = [http EXCEPT ![p] = r]
        BY <1>0, <1>6 DEF EndHTTPStop, TypeOK
      <3> HIDE DEF r
      <3>3. QED
        BY <1>0, <3>1, <3>2 DEF TypeOK
    <2>2. QED
      BY <1>0, <1>2, <1>5, <1>6, <2>1 DEF EndHTTPStop
  <1>7. CASE HTTPStopTimeout(p)
    <2>1. /\ http' \in [Procs -> ServerType] /\ \A q \in Procs \ {p} : http'[q] = http[q]
          /\ http'[p].mu = Free /\ http'[p].server = http[p].server
          /\ http'[p].started = http[p].started
      BY <1>0, <1>7 DEF HTTPStopTimeout, TypeOK, ServerType
    <2> DEFINE m == [main EXCEPT ![p].gaveUp = TRUE]
    <2>2. /\ m \in [Procs -> MainType] /\ \A q \in Procs \ {p} : m[q] = main[q]
          /\ m[p].phase = main[p].phase /\ m[p].i = main[p].i /\ m[p].gaveUp
      BY <1>0 DEF MainType
    <2>3. Stopped(p, "helper", m) /\ UNCHANGED <<lockVars, reg, rt, reqs>> /\ http[p].mu = "helper"
      BY <1>7 DEF HTTPStopTimeout
    <2>4. ~http[p].started => http[p].mu = Free
      BY <1>0 DEF Life, ServerLife
    <2>5. m \in [Procs -> MainType]
      BY <2>2
    <2> HIDE DEF m
    <2>6. QED
      BY <1>1, <1>2, <1>5, <2>1, <2>2, <2>3, <2>4
  <1>8. QED
    BY <1>3, <1>4, <1>6, <1>7

LEMMA VanishStep ==
    ASSUME IInv, NEW p \in Procs, Vanish(p)
    PROVE  Good(p)
  <1>0. TypeOK /\ N \in Nat \ {0} /\ Life(p)
    BY OrderType DEF TypeOK, IInv, LockInv, Life
  <1>1. Down \in MainType /\ NewRuntime \in RuntimeType /\ NewServer \in ServerType
        /\ DOMAIN NoRequests = Slots
    BY DEF Down, MainType, Phases, Early, NewRuntime, RuntimeType, NewServer, ServerType, Free,
           NoRequests
  <1>2. /\ main'[p] = Down /\ helper'[p] = 0 /\ health'[p] = "starting" /\ rt'[p] = NewRuntime
        /\ http'[p] = NewServer /\ reqs'[p] = NoRequests /\ ~held'[p] /\ tries'[p] = 0
        /\ reg' = reg /\ LockOp(p)
    BY <1>0 DEF Vanish, Unlock, LockOp, TypeOK, LockTypeOK
  <1>3. Local(p)
    BY <1>0, <1>1, <1>2 DEF Vanish, Local, TypeOK, Healths
  <1>4. RuntimeLife(p)'
    BY <1>2 DEF RuntimeLife, Down, NewRuntime, Early, Building
  <1>5. ServerLife(p)'
    BY <1>2 DEF ServerLife, Down, NewRuntime, NewServer, Early, NoRequests
  <1>6. Progress(p)'
    BY <1>0, <1>2 DEF Progress, Down, NewRuntime, Early, Building, N
  <1>7. QED
    BY <1>3, <1>4, <1>5, <1>6, LocalIsGood DEF Life

LEMMA ServeSteps ==
    ASSUME IInv, NEW p \in Procs
    PROVE  /\ ListenAndServe(p) => Good(p)
           /\ \A r \in Slots, kind \in Kinds : Arrive(p, r, kind) => Good(p)
           /\ \A r \in Slots : RequestStep(p, r) => Good(p)
           /\ \A r \in Slots : ClientLeaves(p, r) => Good(p)
  <1>0. TypeOK /\ N \in Nat \ {0} /\ Life(p)
    BY OrderType DEF TypeOK, IInv, LockInv, Life
  <1>1. CASE ListenAndServe(p)
    <2>1. /\ http[p].server = "starting" /\ LockOp(p)
          /\ UNCHANGED <<lockVars, reg, main, helper, health, rt, reqs>>
      BY <1>1 DEF ListenAndServe, LockOp
    <2>2. /\ http' \in [Procs -> ServerType] /\ \A q \in Procs \ {p} : http'[q] = http[q]
          /\ http'[p].mu = http[p].mu /\ http'[p].started = http[p].started
      BY <1>0, <1>1 DEF ListenAndServe, TypeOK, ServerType
    <2>3. http[p].started /\ http[p].mu = Free
      BY <1>0, <2>1 DEF Life, ServerLife
    <2>4. ServerLife(p)'
      BY <1>0, <2>1, <2>2, <2>3 DEF Life, ServerLife, N, ShutdownOrder, Registered
    <2>5. RuntimeLife(p)' /\ Progress(p)'
      BY <1>0, <2>1, RuntimeKept DEF Life, Progress, N, ShutdownOrder, Registered
    <2>6. QED
      BY <1>0, <2>1, <2>2, <2>4, <2>5, LocalIsGood DEF Life, Local, TypeOK
  \* A request comes in or goes on only in a server that is not stopped yet.
  <1>2. ASSUME UNCHANGED <<lockVars, reg, launches, main, helper, health, rt, http>>,
               DOMAIN reqs' = Procs, DOMAIN reqs'[p] = Slots,
               \A q \in Procs \ {p} : reqs'[q] = reqs[q],
               http[p].server = "listening" \/ reqs[p] # NoRequests
        PROVE  Good(p)
    <2>1. http[p].started
      BY <1>0, <1>2 DEF Life, ServerLife
    <2>2. ServerLife(p)'
      BY <1>0, <1>2, <2>1 DEF Life, ServerLife, N, ShutdownOrder, Registered
    <2>3. RuntimeLife(p)' /\ Progress(p)'
      BY <1>0, <1>2, RuntimeKept DEF Life, Progress, N, ShutdownOrder, Registered
    <2>4. QED
      BY <1>0, <1>2, <2>2, <2>3, LocalIsGood DEF Life, Local, LockOp, TypeOK
  <1>3. ASSUME NEW r \in Slots, NEW kind \in Kinds, Arrive(p, r, kind)
        PROVE  Good(p)
    BY <1>0, <1>2, <1>3 DEF Arrive, TypeOK
  <1>4. ASSUME NEW r \in Slots, reqs[p][r].kind \in Kinds
        PROVE  reqs[p] # NoRequests
    BY <1>4 DEF NoRequests, None, Kinds
  <1>5. ASSUME NEW r \in Slots, RequestStep(p, r)
        PROVE  Good(p)
    <2>1. reqs[p][r].kind \in Kinds /\ (Answer(p, r) \/ Proceed(p, r))
      BY <1>5 DEF RequestStep, HealthStep, APIStep, StreamStep, Kinds
    <2>2. /\ DOMAIN reqs' = Procs /\ DOMAIN reqs'[p] = Slots
          /\ \A q \in Procs \ {p} : reqs'[q] = reqs[q]
      BY <1>0, <2>1 DEF Answer, Proceed, TypeOK
    <2>3. QED
      BY <1>2, <1>4, <1>5, <2>1, <2>2 DEF RequestStep
  <1>6. ASSUME NEW r \in Slots, ClientLeaves(p, r)
        PROVE  Good(p)
    <2>1. reqs[p][r].kind \in Kinds
      BY <1>6 DEF ClientLeaves, Kinds
    <2>2. /\ DOMAIN reqs' = Procs /\ DOMAIN reqs'[p] = Slots
          /\ \A q \in Procs \ {p} : reqs'[q] = reqs[q]
      BY <1>0, <1>6 DEF ClientLeaves, Answer, TypeOK
    <2>3. QED
      BY <1>2, <1>4, <1>6, <2>1, <2>2 DEF ClientLeaves
  <1>7. QED
    BY <1>1, <1>3, <1>5, <1>6

-----------------------------------------------------------------------------
(* The theorems *)

\* A good step of one process keeps the invariant of all.
LEMMA GoodKeeps ==
    ASSUME IInv, NEW p \in Procs, Good(p)
    PROVE  IInv'
  <1>1. LockFacts'
    BY LockSteps DEF IInv, LockInv, TypeOK, LockFacts, Good
  <1>2. \A q \in Procs : Life(q)'
    BY OthersKeep DEF Good, IInv, LockInv, Life
  <1>3. QED
    BY <1>1, <1>2 DEF IInv, LockInv, Life, LockFacts, Good

LEMMA Invariance == Spec => []IInv
  <1>1. IInv /\ [Next]_vars => IInv'
    <2> SUFFICES ASSUME IInv, [Next]_vars
                 PROVE  IInv'
      OBVIOUS
    <2>1. CASE UNCHANGED vars
      <3>1. UNCHANGED <<reg, main, helper, health, rt, http, reqs, lockVars>>
        BY <2>1 DEF vars, daemonVars
      <3>2. LockFacts' /\ TypeOK'
        BY <3>1 DEF IInv, LockInv, TypeOK, LockFacts, lockVars, LockTypeOK, HandlesKnown, LockExclusive
      <3>3. \A q \in Procs : Life(q)'
        BY <3>1, OthersKeep DEF IInv, LockInv, Life, Same, lockVars
      <3>4. QED
        BY <3>2, <3>3 DEF IInv, LockInv, Life, LockFacts
    <2>2. CASE GrowOld /\ UNCHANGED daemonVars
      <3>1. UNCHANGED <<reg, main, helper, health, rt, http, reqs>>
            /\ UNCHANGED <<lockFile, files, removed, handle, held, tries>>
        BY <2>2 DEF daemonVars, GrowOld
      <3>2. LockFacts' /\ TypeOK'
        BY <3>1 DEF IInv, LockInv, TypeOK, LockFacts, LockTypeOK, HandlesKnown, LockExclusive
      <3>3. \A q \in Procs : Life(q)'
        BY <3>1, OthersKeep DEF IInv, LockInv, Life, Same
      <3>4. QED
        BY <3>2, <3>3 DEF IInv, LockInv, Life, LockFacts
    <2>3. ASSUME NEW p \in Procs,
                 \/ \E force \in BOOLEAN : Launch(p, force)
                 \/ Signal(p)
                 \/ MainStep(p)
                 \/ HelperStep(p)
                 \/ LoopExit(p)
                 \/ Kill(p)
                 \/ ListenAndServe(p)
                 \/ \E r \in Slots, kind \in Kinds : Arrive(p, r, kind)
                 \/ \E r \in Slots : RequestStep(p, r)
                 \/ \E r \in Slots : ClientLeaves(p, r)
          PROVE  IInv'
      <3>1. \A a \in Actors : StopStep(p, a) => Good(p)
        BY StopRuntimeSteps, StopServerSteps DEF StopStep
      <3>2. MainStep(p) => Good(p)
        BY <3>1, BeginSteps, BuildSteps, StartSteps, VanishStep DEF MainStep, Exit, Actors
      <3>3. HelperStep(p) => Good(p)
        BY <3>1, StopServerSteps DEF HelperStep, Actors
      <3>4. Good(p)
        BY <2>3, <3>2, <3>3, BeginSteps, LoopExitStep, VanishStep, ServeSteps DEF Kill
      <3>5. QED
        BY <3>4, GoodKeeps
    <2>4. QED
      BY <2>1, <2>2, <2>3 DEF Next
  <1>2. QED
    BY InitIInv, <1>1, PTL DEF Spec

\* The state of every process keeps its type.
THEOREM TypeCorrect == Spec => []TypeOK
  BY Invariance, PTL DEF IInv, LockInv

\* However many daemons are started, killed and restarted on a workspace, two that
\* write it at once each have a lock, and one of the locks is on a file that
\* CleanupStaleLocks removed.
THEOREM SingleWriter == Spec => []OneWriter
  <1>1. IInv => OneWriter
    <2> SUFFICES ASSUME IInv, NEW p \in Procs, NEW q \in Procs,
                        p # q, Writing(p), Writing(q)
                 PROVE  /\ held[p] /\ held[q]
                        /\ handle[p] \in removed \/ handle[q] \in removed
      BY DEF OneWriter
    <2>1. held[p] /\ held[q]
      BY DEF IInv, LockInv, RuntimeLife, Writing, Building
    <2>2. handle[p] # handle[q] /\ handle[p] # NoFile /\ handle[q] # NoFile
      BY <2>1 DEF IInv, LockInv, LockExclusive
    <2>3. QED
      BY <2>1, <2>2 DEF IInv, LockInv, HandlesKnown
  <1>2. QED
    BY Invariance, <1>1, PTL

\* Each process shuts down in order, whoever stops Runtime first and however many
\* requests are in progress, for every registry that adds Runtime before the server.
THEOREM OrderlyShutdown == Spec => []ShutdownIsOrderly
  <1>1. IInv => ShutdownIsOrderly
    <2> SUFFICES ASSUME IInv, NEW p \in Procs
                 PROVE  /\ rt[p].built /\ rt[p].store # "running" /\ ~main[p].gaveUp => reqs[p] = NoRequests
                        /\ rt[p].closes <= 1
                        /\ main[p].phase = "return" \/ health[p] = "stopped" => ~Writing(p) /\ ~held[p]
      BY DEF ShutdownIsOrderly
    <2>1. RuntimeLife(p) /\ ServerLife(p) /\ Progress(p)
      BY DEF IInv, LockInv
    <2>2. rt[p].built /\ rt[p].store # "running" /\ ~main[p].gaveUp => reqs[p] = NoRequests
      BY <2>1 DEF ServerLife
    <2>3. main[p].phase = "return" \/ health[p] = "stopped" => ~Writing(p) /\ ~held[p]
      BY <2>1 DEF RuntimeLife, Progress, Writing, Early, Building
    <2>4. QED
      BY <2>1, <2>2, <2>3 DEF RuntimeLife
  <1>2. QED
    BY Invariance, <1>1, PTL

=============================================================================
