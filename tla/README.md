# heike: a verification project in TLA+

heike is an agent runtime in Go: user messages, commands and scheduled events are
submitted to an ingress, queued in two lanes, executed by lane workers through an
orchestrator that plans, calls language models and runs tools under a policy, and
recorded by a store that owns the files of a workspace. This directory models the
parts of it whose correctness depends on interleavings, failures and restarts,
checks them with TLC on small instances and proves the main safety properties
with TLAPS.

## 1. Inventory of the system

For each part: the state it keeps, what changes that state, how it meets the
other parts, what is hard about it, and what makes it correct.

| Part (source) | State | Operations | Interacts with | Hard behaviour | Correct when |
|---|---|---|---|---|---|
| Ingress (`internal/ingress`) | two bounded channels | `Submit`, `Close` | called by CLI, adapters, scheduler; calls router, resolver, idempotency, store | several submitters; full lanes; `Close` against `Submit` | an event is refused or accepted, never both, and an accepted one is accounted for |
| Lane workers (`internal/worker`), session locks (`internal/concurrency`) | worker goroutine, `started`, mutex per session | `Start`, `eventLoop`, `processEvent`, `Stop`, `Health` | read the lanes, call the kernel | two lanes, one session; panics; stop with a cancelled context | one run per session at a time, no lock leaks, accepted events are run |
| Idempotency store (`internal/idempotency`) | keys with expiry, file | `CheckAndMark`, `Prune`, `Save`, `Load` | used by ingress through the store worker | TTL, asynchronous save, crash | a key passes once per life of its mark |
| Store worker (`internal/store/worker.go`) | inbox, session index, transcripts, backups, key table, vectors | requests served by one goroutine; `Stop` | everyone's persistence | callers that block, failing writes, rotation, read-then-write across requests | what is acknowledged is on disk, in order, once |
| Session resolver, command handler (`internal/ingress/resolver.go`, `internal/orchestrator/command`) | none of their own | `ensureSession`, `/model`, `/clear`, `/approve`, `/deny` | several store requests each; the policy engine | another caller between two requests | a confirmed command stays in force |
| Policy engine, tool runner (`internal/policy`, `internal/tool/runner.go`) | approvals, allowlist (two files), usage counters | `Check`, `Resolve`, `IsGranted`, `ConsumeQuota`, `Execute` | called by the cognitive actor from both lanes and parallel sub-tasks | check-then-act over two lock acquisitions; two-file writes; restart | quota kept, resolutions final, hosts allowed by a grant only |
| Task manager, DAG coordinator (`internal/orchestrator/task`) | per request: sub-tasks, batches, results | `Decompose`, `ExecuteDAG`, `persistAndSend` | cognitive engine, session manager, egress | parallel sub-tasks, retries, cancellation, odd plans of the model | dependencies first, bounded parallelism, complete answer, an end |
| Runtime lifecycle (`cmd/heike/runtime`) | started components, context | `Start`, `Stop` | all of the above | partial start, stop in an order that others do not expect | shutdown completes and loses nothing silently |
| Scheduler (`internal/scheduler`) | tasks with next run and lease, file; in-flight count | tick, `executeTask`, catch-up, lease recovery, `Stop` | submits cron and heartbeat events | crash with a lease, failing submit, stop during a submit | a due task fires once per due time and is never blocked for ever |
| Cognitive engine (`internal/cognitive`), memory (`internal/orchestrator/memory`) | context of a run: plan, scratchpad, memories, history; turn and retry counters; facts in the vector store | `Run` with plan, think, act, reflect; `Update`, `Prune`; `Remember`, `Retrieve` | models, actor, store | retries that take the turn back, replans, malformed output, pruning between a call and its result, facts stored by goroutines of their own | a run thinks a bounded number of times, the context is within its budget, requests are well formed |
| Kernel, session manager, tool broker, skills, egress (`internal/orchestrator`, `internal/egress`, `internal/skill`) | transcript, session entry | `Execute`, `HandleRequest`, `GetContext`, `SelectTools`, `selectSkillsForRequest`, `persistAndSend`, `Send` | worker, store, engine, adapters | every store call and the adapter may fail, the session changes while a request runs | what the user was told is on record, once; the offer of tools is sound |
| Model router and providers (`internal/model`, `internal/auth`) | provider table; token file; parser of a response | `Route`, `RouteEmbedding`, `Generate`, `Embed`, login | vendors, user's browser | failing providers, streams that repeat themselves and break off, a stale browser tab, a killed login | a response says what the vendor said; the chain is tried in order and ends |
| File lock (`internal/store/filelock.go`) | lock file, handle, lock per process | `NewFileLock`, `Unlock`, `CleanupStaleLocks` | other processes, operating system | a lock is on an inode and not on a name; cleanup goes by age | one writer per workspace |
| Daemon manager, runtime component, HTTP server (`internal/daemon`, `cmd/heike/runtime`, `cmd/heike/daemon.go`) | component table, health, mutex per component, requests in progress | start in dependency order, rollback, shutdown with a helper goroutine and timeouts, a deferred second `Stop`; handlers | all components; clients, signals | partial start, two stoppers, requests that need the mutex `Stop` holds | what was started is stopped, in order, once, and the process ends |
| Built-in tools and exec sessions, sandbox and executors, zanshin, config, CLI, adapters' clients | mostly I/O | | | | not modelled, see section 5 |

What is hard to test in this code is listed line by line under `hazards` in
`PROJECT.json`, each with the properties that would catch it.

## 2. Modules

| Module | What it is |
|---|---|
| `EventDelivery` | the abstract promise of the pipeline: seven states of an event and the moves between them |
| `EventPipeline` | `Ingress.Submit` and `Close`, both lane workers, session locks, start and stop of the runtime; implements `EventDelivery` |
| `EventPipelineProofs` | TLAPS proofs about it |
| `StoreWorker` | the store worker's loop, its multi-request callers, disk, failures, crash and restart |
| `StoreWorkerProofs` | TLAPS proofs about it |
| `PolicyEngine` | `tool.Runner.Execute` and `policy.Engine` with both files, failures and restart |
| `PolicyEngineProofs` | TLAPS proofs about it |
| `TaskCoordinator` | `executeComplexTask`: decomposition, batches, `ExecuteDAG`, answer |
| `TaskCoordinatorProofs` | TLAPS proofs about it |
| `Scheduler` | the tick loop, leases and `tasks.json`, with failures, crash, restart and stop |
| `SchedulerProofs` | TLAPS proofs about it |
| `CodexProvider` | the openai-codex login, the token file, `Generate` and the parser of the event stream |
| `ModelRouter` | `Route` with its fallback and `RouteEmbedding` over the providers of a configuration; contains `CodexProvider` |
| `ModelRouterProofs` | TLAPS proofs about the router, the login and the streamed response |
| `ProviderMessages` | what each provider puts on the wire for a conversation (operators) |
| `CapabilitySelection` | the tool broker's scores and order, the choice of skills (operators) |
| `CognitiveEngine` | the turn loop, pruning, memories; uses `ProviderMessages` |
| `Kernel` | the orchestrator of a session, from `Execute` to `Egress.Send`; contains `CognitiveEngine` and `CapabilitySelection` |
| `KernelProofs` | TLAPS proofs about the turn loop, the session, the offer and the messages sent |
| `FileLock` | the lock file of a workspace over inodes |
| `Daemon` | processes on one workspace: manager, runtime component, HTTP server; contains `FileLock` |
| `DaemonProofs` | TLAPS proofs about processes and their lock |
| `MC...` | the constants of the small instances TLC checks |

Definitions called "Mutant of X" are X with a plausible bug; nothing uses them in
the specifications. They document, for every checked property, a change of the
code that the property would catch (`mutants` in `PROJECT.json`).

### EventPipeline and the code

An event is named by the `Submit` call that carries it; two calls with one key
are two submissions of one event. `pc` is the position of a call and its value
after the return; one action stands for the code between two places where another
goroutine can run.

- `CheckAndMark` - `CheckAndMarkKey`; `ExpireKey` is the passing of the TTL.
  `epoch` and `markEpoch` only record which life of the mark a call used.
- `Route` - the router: a slash command is handled in place, becomes a `command`
  event, or (when it cannot be split) passes unchanged.
- `Resolve` - `ResolveWorkspace` and `ResolveSession`, which wait for the store.
- `Enqueue`, `SubmitTransient`, `SubmitCancelled`, `SendOnClosed` - the cases of
  the two selects, and Go's panic for a send on a closed channel. The cancelled
  case is open in every state because any caller's context may end.
- `Receive`, `LockSession`, `Finish`, `Panic`, `ExitLoop` - `eventLoop` and
  `processEvent`. `Leave` is the deferred unlock, which runs for a return and for
  a panic. A worker that panicked is `dead`; its `started` flag stays.
- `Cancel`, `StopWorker`, `WaitWorker`, `BeginDrain`, `DrainOne`, `DrainPoll`,
  `CloseLane`, `StopStore` - `RuntimeComponents.Stop`, `Worker.Stop` with its
  three-way select, `Ingress.Close` and the end of the store worker.

Orchestration inside `Execute` is one step here: while an event executes only its
lane's worker is occupied, which is what the pipeline's properties need.

### StoreWorker and the code

A client runs one operation: `ensure` (`ensureSession`: get, then save if there
is none), `model` (`/model`: get, change the map, save), `clear` (`/clear`: get,
reset, save), `write` (`WriteTranscript`) or `mark` (`CheckAndMarkKey` with its
queued save). The worker takes the lock of a session before it runs a command, so of
the commands of one session one at a time is between its first request and its end
(`HoldsSession`); `ensureSession` runs in `Submit`, without that lock. `Send` blocks on a full inbox; the loop serves one request at a
time. The Metadata map of a session is modelled by reference, because
`GetSession` hands out the map the index holds. Requests of several disk steps
(`ResetFile` and `ResetIndex`, `Rotate` and `AppendLine`) are several actions so
that a crash can fall between them. A failing append may leave nothing, a line
without its newline (`ragged`), or a line that was not synced. A transcript line
is named by its writer, its length is not modelled: any transcript with a line
may have reached the rotation limit. `Restart` is a crash at any point, or the
next start after a stop. Variables marked "history" are written and never read by
the actions; `unsaved`, for instance, holds the models that a `/model` command wrote
into the shared map and did not get saved by its own request.

### PolicyEngine and the code

A request is a tool and its input; its host, its sandbox permission and its
validity are parameters. `Unlocked` is `Engine.mu`: the only action that keeps it
over a disk write is a grant that adds a host (`GrantHost`, then `GrantSave`).
`CheckDenied`, `CheckAsks`, `CheckAllows` are the outcomes of `Check` (Check and
the quota it consumes are one critical section); `CheckGranted` and
`ConsumeQuota` are the two separate critical sections of a call that passes an
approval id. `Restart` loads the two files and zeroes the counters.

### TaskCoordinator and the code

Sub-task ids are numbers (`n` for `task-n`, 0 for an empty id), a plan is a list
of ids, dependency sets and blank flags. `Decompose` is `parse`,
`normalizeSubTasks` (`NormalizeItem` is the body of its loop), the fallback to the goal and the truncation. `CheckTasks`,
`PeelBatch`, `EndPeel` are `resolveExecutionBatches`; `StartBatch`, `Admit`,
`GiveUp`, `RunEngine`, `EngineSucceeds`, `EngineFails`, `BackoffEnds`,
`EndBatch` are `executeBatch` and `executeTask`; `PersistAndSend` is the answer.
The made-up id is not compared with the ids in use, exactly as in the code, so
two sub-tasks may get one id and the request is refused as `duplicate_id`.

### Scheduler and the code

An occurrence of a task is named by the `NextRun` that `ShouldFire` found in the
past; `fired` records the occurrences whose event was submitted. `ShouldFire`,
`AcquireLease`, `SubmitSucceeds` or `SubmitFails`, and `MarkTaskDone` are the steps of
`executeTask`, and time, a stop or a crash may fall between any two. Every save
writes the whole task list, so the save of one task's lease also carries what
another task changed in memory. `RecoverExpiredLeases` and `ProcessCatchUp` change
nothing, as in the code: the first only logs, the second at most submits a notice.
`Stop` returns at once (its wait for tasks in flight listens to the context it has just
cancelled), so it is one step, and the loop goes on by itself; the select of `run`
may still take a tick that waits in the ticker's channel. `StopRuntime` is the rest of
`RuntimeComponents.Stop`, which closes ingress and the store right after `Scheduler.Stop`
has returned, whatever the loop is doing: from then on (`serving` is false) no `Submit`
succeeds, and one that is in progress may fail or never return. `faultAt` is history: when
a failed submission or write, or a crash during a run, last touched a task.
`UpdateTask`, `LeaseTask` and `CompleteTask` are called by tests only.

### CodexProvider, ModelRouter and the code

`Login` is the login command: `StartLogin` draws a state and listens, `Callback` is
the local server's handler, which compares the state, `ExchangeCode` the token
request, `TruncateToken` and `EncodeToken` the two steps of writing `codex.json`,
between which the command may be killed. `Callback` may carry the state of any
login so far, because the browser tab of an abandoned one stays open. The events
of a response are one action each (`TextDelta` ... `StreamEnds`). The code passes
pointers to `ToolCall`s around: `buf` is the heap, `byItem`, `byCall` and `out.calls`
hold indices, and `forget`, `appendCodexToolCall` and `ensured` are the functions of the
parser; `flushed` is the loop at the end of `consumeCodexSSE`, `repeated` the one of
`applyCodexCompletedFallback`. The vendor may leave out events that repeat others, may
list the calls in any order in `response.completed`, and the connection may end anywhere.
A call has an id of its own or none in the whole response (`CallIDs`): `prepared` gives a call
without one the id `call_n`, n being its place in the list, which may be the id of another
call, so ids of that form are told apart from all others. What `response.completed` repeats
may lack the arguments of a call that was finished before (`bare`): its input is then
normalised to an empty object, and `appendCodexToolCall` writes it over the earlier one.
In `ModelRouter`, `AfterFailure` is the body of the fallback loop
behind a failing `Generate`, `TryOrder` is `embeddingTryOrder`, which keeps names that no
provider is registered for; `SkipUnregistered` passes over them as the loop does.

### CognitiveEngine, Kernel and the code

A text is its cost in tokens. `eng` holds the local variables of `Run`, `ctx` its
context. `Retry` keeps the turn counter (the code takes it back by one and the loop adds one)
and counts the retries of the turn, which only some of the other outcomes
reset, as in the code. `stale` is history: the context has not been pruned since it
was handed in or since the plan was replaced. `Prune` is the loop of `context.go`
over scratchpad, memories and history, stated as the longest end or front that fits.
`ThinkMessages` is the list `Think` sends; `ProviderMessages` says what each
provider makes of a message (`Items`) and of the list (`Wire`). `HandleRequest` loads the
context and chooses tools and skills: `SelectTools` and `SkillChoices` are the sets of
results that `SelectWithMetadata` and `selectSkills` can have, because `sort.Slice` is
not stable and the skills come out of a Go map; `ExecuteSimpleTask` and `Decompose` with `StartSubTask` are the two ways on,
`Persist` and `Send` are `persistAndSend`. `Submit` is here the part of
`Ingress.Submit` that touches the session. Sub-tasks run one after the other because
they share nothing but the facts; their parallelism is in `TaskCoordinator`.

### FileLock, Daemon and the code

A lock file is a number; a new file at the same path has a new number, so a process
may hold the lock of a file that is no longer there. `main` is the main goroutine
of a process through `Daemon.Start` and the deferred `Stop` of `daemon.go`, `helper`
the goroutine of `gracefulShutdown`, at its component in the shutdown order; a
timeout lets `main` go on while the helper still works. `rt.mu` and `http.mu` are the
components' mutexes; a step that needs one waits until it is free. `closes` counts how
often the store's quit channel was closed (a second time would panic). `gaveUp` is
history: a wait was given up, or the graceful shutdown was left out. `Shutdown` is what
`Start` does at its end: it parses `daemon.shutdown_timeout`, for the first time, and
returns at once if that fails, so that only the deferred `Stop` is left. `Visit` is the depth-first search of
`resolveInitOrder`, to the depth of the number of components. `Initializing` is the
component whose `Init` is next. `Kill` ends a process
anywhere, and the operating system gives its lock back.

## 3. Runs

| Run | Instance | What it shows |
|---|---|---|
| `pipeline_safety` | two submissions of one user message and a cron event of the same session; one slot per lane; one expiry per key; shutdown at any point | `SessionExclusive`, `LockMatchesExecution`, `OncePerMark`, `Accounted` and the refinement `ImplementsDelivery` |
| `pipeline_live` | a slash event, a system event of its session, a malformed event; one slot per lane; fair scheduling | `AcceptedIsProcessed`, `SubmitReturns`, `StopCompletes` |
| `pipeline_retry` | three user messages, two with one key | violated: a retry after `ErrTransient` is refused as a duplicate |
| `pipeline_close` | as `pipeline_safety`, no expiry | violated: a late `Submit` sends on a closed channel |
| `store` | six assignments of operations to three callers over two sessions, inbox of two, one failing write, one restart, three seconds | `AckedLinesKept`, `DiskMatchesMemory`, `RemarkedOnlyIfLost`, `ModelPersists`, `CallersAnswered` |
| `policy` | eight calls of all kinds over two tools, a host, two approval ids, limit 1, one failing write, one restart | `QuotaRespected`, `ResolutionIsFinal`, `AskedIsKnown`, `HostsAreGranted` |
| `policy_retry` | the same command twice, no approval id passed | violated: the repeated request is sent for approval again |
| `coordinator` | every list of three sub-tasks over the ids 0 to 3 with any dependencies, short lists with blanks, limits 2 and 3, two slots, two attempts, a cancellation at any point | `BatchesAreTopological`, `RunsAfterDependencies`, `BoundedParallelism`, `AnswerIsComplete`, `RequestEnds` |
| `scheduler` | two cron tasks of periods 1 and 2, one with a bad and one without a schedule; lease of 2, clock to 3; one failing submission or write, one restart, a stop of the scheduler and of the runtime | `FiresOncePerDue`, `BlockedOnlyAfterFault`, `DueFires`, `StopEndsLoop` |
| `models` | a response with two calls, arguments in two parts and a text in two; call ids of the vendor's form, of the parser's form, or none, in seven combinations; two logins; configurations with and without keys, fallback and embeddings, attempts 0 to 3 | `ResponseIsFaithful`, `TokenFromOwnLogin`, `GivesUpOnlyWhenExhausted` |
| `agent` | two events of a session of any kind, three goals, four tools in two orders or none; two turns, one retry, one repair of malformed output, a budget of 4 | `ThinksBounded`, `ContextFits`, `WireIsWellFormed`, `RepliesAreRecorded`, `OfferIsSound` |
| `daemon` | five registries; with the runtime alone three starts over two processes, else one process with two requests in progress | `OneWriter`, `ShutdownIsOrderly`, `ExitsWhenTold` |

The three violated properties state what a comment or a document of the repository
says; `findings` in `PROJECT.json` quotes it.

- *Retry.* The key is marked before the lane turns out to be full. `errors.go`
  advises to retry a transient error; within the TTL that retry is a duplicate.
- *Close.* `Ingress.Close` does not wait for `Submit` calls in progress, and a
  send on a closed channel panics.
- *Approval.* No caller in the agent loop passes the approval id, and `Check`
  does not look for a granted approval, so "retry" asks again.

Some properties name an exception the code really has and hold with it. Removing
an exception makes TLC show the scenario:

- `AckedLinesKept` excepts lines whose backup was overwritten by a rotation in the
  same second and lines written behind a line without its newline;
- `RemarkedOnlyIfLost` excepts keys whose queued save was not served before the
  process ended;
- `ModelPersists` excepts the late save of `ensureSession`, which writes what it read
  earlier over a `/model` that was confirmed in between, and a later `/model` that is
  not acknowledged: it has changed the shared map already, and a save of any other
  session puts that map on disk;
- `HostsAreGranted` excepts a grant torn between its two files;
- `ContextFits` excepts a context without a budget, which is what
  `executeSimpleTask` gives the engine, so nothing is pruned in a simple task, and the
  time between a replan and the next prune;
- `WireIsWellFormed` excepts results at the beginning of a pruned history, and for
  openai-codex the prompt when a system line of the session comes after it:
  the last system message becomes the instructions. For anthropic and gemini, which
  send no calls, it says that every message is on the wire, at its place;
- `OneWriter` excepts a lock file that `--force-clean-locks` removed although a
  process had locked it or was about to;
- `StopEndsLoop` excepts a loop whose `Submit` waits for the store or ingress when the
  runtime stops them: that call may never return, and nothing waits for the loop;
- `ResponseIsFaithful` says of every call that is listed that no other has its id and that its
  arguments are its own or empty. That a finished call is there, whole, excepts a call that
  `response.completed` repeats without arguments, and a call whose id clashes with one the
  parser made up; that it is there once excepts a call without an id that is repeated,
  which gets a second made-up id and is listed twice;
- `ShutdownIsOrderly` excepts requests in progress when the graceful shutdown was left out:
  `daemon.shutdown_timeout` is parsed nowhere before `Start` is about to shut down, and if that
  fails `Start` returns, the HTTP server is never stopped, and the deferred call stops Runtime
  and the store under its requests. It also excepts them when a wait was given up. That
  happens, for instance, when `/health` waits for the mutex that `Stop` of the HTTP
  server holds while it waits for that very request; the timeout ends it, which is
  what `ExitsWhenTold` rests on.

The model of the router also makes visible that after a fallback the request
still carries the first model's name (`req.Model` is not replaced), and that anthropic and
gemini get the results of tool calls but not the calls.

### Bounds and why they are enough

- One slot per lane makes "full" and "empty" neighbours; three calls are two
  submissions of one event plus a competitor for the other lane or the slot.
  One expiry is enough for both orders of expiry and second submission.
- Three callers are the smallest number with two racing operations and an
  observer behind them, two sessions let the save of one write the map of the other;
  an inbox of two can be full while one is served. Three
  seconds with a TTL of two let a mark expire, and let two rotations happen in
  the same and in different seconds. One failing write and one restart put the
  failure and the crash at every step.
- A limit of 1 with three calls that may consume it is the race for the last unit;
  two ids are one granted and one denied, or two for one request.
- Three sub-tasks are all graphs with a chain, a fork, a join, a circle of two or
  three, a duplicate and an unknown id; two slots leave one sub-task waiting; two
  attempts are one retry.
- Two cron tasks are needed because a save writes both; a clock of 3 lets a lease of 2
  expire and be taken again, and lets one task come due twice; a failure and a
  restart put a leftover lease in memory only, on disk only, and on both. `DueFires`
  is stated for the time when both bounds are used up, that is, after the last
  fault of a behaviour.

- Two calls are needed for arguments that end up in the wrong buffer and for ids that
  clash, two parts for arguments that are cut; the combinations of ids have
  a clash at every place in the list at which a made-up id can be that of the other call;
  two logins are an abandoned one and the one that waits. `LoginsApart`
  keeps a response from being streamed while a login is in progress, and all but one combination
  of ids to responses before the first login: the two share nothing but the token a
  response begins with, which is read in one step.
- Two turns with one retry and one replan put every order of the counters' resets
  before the last turn; a budget of 4 with plans of 1 and 5 prunes each part of the
  context and is exceeded by a plan alone. Two events let a submission, a reset or a
  stored fact of one fall into the run of the other.
- Two processes and three starts are two that meet and one that comes after a kill;
  two attempts at the lock are one that fails and one that follows. Two requests
  are one that holds up the shutdown and one that waits behind it. The server and
  the second process are not combined: they share no state but the lock, which
  the runtime alone has.

`CHECK_DEADLOCK FALSE` is set where the system really stops: after shutdown, when
all calls have returned, or when all bounds are used up. `CallersAnswered`,
`SubmitReturns`, `StopCompletes`, `RequestEnds` and `ExitsWhenTold` say what must not get stuck.

### Fairness

Weak fairness only. The Go scheduler runs every runnable goroutine, a select with
a ready case proceeds, and timers fire. `orch.Execute` and `engine.Run` end
because turns, retries and model calls are bounded (in the pipeline this is
assumed only while the store answers, as a run that waits for a stopped store
never ends). A session's mutex needs no strong fairness because each of the two
lanes competes with one other lane whose accepted events are finite. The scheduler's ticker fires while it
runs; its `Submit` is assumed to end only while store and ingress serve (`WF_vars(serving /\
SubmitEnds)`), which `SubmitReturns` of the pipeline backs, and not after `StopRuntime`. In the daemon the main goroutine, the helper and the store's loop of each process
are fair, timeouts included; request handlers, clients, signals and kills are not.
Nobody is assumed to submit, to panic, to cancel a context, to fail or to let a mark expire.

## 4. Proofs

`EventPipelineProofs` proves, for every set of calls, keys and sessions, every
lane size and any number of expiries: `TypeOK`, `LockMatchesExecution`,
`SessionExclusive`, `OncePerMark`, `Accounted`, and that the pipeline implements
`EventDelivery`. The inductive invariant adds: a worker that is locking or executing
holds an event (`HoldsWhileBusy`); a worker that the start sequence has not reached yet
is new (`NotYetStarted`, so that starting a worker cannot overwrite one that executes);
and a call that passed the duplicate check did so in the present epoch of its key, whose
mark is then live, or in an earlier one (`MarkIsCurrentOrExpired`).
`SessionExclusive` follows from the lock invariant: two executing lanes of one session
would both be the holder. The strengthening for `OncePerMark` is needed because the
property speaks of past marks: without "a passed call of the present epoch implies a
live mark" nothing prevents a second pass in the same epoch. For `Accounted` the places
of an event are stated as disjoint sets (`Places`), which is inductive only together with
"an event is in one lane, once" (`QueuedOnce`) and "two workers hold different events"
(`HeldOnce`): otherwise a receive could leave a second copy behind. The refinement maps
a call to the abstract state its place stands for; every action is shown to move one
call along an edge of `EventDelivery` or to change none, where a discard also needs that
a shutdown has cancelled the context (`ShutdownCancels`).

`PolicyEngineProofs` proves, for every set of tools, hosts, requests, calls and
ids and any limit: `TypeOK`, `QuotaRespected`, `ResolutionIsFinal`,
`AskedIsKnown`, `HostsAreGranted`. The inductive invariant adds: the grant in
progress is still pending (`ResolvingIsPending`: the mutex is held between its two
writes); the file of approvals is never ahead of memory (`DiskBehindMemory`);
an approval a caller was asked for is in the file (`AskedOnDisk`, so it survives a
restart); and every allowed host, in memory or on disk, is vouched for by an
approval whose grant is done, in progress or torn (`HostsVouched`, which also
covers a restart in which the file says less than memory did). The quota is a
statement about the cardinality of the set of running calls and uses the finite-set
theorems; it assumes that the set of calls is finite.

`SchedulerProofs` proves, for every set of tasks, every period and lease duration and
any number of faults and restarts: `TypeOK`, `FiresOncePerDue`,
`BlockedOnlyAfterFault`. The inductive invariant says that what was submitted lies
before the next run in memory and on disk (`FiredIsBehind`, which is what a restart
needs), that the occurrence being executed is behind the next run, on disk too once
its lease is saved (`DueIsTaken`), that an executing run owns its task's lease
(`RunOwnsLease`), and that every lease, in memory and on disk, that no run holds
expires within a lease duration of a fault (`LeaseBounded`). Of cron schedules only
`NextTimeLater` is used: the next fire time lies after the time it is computed for.

`StoreWorkerProofs` proves, for every number of callers, sessions, keys, restarts and
failing writes and every assignment of operations: `TypeOK`, `AckedLinesKept`,
`DiskMatchesMemory`, `RemarkedOnlyIfLost`, `ModelPersists`. A caller has at most one
request in the inbox or in service (`QueuedOnce`, `ServedOnce`, `KindsFit`). On this rest
three arguments. *Lines*: a line is only in files of its session (`LinesWritten`), no
backup lies in the future (`BackupsPast`, so a rotation moves the transcript behind all
backups), and the acknowledged lines are present, once and in order, over the
sequence of files (`AckedOnce`, `AckedPresent`, `AckedOrdered`). *Models*: every map belongs
to one session (`MapsOwned`), of a session's commands one holds its lock
(`SessionLocked`), so the model a command is about to save is the one it wrote
(`ModelWritten`), and what `ModelPersists` says of memory holds of the disk, which a
restart loads (`DiskPersists`). *Keys*: a mark within its TTL is in memory or was lost with a
process (`MarkKept`). Proving `ModelPersists` showed that an earlier form of it, true of a
single session, is false with two; the exception in section 3 is the result.

`TaskCoordinatorProofs` proves, for every list of sub-tasks, limit, number of slots and of
attempts: `TypeOK`, `BatchesAreTopological`, `RunsAfterDependencies`,
`BoundedParallelism`, `AnswerIsComplete`. While batches are peeled off, the in-degree of a
sub-task is the number of its dependencies not placed, and `ready` is exactly the set of
those without any (`Peeling`); every subset of what is placed has a member without
dependencies in it (`PlacedWell`). So when nothing is ready and something is not placed,
the rest has a circle, and when a circle exists it is never placed. While sub-tasks
run, batches are begun in turn (`BatchesInTurn`), a recorded result is final
(`Recorded`), the engine has a sub-task only if its dependencies are recorded
as successful (`DependenciesKnown`), a failure has its reason (`AttemptsLeft`,
`FailureExplained`), and the results reported so far are those of the batches before
(`OrderedWell`). That normalisation gives a list of the right type is proved of the recursive
function `Normalize` by induction.

`ModelRouterProofs` proves, for every configuration, list of names, number of logins,
of calls in a response and of parts of their arguments: `TokenFromOwnLogin`,
`GivesUpOnlyWhenExhausted` and `ResponseIsFaithful`. A login that saves holds the code of
its own state (`LoginInv`). A completion at attempt 0 has asked the provider its
model resolves to, later the first provider asked is that one and the present one the
fallback (`RouteInv`); an embedding has asked some of the providers, and those it has not
asked are still in its order, each once (`EmbedInv`). For the start of an embedding
`TryOrder` is shown, by induction, to contain every registered provider once.
For the stream the invariant is about the parser's heap (`Parses`). A tool call on it has the
id the vendor gave it, none, or a made-up one, and no part of another's arguments (`HeapOK`);
what is listed has an id, no two the same, and is whole or an empty object (`Listed`); the
finished calls are listed (`Covers`) and, unless repeated bare, whole wherever they are on
the heap (`WholeIn`), which is what makes it harmless that `appendCodexToolCall` copies a
repeated call over the earlier one. If no id of the response has the form of a made-up one
(`Foreign`), the made-up ids are the places in the list (`MadeUp`), so none is given twice, and a
call without an id that was not repeated has one tool call (`Once`); with ids of that form
only calls that cannot be mistaken (`Sure`) are claimed to be listed. A call has a
buffer from its announcement to its end, which holds what was streamed so far
(`BufferInv`). Each conjunct is kept by one use of `appendCodexToolCall`, hence by the
loops `flushed` and `repeated`. No assumption keeps calls without an id out: `CallsAssumption` only
says that two calls with ids have different ones.

`KernelProofs` proves, for every limit, budget, cost and number of events:
`ThinksBounded`, `ContextFits`, `RepliesAreRecorded`, `OfferIsSound`,
`WireIsWellFormed`. `ThinksCounted` bounds the thoughts
at each point of a turn by the allowance of the full turns before it and the retries of
this one, which is what makes the different resets of the retry counter harmless.
`ContextKept` also covers the time in which a new plan is asked for, because a failing
replan keeps the old plan and does not prune; the value of `Total` on ends and fronts of a
sequence is proved by induction. For the transcript, requests are numbered in
the order in which they are taken (`InTurn`), and the request in execution has no reply yet
(`Unreplied`) until it is recorded before it is sent (`Recorded`).

`OfferIsSound` is a statement about what `HandleRequest` chooses. A tool left out lies
behind every chosen one in the order (`OrderCovers`), so its score is not higher; that a
riskier tool then matches better, although the baseline for built-in tools lifts a
score of 0 to 1, is arithmetic over the penalties (`ScoreFacts`). The chosen skills are built
by `add` one at a time (`AddStep`); by induction they are distinct, the first of them are
what mentions resolve to, and a mentioned skill is among those unless they already fill the
limit (`Owes`, `ChosenFacts`).

`WireIsWellFormed` needs an invariant of the history, because `Prune` and the actor act on
messages and the property speaks of items. A history is a conversation (`Talk`) when
each assistant message with n calls is followed by the n results (`Answered`), and each
result stands behind its message at its distance (`Follows`) or, with a budget, in a block of results at the
front (`Leading`). The invariant `HistoryInv` says so of the engine's history at every
point but one: while the actor runs the calls, the last message's calls are open
(`Pending`). `Talk` is kept by dropping any front (`SuffixTalk`: the argument why pruning can cut
an exchange only at the beginning), by the results of the calls (`ResultsTalk`) and by the prompt
put in front (`PromptTalk`). From messages to items goes `Laid`: an item stands inside the
block of its message, and blocks are in the order of the messages; with it a call's result on the
wire is found from the message's (`CallsSent`, `ResultsSent`), with nothing but calls and
results between them.

`DaemonProofs` proves, for any number of processes, kills and attempts and any registry:
the types, `OneWriter`, `ShutdownIsOrderly`. A handle is the file at the path
or a removed one (`HandlesKnown`), the holder of a file's lock is alone
(`LockExclusive`), and a runtime that writes has the lock (`RuntimeLife`): two writers
thus have two files, one of which was removed. `RuntimeLife` also says that the quit channel
is closed only by the one who has the mutex, the first time. `ServerLife` and `Progress` relate the
helper's place in the shutdown order to what is already stopped, and carry the second half: the
server is closed and empty before the runtime is stopped, unless a wait was given up or the
shutdown was left out (`LeftOut`): then nothing is claimed of the requests, but the mutex and the
quit channel are as before, so the deferred `Stop` still closes the store once and returns the lock.

The assumptions are the `ASSUME`s of the modules: the types of the parameters, positive
limits and sizes, and that `None` is none of the values. Beyond types there are these:
the set of policy calls is finite; a caller is not a session (`MapsDistinct`, names of
maps); plans are finite lists over the ids (`PlansType`); configurations name only listed
models (`RouterAssumption`); a registry lists the runtime before the server
(`RegistryAssumption`, the order in which `daemon.go` adds them); a response has finitely
many calls, and two of them that have an id have different ones (`CallsAssumption`); there are finitely many skills
(`SelectionAssumption`), a goal has finitely many tokens and a registry lists no tool
twice (`OfferAssumption`: the runner's registry is a map by name).

Every inductive invariant was checked by TLC on the run's instance before its proof.
Induction over natural numbers is used in the form "a nonempty set of naturals has a
least element" (`LeastNat`, `NatInd`), which is how the recursive functions `Normalize`,
`TryOrder`, `Total`, `flushed`, `repeated`, `Chosen` and `Wire` are reasoned about. That such
a function exists is itself proved: the set of numbers up to which a sequence of
iterates exists has no least gap (`IterExists`), and what holds at the start and is kept by
a step holds of every iterate (`IterInvariant`).

Every invariant and action property that a passing run checks is thereby proved for
every value of the constants. Checked by TLC only are the liveness properties
`AcceptedIsProcessed`, `SubmitReturns`, `StopCompletes`, `CallersAnswered`,
`RequestEnds`, `DueFires`, `StopEndsLoop` and `ExitsWhenTold`: fairness and ENABLED are
outside the prover's reach. So are the three violated properties, which are refuted by a
counterexample on a small instance.

## 5. What is not modelled, and why

- `Execute` is opaque in the pipeline; the parts behind it have modules of their
  own and are connected by their interfaces, not composed in one state space.
- Wall-clock durations: a timer that may have fired is a choice; only the
  idempotency TTL and the second of a rotation are on a clock.
- Reads that change nothing (`ReadTranscript`, `ListSessions`, `Health`).
- Concurrent access to a shared Go map (`/model` writes the Metadata map the store
  may be encoding) ends the process with a fatal error when the runtime notices; in
  `StoreWorker` this is one of the crashes that may happen at any point.
- Built-in tools, exec sessions, sandbox and executors, the clients of Slack, Telegram
  and the model vendors: I/O with the operating system or the network behind one call
  that succeeds or fails, which the modules have. An exec session's state is an
  operating-system process and its output.
- Zanshin: a ticker whose work is two counters that only a status request reads.
- The daemon's periodic health monitor: it logs what components report.
- The calendar day of the quota: the daily limit counts runs since the engine was
  created, it is not reset at midnight and a restart forgets it. `PolicyEngine` has
  the restart; there is no day in the model because there is none in the code.
- The policy audit log and the validators of policy files: `Check` and `Resolve` read
  neither.
- Parsing of skill files, configuration and command lines, prompts, the scanners that
  find JSON in an answer, formatting: conversions without concurrent state. Their
  outcomes (parses or not, which tokens, which cost) are parameters or choices.

## 6. Plan

All parts with concurrent or failing behaviour have a module, and the safety properties of
all modules are proved. What would extend the project:

1. the composition of the pipeline with the coordinator: `Execute` as the request of
   `TaskCoordinator` instead of one opaque step;
2. exec sessions, if their state should come to be shared between requests;
3. the refinement of `EventDelivery` under its fairness, should a prover for liveness
   become available.

## 7. Running

    tlc -workers 2 -config pipeline_safety.cfg MCEventPipeline
    tlapm EventPipelineProofs.tla

and likewise for the other configurations and proof modules; `runs` in
`PROJECT.json` says which module belongs to which configuration.
