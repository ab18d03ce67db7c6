--------------------------- MODULE TaskCoordinator ---------------------------
(***************************************************************************)
(* A complex request: the decomposition of a goal into sub-tasks, their    *)
(* normalization and truncation, the batches of the dependency graph, and  *)
(* their execution by Coordinator.ExecuteDAG with bounded parallelism,     *)
(* retries and cancellation, up to the answer that is stored and sent.     *)
(*                                                                         *)
(* A sub-task id is a number: n stands for the id "task-n", which the code *)
(* also makes up for a sub-task without a usable id; 0 is the empty id.    *)
(***************************************************************************)
EXTENDS Naturals, Sequences, FiniteSets

CONSTANTS MaxId,        \* ids are 0..MaxId
          Plans,        \* the sub-task lists the model may answer with
          Limits,       \* values of maxSubTasks to explore
          MaxParallel,  \* size of a batch's semaphore
          RetryMax      \* engine runs per sub-task

Ids == 1..MaxId

\* An item of the model's answer, and a sub-task made of it.
Item == [id : 0..MaxId, deps : SUBSET Ids, blank : BOOLEAN]

SubTask == [id : Ids, deps : SUBSET Ids]

ASSUME MaxIdType  == MaxId \in Nat \ {0}
ASSUME PlansType  == \A p \in Plans : p \in Seq(Item) /\ Len(p) <= MaxId
ASSUME LimitsType == Limits \subseteq Nat \ {0}
ASSUME SizesType  == MaxParallel \in Nat \ {0} /\ RetryMax \in Nat \ {0}

VARIABLES
    plan,       \* what the model answers; not kept once it is parsed
    limit,      \* maxSubTasks; only the truncation reads it
    pc,         \* progress of executeComplexTask and ExecuteDAG
    tasks,      \* the sub-tasks handed to ExecuteDAG
    inDegree,   \* dependencies of a sub-task not yet placed in a batch
    ready,      \* sub-tasks of the next batch
    batches,    \* the batches so far
    batch,      \* number of the batch being executed
    st,         \* where the goroutine of each sub-task is
    attempt,    \* engine runs of each sub-task
    results,    \* resultsByID: outcomes of the finished batches
    ordered,    \* ids of the results, in the order of the answer
    ctxDone,    \* the request's context is cancelled
    outcome     \* what executeComplexTask returned

graphVars == <<inDegree, ready, batches>>
runVars   == <<batch, st, attempt, results, ordered>>
vars == <<plan, limit, pc, tasks, graphVars, runVars, ctxDone, outcome>>

Outcomes == {"none", "decompose_error", "duplicate_id", "unknown_dependency",
             "circular", "cancelled", "persist_error", "send_error", "sent"}

Init ==
    /\ plan \in Plans
    /\ limit \in Limits
    /\ pc = "decompose"
    /\ tasks = <<>>
    /\ inDegree = [i \in Ids |-> 0]
    /\ ready = {}
    /\ batches = <<>>
    /\ batch = 1
    /\ st = [i \in Ids |-> "none"]
    /\ attempt = [i \in Ids |-> 0]
    /\ results = [i \in Ids |-> "none"]
    /\ ordered = <<>>
    /\ ctxDone = FALSE
    /\ outcome = "none"

Return(what) == pc' = "returned" /\ outcome' = what

-----------------------------------------------------------------------------
(* Decomposition                                                           *)

IdsOf(list) == {list[i].id : i \in DOMAIN list}

\* An empty id, and one already used, is replaced by the position.
NormalId(out, id) == IF id = 0 \/ id \in IdsOf(out) THEN Len(out) + 1 ELSE id

\* One turn of the loop of normalizeSubTasks: no blank descriptions, no sub-task
\* that depends on itself.
NormalizeItem(out, item) ==
    IF item.blank THEN out
    ELSE LET id == NormalId(out, item.id) IN
         Append(out, [id |-> id, deps |-> item.deps \ {id}])

\* normalizeSubTasks: norm[k] is the list after k items.
Normalize(items) ==
    LET norm[k \in 0..Len(items)] ==
            IF k = 0 THEN <<>> ELSE NormalizeItem(norm[k - 1], items[k])
    IN norm[Len(items)]

\* With nothing usable in the answer the goal itself is the only sub-task.
Decomposed(items) ==
    IF Normalize(items) = <<>> THEN <<[id |-> 1, deps |-> {}]>> ELSE Normalize(items)

Truncate(list, n) == IF Len(list) > n THEN SubSeq(list, 1, n) ELSE list

Decompose ==
    /\ pc = "decompose"
    /\ \/ /\ tasks' = Truncate(Decomposed(plan), limit)
          /\ pc' = "resolve"
          /\ UNCHANGED outcome
       \/ /\ Return("decompose_error")
          /\ UNCHANGED tasks
    /\ plan' = <<>>
    /\ limit' = 0
    /\ UNCHANGED <<graphVars, runVars, ctxDone>>

-----------------------------------------------------------------------------
(* resolveExecutionBatches                                                 *)

TaskIds == IdsOf(tasks)

DepsOf(t) == UNION {tasks[i].deps : i \in {j \in DOMAIN tasks : tasks[j].id = t}}

Dependents(S) == {t \in TaskIds : DepsOf(t) \cap S # {}}

DuplicateId == Cardinality(TaskIds) # Len(tasks)

UnknownDependency == \E t \in TaskIds : ~(DepsOf(t) \subseteq TaskIds)

\* The two passes over the list: ids, then dependencies and in-degrees.
CheckTasks ==
    /\ pc = "resolve"
    /\ \/ /\ DuplicateId
          /\ Return("duplicate_id")
          /\ UNCHANGED <<inDegree, ready>>
       \/ /\ ~DuplicateId
          /\ UnknownDependency
          /\ Return("unknown_dependency")
          /\ UNCHANGED <<inDegree, ready>>
       \/ /\ ~DuplicateId
          /\ ~UnknownDependency
          /\ inDegree' = [t \in Ids |-> IF t \in TaskIds THEN Cardinality(DepsOf(t)) ELSE 0]
          /\ ready' = {t \in TaskIds : DepsOf(t) = {}}
          /\ pc' = "peel"
          /\ UNCHANGED outcome
    /\ UNCHANGED <<plan, limit, tasks, batches, runVars, ctxDone>>

\* Mutant of PeelBatch: the first dependency that is placed makes a sub-task ready.
PeelEager ==
    /\ pc = "peel"
    /\ ready # {}
    /\ batches' = Append(batches, ready)
    /\ ready' = Dependents(ready) \ (ready \cup UNION {batches[i] : i \in DOMAIN batches})
    /\ UNCHANGED <<plan, limit, pc, tasks, inDegree, runVars, ctxDone, outcome>>

\* One turn of the loop: the ready sub-tasks are a batch, and a dependent whose
\* in-degree drops to zero is in the next one.
PeelBatch ==
    /\ pc = "peel"
    /\ ready # {}
    /\ batches' = Append(batches, ready)
    /\ inDegree' = [t \in Ids |-> IF t \in TaskIds
                                  THEN inDegree[t] - Cardinality(DepsOf(t) \cap ready)
                                  ELSE 0]
    /\ ready' = {t \in Dependents(ready) : inDegree'[t] = 0}
    /\ UNCHANGED <<plan, limit, pc, tasks, runVars, ctxDone, outcome>>

Placed == UNION {batches[i] : i \in DOMAIN batches}

EndPeel ==
    /\ pc = "peel"
    /\ ready = {}
    /\ IF Cardinality(Placed) # Len(tasks)
       THEN Return("circular")
       ELSE pc' = "execute" /\ UNCHANGED outcome
    /\ UNCHANGED <<plan, limit, tasks, graphVars, runVars, ctxDone>>

-----------------------------------------------------------------------------
(* executeBatch and executeTask                                            *)

Move(t, to) == st' = [st EXCEPT ![t] = to]

Step == UNCHANGED <<plan, limit, pc, tasks, graphVars, batch, results, ordered, ctxDone, outcome>>

\* A goroutine per sub-task of the batch, unless the context is cancelled.
StartBatch ==
    /\ pc = "execute"
    /\ batch <= Len(batches)
    /\ IF ctxDone
       THEN Return("cancelled") /\ UNCHANGED st
       ELSE /\ st' = [t \in Ids |-> IF t \in batches[batch] THEN "queued" ELSE st[t]]
            /\ pc' = "inBatch"
            /\ UNCHANGED outcome
    /\ UNCHANGED <<plan, limit, tasks, graphVars, batch, attempt, results, ordered, ctxDone>>

\* Mutant of Holding: a sub-task that fails keeps its slot.
HoldingFailed == {t \in Ids : st[t] \in {"admitted", "running", "backoff", "failed"}}

Holding == {t \in Ids : st[t] \in {"admitted", "running", "backoff"}}

\* Mutant of Admit: the outcome of the dependencies is not looked at.
AdmitAnyway(t) ==
    /\ st[t] = "queued"
    /\ Cardinality(Holding) < MaxParallel
    /\ Move(t, "admitted")
    /\ UNCHANGED attempt
    /\ Step

\* Mutant of Admit: off by one in the size of the semaphore.
AdmitOneMore(t) ==
    /\ st[t] = "queued"
    /\ Cardinality(Holding) <= MaxParallel
    /\ Move(t, IF \A d \in DepsOf(t) : results[d] = "ok" THEN "admitted" ELSE "failed")
    /\ UNCHANGED attempt
    /\ Step

\* The semaphore admits a sub-task; a missing or failed dependency ends it.
Admit(t) ==
    /\ st[t] = "queued"
    /\ Cardinality(Holding) < MaxParallel
    /\ Move(t, IF \A d \in DepsOf(t) : results[d] = "ok" THEN "admitted" ELSE "failed")
    /\ UNCHANGED attempt
    /\ Step

GiveUp(t) ==
    /\ ctxDone
    /\ st[t] \in {"queued", "admitted", "backoff"}
    /\ Move(t, "failed")
    /\ UNCHANGED attempt
    /\ Step

\* engine.Run is called with the outputs of the dependencies.
RunEngine(t) ==
    /\ st[t] = "admitted"
    /\ ~ctxDone
    /\ Move(t, "running")
    /\ attempt' = [attempt EXCEPT ![t] = @ + 1]
    /\ Step

EngineSucceeds(t) ==
    /\ st[t] = "running"
    /\ Move(t, "ok")
    /\ UNCHANGED attempt
    /\ Step

EngineFails(t) ==
    /\ st[t] = "running"
    /\ Move(t, IF attempt[t] < RetryMax THEN "backoff" ELSE "failed")
    /\ UNCHANGED attempt
    /\ Step

BackoffEnds(t) ==
    /\ st[t] = "backoff"
    /\ Move(t, "admitted")
    /\ UNCHANGED attempt
    /\ Step

Finished(S) == \A t \in S : st[t] \in {"ok", "failed"}

\* The ids of a set in ascending order, as sort.Strings leaves a batch.
Sorted(S) ==
    CHOOSE s \in [1..Cardinality(S) -> S] :
        \A i, j \in 1..Cardinality(S) : i < j => s[i] < s[j]

\* Mutant of EndBatch: only the successful results are kept.
EndBatchDropsFailures ==
    /\ pc = "inBatch"
    /\ Finished(batches[batch])
    /\ IF ctxDone
       THEN Return("cancelled") /\ UNCHANGED <<batch, results, ordered>>
       ELSE /\ results' = [t \in Ids |-> IF t \in batches[batch] THEN st[t] ELSE results[t]]
            /\ ordered' = ordered \o Sorted({t \in batches[batch] : st[t] = "ok"})
            /\ batch' = batch + 1
            /\ pc' = "execute"
            /\ UNCHANGED outcome
    /\ UNCHANGED <<plan, limit, tasks, graphVars, st, attempt, ctxDone>>

\* wg.Wait is over: the results of the batch become visible to the next one.
EndBatch ==
    /\ pc = "inBatch"
    /\ Finished(batches[batch])
    /\ IF ctxDone
       THEN Return("cancelled") /\ UNCHANGED <<batch, results, ordered>>
       ELSE /\ results' = [t \in Ids |-> IF t \in batches[batch] THEN st[t] ELSE results[t]]
            /\ ordered' = ordered \o Sorted(batches[batch])
            /\ batch' = batch + 1
            /\ pc' = "execute"
            /\ UNCHANGED outcome
    /\ UNCHANGED <<plan, limit, tasks, graphVars, st, attempt, ctxDone>>

\* The answer with all results is stored in the transcript and then sent.
PersistAndSend ==
    /\ pc = "execute"
    /\ batch > Len(batches)
    /\ Return("sent") \/ Return("persist_error") \/ Return("send_error")
    /\ UNCHANGED <<plan, limit, tasks, graphVars, runVars, ctxDone>>

Cancel ==
    /\ ~ctxDone
    /\ pc # "returned"
    /\ ctxDone' = TRUE
    /\ UNCHANGED <<plan, limit, pc, tasks, graphVars, runVars, outcome>>

-----------------------------------------------------------------------------

Goroutine(t) ==
    \/ Admit(t) \/ GiveUp(t) \/ RunEngine(t)
    \/ EngineSucceeds(t) \/ EngineFails(t) \/ BackoffEnds(t)

Main == Decompose \/ CheckTasks \/ PeelBatch \/ EndPeel \/ StartBatch \/ EndBatch \/ PersistAndSend

Next == Main \/ (\E t \in Ids : Goroutine(t)) \/ Cancel

Spec == Init /\ [][Next]_vars

\* The caller and every goroutine go on when they can, and engine.Run returns
\* (its turns and its retries are bounded).
FairSpec == Spec /\ WF_vars(Main) /\ \A t \in Ids : WF_vars(Goroutine(t))

-----------------------------------------------------------------------------
(* Properties                                                              *)

States == {"none", "queued", "admitted", "running", "backoff", "ok", "failed"}

TypeOK ==
    /\ plan \in Plans \cup {<<>>}
    /\ limit \in Limits \cup {0}
    /\ pc \in {"decompose", "resolve", "peel", "execute", "inBatch", "returned"}
    /\ tasks \in Seq(SubTask)
    /\ inDegree \in [Ids -> Nat]
    /\ ready \subseteq Ids
    /\ batches \in Seq(SUBSET Ids)
    /\ batch \in Nat \ {0}
    /\ st \in [Ids -> States]
    /\ attempt \in [Ids -> 0..RetryMax]
    /\ results \in [Ids -> {"none", "ok", "failed"}]
    /\ ordered \in Seq(Ids)
    /\ ctxDone \in BOOLEAN
    /\ outcome \in Outcomes

\* Some sub-tasks wait for each other.
Cyclic == \E S \in (SUBSET TaskIds) \ {{}} : \A t \in S : DepsOf(t) \cap S # {}

\* The batches are a topological order: a sub-task is in one batch, and behind all
\* it depends on; and the request is refused as circular exactly when some
\* sub-tasks depend on each other in a circle (resolveExecutionBatches).
BatchesAreTopological ==
    /\ \A i, j \in DOMAIN batches : i # j => batches[i] \cap batches[j] = {}
    /\ \A i \in DOMAIN batches : \A t \in batches[i] :
          DepsOf(t) \subseteq UNION {batches[j] : j \in 1..(i - 1)}
    /\ pc \in {"execute", "inBatch"} => Placed = TaskIds /\ ~Cyclic
    /\ outcome = "circular" => Cyclic

\* The engine is asked for a sub-task only when every sub-task it depends on has
\* succeeded, whatever failed, was retried or was cancelled meanwhile (executeTask).
RunsAfterDependencies ==
    \A t \in Ids : st[t] \in {"running", "backoff", "ok"} =>
        \A d \in DepsOf(t) : st[d] = "ok" /\ results[d] = "ok"

\* No more sub-tasks of a request are with the engine, or waiting to be retried,
\* than the semaphore admits (executeBatch).
BoundedParallelism == Cardinality(Holding) <= MaxParallel

\* A failure is contained and explained: in an answer, a sub-task failed only if it
\* used up its attempts or needs one that failed, and every sub-task of the request
\* is reported once, behind those it depends on.
AnswerIsComplete ==
    outcome = "sent" =>
        /\ {ordered[i] : i \in DOMAIN ordered} = TaskIds
        /\ Len(ordered) = Len(tasks)
        /\ \A i, j \in DOMAIN ordered : ordered[i] \in DepsOf(ordered[j]) => i < j
        /\ \A t \in TaskIds : results[t] = "failed" =>
              \/ attempt[t] = RetryMax
              \/ \E d \in DepsOf(t) : results[d] = "failed"
              \/ ctxDone

\* Every request comes to an end: no dependency, failure, cancellation or full
\* semaphore leaves ExecuteDAG waiting.
RequestEnds == <>(pc = "returned")

=============================================================================
