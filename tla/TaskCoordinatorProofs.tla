----------------------- MODULE TaskCoordinatorProofs -----------------------
(***************************************************************************)
(* What ExecuteDAG promises, for every list of sub-tasks the model may     *)
(* answer with, every limit, every degree of parallelism and number of     *)
(* attempts: the batches are a topological order, the engine never runs a  *)
(* sub-task before its dependencies succeeded nor more of them than the    *)
(* semaphore admits, and an answer reports every sub-task.                 *)
(***************************************************************************)
EXTENDS TaskCoordinator, FiniteSetTheorems, SequenceTheorems, WellFoundedInduction, TLAPS

Late == {"cancelled", "persist_error", "send_error", "sent"}

\* The phases before a sub-task runs.
Early ==
    /\ pc \in {"decompose", "resolve"} => batches = <<>> /\ ready = {}
    /\ pc \in {"decompose", "resolve", "peel"} =>
          /\ \A t \in Ids : st[t] = "none" /\ results[t] = "none" /\ attempt[t] = 0
          /\ batch = 1 /\ ordered = <<>>
    /\ outcome # "none" <=> pc = "returned"
    /\ outcome \in {"decompose_error", "duplicate_id", "unknown_dependency", "circular"} => batch = 1
    /\ outcome \in {"decompose_error", "duplicate_id", "unknown_dependency"} => batches = <<>>

\* The list passed both checks.
Checked ==
    pc \in {"peel", "execute", "inBatch"} \/ outcome \in Late \cup {"circular"} =>
        Cardinality(TaskIds) = Len(tasks) /\ \A t \in TaskIds : DepsOf(t) \subseteq TaskIds

\* What is placed is a part of the list, in the order of its dependencies, and has no circle.
PlacedWell ==
    /\ Placed \subseteq TaskIds
    /\ \A i, j \in DOMAIN batches : i # j => batches[i] \cap batches[j] = {}
    /\ \A i \in DOMAIN batches : \A t \in batches[i] :
          \A d \in DepsOf(t) : \E j \in DOMAIN batches : j < i /\ d \in batches[j]
    /\ \A S \in (SUBSET Placed) \ {{}} : \E t \in S : DepsOf(t) \cap S = {}

\* The loop of resolveExecutionBatches: the in-degree counts the dependencies not
\* placed, and exactly the sub-tasks without any are ready.
Peeling ==
    pc = "peel" =>
        /\ \A t \in TaskIds : inDegree[t] = Cardinality(DepsOf(t) \ Placed)
        /\ ready = {t \in TaskIds \ Placed : DepsOf(t) \subseteq Placed}

AllPlaced == pc \in {"execute", "inBatch"} \/ outcome \in Late => Placed = TaskIds

GraphInv ==
    /\ TypeOK /\ Early /\ Checked /\ PlacedWell /\ Peeling /\ AllPlaced
    /\ outcome = "circular" => Cyclic

\* A batch is begun once, after the ones before it were recorded.
BatchesInTurn ==
    /\ batch <= Len(batches) + 1
    /\ pc = "inBatch" => batch <= Len(batches)
    /\ \A i \in DOMAIN batches : \A t \in batches[i] :
          /\ i < batch => results[t] \in {"ok", "failed"}
          /\ pc \in {"peel", "execute", "inBatch"} /\ (i > batch \/ (i = batch /\ pc # "inBatch")) =>
                st[t] = "none"

\* A recorded result is the final one.
Recorded == \A t \in Ids : results[t] # "none" => st[t] = results[t]

\* A sub-task starts when its dependencies are recorded, and the engine gets it
\* only if they succeeded.
DependenciesKnown ==
    \A t \in Ids : st[t] # "none" =>
        /\ \A d \in DepsOf(t) : results[d] \in {"ok", "failed"}
        /\ st[t] \in {"admitted", "running", "backoff", "ok"} => \A d \in DepsOf(t) : results[d] = "ok"

\* Attempts left, and why a sub-task failed.
AttemptsLeft ==
    \A t \in Ids :
        /\ st[t] \in {"none", "queued"} => attempt[t] = 0
        /\ st[t] \in {"admitted", "backoff"} => attempt[t] < RetryMax

FailureExplained ==
    \A t \in Ids : st[t] = "failed" =>
        attempt[t] = RetryMax \/ (\E d \in DepsOf(t) : results[d] = "failed") \/ ctxDone

\* The sub-tasks of the batches before the current one.
Reported == UNION {batches[i] : i \in {j \in DOMAIN batches : j < batch}}

\* The results so far: each of those sub-tasks once, behind its dependencies.
OrderedWell ==
    /\ {ordered[i] : i \in DOMAIN ordered} = Reported
    /\ Len(ordered) = Cardinality(Reported)
    /\ \A i, j \in DOMAIN ordered : ordered[i] \in DepsOf(ordered[j]) => i < j
    /\ outcome = "sent" => batch > Len(batches)

RunInv ==
    /\ BatchesInTurn /\ Recorded /\ DependenciesKnown
    /\ AttemptsLeft /\ FailureExplained
    /\ BoundedParallelism
    /\ OrderedWell

IInv == GraphInv /\ RunInv

-----------------------------------------------------------------------------
(* Induction over the natural numbers, stated of sets                      *)

\* A nonempty set of natural numbers has a least element.
LEMMA LeastNat ==
  ASSUME NEW T, T \subseteq Nat, T # {}
  PROVE  \E x \in T : \A y \in T : x <= y
<1> DEFINE R == OpToRel(<, Nat)
<1>1. IsWellFoundedOn(R, Nat)
  BY NatLessThanWellFounded
<1>2. PICK x \in T : \A y \in T : ~ (<<y, x>> \in R)
  <2> HIDE DEF R
  <2> QED BY <1>1, WFMin
<1>3. \A y \in T : y < x => <<y, x>> \in R
  BY DEF OpToRel
<1>4. \A y \in T : ~(y < x)
  <2> HIDE DEF R
  <2> QED BY <1>2, <1>3
<1>5. x \in Nat /\ \A y \in T : y \in Nat
  OBVIOUS
<1>6. \A y \in T : x <= y
  <2> HIDE DEF R
  <2> QED BY <1>4, <1>5
<1> QED BY <1>6

\* A set that holds 0 and the successor of each of its numbers holds them all.
LEMMA NatInd ==
  ASSUME NEW S, 0 \in S, \A n \in Nat : n \in S => n + 1 \in S
  PROVE  Nat \subseteq S
<1> SUFFICES ASSUME Nat \ S # {} PROVE FALSE
  OBVIOUS
<1>1. PICK x \in Nat \ S : \A y \in Nat \ S : x <= y
  <2> DEFINE T == Nat \ S
  <2>1. T \subseteq Nat /\ T # {}
    OBVIOUS
  <2> HIDE DEF T
  <2>2. \E x \in T : \A y \in T : x <= y
    BY <2>1, LeastNat
  <2> QED BY <2>2 DEF T
<1>2. x # 0 /\ x - 1 \in Nat
  OBVIOUS
<1>3. x - 1 \in S
  BY <1>1, <1>2
<1> QED BY <1>2, <1>3

\* A nonempty set of ids has a greatest element.
LEMMA GreatestId ==
  ASSUME NEW S, S \subseteq Ids, S # {}
  PROVE  \E x \in S : \A y \in S : y <= x
<1> DEFINE T == {u \in Nat : \A y \in S : y <= u}
<1>1. T \subseteq Nat /\ MaxId \in T
  BY MaxIdType DEF Ids
<1>2. PICK x \in T : \A y \in T : x <= y
  <2> HIDE DEF T
  <2> QED BY <1>1, LeastNat
<1>3. S \subseteq Nat \ {0}
  BY MaxIdType DEF Ids
<1>4. x \in Nat /\ x # 0
  <2>1. PICK y \in S : TRUE
    OBVIOUS
  <2>2. y \in Nat \ {0} /\ x \in Nat /\ y <= x
    BY <1>3
  <2> QED BY <2>2
<1>5. x \in S
  <2> SUFFICES ASSUME x \notin S PROVE FALSE
    OBVIOUS
  <2>1. x - 1 \in Nat /\ \A y \in S : y <= x - 1
    BY <1>3, <1>4
  <2>2. x - 1 \in T
    BY <2>1
  <2> QED BY <2>2, <1>2, <1>4
<1> QED BY <1>5

-----------------------------------------------------------------------------
(* What the operators of the model compute                                 *)

LEMMA IdsFinite ==
  /\ Ids \subseteq Nat \ {0}
  /\ IsFiniteSet(Ids)
  /\ \A S \in SUBSET Ids : IsFiniteSet(S) /\ Cardinality(S) \in Nat
<1>1. Ids \subseteq Nat \ {0}
  BY MaxIdType DEF Ids
<1>2. IsFiniteSet(Ids)
  BY MaxIdType, FS_Interval DEF Ids
<1>3. \A S \in SUBSET Ids : IsFiniteSet(S) /\ Cardinality(S) \in Nat
  BY <1>2, FS_Subset, FS_CardinalityType
<1> QED BY <1>1, <1>2, <1>3

\* A turn of the loop of normalizeSubTasks appends at most one sub-task, whose id
\* is usable as long as the list is shorter than MaxId.
LEMMA NormalizeItemType ==
  ASSUME NEW out \in Seq(SubTask), Len(out) < MaxId, NEW item \in Item
  PROVE  NormalizeItem(out, item) \in Seq(SubTask) /\ Len(NormalizeItem(out, item)) <= Len(out) + 1
<1> DEFINE id == NormalId(out, item.id)
<1>1. item.id \in 0..MaxId /\ item.deps \subseteq Ids
  BY DEF Item
<1>2. id \in Ids
  BY <1>1, MaxIdType, LenProperties DEF NormalId, Ids
<1>3. [id |-> id, deps |-> item.deps \ {id}] \in SubTask
  BY <1>1, <1>2 DEF SubTask
<1>4. NormalizeItem(out, item) \in {out, Append(out, [id |-> id, deps |-> item.deps \ {id}])}
  BY DEF NormalizeItem
<1> HIDE DEF id
<1>5. Len(out) \in Nat
  BY LenProperties
<1> QED BY <1>3, <1>4, <1>5, AppendProperties

\* normalizeSubTasks turns a list of items into a list of sub-tasks no longer
\* than it: the recursive function of its definition exists, and has this type.
LEMMA NormalizeType ==
  ASSUME NEW items \in Seq(Item), Len(items) <= MaxId
  PROVE  Normalize(items) \in Seq(SubTask) /\ Len(Normalize(items)) <= Len(items)
<1> DEFINE L == Len(items)
           Is(f) == f = [k \in 0..L |-> IF k = 0 THEN <<>> ELSE NormalizeItem(f[k - 1], items[k])]
           norm == CHOOSE f : Is(f)
           Upto(f, m) ==
               /\ f \in [0..m -> Seq(SubTask)]
               /\ f[0] = <<>>
               /\ \A k \in 1..m : f[k] = NormalizeItem(f[k - 1], items[k])
               /\ \A k \in 0..m : Len(f[k]) <= k
<1>1. Normalize(items) = norm[L]
  BY DEF Normalize
<1>2. L \in Nat /\ \A k \in 1..L : items[k] \in Item
  BY LenProperties, ElementOfSeq
<1>3. \E f : Upto(f, 0)
  <2>1. <<>> \in Seq(SubTask) /\ Len(<<>>) = 0
    BY EmptySeq
  <2>2. Upto([k \in 0..0 |-> <<>>], 0)
    BY <2>1
  <2> QED BY <2>2
<1>4. ASSUME NEW m \in Nat, m + 1 <= L, NEW f, Upto(f, m)
      PROVE  \E g : Upto(g, m + 1)
  <2> DEFINE last == NormalizeItem(f[m], items[m + 1])
             g == [k \in 0..(m + 1) |-> IF k <= m THEN f[k] ELSE last]
  <2>1. f[m] \in Seq(SubTask) /\ Len(f[m]) <= m /\ Len(f[m]) \in Nat
    BY <1>4, LenProperties
  <2>2. last \in Seq(SubTask) /\ Len(last) <= m + 1
    <3>1. items[m + 1] \in Item
      BY <1>2, <1>4
    <3>2. Len(f[m]) < MaxId
      BY <1>2, <1>4, <2>1, MaxIdType
    <3>3. Len(last) \in Nat /\ last \in Seq(SubTask) /\ Len(last) <= Len(f[m]) + 1
      BY <3>1, <3>2, <2>1, NormalizeItemType, LenProperties
    <3> QED BY <2>1, <3>3
  <2>3. g \in [0..(m + 1) -> Seq(SubTask)]
    BY <1>4, <2>2
  <2>4. g[0] = <<>>
    BY <1>4
  <2>5. \A k \in 1..(m + 1) : g[k] = NormalizeItem(g[k - 1], items[k])
    <3> SUFFICES ASSUME NEW k \in 1..(m + 1) PROVE g[k] = NormalizeItem(g[k - 1], items[k])
      OBVIOUS
    <3>1. k - 1 \in 0..(m + 1) /\ k - 1 <= m /\ k \in 0..(m + 1)
      OBVIOUS
    <3>2. g[k - 1] = f[k - 1]
      BY <3>1
    <3>3. CASE k <= m
      <4>1. k \in 1..m /\ g[k] = f[k]
        BY <3>1, <3>3
      <4> QED BY <4>1, <3>2, <1>4
    <3>4. CASE k = m + 1
      <4>1. g[k] = last /\ k - 1 = m
        BY <3>1, <3>4
      <4> QED BY <4>1, <3>2, <3>4
    <3> QED BY <3>1, <3>3, <3>4
  <2>6. \A k \in 0..(m + 1) : Len(g[k]) <= k
    BY <1>4, <2>2
  <2> HIDE DEF g
  <2>7. Upto(g, m + 1)
    BY <2>3, <2>4, <2>5, <2>6
  <2> QED BY <2>7
<1>5. \E f : Upto(f, L)
  <2> HIDE DEF Upto
  <2> DEFINE S == {m \in Nat : m <= L => \E f : Upto(f, m)}
  <2>1. 0 \in S
    BY <1>3
  <2>2. \A m \in Nat : m \in S => m + 1 \in S
    <3> HIDE DEF L
    <3> SUFFICES ASSUME NEW m \in Nat, m <= L => \E f : Upto(f, m), m + 1 <= L
                 PROVE  \E g : Upto(g, m + 1)
      OBVIOUS
    <3>1. PICK f : Upto(f, m)
      BY <1>2
    <3> QED BY <3>1, <1>4
  <2> HIDE DEF S
  <2>3. Nat \subseteq S
    BY <2>1, <2>2, NatInd
  <2>4. L \in S
    BY <2>3, <1>2
  <2> QED BY <2>4, <1>2 DEF S
<1>6. Is(norm)
  <2>1. PICK f : Upto(f, L)
    BY <1>5
  <2>2. DOMAIN f = 0..L /\ f = [k \in DOMAIN f |-> f[k]]
    BY <2>1
  <2>3. \A k \in 0..L : f[k] = IF k = 0 THEN <<>> ELSE NormalizeItem(f[k - 1], items[k])
    <3> SUFFICES ASSUME NEW k \in 0..L PROVE f[k] = IF k = 0 THEN <<>> ELSE NormalizeItem(f[k - 1], items[k])
      OBVIOUS
    <3>1. k = 0 \/ k \in 1..L
      BY <1>2
    <3> QED BY <2>1, <3>1
  <2>4. Is(f)
    BY <2>2, <2>3
  <2> HIDE DEF Is
  <2> QED BY <2>4
<1> HIDE DEF norm
<1>7. norm[0] = <<>> /\ \A k \in 1..L : norm[k] = NormalizeItem(norm[k - 1], items[k])
  BY <1>2, <1>6
<1>8. \A m \in Nat : m <= L => norm[m] \in Seq(SubTask) /\ Len(norm[m]) <= m
  <2> DEFINE S == {m \in Nat : m <= L => norm[m] \in Seq(SubTask) /\ Len(norm[m]) <= m}
  <2>1. 0 \in S
    <3>1. <<>> \in Seq(SubTask) /\ Len(<<>>) = 0
      BY EmptySeq
    <3>2. norm[0] \in Seq(SubTask) /\ Len(norm[0]) <= 0
      BY <3>1, <1>7
    <3> QED BY <3>2
  <2>2. \A m \in Nat : m \in S => m + 1 \in S
    <3> SUFFICES ASSUME NEW m \in Nat, m + 1 <= L,
                        m <= L => norm[m] \in Seq(SubTask) /\ Len(norm[m]) <= m
                 PROVE  norm[m + 1] \in Seq(SubTask) /\ Len(norm[m + 1]) <= m + 1
      OBVIOUS
    <3>1. norm[m] \in Seq(SubTask) /\ Len(norm[m]) <= m /\ Len(norm[m]) \in Nat
      BY <1>2, LenProperties
    <3>2. items[m + 1] \in Item /\ Len(norm[m]) < MaxId
      BY <1>2, <3>1, MaxIdType
    <3>3. norm[m + 1] = NormalizeItem(norm[m], items[m + 1])
      BY <1>2, <1>7
    <3>4. Len(norm[m + 1]) \in Nat
      BY <3>1, <3>2, <3>3, NormalizeItemType, LenProperties
    <3> QED BY <3>1, <3>2, <3>3, <3>4, NormalizeItemType
  <2> HIDE DEF S
  <2>3. Nat \subseteq S
    BY <2>1, <2>2, NatInd
  <2> QED BY <2>3 DEF S
<1> QED BY <1>1, <1>2, <1>8

\* The list handed to ExecuteDAG is a list of sub-tasks with usable ids.
LEMMA DecomposeType ==
  ASSUME NEW p \in Plans \cup {<<>>}, NEW n \in Nat
  PROVE  Truncate(Decomposed(p), n) \in Seq(SubTask)
<1>1. p \in Seq(Item) /\ Len(p) <= MaxId
  <2>1. CASE p \in Plans
    BY <2>1, PlansType
  <2>2. CASE p = <<>>
    <3>1. <<>> \in Seq(Item) /\ Len(<<>>) = 0
      BY EmptySeq
    <3> QED BY <2>2, <3>1, MaxIdType
  <2> QED BY <2>1, <2>2
<1>2. Normalize(p) \in Seq(SubTask)
  BY <1>1, NormalizeType
<1>3. <<[id |-> 1, deps |-> {}]>> \in Seq(SubTask)
  <2>1. [id |-> 1, deps |-> {}] \in SubTask
    BY MaxIdType DEF SubTask, Ids
  <2> QED BY <2>1
<1>4. Decomposed(p) \in Seq(SubTask)
  BY <1>2, <1>3 DEF Decomposed
<1> DEFINE d == Decomposed(p)
<1>5. d \in Seq(SubTask) /\ Len(d) \in Nat
  BY <1>4, LenProperties
<1> HIDE DEF d
<1>6. ASSUME Len(d) > n PROVE SubSeq(d, 1, n) \in Seq(SubTask)
  <2>1. \A i \in 1..n : d[i] \in SubTask
    <3> SUFFICES ASSUME NEW i \in 1..n PROVE d[i] \in SubTask
      OBVIOUS
    <3>1. i \in 1..Len(d)
      BY <1>5, <1>6
    <3> QED BY <3>1, <1>5, ElementOfSeq
  <2> QED BY <2>1, SubSeqProperties
<1> QED BY <1>5, <1>6 DEF Truncate, d

\* A set of ids can be put in ascending order.
LEMMA AscendingExists ==
  \A n \in Nat : \A S \in SUBSET Ids : Cardinality(S) = n =>
      \E s \in [1..n -> S] : \A i, j \in 1..n : i < j => s[i] < s[j]
<1> DEFINE Asc(s, n) == \A i, j \in 1..n : i < j => s[i] < s[j]
           P(n) == \A S \in SUBSET Ids : Cardinality(S) = n => \E s \in [1..n -> S] : Asc(s, n)
           N == {n \in Nat : P(n)}
<1>1. 0 \in N
  <2> SUFFICES ASSUME NEW S \in SUBSET Ids PROVE \E s \in [1..0 -> S] : Asc(s, 0)
    OBVIOUS
  <2>1. [i \in 1..0 |-> 0] \in [1..0 -> S]
    OBVIOUS
  <2>2. Asc([i \in 1..0 |-> 0], 0)
    OBVIOUS
  <2> QED BY <2>1, <2>2
<1>2. ASSUME NEW n \in Nat, P(n) PROVE P(n + 1)
  <2> SUFFICES ASSUME NEW S \in SUBSET Ids, Cardinality(S) = n + 1
               PROVE  \E s \in [1..(n + 1) -> S] : Asc(s, n + 1)
    OBVIOUS
  <2>1. IsFiniteSet(S) /\ S # {}
    BY IdsFinite, FS_EmptySet
  <2>2. PICK x \in S : \A y \in S : y <= x
    BY <2>1, GreatestId
  <2>3. S \ {x} \in SUBSET Ids /\ Cardinality(S \ {x}) = n
    BY <2>1, FS_RemoveElement
  <2>4. PICK s \in [1..n -> S \ {x}] : Asc(s, n)
    BY <1>2, <2>3
  <2> DEFINE r == [i \in 1..(n + 1) |-> IF i <= n THEN s[i] ELSE x]
  <2>5. r \in [1..(n + 1) -> S]
    OBVIOUS
  <2>6. \A i \in 1..n : r[i] = s[i] /\ s[i] \in S \ {x}
    OBVIOUS
  <2>7. r[n + 1] = x
    OBVIOUS
  <2> HIDE DEF r
  <2>8. Asc(r, n + 1)
    <3> SUFFICES ASSUME NEW i \in 1..(n + 1), NEW j \in 1..(n + 1), i < j PROVE r[i] < r[j]
      OBVIOUS
    <3>1. i \in 1..n
      OBVIOUS
    <3>2. CASE j \in 1..n
      BY <3>1, <3>2, <2>4, <2>6
    <3>3. CASE j = n + 1
      <4>1. r[i] \in Nat /\ x \in Nat /\ r[i] <= x /\ r[i] # x
        BY <3>1, <2>2, <2>6, IdsFinite
      <4> QED BY <4>1, <3>3, <2>7
    <3> QED BY <3>2, <3>3
  <2> QED BY <2>5, <2>8
<1>3. Nat \subseteq N
  <2> HIDE DEF P
  <2>1. \A n \in Nat : n \in N => n + 1 \in N
    BY <1>2
  <2> HIDE DEF N
  <2> QED BY <1>1, <2>1, NatInd
<1> QED BY <1>3

\* sort.Strings leaves a batch in ascending order, with every id of it once.
LEMMA SortedType ==
  ASSUME NEW S \in SUBSET Ids
  PROVE  /\ Sorted(S) \in Seq(Ids)
         /\ Len(Sorted(S)) = Cardinality(S)
         /\ \A i \in 1..Cardinality(S) : Sorted(S)[i] \in S
         /\ \A x \in S : \E i \in 1..Cardinality(S) : Sorted(S)[i] = x
<1> DEFINE n == Cardinality(S)
           r == Sorted(S)
<1>1. IsFiniteSet(S) /\ n \in Nat
  BY IdsFinite
<1>2. r \in [1..n -> S] /\ \A i, j \in 1..n : i < j => r[i] < r[j]
  BY <1>1, AscendingExists DEF Sorted
<1> HIDE DEF n, r
<1>3. r \in Seq(S) /\ Len(r) = n
  BY <1>1, <1>2
<1>4. r \in Seq(Ids)
  BY <1>3, SeqMonotonic
<1>5. r \in Injection(1..n, S)
  <2>1. \A i, j \in 1..n : r[i] = r[j] => i = j
    <3> SUFFICES ASSUME NEW i \in 1..n, NEW j \in 1..n, r[i] = r[j], i # j PROVE FALSE
      OBVIOUS
    <3>1. r[i] \in Nat /\ r[j] \in Nat
      BY <1>2, IdsFinite
    <3>2. i < j \/ j < i
      BY <1>1
    <3> QED BY <3>1, <3>2, <1>2
  <2> QED BY <1>2, <2>1 DEF Injection, IsInjective
<1>6. Cardinality(1..n) = n
  BY <1>1, FS_Interval
<1>7. r \in Surjection(1..n, S)
  BY <1>1, <1>5, <1>6, FS_Injection DEF n
<1>8. \A x \in S : \E i \in 1..n : r[i] = x
  BY <1>7 DEF Surjection
<1> QED BY <1>2, <1>3, <1>4, <1>8 DEF n, r

\* Placing R takes the dependencies in R from what is left of D.
LEMMA CountLeft ==
  ASSUME NEW D \in SUBSET Ids, NEW P, NEW R, R \cap P = {}
  PROVE  /\ Cardinality(D \ P) - Cardinality(D \cap R) = Cardinality(D \ (P \cup R))
         /\ Cardinality(D \ (P \cup R)) \in Nat
         /\ Cardinality(D \ (P \cup R)) = 0 <=> D \subseteq P \cup R
<1> DEFINE A == D \cap R
           B == D \ (P \cup R)
<1>1. A \in SUBSET Ids /\ B \in SUBSET Ids /\ A \cup B = D \ P /\ A \cap B = {}
  OBVIOUS
<1>2. B = {} <=> D \subseteq P \cup R
  OBVIOUS
<1> HIDE DEF A, B
<1>3. IsFiniteSet(A) /\ IsFiniteSet(B) /\ Cardinality(A) \in Nat /\ Cardinality(B) \in Nat
  BY <1>1, IdsFinite
<1>4. Cardinality(D \ P) = Cardinality(A) + Cardinality(B) - Cardinality({})
  BY <1>1, <1>3, FS_Union
<1>5. Cardinality(D \ P) - Cardinality(A) = Cardinality(B)
  BY <1>3, <1>4, FS_EmptySet
<1>6. Cardinality(B) = 0 <=> B = {}
  BY <1>3, FS_EmptySet
<1> QED BY <1>2, <1>3, <1>5, <1>6 DEF A, B

-----------------------------------------------------------------------------
(* The graph of the sub-tasks                                              *)

\* Ids and dependencies of the sub-tasks are ids.
LEMMA GraphType ==
  ASSUME TypeOK
  PROVE  TaskIds \subseteq Ids /\ \A t : DepsOf(t) \subseteq Ids /\ (t \notin TaskIds => DepsOf(t) = {})
<1>1. \A i \in DOMAIN tasks : tasks[i].id \in Ids /\ tasks[i].deps \subseteq Ids
  <2>1. tasks \in Seq(SubTask)
    BY DEF TypeOK
  <2>2. \A i \in DOMAIN tasks : tasks[i] \in SubTask
    BY <2>1, LenProperties, ElementOfSeq
  <2> QED BY <2>2 DEF SubTask
<1> QED BY <1>1 DEF TaskIds, IdsOf, DepsOf

\* A step that keeps the list keeps the ids and dependencies, and one that keeps
\* the batches too keeps all that is said of them.
LEMMA TasksFrame ==
  ASSUME tasks' = tasks
  PROVE  TaskIds' = TaskIds /\ (\A t : DepsOf(t)' = DepsOf(t)) /\ (Cyclic => Cyclic')
<1>1. TaskIds' = TaskIds
  BY DEF TaskIds, IdsOf
<1>2. \A t : DepsOf(t)' = DepsOf(t)
  BY DEF DepsOf
<1>3. Cyclic => Cyclic'
  BY <1>1, <1>2 DEF Cyclic
<1> QED BY <1>1, <1>2, <1>3

LEMMA GraphFrame ==
  ASSUME tasks' = tasks, batches' = batches
  PROVE  Placed' = Placed /\ (PlacedWell => PlacedWell')
<1>1. TaskIds' = TaskIds /\ (\A t : DepsOf(t)' = DepsOf(t))
  BY TasksFrame
<1>2. Placed' = Placed
  BY DEF Placed
<1> QED BY <1>1, <1>2 DEF PlacedWell

\* What has been placed, batch by batch.
LEMMA PlacedIn ==
  ASSUME TypeOK
  PROVE  /\ Len(batches) \in Nat /\ DOMAIN batches = 1..Len(batches)
         /\ \A i \in DOMAIN batches : batches[i] \subseteq Ids /\ batches[i] \subseteq Placed
         /\ \A d \in Placed : \E i \in DOMAIN batches : d \in batches[i]
         /\ Placed \subseteq Ids
<1>1. batches \in Seq(SUBSET Ids)
  BY DEF TypeOK
<1>2. Len(batches) \in Nat /\ DOMAIN batches = 1..Len(batches) /\ \A i \in DOMAIN batches : batches[i] \subseteq Ids
  BY <1>1, LenProperties, ElementOfSeq
<1> QED BY <1>2 DEF Placed

\* No sub-task has begun: all that is said of their execution holds.
LEMMA QuietRun ==
  ASSUME TypeOK', \A t \in Ids : st'[t] = "none" /\ results'[t] = "none" /\ attempt'[t] = 0,
         batch' = 1, ordered' = <<>>, pc' # "inBatch", outcome' # "sent"
  PROVE  RunInv'
<1>1. batches' \in Seq(SUBSET Ids) /\ Len(batches') \in Nat /\ DOMAIN batches' = 1..Len(batches')
  BY LenProperties DEF TypeOK
<1>2. \A i \in DOMAIN batches' : batches'[i] \subseteq Ids
  BY <1>1, ElementOfSeq
<1>3. BatchesInTurn'
  BY <1>1, <1>2 DEF BatchesInTurn
<1>4. Recorded' /\ DependenciesKnown' /\ FailureExplained'
  BY DEF Recorded, DependenciesKnown, FailureExplained
<1>5. AttemptsLeft'
  BY SizesType DEF AttemptsLeft
<1>6. BoundedParallelism'
  <2>1. Holding' = {}
    BY DEF Holding
  <2> QED BY <2>1, FS_EmptySet, SizesType DEF BoundedParallelism
<1>7. OrderedWell'
  <2>1. Reported' = {}
    BY <1>1 DEF Reported
  <2>2. DOMAIN ordered' = {} /\ Len(ordered') = 0
    BY EmptySeq
  <2> QED BY <2>1, <2>2, FS_EmptySet DEF OrderedWell
<1> QED BY <1>3, <1>4, <1>5, <1>6, <1>7 DEF RunInv

LEMMA InitInv == Init => IInv
<1> SUFFICES ASSUME Init PROVE IInv
  OBVIOUS
<1>1. TypeOK
  <2>1. <<>> \in Seq(SubTask) /\ <<>> \in Seq(SUBSET Ids) /\ <<>> \in Seq(Ids)
    BY EmptySeq
  <2>2. attempt \in [Ids -> 0..RetryMax]
    BY SizesType DEF Init
  <2>3. inDegree \in [Ids -> Nat] /\ batch \in Nat \ {0}
    BY DEF Init
  <2>4. st \in [Ids -> States] /\ results \in [Ids -> {"none", "ok", "failed"}]
    BY DEF Init, States
  <2> QED BY <2>1, <2>2, <2>3, <2>4 DEF Init, TypeOK, Outcomes
<1>2. DOMAIN batches = {} /\ Len(batches) = 0 /\ DOMAIN tasks = {} /\ Len(tasks) = 0 /\ DOMAIN ordered = {} /\ Len(ordered) = 0
  BY EmptySeq DEF Init
<1>3. TaskIds = {} /\ Placed = {} /\ Reported = {} /\ Holding = {}
  BY <1>2 DEF TaskIds, IdsOf, Placed, Reported, Holding, Init
<1>4. Early /\ Checked /\ PlacedWell /\ Peeling /\ AllPlaced /\ (outcome = "circular" => Cyclic)
  BY <1>2, <1>3 DEF Init, Early, Checked, PlacedWell, Peeling, AllPlaced, Late
<1>5. BatchesInTurn /\ Recorded /\ DependenciesKnown /\ FailureExplained
  BY <1>2 DEF Init, BatchesInTurn, Recorded, DependenciesKnown, FailureExplained
<1>6. AttemptsLeft
  BY SizesType DEF Init, AttemptsLeft
<1>7. BoundedParallelism /\ OrderedWell
  BY <1>2, <1>3, FS_EmptySet, SizesType DEF Init, BoundedParallelism, OrderedWell
<1> QED BY <1>1, <1>4, <1>5, <1>6, <1>7 DEF IInv, GraphInv, RunInv

LEMMA DecomposeInv ==
  ASSUME IInv, Decompose
  PROVE  IInv'
<1> USE DEF IInv, GraphInv
<1>1. pc = "decompose" /\ outcome = "none"
  BY DEF Decompose, Early
<1>2. \/ tasks' = Truncate(Decomposed(plan), limit) /\ pc' = "resolve" /\ outcome' = "none"
      \/ tasks' = tasks /\ pc' = "returned" /\ outcome' = "decompose_error"
  BY <1>1 DEF Decompose, Return
<1>3. /\ plan' = <<>> /\ limit' = 0 /\ ctxDone' = ctxDone
      /\ inDegree' = inDegree /\ ready' = ready /\ batches' = batches
      /\ batch' = batch /\ st' = st /\ attempt' = attempt /\ results' = results /\ ordered' = ordered
  BY DEF Decompose, graphVars, runVars
<1>4. tasks' \in Seq(SubTask)
  <2>1. plan \in Plans \cup {<<>>} /\ limit \in Nat /\ tasks \in Seq(SubTask)
    BY LimitsType DEF TypeOK
  <2> QED BY <1>2, <2>1, DecomposeType
<1>5. TypeOK'
  <2>1. pc' \in {"decompose", "resolve", "peel", "execute", "inBatch", "returned"} /\ outcome' \in Outcomes
    BY <1>2 DEF Outcomes
  <2> QED BY <1>3, <1>4, <2>1 DEF TypeOK
<1>6. batches = <<>> /\ ready = {} /\ batch = 1 /\ ordered = <<>>
  BY <1>1 DEF Early
<1>7. \A t \in Ids : st[t] = "none" /\ results[t] = "none" /\ attempt[t] = 0
  BY <1>1 DEF Early
<1>8. DOMAIN batches' = {} /\ Placed' = {}
  BY <1>3, <1>6 DEF Placed
<1>9. Early'
  BY <1>2, <1>3, <1>6, <1>7 DEF Early
<1>10. Checked' /\ Peeling' /\ AllPlaced' /\ outcome' # "circular"
  BY <1>2 DEF Checked, Peeling, AllPlaced, Late
<1>11. PlacedWell'
  BY <1>8 DEF PlacedWell
<1>12. RunInv'
  BY <1>2, <1>3, <1>5, <1>6, <1>7, QuietRun
<1> QED BY <1>5, <1>9, <1>10, <1>11, <1>12

\* The two checks refuse the list, or leave the sub-tasks without dependencies ready.
LEMMA CheckTasksInv ==
  ASSUME IInv, CheckTasks
  PROVE  IInv'
<1> USE DEF IInv, GraphInv
<1>1. pc = "resolve" /\ outcome = "none"
  BY DEF CheckTasks, Early
<1>2. \/ pc' = "returned" /\ outcome' \in {"duplicate_id", "unknown_dependency"} /\ inDegree' = inDegree /\ ready' = ready
      \/ /\ ~DuplicateId /\ ~UnknownDependency
         /\ inDegree' = [t \in Ids |-> IF t \in TaskIds THEN Cardinality(DepsOf(t)) ELSE 0]
         /\ ready' = {t \in TaskIds : DepsOf(t) = {}}
         /\ pc' = "peel" /\ outcome' = "none"
  BY <1>1 DEF CheckTasks, Return
<1>3. /\ plan' = plan /\ limit' = limit /\ ctxDone' = ctxDone /\ tasks' = tasks /\ batches' = batches
      /\ batch' = batch /\ st' = st /\ attempt' = attempt /\ results' = results /\ ordered' = ordered
  BY DEF CheckTasks, runVars
<1>4. TaskIds \subseteq Ids /\ (\A t : DepsOf(t) \subseteq Ids)
  BY GraphType
<1>5. TaskIds' = TaskIds /\ (\A t : DepsOf(t)' = DepsOf(t))
  BY <1>3, TasksFrame
<1>6. batches = <<>> /\ ready = {} /\ batch = 1 /\ ordered = <<>>
  BY <1>1 DEF Early
<1>7. \A t \in Ids : st[t] = "none" /\ results[t] = "none" /\ attempt[t] = 0
  BY <1>1 DEF Early
<1>8. Placed' = {}
  BY <1>3, <1>6 DEF Placed
<1>9. inDegree' \in [Ids -> Nat] /\ ready' \subseteq Ids
  <2>1. \A t : Cardinality(DepsOf(t)) \in Nat
    BY <1>4, IdsFinite
  <2>2. inDegree \in [Ids -> Nat] /\ ready \subseteq Ids
    BY DEF TypeOK
  <2> QED BY <1>2, <1>4, <2>1, <2>2
<1>10. TypeOK'
  <2>1. pc' \in {"decompose", "resolve", "peel", "execute", "inBatch", "returned"} /\ outcome' \in Outcomes
    BY <1>2 DEF Outcomes
  <2> QED BY <1>3, <1>9, <2>1 DEF TypeOK
<1>11. Early'
  BY <1>2, <1>3, <1>6, <1>7 DEF Early
<1>12. Checked'
  <2>1. ~DuplicateId /\ ~UnknownDependency => Cardinality(TaskIds) = Len(tasks) /\ \A t \in TaskIds : DepsOf(t) \subseteq TaskIds
    BY DEF DuplicateId, UnknownDependency
  <2> QED BY <1>2, <1>3, <1>5, <2>1 DEF Checked, Late
<1>13. Peeling'
  <2> SUFFICES ASSUME pc' = "peel"
               PROVE  /\ \A t \in TaskIds : inDegree'[t] = Cardinality(DepsOf(t) \ {})
                      /\ ready' = {t \in TaskIds \ {} : DepsOf(t) \subseteq {}}
    BY <1>5, <1>8 DEF Peeling
  <2>1. /\ inDegree' = [t \in Ids |-> IF t \in TaskIds THEN Cardinality(DepsOf(t)) ELSE 0]
        /\ ready' = {t \in TaskIds : DepsOf(t) = {}}
    BY <1>2
  <2>2. \A t : DepsOf(t) \ {} = DepsOf(t)
    OBVIOUS
  <2> QED BY <2>1, <2>2, <1>4
<1>14. AllPlaced' /\ outcome' # "circular"
  BY <1>2 DEF AllPlaced, Late
<1>15. PlacedWell'
  BY <1>3, GraphFrame
<1>16. RunInv'
  BY <1>2, <1>3, <1>10, <1>6, <1>7, QuietRun
<1> QED BY <1>10, <1>11, <1>12, <1>13, <1>14, <1>15, <1>16

\* One turn of the peeling loop.
LEMMA PeelBatchInv ==
  ASSUME IInv, PeelBatch
  PROVE  IInv'
<1> USE DEF IInv, GraphInv
<1>1. pc = "peel" /\ outcome = "none" /\ ready # {}
  BY DEF PeelBatch, Early
<1>2. /\ batches' = Append(batches, ready)
      /\ inDegree' = [t \in Ids |-> IF t \in TaskIds THEN inDegree[t] - Cardinality(DepsOf(t) \cap ready) ELSE 0]
      /\ ready' = {t \in Dependents(ready) : inDegree'[t] = 0}
  BY DEF PeelBatch
<1>3. /\ plan' = plan /\ limit' = limit /\ pc' = pc /\ outcome' = outcome /\ ctxDone' = ctxDone /\ tasks' = tasks
      /\ batch' = batch /\ st' = st /\ attempt' = attempt /\ results' = results /\ ordered' = ordered
  BY DEF PeelBatch, runVars
<1>4. TaskIds \subseteq Ids /\ (\A t : DepsOf(t) \subseteq Ids)
  BY GraphType
<1>5. TaskIds' = TaskIds /\ (\A t : DepsOf(t)' = DepsOf(t))
  BY <1>3, TasksFrame
<1>6. /\ Len(batches) \in Nat /\ DOMAIN batches = 1..Len(batches)
      /\ \A i \in DOMAIN batches : batches[i] \subseteq Placed
      /\ \A d \in Placed : \E i \in DOMAIN batches : d \in batches[i]
      /\ Placed \subseteq Ids
  BY PlacedIn
<1>7. /\ \A t \in TaskIds : inDegree[t] = Cardinality(DepsOf(t) \ Placed)
      /\ ready = {t \in TaskIds \ Placed : DepsOf(t) \subseteq Placed}
  BY <1>1 DEF Peeling
<1>8. ready \subseteq Ids /\ ready \subseteq TaskIds /\ ready \cap Placed = {}
  BY <1>7, <1>4
<1>9. /\ batches' \in Seq(SUBSET Ids) /\ Len(batches') = Len(batches) + 1
      /\ DOMAIN batches' = 1..(Len(batches) + 1)
      /\ \A i \in DOMAIN batches : batches'[i] = batches[i]
      /\ batches'[Len(batches) + 1] = ready
  <2>1. batches \in Seq(SUBSET Ids)
    BY DEF TypeOK
  <2> QED BY <1>2, <1>6, <1>8, <2>1, AppendProperties, LenProperties
<1>10. Placed' = Placed \cup ready
  <2>1. Placed' = UNION {batches'[i] : i \in 1..(Len(batches) + 1)}
    BY <1>9 DEF Placed
  <2>2. \A i \in 1..(Len(batches) + 1) : i \in DOMAIN batches \/ i = Len(batches) + 1
    BY <1>6
  <2>3. \A i \in DOMAIN batches : i \in 1..(Len(batches) + 1)
    BY <1>6
  <2>4. Len(batches) + 1 \in 1..(Len(batches) + 1)
    BY <1>6
  <2> QED BY <2>1, <2>2, <2>3, <2>4, <1>6, <1>9
<1>11. \A t \in TaskIds : /\ inDegree'[t] = Cardinality(DepsOf(t) \ Placed')
                          /\ inDegree'[t] \in Nat
                          /\ inDegree'[t] = 0 <=> DepsOf(t) \subseteq Placed'
  <2> SUFFICES ASSUME NEW t \in TaskIds
               PROVE  /\ inDegree'[t] = Cardinality(DepsOf(t) \ Placed')
                      /\ inDegree'[t] \in Nat
                      /\ inDegree'[t] = 0 <=> DepsOf(t) \subseteq Placed'
    OBVIOUS
  <2>1. inDegree'[t] = Cardinality(DepsOf(t) \ Placed) - Cardinality(DepsOf(t) \cap ready)
    BY <1>2, <1>4, <1>7
  <2>2. DepsOf(t) \in SUBSET Ids
    BY <1>4
  <2>3. /\ Cardinality(DepsOf(t) \ Placed) - Cardinality(DepsOf(t) \cap ready) = Cardinality(DepsOf(t) \ (Placed \cup ready))
        /\ Cardinality(DepsOf(t) \ (Placed \cup ready)) \in Nat
        /\ Cardinality(DepsOf(t) \ (Placed \cup ready)) = 0 <=> DepsOf(t) \subseteq Placed \cup ready
    BY <1>8, <2>2, CountLeft, Zenon
  <2> QED BY <1>10, <2>1, <2>3
<1>12. inDegree' \in [Ids -> Nat]
  <2>1. \A t \in Ids : t \notin TaskIds => inDegree'[t] = 0
    BY <1>2
  <2>2. \A t \in Ids : inDegree'[t] \in Nat
    <3> SUFFICES ASSUME NEW t \in Ids PROVE inDegree'[t] \in Nat
      OBVIOUS
    <3>1. CASE t \in TaskIds
      BY <3>1, <1>11
    <3>2. CASE t \notin TaskIds
      BY <3>2, <2>1
    <3> QED BY <3>1, <3>2
  <2>3. inDegree' = [t \in Ids |-> inDegree'[t]]
    BY <1>2
  <2> QED BY <2>2, <2>3
<1>13. ready' \subseteq Ids
  BY <1>2, <1>4 DEF Dependents
<1>14. TypeOK'
  BY <1>3, <1>9, <1>12, <1>13 DEF TypeOK
<1>15. Early'
  BY <1>1, <1>3 DEF Early
<1>16. Checked' /\ AllPlaced' /\ outcome' # "circular"
  BY <1>1, <1>3, <1>5 DEF Checked, AllPlaced, Late
<1>17. \A t \in Placed \cup ready : DepsOf(t) \subseteq Placed
  <2>1. \A t \in ready : DepsOf(t) \subseteq Placed
    BY <1>7
  <2>2. \A t \in Placed : DepsOf(t) \subseteq Placed
    <3> SUFFICES ASSUME NEW t \in Placed, NEW d \in DepsOf(t) PROVE d \in Placed
      OBVIOUS
    <3>1. PICK i \in DOMAIN batches : t \in batches[i]
      BY <1>6
    <3>2. \E j \in DOMAIN batches : d \in batches[j]
      BY <3>1 DEF PlacedWell
    <3> QED BY <3>2, <1>6
  <2> QED BY <2>1, <2>2
<1>18. Peeling'
  <2>1. ready' = {t \in TaskIds : DepsOf(t) \cap ready # {} /\ DepsOf(t) \subseteq Placed \cup ready}
    BY <1>2, <1>10, <1>11 DEF Dependents
  <2>2. ready' \subseteq {t \in TaskIds \ Placed' : DepsOf(t) \subseteq Placed'}
    BY <1>8, <1>10, <1>17, <2>1
  <2>3. {t \in TaskIds \ Placed' : DepsOf(t) \subseteq Placed'} \subseteq ready'
    BY <1>7, <1>10, <2>1
  <2> QED BY <1>5, <1>11, <2>2, <2>3 DEF Peeling
<1>19. PlacedWell'
  <2>1. Placed' \subseteq TaskIds'
    BY <1>5, <1>8, <1>10 DEF PlacedWell
  <2>2. \A i \in DOMAIN batches' : i \in DOMAIN batches \/ i = Len(batches) + 1
    BY <1>6, <1>9
  <2>3. \A i, j \in DOMAIN batches' : i # j => batches'[i] \cap batches'[j] = {}
    <3> SUFFICES ASSUME NEW i \in DOMAIN batches', NEW j \in DOMAIN batches', i # j
                 PROVE  batches'[i] \cap batches'[j] = {}
      OBVIOUS
    <3>1. CASE i \in DOMAIN batches /\ j \in DOMAIN batches
      BY <3>1, <1>9 DEF PlacedWell
    <3>2. CASE i \in DOMAIN batches /\ j = Len(batches) + 1
      BY <3>2, <1>6, <1>8, <1>9
    <3>3. CASE j \in DOMAIN batches /\ i = Len(batches) + 1
      BY <3>3, <1>6, <1>8, <1>9
    <3> QED BY <2>2, <3>1, <3>2, <3>3
  <2>4. ASSUME NEW i \in DOMAIN batches', NEW t \in batches'[i], NEW d \in DepsOf(t)
        PROVE  \E j \in DOMAIN batches' : j < i /\ d \in batches'[j]
    <3>1. \A k \in DOMAIN batches : k \in DOMAIN batches' /\ k < Len(batches) + 1
      BY <1>6, <1>9
    <3>2. CASE i \in DOMAIN batches
      <4>1. t \in batches[i]
        BY <3>2, <1>9
      <4>2. PICK j \in DOMAIN batches : j < i /\ d \in batches[j]
        BY <3>2, <4>1 DEF PlacedWell
      <4> QED BY <4>2, <3>1, <1>9
    <3>3. CASE i = Len(batches) + 1
      <4>1. d \in Placed
        BY <3>3, <1>9, <1>17
      <4>2. PICK j \in DOMAIN batches : d \in batches[j]
        BY <4>1, <1>6
      <4> QED BY <4>2, <3>1, <3>3, <1>9
    <3> QED BY <2>2, <3>2, <3>3
  <2>5. ASSUME NEW S \in (SUBSET Placed') \ {{}}
        PROVE  \E t \in S : DepsOf(t) \cap S = {}
    <3>1. CASE S \cap Placed = {}
      <4>1. PICK t \in S : TRUE
        OBVIOUS
      <4> QED BY <3>1, <4>1, <1>10, <1>17
    <3>2. CASE S \cap Placed # {}
      <4>1. S \cap Placed \in (SUBSET Placed) \ {{}}
        BY <3>2
      <4>2. PICK t \in S \cap Placed : DepsOf(t) \cap (S \cap Placed) = {}
        BY <4>1 DEF PlacedWell
      <4> QED BY <4>2, <1>17
    <3> QED BY <3>1, <3>2
  <2>6. \A i \in DOMAIN batches' : \A t \in batches'[i] :
           \A d \in DepsOf(t)' : \E j \in DOMAIN batches' : j < i /\ d \in batches'[j]
    BY <2>4, <1>5
  <2>7. \A S \in (SUBSET Placed') \ {{}} : \E t \in S : DepsOf(t)' \cap S = {}
    BY <2>5, <1>5
  <2> QED BY <2>1, <2>3, <2>6, <2>7 DEF PlacedWell
<1>20. RunInv'
  <2>1. \A t \in Ids : st[t] = "none" /\ results[t] = "none" /\ attempt[t] = 0
    BY <1>1 DEF Early
  <2>2. batch = 1 /\ ordered = <<>>
    BY <1>1 DEF Early
  <2> QED BY <1>1, <1>3, <1>14, <2>1, <2>2, QuietRun
<1> QED BY <1>14, <1>15, <1>16, <1>18, <1>19, <1>20

\* The loop ends: everything is placed, or what is left is a circle.
LEMMA EndPeelInv ==
  ASSUME IInv, EndPeel
  PROVE  IInv'
<1> USE DEF IInv, GraphInv
<1>1. pc = "peel" /\ outcome = "none" /\ ready = {}
  BY DEF EndPeel, Early
<1>2. \/ Cardinality(Placed) # Len(tasks) /\ pc' = "returned" /\ outcome' = "circular"
      \/ Cardinality(Placed) = Len(tasks) /\ pc' = "execute" /\ outcome' = "none"
  BY <1>1 DEF EndPeel, Return
<1>3. /\ plan' = plan /\ limit' = limit /\ ctxDone' = ctxDone /\ tasks' = tasks /\ batches' = batches
      /\ inDegree' = inDegree /\ ready' = ready
      /\ batch' = batch /\ st' = st /\ attempt' = attempt /\ results' = results /\ ordered' = ordered
  BY DEF EndPeel, graphVars, runVars
<1>4. TaskIds \subseteq Ids /\ (\A t : DepsOf(t) \subseteq Ids)
  BY GraphType
<1>5. TaskIds' = TaskIds /\ (\A t : DepsOf(t)' = DepsOf(t)) /\ (Cyclic => Cyclic')
  BY <1>3, TasksFrame
<1>6. Placed' = Placed /\ PlacedWell'
  BY <1>3, GraphFrame
<1>7. Cardinality(TaskIds) = Len(tasks) /\ (\A t \in TaskIds : DepsOf(t) \subseteq TaskIds) /\ Placed \subseteq TaskIds
  BY <1>1 DEF Checked, PlacedWell
<1>8. TypeOK'
  <2>1. pc' \in {"decompose", "resolve", "peel", "execute", "inBatch", "returned"} /\ outcome' \in Outcomes
    BY <1>2 DEF Outcomes
  <2> QED BY <1>3, <2>1 DEF TypeOK
<1>9. Early'
  BY <1>1, <1>2, <1>3 DEF Early
<1>10. Checked'
  BY <1>3, <1>5, <1>7 DEF Checked
<1>11. Peeling'
  BY <1>2 DEF Peeling
<1>12. AllPlaced'
  <2> SUFFICES ASSUME Cardinality(Placed) = Len(tasks) PROVE Placed = TaskIds
    BY <1>2, <1>5, <1>6 DEF AllPlaced, Late
  <2>1. IsFiniteSet(TaskIds)
    BY <1>4, IdsFinite
  <2> QED BY <2>1, <1>7, FS_Subset
<1>13. outcome' = "circular" => Cyclic'
  <2> SUFFICES ASSUME Cardinality(Placed) # Len(tasks) PROVE Cyclic
    BY <1>2, <1>5
  <2> DEFINE S == TaskIds \ Placed
  <2>1. S \in (SUBSET TaskIds) \ {{}}
    <3>1. Placed # TaskIds
      BY <1>7
    <3>2. S # {}
      BY <3>1, <1>7
    <3> QED BY <3>2
  <2>2. \A t \in S : DepsOf(t) \cap S # {}
    <3>1. \A t \in S : ~(DepsOf(t) \subseteq Placed)
      BY <1>1 DEF Peeling
    <3> QED BY <3>1, <1>7
  <2> HIDE DEF S
  <2> QED BY <2>1, <2>2 DEF Cyclic
<1>14. RunInv'
  <2>1. \A t \in Ids : st[t] = "none" /\ results[t] = "none" /\ attempt[t] = 0
    BY <1>1 DEF Early
  <2>2. batch = 1 /\ ordered = <<>>
    BY <1>1 DEF Early
  <2> QED BY <1>2, <1>3, <1>8, <2>1, <2>2, QuietRun
<1> QED BY <1>6, <1>8, <1>9, <1>10, <1>11, <1>12, <1>13, <1>14

-----------------------------------------------------------------------------
(* The execution of the batches                                            *)

\* A step that keeps the list and its batches, and goes from a phase of the
\* execution to one, keeps what is known of the graph.
LEMMA RunKeepsGraph ==
  ASSUME GraphInv, TypeOK', tasks' = tasks, batches' = batches,
         pc \in {"execute", "inBatch"},
         \/ pc' \in {"execute", "inBatch"} /\ outcome' = "none"
         \/ pc' = "returned" /\ outcome' \in Late
  PROVE  GraphInv'
<1> USE DEF GraphInv
<1>1. TaskIds' = TaskIds /\ (\A t : DepsOf(t)' = DepsOf(t)) /\ Placed' = Placed /\ PlacedWell'
  BY TasksFrame, GraphFrame
<1>2. Early'
  BY DEF Early, Late
<1>3. Checked' /\ AllPlaced'
  BY <1>1 DEF Checked, AllPlaced, Late
<1>4. Peeling' /\ outcome' # "circular"
  BY DEF Peeling, Late
<1> QED BY <1>1, <1>2, <1>3, <1>4

\* A smaller set of sub-tasks holds slots.
LEMMA HoldingShrinks ==
  ASSUME BoundedParallelism, Holding' \subseteq Holding
  PROVE  BoundedParallelism'
<1>1. Holding \in SUBSET Ids
  BY DEF Holding
<1>2. IsFiniteSet(Holding) /\ Cardinality(Holding) \in Nat
  BY <1>1, IdsFinite
<1>3. Cardinality(Holding') <= Cardinality(Holding) /\ Cardinality(Holding') \in Nat
  BY <1>2, FS_Subset, FS_CardinalityType
<1> QED BY <1>2, <1>3, SizesType DEF BoundedParallelism

\* The goroutines of a batch are started.
LEMMA StartBatchInv ==
  ASSUME IInv, StartBatch
  PROVE  IInv'
<1> USE DEF IInv, GraphInv
<1>1. pc = "execute" /\ outcome = "none" /\ batch <= Len(batches)
  BY DEF StartBatch, Early
<1>2. /\ plan' = plan /\ limit' = limit /\ ctxDone' = ctxDone /\ tasks' = tasks /\ batches' = batches
      /\ inDegree' = inDegree /\ ready' = ready
      /\ batch' = batch /\ attempt' = attempt /\ results' = results /\ ordered' = ordered
  BY DEF StartBatch, graphVars
<1>3. \/ pc' = "returned" /\ outcome' = "cancelled" /\ st' = st
      \/ /\ pc' = "inBatch" /\ outcome' = "none"
         /\ st' = [t \in Ids |-> IF t \in batches[batch] THEN "queued" ELSE st[t]]
  BY <1>1 DEF StartBatch, Return
<1>4. st \in [Ids -> States] /\ attempt \in [Ids -> 0..RetryMax] /\ batch \in Nat \ {0}
  BY DEF TypeOK
<1>5. st' \in [Ids -> States]
  BY <1>3, <1>4 DEF States
<1>6. TypeOK'
  <2>1. pc' \in {"decompose", "resolve", "peel", "execute", "inBatch", "returned"} /\ outcome' \in Outcomes
    BY <1>3 DEF Outcomes
  <2> QED BY <1>2, <1>5, <2>1 DEF TypeOK
<1>7. GraphInv'
  BY <1>1, <1>2, <1>3, <1>6, RunKeepsGraph DEF Late
<1>8. TaskIds' = TaskIds /\ (\A t : DepsOf(t)' = DepsOf(t)) /\ (\A t : DepsOf(t) \subseteq Ids)
  BY <1>2, TasksFrame, GraphType
<1>9. /\ Len(batches) \in Nat /\ DOMAIN batches = 1..Len(batches)
      /\ \A i \in DOMAIN batches : batches[i] \subseteq Ids
  BY PlacedIn
<1>10. batch \in DOMAIN batches
  BY <1>1, <1>4, <1>9
<1>11. \A t \in batches[batch] : t \in Ids /\ st[t] = "none" /\ attempt[t] = 0 /\ results[t] = "none"
  <2> SUFFICES ASSUME NEW t \in batches[batch] PROVE t \in Ids /\ st[t] = "none" /\ attempt[t] = 0 /\ results[t] = "none"
    OBVIOUS
  <2>1. t \in Ids
    BY <1>9, <1>10
  <2>2. st[t] = "none"
    BY <1>1, <1>10 DEF RunInv, BatchesInTurn
  <2> QED BY <2>1, <2>2 DEF RunInv, Recorded, AttemptsLeft
<1>12. \A t \in Ids : \/ st'[t] = st[t]
                      \/ t \in batches[batch] /\ st'[t] = "queued" /\ pc' = "inBatch"
  BY <1>3
<1>13. BatchesInTurn'
  <2>1. \A i \in DOMAIN batches : \A t \in batches[i] : i < batch => results[t] \in {"ok", "failed"}
    BY DEF RunInv, BatchesInTurn
  <2>2. ASSUME NEW i \in DOMAIN batches, NEW t \in batches[i],
               pc' \in {"peel", "execute", "inBatch"}, i > batch \/ (i = batch /\ pc' # "inBatch")
        PROVE  st'[t] = "none"
    <3>1. pc' = "inBatch" /\ i > batch
      BY <2>2, <1>3
    <3>2. st[t] = "none" /\ t \in Ids
      BY <1>1, <1>9, <3>1 DEF RunInv, BatchesInTurn
    <3>3. i # batch
      BY <3>1, <1>4, <1>9
    <3>4. t \notin batches[batch]
      BY <3>3, <1>10 DEF PlacedWell
    <3> QED BY <3>2, <3>4, <1>12
  <2>3. batch <= Len(batches) + 1 /\ batch <= Len(batches)
    BY <1>1, <1>4, <1>9
  <2> QED BY <1>2, <2>1, <2>2, <2>3 DEF BatchesInTurn
<1>14. Recorded'
  BY <1>2, <1>11, <1>12 DEF RunInv, Recorded
<1>15. DependenciesKnown'
  <2>1. \A t \in batches[batch] : \A d \in DepsOf(t) : results[d] \in {"ok", "failed"}
    <3> SUFFICES ASSUME NEW t \in batches[batch], NEW d \in DepsOf(t) PROVE results[d] \in {"ok", "failed"}
      OBVIOUS
    <3>1. PICK j \in DOMAIN batches : j < batch /\ d \in batches[j]
      BY <1>10 DEF PlacedWell
    <3> QED BY <3>1 DEF RunInv, BatchesInTurn
  <2> QED BY <1>2, <1>8, <1>12, <2>1 DEF RunInv, DependenciesKnown
<1>16. AttemptsLeft'
  BY <1>2, <1>11, <1>12 DEF RunInv, AttemptsLeft
<1>17. FailureExplained'
  BY <1>2, <1>8, <1>12 DEF RunInv, FailureExplained
<1>18. BoundedParallelism'
  <2>1. Holding' \subseteq Holding
    BY <1>12 DEF Holding
  <2> QED BY <2>1, HoldingShrinks DEF RunInv
<1>19. OrderedWell'
  <2>1. Reported' = Reported
    BY <1>2 DEF Reported
  <2> QED BY <1>2, <1>3, <1>8, <2>1 DEF RunInv, OrderedWell
<1> QED BY <1>7, <1>13, <1>14, <1>15, <1>16, <1>17, <1>18, <1>19 DEF RunInv


\* A step of the goroutine of t to the state "to", and what made it.
StepTo(t, to) ==
    /\ st' = [st EXCEPT ![t] = to]
    /\ Step
    /\ st[t] \notin {"none", "ok", "failed"} /\ to \notin {"none", "queued"}
    /\ attempt' = attempt \/ (attempt' = [attempt EXCEPT ![t] = @ + 1] /\ to = "running" /\ attempt[t] < RetryMax)
    /\ to # "failed" =>
          \/ st[t] \in {"admitted", "running", "backoff"}
          \/ (\A d \in DepsOf(t) : results[d] = "ok") /\ Cardinality(Holding) < MaxParallel
    /\ to \in {"admitted", "backoff"} => attempt[t] < RetryMax
    /\ to = "failed" => \/ ctxDone
                        \/ attempt[t] = RetryMax
                        \/ \E d \in DepsOf(t) : results[d] # "ok"

LEMMA GoroutineMoves ==
  ASSUME IInv, NEW t \in Ids, Goroutine(t)
  PROVE  \E to \in States : StepTo(t, to)
<1>1. /\ st[t] \in {"none", "queued"} => attempt[t] = 0
      /\ st[t] \in {"admitted", "backoff"} => attempt[t] < RetryMax
      /\ attempt[t] \in 0..RetryMax
      /\ RetryMax \in Nat \ {0}
  BY SizesType DEF IInv, RunInv, AttemptsLeft, GraphInv, TypeOK
<1>2. CASE Admit(t)
  <2>1. CASE \A d \in DepsOf(t) : results[d] = "ok"
    <3>1. st' = [st EXCEPT ![t] = "admitted"]
      <4>1. st' = [st EXCEPT ![t] = IF \A d \in DepsOf(t) : results[d] = "ok" THEN "admitted" ELSE "failed"]
        BY <1>2 DEF Admit, Move
      <4> QED BY <2>1, <4>1, Zenon
    <3>2. attempt' = attempt /\ Step /\ st[t] = "queued" /\ Cardinality(Holding) < MaxParallel
      BY <1>2 DEF Admit
    <3>3. attempt[t] < RetryMax
      BY <1>1, <3>2
    <3>4. StepTo(t, "admitted")
      BY <2>1, <3>1, <3>2, <3>3 DEF StepTo
    <3> QED BY <3>4 DEF States
  <2>2. CASE ~(\A d \in DepsOf(t) : results[d] = "ok")
    <3>1. \E d \in DepsOf(t) : results[d] # "ok"
      BY <2>2
    <3>2. st' = [st EXCEPT ![t] = "failed"]
      <4>1. st' = [st EXCEPT ![t] = IF \A d \in DepsOf(t) : results[d] = "ok" THEN "admitted" ELSE "failed"]
        BY <1>2 DEF Admit, Move
      <4> QED BY <2>2, <4>1, Zenon
    <3>3. attempt' = attempt /\ Step /\ st[t] = "queued"
      BY <1>2 DEF Admit
    <3>4. StepTo(t, "failed")
      BY <3>1, <3>2, <3>3 DEF StepTo
    <3> QED BY <3>4 DEF States
  <2> QED BY <2>1, <2>2
<1>3. CASE GiveUp(t)
  <2>1. StepTo(t, "failed")
    BY <1>3 DEF GiveUp, Move, StepTo
  <2> QED BY <2>1 DEF States
<1>4. CASE RunEngine(t)
  <2>1. StepTo(t, "running")
    BY <1>1, <1>4 DEF RunEngine, Move, StepTo
  <2> QED BY <2>1 DEF States
<1>5. CASE EngineSucceeds(t)
  <2>1. StepTo(t, "ok")
    BY <1>5 DEF EngineSucceeds, Move, StepTo
  <2> QED BY <2>1 DEF States
<1>6. CASE EngineFails(t)
  <2>1. CASE attempt[t] < RetryMax
    <3>1. StepTo(t, "backoff")
      BY <1>6, <2>1 DEF EngineFails, Move, StepTo
    <3> QED BY <3>1 DEF States
  <2>2. CASE ~(attempt[t] < RetryMax)
    <3>1. StepTo(t, "failed")
      BY <1>1, <1>6, <2>2 DEF EngineFails, Move, StepTo
    <3> QED BY <3>1 DEF States
  <2> QED BY <2>1, <2>2
<1>7. CASE BackoffEnds(t)
  <2>1. StepTo(t, "admitted")
    BY <1>1, <1>7 DEF BackoffEnds, Move, StepTo
  <2> QED BY <2>1 DEF States
<1> QED BY <1>2, <1>3, <1>4, <1>5, <1>6, <1>7 DEF Goroutine

LEMMA GoroutineInv ==
  ASSUME IInv, NEW t \in Ids, Goroutine(t)
  PROVE  IInv'
<1> USE DEF IInv, GraphInv
<1>1. PICK to \in States : StepTo(t, to)
  BY GoroutineMoves
<1>2. /\ plan' = plan /\ limit' = limit /\ ctxDone' = ctxDone /\ tasks' = tasks /\ batches' = batches
      /\ inDegree' = inDegree /\ ready' = ready /\ pc' = pc /\ outcome' = outcome
      /\ batch' = batch /\ results' = results /\ ordered' = ordered
  BY <1>1 DEF StepTo, Step, graphVars
<1>3. st \in [Ids -> States] /\ attempt \in [Ids -> 0..RetryMax] /\ RetryMax \in Nat \ {0} /\ batch \in Nat \ {0}
  BY SizesType DEF TypeOK
<1>4. /\ st' \in [Ids -> States]
      /\ st'[t] = to /\ \A u \in Ids : u # t => st'[u] = st[u]
  BY <1>1, <1>3 DEF StepTo
<1>5. /\ attempt' \in [Ids -> 0..RetryMax]
      /\ \A u \in Ids : u # t => attempt'[u] = attempt[u]
      /\ attempt'[t] = attempt[t] \/ to = "running"
  <2>1. CASE attempt' = attempt
    BY <2>1, <1>3
  <2>2. CASE attempt' = [attempt EXCEPT ![t] = attempt[t] + 1] /\ to = "running" /\ attempt[t] < RetryMax
    <3>1. attempt[t] + 1 \in 0..RetryMax
      BY <2>2, <1>3
    <3> QED BY <2>2, <3>1, <1>3
  <2> QED BY <1>1, <2>1, <2>2 DEF StepTo
<1>6. TypeOK'
  BY <1>2, <1>4, <1>5 DEF TypeOK
<1>7. TaskIds' = TaskIds /\ (\A u : DepsOf(u)' = DepsOf(u)) /\ Placed' = Placed /\ PlacedWell' /\ (Cyclic => Cyclic')
  BY <1>2, TasksFrame, GraphFrame
<1>8. st[t] \notin {"none", "ok", "failed"} /\ to \notin {"none", "queued"}
  BY <1>1 DEF StepTo
<1>9. GraphInv'
  <2>1. pc \notin {"decompose", "resolve", "peel"}
    BY <1>8 DEF Early
  <2>2. Early'
    BY <1>2, <2>1 DEF Early
  <2>3. Checked' /\ Peeling' /\ AllPlaced' /\ (outcome' = "circular" => Cyclic')
    BY <1>2, <1>7, <2>1 DEF Checked, Peeling, AllPlaced
  <2> QED BY <1>6, <1>7, <2>2, <2>3
<1>10. /\ Len(batches) \in Nat /\ DOMAIN batches = 1..Len(batches)
       /\ \A i \in DOMAIN batches : batches[i] \subseteq Ids
  BY PlacedIn
<1>11. BatchesInTurn'
  <2>1. ASSUME NEW i \in DOMAIN batches, NEW u \in batches[i],
               pc \in {"peel", "execute", "inBatch"}, i > batch \/ (i = batch /\ pc # "inBatch")
        PROVE  st'[u] = "none"
    <3>1. st[u] = "none" /\ u \in Ids
      BY <2>1, <1>10 DEF RunInv, BatchesInTurn
    <3> QED BY <3>1, <1>4, <1>8
  <2> QED BY <1>2, <2>1 DEF RunInv, BatchesInTurn
<1>12. Recorded'
  <2>1. results[t] = "none"
    BY <1>8 DEF RunInv, Recorded, TypeOK
  <2> QED BY <1>2, <1>4, <2>1 DEF RunInv, Recorded
<1>13. /\ \A d \in DepsOf(t) : results[d] \in {"ok", "failed"}
       /\ st[t] \in {"admitted", "running", "backoff", "ok"} => \A d \in DepsOf(t) : results[d] = "ok"
  BY <1>8 DEF RunInv, DependenciesKnown
<1>14. DependenciesKnown'
  <2>1. to # "failed" => \A d \in DepsOf(t) : results[d] = "ok"
    BY <1>1, <1>13 DEF StepTo
  <2> QED BY <1>2, <1>4, <1>7, <1>13, <2>1 DEF RunInv, DependenciesKnown
<1>15. AttemptsLeft'
  <2>1. to \in {"admitted", "backoff"} => attempt'[t] < RetryMax
    BY <1>1, <1>5 DEF StepTo
  <2> QED BY <1>4, <1>5, <1>8, <2>1 DEF RunInv, AttemptsLeft
<1>16. FailureExplained'
  <2>1. to = "failed" => attempt'[t] = RetryMax \/ (\E d \in DepsOf(t) : results[d] = "failed") \/ ctxDone
    BY <1>1, <1>5, <1>13 DEF StepTo
  <2> QED BY <1>2, <1>4, <1>5, <1>7, <2>1 DEF RunInv, FailureExplained
<1>17. BoundedParallelism'
  <2>1. CASE st[t] \in {"admitted", "running", "backoff"} \/ to = "failed"
    <3>1. Holding' \subseteq Holding
      BY <1>4, <2>1 DEF Holding
    <3> QED BY <3>1, HoldingShrinks DEF RunInv
  <2>2. CASE Cardinality(Holding) < MaxParallel
    <3>1. Holding \in SUBSET Ids /\ Holding' \subseteq Holding \cup {t}
      BY <1>4 DEF Holding
    <3>2. IsFiniteSet(Holding) /\ Cardinality(Holding) \in Nat
      BY <3>1, IdsFinite
    <3>3. IsFiniteSet(Holding \cup {t}) /\ Cardinality(Holding \cup {t}) <= Cardinality(Holding) + 1
          /\ Cardinality(Holding \cup {t}) \in Nat
      <4> DEFINE H == Holding
      <4>1. IsFiniteSet(H) /\ Cardinality(H) \in Nat
        BY <3>2
      <4> HIDE DEF H
      <4>2. /\ IsFiniteSet(H \cup {t})
            /\ Cardinality(H \cup {t}) = IF t \in H THEN Cardinality(H) ELSE Cardinality(H) + 1
        BY <4>1, FS_AddElement
      <4>3. /\ IsFiniteSet(H \cup {t}) /\ Cardinality(H \cup {t}) <= Cardinality(H) + 1
            /\ Cardinality(H \cup {t}) \in Nat
        BY <4>1, <4>2
      <4> QED BY <4>3 DEF H
    <3>4. Cardinality(Holding') <= Cardinality(Holding \cup {t}) /\ Cardinality(Holding') \in Nat
      BY <3>1, <3>3, FS_Subset, FS_CardinalityType
    <3> QED BY <2>2, <3>2, <3>3, <3>4, SizesType DEF BoundedParallelism
  <2> QED BY <1>1, <2>1, <2>2 DEF StepTo
<1>18. OrderedWell'
  <2>1. Reported' = Reported
    BY <1>2 DEF Reported
  <2> QED BY <1>2, <1>7, <2>1 DEF RunInv, OrderedWell
<1> QED BY <1>9, <1>11, <1>12, <1>14, <1>15, <1>16, <1>17, <1>18 DEF RunInv

\* The results of a batch are recorded.
LEMMA EndBatchInv ==
  ASSUME IInv, EndBatch
  PROVE  IInv'
<1> USE DEF IInv, GraphInv
<1>1. pc = "inBatch" /\ outcome = "none" /\ batch <= Len(batches) /\ Finished(batches[batch])
  BY DEF EndBatch, Early, RunInv, BatchesInTurn
<1>2. /\ plan' = plan /\ limit' = limit /\ ctxDone' = ctxDone /\ tasks' = tasks /\ batches' = batches
      /\ inDegree' = inDegree /\ ready' = ready /\ st' = st /\ attempt' = attempt
  BY DEF EndBatch, graphVars
<1>3. \/ /\ pc' = "returned" /\ outcome' = "cancelled"
         /\ batch' = batch /\ results' = results /\ ordered' = ordered
      \/ /\ pc' = "execute" /\ outcome' = "none"
         /\ results' = [t \in Ids |-> IF t \in batches[batch] THEN st[t] ELSE results[t]]
         /\ ordered' = ordered \o Sorted(batches[batch])
         /\ batch' = batch + 1
  BY <1>1 DEF EndBatch, Return
<1>4. /\ st \in [Ids -> States] /\ batch \in Nat \ {0} /\ ordered \in Seq(Ids)
      /\ results \in [Ids -> {"none", "ok", "failed"}]
  BY DEF TypeOK
<1>5. /\ Len(batches) \in Nat /\ DOMAIN batches = 1..Len(batches)
      /\ \A i \in DOMAIN batches : batches[i] \subseteq Ids
  BY PlacedIn
<1>6. batch \in DOMAIN batches /\ batches[batch] \in SUBSET Ids
  BY <1>1, <1>4, <1>5
<1>7. \A t \in batches[batch] : t \in Ids /\ st[t] \in {"ok", "failed"}
  BY <1>1, <1>6 DEF Finished
<1>8. results' \in [Ids -> {"none", "ok", "failed"}]
  BY <1>3, <1>4, <1>7
<1>9. ordered' \in Seq(Ids)
  <2>1. Sorted(batches[batch]) \in Seq(Ids)
    BY <1>6, SortedType
  <2>2. ordered \o Sorted(batches[batch]) \in Seq(Ids)
    BY <2>1, <1>4, ConcatProperties
  <2> QED BY <1>3, <1>4, <2>2
<1>10. TypeOK'
  <2>1. pc' \in {"decompose", "resolve", "peel", "execute", "inBatch", "returned"} /\ outcome' \in Outcomes
    BY <1>3 DEF Outcomes
  <2>2. batch' \in Nat \ {0}
    BY <1>3, <1>4
  <2> QED BY <1>2, <1>8, <1>9, <2>1, <2>2 DEF TypeOK
<1>11. GraphInv'
  BY <1>1, <1>2, <1>3, <1>10, RunKeepsGraph DEF Late
<1>12. TaskIds' = TaskIds /\ (\A t : DepsOf(t)' = DepsOf(t)) /\ (\A t : DepsOf(t) \subseteq Ids)
  BY <1>2, TasksFrame, GraphType
<1>13. \A t \in Ids : results'[t] = results[t] \/ (t \in batches[batch] /\ results'[t] = st[t])
  BY <1>3
<1>14. \A t \in Ids : results[t] # "none" => results'[t] = results[t]
  BY <1>13 DEF RunInv, Recorded
<1>15. BatchesInTurn'
  <2>1. CASE pc' = "returned"
    BY <1>2, <1>3, <2>1 DEF RunInv, BatchesInTurn
  <2>2. CASE pc' = "execute"
    <3>1. batch' = batch + 1 /\ results' = [t \in Ids |-> IF t \in batches[batch] THEN st[t] ELSE results[t]]
      BY <1>3, <2>2
    <3>2. batch + 1 <= Len(batches) + 1
      BY <1>1, <1>4, <1>5
    <3>3. ASSUME NEW i \in DOMAIN batches, NEW t \in batches[i], i < batch + 1
          PROVE  results'[t] \in {"ok", "failed"}
      <4>1. t \in Ids
        BY <1>5
      <4>2. CASE i = batch
        BY <4>1, <4>2, <3>1, <1>7
      <4>3. CASE i < batch
        <5>1. results[t] \in {"ok", "failed"}
          BY <4>3 DEF RunInv, BatchesInTurn
        <5> QED BY <4>1, <5>1, <1>14
      <4> QED BY <3>3, <4>2, <4>3, <1>4, <1>5
    <3>4. ASSUME NEW i \in DOMAIN batches, NEW t \in batches[i], i >= batch + 1
          PROVE  st[t] = "none"
      <4>1. i > batch
        BY <3>4, <1>4, <1>5
      <4> QED BY <4>1, <1>1 DEF RunInv, BatchesInTurn
    <3>5. \A i \in DOMAIN batches : (i > batch + 1 \/ i = batch + 1) => i >= batch + 1
      BY <1>4, <1>5
    <3> QED BY <1>2, <2>2, <3>1, <3>2, <3>3, <3>4, <3>5 DEF BatchesInTurn
  <2> QED BY <1>3, <2>1, <2>2
<1>16. Recorded'
  BY <1>2, <1>13 DEF RunInv, Recorded
<1>17. DependenciesKnown'
  BY <1>2, <1>12, <1>14 DEF RunInv, DependenciesKnown
<1>18. AttemptsLeft'
  BY <1>2 DEF RunInv, AttemptsLeft
<1>19. FailureExplained'
  BY <1>2, <1>12, <1>14 DEF RunInv, FailureExplained
<1>20. BoundedParallelism'
  <2>1. Holding' \subseteq Holding
    BY <1>2 DEF Holding
  <2> QED BY <2>1, HoldingShrinks DEF RunInv
<1>21. OrderedWell'
  <2>1. CASE pc' = "returned"
    <3>1. Reported' = Reported
      BY <1>2, <1>3, <2>1 DEF Reported
    <3> QED BY <1>2, <1>3, <1>12, <2>1, <3>1 DEF RunInv, OrderedWell
  <2>2. CASE pc' = "execute"
    <3> DEFINE B == batches[batch]
               s == Sorted(B)
    <3>1. batch' = batch + 1 /\ ordered' = ordered \o s /\ outcome' = "none"
      BY <1>3, <2>2
    <3>2. /\ s \in Seq(Ids) /\ Len(s) = Cardinality(B) /\ Len(s) \in Nat
          /\ \A i \in 1..Len(s) : s[i] \in B
          /\ \A x \in B : \E i \in 1..Len(s) : s[i] = x
      BY <1>6, SortedType, LenProperties
    <3>3. /\ {ordered[i] : i \in DOMAIN ordered} = Reported
          /\ Len(ordered) = Cardinality(Reported)
          /\ \A i, j \in DOMAIN ordered : ordered[i] \in DepsOf(ordered[j]) => i < j
          /\ Len(ordered) \in Nat /\ DOMAIN ordered = 1..Len(ordered)
      BY <1>4, LenProperties DEF RunInv, OrderedWell
    <3> HIDE DEF s
    <3>4. /\ Len(ordered') = Len(ordered) + Len(s) /\ DOMAIN ordered' = 1..(Len(ordered) + Len(s))
          /\ \A i \in DOMAIN ordered' : ordered'[i] = IF i <= Len(ordered) THEN ordered[i] ELSE s[i - Len(ordered)]
      <4>1. /\ ordered \o s \in Seq(Ids) /\ Len(ordered \o s) = Len(ordered) + Len(s)
            /\ \A i \in 1..(Len(ordered) + Len(s)) :
                  (ordered \o s)[i] = IF i <= Len(ordered) THEN ordered[i] ELSE s[i - Len(ordered)]
        BY <3>2, <1>4, ConcatProperties
      <4>2. DOMAIN (ordered \o s) = 1..(Len(ordered) + Len(s))
        BY <4>1, LenProperties
      <4> QED BY <3>1, <4>1, <4>2
    <3>5. Reported' = Reported \cup B
      <4>1. \A j \in DOMAIN batches : j < batch + 1 <=> j < batch \/ j = batch
        BY <1>4, <1>5
      <4> QED BY <1>2, <1>6, <3>1, <4>1 DEF Reported
    <3>6. Reported \cap B = {} /\ Reported \subseteq Ids
      <4>1. \A j \in DOMAIN batches : j < batch => batches[j] \cap B = {} /\ batches[j] \subseteq Ids
        <5>1. \A j \in DOMAIN batches : j < batch => j # batch
          BY <1>4, <1>5
        <5> QED BY <5>1, <1>5, <1>6 DEF PlacedWell
      <4> QED BY <4>1 DEF Reported
    <3>7. \A t \in Reported \cup B : DepsOf(t) \cap B = {}
      <4> SUFFICES ASSUME NEW t \in Reported \cup B, NEW d \in DepsOf(t) PROVE d \notin B
        OBVIOUS
      <4>1. PICK k \in DOMAIN batches : k <= batch /\ t \in batches[k]
        BY <1>4, <1>5, <1>6 DEF Reported
      <4>2. PICK j \in DOMAIN batches : j < k /\ d \in batches[j]
        BY <4>1 DEF PlacedWell
      <4>3. j # batch
        BY <4>1, <4>2, <1>4, <1>5
      <4> QED BY <4>2, <4>3, <1>6 DEF PlacedWell
    <3> HIDE DEF B
    <3>8. Len(ordered') = Cardinality(Reported')
      <4>1. IsFiniteSet(Reported) /\ IsFiniteSet(B) /\ Cardinality(Reported) \in Nat /\ Cardinality(B) \in Nat
        BY <1>6, <3>6, IdsFinite DEF B
      <4>2. Cardinality(Reported \cup B) = Cardinality(Reported) + Cardinality(B) - Cardinality({})
        BY <4>1, <3>6, FS_Union
      <4>3. Cardinality(Reported \cup B) = Cardinality(Reported) + Cardinality(B)
        BY <4>1, <4>2, FS_EmptySet
      <4> QED BY <4>3, <3>2, <3>3, <3>4, <3>5
    <3>9. \A i \in 1..Len(ordered) : i \in DOMAIN ordered' /\ ordered'[i] = ordered[i]
      BY <3>2, <3>3, <3>4
    <3>10. \A i \in 1..Len(s) : Len(ordered) + i \in DOMAIN ordered' /\ ordered'[Len(ordered) + i] = s[i]
      <4> SUFFICES ASSUME NEW i \in 1..Len(s)
                   PROVE  Len(ordered) + i \in DOMAIN ordered' /\ ordered'[Len(ordered) + i] = s[i]
        OBVIOUS
      <4>1. Len(ordered) + i \in 1..(Len(ordered) + Len(s)) /\ ~(Len(ordered) + i <= Len(ordered))
            /\ (Len(ordered) + i) - Len(ordered) = i
        BY <3>2, <3>3
      <4> QED BY <3>4, <4>1
    <3>11. \A i \in DOMAIN ordered' : \/ i \in 1..Len(ordered) /\ ordered'[i] \in Reported
                                      \/ i > Len(ordered) /\ ordered'[i] \in B
      <4> SUFFICES ASSUME NEW i \in DOMAIN ordered'
                   PROVE  \/ i \in 1..Len(ordered) /\ ordered'[i] \in Reported
                          \/ i > Len(ordered) /\ ordered'[i] \in B
        OBVIOUS
      <4>1. CASE i <= Len(ordered)
        <5>1. i \in 1..Len(ordered) /\ i \in DOMAIN ordered
          BY <4>1, <3>2, <3>3, <3>4
        <5>2. ordered[i] \in Reported
          BY <5>1, <3>3
        <5> QED BY <5>1, <5>2, <3>9
      <4>2. CASE i > Len(ordered)
        <5>1. i - Len(ordered) \in 1..Len(s) /\ ~(i <= Len(ordered))
          BY <4>2, <3>2, <3>3, <3>4
        <5> QED BY <4>2, <5>1, <3>2, <3>4
      <4> QED BY <4>1, <4>2, <3>2, <3>3, <3>4
    <3>12. {ordered'[i] : i \in DOMAIN ordered'} = Reported'
      <4>1. {ordered'[i] : i \in DOMAIN ordered'} \subseteq Reported \cup B
        BY <3>11
      <4>2. \A x \in Reported : \E i \in DOMAIN ordered' : ordered'[i] = x
        <5> SUFFICES ASSUME NEW x \in Reported PROVE \E i \in DOMAIN ordered' : ordered'[i] = x
          OBVIOUS
        <5>1. PICK i \in DOMAIN ordered : ordered[i] = x
          BY <3>3
        <5> QED BY <5>1, <3>3, <3>9
      <4>3. \A x \in B : \E i \in DOMAIN ordered' : ordered'[i] = x
        <5> SUFFICES ASSUME NEW x \in B PROVE \E i \in DOMAIN ordered' : ordered'[i] = x
          OBVIOUS
        <5>1. PICK i \in 1..Len(s) : s[i] = x
          BY <3>2
        <5> QED BY <5>1, <3>10
      <4> QED BY <4>1, <4>2, <4>3, <3>5
    <3>13. ASSUME NEW i \in DOMAIN ordered', NEW j \in DOMAIN ordered', ordered'[i] \in DepsOf(ordered'[j])
           PROVE  i < j
      <4>1. ordered'[j] \in Reported \cup B
        BY <3>11
      <4>2. ordered'[i] \notin B
        BY <4>1, <3>7, <3>13
      <4>3. i \in 1..Len(ordered)
        BY <4>2, <3>11
      <4>4. CASE j > Len(ordered)
        BY <4>3, <4>4, <3>2, <3>3, <3>4
      <4>5. CASE j \in 1..Len(ordered)
        <5>1. ordered'[i] = ordered[i] /\ ordered'[j] = ordered[j]
          BY <4>3, <4>5, <3>9
        <5>2. ordered[i] \in DepsOf(ordered[j])
          BY <5>1, <3>13
        <5> QED BY <5>2, <4>3, <4>5, <3>3
      <4> QED BY <4>4, <4>5, <3>11
    <3>14. \A i, j \in DOMAIN ordered' : ordered'[i] \in DepsOf(ordered[j])' => i < j
      <4>1. \A j \in DOMAIN ordered' : DepsOf(ordered[j])' = DepsOf(ordered'[j])
        BY <1>2 DEF DepsOf
      <4> QED BY <3>13, <4>1
    <3> QED BY <3>1, <3>8, <3>12, <3>14 DEF OrderedWell
  <2> QED BY <1>3, <2>1, <2>2
<1> QED BY <1>11, <1>15, <1>16, <1>17, <1>18, <1>19, <1>20, <1>21 DEF RunInv

LEMMA PersistAndSendInv ==
  ASSUME IInv, PersistAndSend
  PROVE  IInv'
<1> USE DEF IInv, GraphInv
<1>1. pc = "execute" /\ outcome = "none" /\ batch > Len(batches)
  BY DEF PersistAndSend, Early
<1>2. pc' = "returned" /\ outcome' \in {"sent", "persist_error", "send_error"}
  BY DEF PersistAndSend, Return
<1>3. /\ plan' = plan /\ limit' = limit /\ ctxDone' = ctxDone /\ tasks' = tasks /\ batches' = batches
      /\ inDegree' = inDegree /\ ready' = ready
      /\ batch' = batch /\ st' = st /\ attempt' = attempt /\ results' = results /\ ordered' = ordered
  BY DEF PersistAndSend, graphVars, runVars
<1>4. TypeOK'
  <2>1. pc' \in {"decompose", "resolve", "peel", "execute", "inBatch", "returned"} /\ outcome' \in Outcomes
    BY <1>2 DEF Outcomes
  <2> QED BY <1>3, <2>1 DEF TypeOK
<1>5. GraphInv'
  BY <1>1, <1>2, <1>3, <1>4, RunKeepsGraph DEF Late
<1>6. \A t : DepsOf(t)' = DepsOf(t)
  BY <1>3, TasksFrame
<1>7. BatchesInTurn'
  BY <1>2, <1>3 DEF RunInv, BatchesInTurn
<1>8. Recorded' /\ DependenciesKnown' /\ AttemptsLeft' /\ FailureExplained'
  BY <1>3, <1>6 DEF RunInv, Recorded, DependenciesKnown, AttemptsLeft, FailureExplained
<1>9. BoundedParallelism'
  <2>1. Holding' \subseteq Holding
    BY <1>3 DEF Holding
  <2> QED BY <2>1, HoldingShrinks DEF RunInv
<1>10. OrderedWell'
  <2>1. Reported' = Reported
    BY <1>3 DEF Reported
  <2> QED BY <1>1, <1>3, <1>6, <2>1 DEF RunInv, OrderedWell
<1> QED BY <1>5, <1>7, <1>8, <1>9, <1>10 DEF RunInv

LEMMA CancelInv ==
  ASSUME IInv, Cancel \/ UNCHANGED vars
  PROVE  IInv'
<1> USE DEF IInv, GraphInv
<1>1. /\ plan' = plan /\ limit' = limit /\ pc' = pc /\ outcome' = outcome /\ tasks' = tasks /\ batches' = batches
      /\ inDegree' = inDegree /\ ready' = ready
      /\ batch' = batch /\ st' = st /\ attempt' = attempt /\ results' = results /\ ordered' = ordered
      /\ ctxDone' \in BOOLEAN /\ (ctxDone => ctxDone')
  BY DEF Cancel, vars, graphVars, runVars, TypeOK
<1>2. TypeOK'
  BY <1>1 DEF TypeOK
<1>3. TaskIds' = TaskIds /\ (\A t : DepsOf(t)' = DepsOf(t)) /\ Placed' = Placed /\ PlacedWell' /\ (Cyclic => Cyclic')
  BY <1>1, TasksFrame, GraphFrame
<1>4. Early' /\ Checked' /\ AllPlaced' /\ (outcome' = "circular" => Cyclic')
  BY <1>1, <1>3 DEF Early, Checked, AllPlaced
<1>5. Peeling'
  BY <1>1, <1>3 DEF Peeling
<1>6. BatchesInTurn'
  BY <1>1 DEF RunInv, BatchesInTurn
<1>7. Recorded' /\ DependenciesKnown' /\ AttemptsLeft'
  BY <1>1, <1>3 DEF RunInv, Recorded, DependenciesKnown, AttemptsLeft
<1>8. FailureExplained'
  BY <1>1, <1>3 DEF RunInv, FailureExplained
<1>9. BoundedParallelism'
  <2>1. Holding' \subseteq Holding
    BY <1>1 DEF Holding
  <2> QED BY <2>1, HoldingShrinks DEF RunInv
<1>10. OrderedWell'
  <2>1. Reported' = Reported
    BY <1>1 DEF Reported
  <2> QED BY <1>1, <1>3, <2>1 DEF RunInv, OrderedWell
<1> QED BY <1>2, <1>3, <1>4, <1>5, <1>6, <1>7, <1>8, <1>9, <1>10 DEF RunInv

-----------------------------------------------------------------------------
(* The theorems                                                            *)

\* The inductive invariant holds in every state of every request.
THEOREM Inductive == Spec => []IInv
<1>1. IInv /\ [Next]_vars => IInv'
  <2> SUFFICES ASSUME IInv, [Next]_vars PROVE IInv'
    OBVIOUS
  <2>1. CASE Decompose
    BY <2>1, DecomposeInv
  <2>2. CASE CheckTasks
    BY <2>2, CheckTasksInv
  <2>3. CASE PeelBatch
    BY <2>3, PeelBatchInv
  <2>4. CASE EndPeel
    BY <2>4, EndPeelInv
  <2>5. CASE StartBatch
    BY <2>5, StartBatchInv
  <2>6. CASE EndBatch
    BY <2>6, EndBatchInv
  <2>7. CASE PersistAndSend
    BY <2>7, PersistAndSendInv
  <2>8. CASE \E t \in Ids : Goroutine(t)
    BY <2>8, GoroutineInv
  <2>9. CASE Cancel \/ UNCHANGED vars
    BY <2>9, CancelInv
  <2> QED BY <2>1, <2>2, <2>3, <2>4, <2>5, <2>6, <2>7, <2>8, <2>9 DEF Next, Main
<1> QED BY InitInv, <1>1, PTL DEF Spec

\* Every state of the coordinator has its type: in particular no in-degree of
\* resolveExecutionBatches goes below zero, and no sub-task is tried more than
\* RetryMax times.
THEOREM TypeCorrect == Spec => []TypeOK
<1>1. IInv => TypeOK
  BY DEF IInv, GraphInv
<1> QED BY <1>1, Inductive, PTL

\* resolveExecutionBatches: the batches are a topological order of the sub-tasks,
\* and a request is refused as circular exactly when its sub-tasks are.
THEOREM TopologicalOrder == Spec => []BatchesAreTopological
<1>1. IInv => BatchesAreTopological
  <2> SUFFICES ASSUME IInv PROVE BatchesAreTopological
    OBVIOUS
  <2> USE DEF IInv, GraphInv
  <2>1. Len(batches) \in Nat /\ DOMAIN batches = 1..Len(batches)
    BY PlacedIn
  <2>2. ASSUME NEW i \in DOMAIN batches, NEW t \in batches[i], NEW d \in DepsOf(t)
        PROVE  d \in UNION {batches[j] : j \in 1..(i - 1)}
    <3>1. PICK j \in DOMAIN batches : j < i /\ d \in batches[j]
      BY DEF PlacedWell
    <3>2. j \in 1..(i - 1)
      BY <2>1, <3>1
    <3> QED BY <3>1, <3>2
  <2>3. pc \in {"execute", "inBatch"} => Placed = TaskIds /\ ~Cyclic
    BY DEF AllPlaced, PlacedWell, Cyclic
  <2> QED BY <2>2, <2>3 DEF BatchesAreTopological, PlacedWell
<1> QED BY <1>1, Inductive, PTL

\* executeTask: the engine is asked for a sub-task only when every sub-task it
\* depends on has succeeded.
THEOREM DependenciesFirst == Spec => []RunsAfterDependencies
<1>1. IInv => RunsAfterDependencies
  <2> SUFFICES ASSUME IInv PROVE RunsAfterDependencies
    OBVIOUS
  <2>1. \A t : DepsOf(t) \subseteq Ids
    BY GraphType DEF IInv, GraphInv
  <2>2. \A d \in Ids : results[d] = "ok" => st[d] = "ok"
    BY DEF IInv, RunInv, Recorded
  <2>3. \A t \in Ids : st[t] \in {"running", "backoff", "ok"} => \A d \in DepsOf(t) : results[d] = "ok"
    BY DEF IInv, RunInv, DependenciesKnown
  <2> QED BY <2>1, <2>2, <2>3 DEF RunsAfterDependencies
<1> QED BY <1>1, Inductive, PTL

\* executeBatch: the semaphore bounds the sub-tasks that are with the engine or
\* wait to be retried.
THEOREM ParallelismBounded == Spec => []BoundedParallelism
<1>1. IInv => BoundedParallelism
  BY DEF IInv, RunInv
<1> QED BY <1>1, Inductive, PTL

\* The answer that is sent reports every sub-task once, behind those it depends
\* on, and explains every failure.
THEOREM AnswerComplete == Spec => []AnswerIsComplete
<1>1. IInv => AnswerIsComplete
  <2> SUFFICES ASSUME IInv, outcome = "sent"
               PROVE  /\ {ordered[i] : i \in DOMAIN ordered} = TaskIds
                      /\ Len(ordered) = Len(tasks)
                      /\ \A i, j \in DOMAIN ordered : ordered[i] \in DepsOf(ordered[j]) => i < j
                      /\ \A t \in TaskIds : results[t] = "failed" =>
                            \/ attempt[t] = RetryMax
                            \/ \E d \in DepsOf(t) : results[d] = "failed"
                            \/ ctxDone
    BY DEF AnswerIsComplete
  <2> USE DEF IInv, GraphInv, RunInv
  <2>1. Len(batches) \in Nat /\ DOMAIN batches = 1..Len(batches) /\ batch > Len(batches) /\ batch \in Nat
    BY PlacedIn DEF OrderedWell, TypeOK
  <2>2. Placed = TaskIds /\ Cardinality(TaskIds) = Len(tasks) /\ TaskIds \subseteq Ids
    BY GraphType DEF AllPlaced, Checked, Late
  <2>3. Reported = Placed
    <3>1. \A j \in DOMAIN batches : j < batch
      BY <2>1
    <3> QED BY <3>1 DEF Reported, Placed
  <2>4. \A t \in TaskIds : results[t] = "failed" => st[t] = "failed"
    BY <2>2 DEF Recorded
  <2>5. \A t \in TaskIds : results[t] = "failed" =>
           attempt[t] = RetryMax \/ (\E d \in DepsOf(t) : results[d] = "failed") \/ ctxDone
    BY <2>2, <2>4 DEF FailureExplained
  <2> QED BY <2>2, <2>3, <2>5 DEF OrderedWell
<1> QED BY <1>1, Inductive, PTL

=============================================================================
