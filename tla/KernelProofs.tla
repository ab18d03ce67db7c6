---------------------------- MODULE KernelProofs ----------------------------
(***************************************************************************)
(* What the kernel and the cognitive engine promise, for every budget,     *)
(* every number of turns and retries, every plan, thought and output, and  *)
(* every sequence of events of the session: a run thinks a bounded number  *)
(* of times, Prune keeps its context within the budget, what the user was  *)
(* told is in the transcript, the tools and skills a request is offered    *)
(* are the right ones, and every thought is a conversation its provider    *)
(* can be sent.                                                            *)
(***************************************************************************)
EXTENDS Kernel, FiniteSetTheorems, SequenceTheorems, WellFoundedInduction, TLAPS

-----------------------------------------------------------------------------
(* The engine *)

Roles == {"user", "assistant", "system", "tool"}

Messages == [role : Roles, cost : Nat, calls : Nat, answers : Nat, prompt : BOOLEAN]

Contexts ==
  [budget : {0, TokenBudget}, plan : Nat, pad : Seq(Nat), memories : Seq(Nat),
   history : Seq(Messages)]

Runs ==
  [phase : {"plan", "think", "act", "reflect", "replan"}, turn : Nat,
   retries : 0..MaxRetriesPerTurn, attempt : Nat, thinks : Nat, outs : Seq(Nat),
   calls : Nat, mems : Seq(Nat), stale : BOOLEAN]

Ended == [phase : {"done"}, result : {"fatal", "max_turns", "cancelled", "logic", "answer", "stopped"}]

Facts == [storing : Nat, found : Nat]

EngineType == eng \in {NoRun} \cup Runs \cup Ended /\ ctx \in Contexts /\ facts \in Facts

\* The thoughts that full turns may have.
Allowance(turns) == turns * (MaxRetriesPerTurn + 1)

\* Before it thinks, a turn has used its retries; after that, one thought more;
\* a replan has forgotten the retries.
ThinksCounted ==
  /\ eng.phase \in {"plan", "think"} => eng.thinks <= Allowance(eng.turn) + eng.retries
  /\ eng.phase \in {"act", "reflect"} => eng.thinks <= Allowance(eng.turn) + eng.retries + 1
  /\ eng.phase = "replan" => eng.thinks <= Allowance(eng.turn + 1)

Fits(c) == Used(c) <= c.budget \/ Used(c) = c.plan

\* Also while a new plan is asked for, in case the old one is kept.
ContextKept ==
  /\ eng.phase = "plan" => eng.stale
  /\ eng.phase \in {"think", "reflect", "replan"} /\ ~eng.stale /\ ctx.budget > 0 => Fits(ctx)

EngineInv == EngineType /\ ThinksCounted /\ ContextKept

-----------------------------------------------------------------------------
(* The session *)

\* No line of a transcript is the output of a tool.
Speakers == {"user", "assistant", "system"}

Lines == [role : Speakers, req : Nat, reply : BOOLEAN]

\* The phases of a request that has no reply yet.
Open == {"context", "offer", "run", "subtasks", "clear", "model", "command", "persist"}

RequestType ==
  /\ req = Idle \/ (req.phase \in Open \cup {"send", "returned"} /\ req.n \in Nat)
  /\ req.phase = "subtasks" => req \in [phase : {"subtasks"}, n : Nat, left : Nat]
  /\ req.phase = "persist" => req.role \in Speakers

SessionType ==
  /\ inbox \in Seq([kind : Kinds, n : Nat])
  /\ submitted \in Nat
  /\ transcript \in Seq(Lines)
  /\ RequestType

\* Requests are taken in the order of their numbers: those that wait come behind
\* each other, behind the one in execution and behind all that left a line.
InTurn ==
  /\ \A i \in DOMAIN inbox : inbox[i].n <= submitted
  /\ \A i, j \in DOMAIN inbox : i < j => inbox[i].n < inbox[j].n
  /\ \A i \in DOMAIN transcript : transcript[i].req <= submitted
  /\ \A i \in DOMAIN transcript, j \in DOMAIN inbox : transcript[i].req < inbox[j].n
  /\ req # Idle => req.n <= submitted /\ \A j \in DOMAIN inbox : req.n < inbox[j].n

\* The reply of the request in execution is recorded once, before it is sent.
Unreplied ==
  req.phase \in Open => \A i \in DOMAIN transcript : transcript[i].req = req.n => ~transcript[i].reply

Recorded == req.phase = "send" => Replies(req.n) # {}

SessionInv == SessionType /\ InTurn /\ Unreplied /\ Recorded /\ RepliesAreRecorded

\* The engine works for the request in execution.
RunsForRequest == eng.phase # "none" => req.phase \in {"run", "subtasks"}

IInv == EngineInv /\ SessionInv /\ RunsForRequest

-----------------------------------------------------------------------------
(* Induction over the natural numbers, stated of sets *)

\* A nonempty set of natural numbers has a least element.
LEMMA LeastNat ==
  ASSUME NEW T, T \subseteq Nat, T # {}
  PROVE  \E x \in T : \A y \in T : x <= y
<1> DEFINE R == OpToRel(<, Nat)
<1>1. IsWellFoundedOn(R, Nat)
  BY NatLessThanWellFounded
<1>2. PICK x \in T : \A y \in T : ~ (<<y, x>> \in R)
  <2> HIDE DEF R
  <2> QED BY <1>1, WFMin
<1>3. \A y \in T : y < x => <<y, x>> \in R
  BY DEF OpToRel
<1>4. \A y \in T : ~(y < x)
  <2> HIDE DEF R
  <2> QED BY <1>2, <1>3
<1>5. x \in Nat /\ \A y \in T : y \in Nat
  OBVIOUS
<1>6. \A y \in T : x <= y
  <2> HIDE DEF R
  <2> QED BY <1>4, <1>5
<1> QED BY <1>6

\* A set that holds 0 and the successor of each of its numbers holds them all.
LEMMA NatInd ==
  ASSUME NEW S, 0 \in S, \A n \in Nat : n \in S => n + 1 \in S
  PROVE  Nat \subseteq S
<1> SUFFICES ASSUME Nat \ S # {} PROVE FALSE
  OBVIOUS
<1>1. PICK x \in Nat \ S : \A y \in Nat \ S : x <= y
  <2> DEFINE T == Nat \ S
  <2>1. T \subseteq Nat /\ T # {}
    OBVIOUS
  <2> HIDE DEF T
  <2>2. \E x \in T : \A y \in T : x <= y
    BY <2>1, LeastNat
  <2> QED BY <2>2 DEF T
<1>2. x # 0 /\ x - 1 \in Nat
  OBVIOUS
<1>3. x - 1 \in S
  BY <1>1, <1>2
<1> QED BY <1>2, <1>3

\* A nonempty set of natural numbers with a bound has a greatest element.
LEMMA MaxIn ==
  ASSUME NEW n \in Nat, NEW T, T \subseteq 0..n, T # {}
  PROVE  Max(T) \in T
<1> DEFINE D == {k \in Nat : n - k \in T}
<1>1. D \subseteq Nat /\ D # {}
  <2>1. PICK t \in T : TRUE
    OBVIOUS
  <2>2. t \in 0..n
    BY <2>1
  <2>3. n - t \in Nat /\ n - (n - t) = t
    BY <2>2
  <2>4. n - t \in D
    BY <2>3, <2>1
  <2> QED BY <2>4
<1>2. PICK d \in D : \A y \in D : d <= y
  <2> HIDE DEF D
  <2> QED BY <1>1, LeastNat
<1>3. \A t \in T : t \in Nat /\ n - t \in Nat /\ n - (n - t) = t
  OBVIOUS
<1>4. \A t \in T : n - t \in D
  BY <1>3
<1>5. \A t \in T : n - d >= t
  BY <1>2, <1>3, <1>4
<1>6. n - d \in T
  OBVIOUS
<1> QED BY <1>5, <1>6 DEF Max

\* The lesser of two natural numbers is one of them.
LEMMA MinOfTwo ==
  ASSUME NEW a \in Nat, NEW b \in Nat
  PROVE  Min({a, b}) \in Nat
<1>1. \E x \in {a, b} : \A y \in {a, b} : x =< y
  <2>1. CASE a <= b
    BY <2>1
  <2>2. CASE b <= a
    BY <2>2
  <2> QED BY <2>1, <2>2
<1>2. Min({a, b}) \in {a, b}
  BY <1>1 DEF Min
<1> QED BY <1>2

-----------------------------------------------------------------------------
(* Prune *)

\* The costs of a list have a sum; the empty list costs nothing.
LEMMA TotalType ==
  ASSUME NEW s \in Seq(Nat)
  PROVE  Total(s) \in Nat /\ (s = <<>> => Total(s) = 0)
<1> DEFINE L == Len(s)
           Is(f) == f = [n \in 0..L |-> IF n = 0 THEN 0 ELSE f[n - 1] + s[n]]
           sum == CHOOSE f : Is(f)
           Upto(f, m) == f = [n \in 0..m |-> IF n = 0 THEN 0 ELSE f[n - 1] + s[n]]
<1>1. Total(s) = sum[L]
  BY DEF Total
<1>2. L \in Nat /\ \A n \in 1..L : s[n] \in Nat
  BY LenProperties, ElementOfSeq
<1>3. \A m \in Nat : m <= L => \E f : Upto(f, m)
  <2> DEFINE S == {m \in Nat : m <= L => \E f : Upto(f, m)}
  <2>1. 0 \in S
    <3> DEFINE f == [n \in 0..0 |-> 0]
    <3>1. \A n \in 0..0 : f[n] = IF n = 0 THEN 0 ELSE f[n - 1] + s[n]
      OBVIOUS
    <3> DEFINE g == [n \in 0..0 |-> IF n = 0 THEN 0 ELSE f[n - 1] + s[n]]
    <3>2. \A n \in 0..0 : f[n] = g[n]
      BY <3>1
    <3>3. DOMAIN f = 0..0 /\ DOMAIN g = 0..0 /\ f = [n \in DOMAIN f |-> f[n]] /\ g = [n \in DOMAIN g |-> g[n]]
      OBVIOUS
    <3>4. f = g
      <4> HIDE DEF f, g
      <4> QED BY <3>2, <3>3, Zenon
    <3>5. Upto(f, 0)
      BY <3>4
    <3> QED BY <3>5
  <2>2. \A m \in Nat : m \in S => m + 1 \in S
    <3> HIDE DEF Upto
    <3> SUFFICES ASSUME NEW m \in Nat, m <= L => \E f : Upto(f, m), m + 1 <= L
                 PROVE  \E f : Upto(f, m + 1)
      OBVIOUS
    <3> USE DEF Upto
    <3>1. PICK f : Upto(f, m)
      BY <1>2
    <3> DEFINE g == [n \in 0..(m + 1) |-> IF n = m + 1 THEN f[m] + s[m + 1] ELSE f[n]]
    <3>2. \A n \in 0..(m + 1) : g[n] = IF n = 0 THEN 0 ELSE g[n - 1] + s[n]
      <4> TAKE n \in 0..(m + 1)
      <4>1. CASE n = m + 1
        <5>1. n # 0 /\ n - 1 = m /\ m \in 0..(m + 1) /\ m # m + 1
          BY <4>1
        <5>2. g[n] = f[m] + s[m + 1] /\ g[n - 1] = f[m]
          BY <5>1, <4>1
        <5> QED BY <5>1, <5>2, <4>1
      <4>2. CASE n # m + 1
        <5>1. n \in 0..m /\ (n # 0 => n - 1 \in 0..(m + 1) /\ n - 1 # m + 1)
          BY <4>2
        <5>2. g[n] = f[n] /\ (n # 0 => g[n - 1] = f[n - 1])
          BY <5>1, <4>2
        <5>3. f[n] = IF n = 0 THEN 0 ELSE f[n - 1] + s[n]
          BY <5>1, <3>1
        <5> QED BY <5>2, <5>3
      <4> QED BY <4>1, <4>2
    <3>3. Upto(g, m + 1)
      <4> DEFINE h == [n \in 0..(m + 1) |-> IF n = 0 THEN 0 ELSE g[n - 1] + s[n]]
      <4>1. DOMAIN g = 0..(m + 1) /\ DOMAIN h = 0..(m + 1) /\ g = [n \in DOMAIN g |-> g[n]]
        OBVIOUS
      <4>2. \A n \in 0..(m + 1) : g[n] = h[n]
        BY <3>2
      <4>3. g = h
        BY <4>1, <4>2, Zenon
      <4> QED BY <4>3
    <3> QED BY <3>3
  <2> HIDE DEF S
  <2>3. Nat \subseteq S
    BY <2>1, <2>2, NatInd
  <2> QED BY <2>3 DEF S
<1>4. Is(sum)
  <2>1. PICK f : Upto(f, L)
    BY <1>2, <1>3
  <2>2. Is(f)
    BY <2>1
  <2> HIDE DEF Is
  <2> QED BY <2>2
<1> HIDE DEF sum, L
<1>5. \A n \in 0..L : sum[n] = IF n = 0 THEN 0 ELSE sum[n - 1] + s[n]
  BY <1>4
<1>6. \A m \in Nat : m <= L => sum[m] \in Nat
  <2> DEFINE S == {m \in Nat : m <= L => sum[m] \in Nat}
  <2>1. 0 \in S
    BY <1>2, <1>5
  <2>2. \A m \in Nat : m \in S => m + 1 \in S
    <3> SUFFICES ASSUME NEW m \in Nat, m <= L => sum[m] \in Nat, m + 1 <= L
                 PROVE  sum[m + 1] \in Nat
      OBVIOUS
    <3>1. sum[m] \in Nat /\ m + 1 \in 1..L /\ m + 1 \in 0..L /\ m + 1 # 0 /\ (m + 1) - 1 = m
      BY <1>2
    <3>2. s[m + 1] \in Nat /\ sum[m + 1] = sum[m] + s[m + 1]
      BY <1>2, <1>5, <3>1
    <3> QED BY <3>1, <3>2
  <2> HIDE DEF S
  <2>3. Nat \subseteq S
    BY <2>1, <2>2, NatInd
  <2> QED BY <2>3 DEF S
<1>7. s = <<>> => sum[L] = 0
  <2> SUFFICES ASSUME s = <<>> PROVE sum[L] = 0
    OBVIOUS
  <2>1. L = 0
    BY DEF L
  <2> QED BY <2>1, <1>5
<1> QED BY <1>1, <1>2, <1>6, <1>7

\* The end of a list.
LEMMA LastNType ==
  ASSUME NEW S, NEW s \in Seq(S), NEW n \in 0..Len(s)
  PROVE  /\ LastN(s, n) \in Seq(S) /\ Len(LastN(s, n)) = n
         /\ \A i \in 1..n : LastN(s, n)[i] = s[Len(s) - n + i]
<1> DEFINE a == Len(s) - n + 1
<1>1. Len(s) \in Nat /\ n \in Nat /\ a \in 1..(Len(s) + 1)
  BY LenProperties
<1>2. /\ SubSeq(s, a, Len(s)) \in Seq(S)
      /\ Len(SubSeq(s, a, Len(s))) = IF a <= Len(s) THEN Len(s) - a + 1 ELSE 0
      /\ \A i \in 1..(Len(s) - a + 1) : SubSeq(s, a, Len(s))[i] = s[a + i - 1]
  BY <1>1, SubSeqProperties
<1>3. Len(s) - a + 1 = n /\ (a > Len(s) => n = 0) /\ \A i \in 1..n : a + i - 1 = Len(s) - n + i
  BY <1>1
<1> HIDE DEF a
<1>4. Len(SubSeq(s, a, Len(s))) = n
  BY <1>1, <1>2, <1>3
<1>5. LastN(s, n) = SubSeq(s, a, Len(s))
  BY DEF LastN, a
<1>6. \A i \in 1..n : SubSeq(s, a, Len(s))[i] = s[Len(s) - n + i]
  BY <1>2, <1>3
<1> QED BY <1>2, <1>4, <1>5, <1>6

\* What the end of a list is cut to fits, and is a list.
LEMMA FitEndFits ==
  ASSUME NEW s \in Seq(Nat), NEW room \in Nat
  PROVE  \E n \in 0..Len(s) : FitEnd(s, room) = LastN(s, n) /\ Total(LastN(s, n)) <= room
<1> DEFINE T == {n \in 0..Len(s) : Total(LastN(s, n)) <= room}
<1>1. Len(s) \in Nat /\ T \subseteq 0..Len(s)
  BY LenProperties
<1>2. 0 \in T
  <2>1. 0 \in 0..Len(s)
    BY <1>1
  <2>2. LastN(s, 0) \in Seq(Nat) /\ Len(LastN(s, 0)) = 0
    BY <2>1, LastNType
  <2>3. LastN(s, 0) = <<>>
    BY <2>2, EmptySeq
  <2>4. Total(LastN(s, 0)) = 0
    BY <2>2, <2>3, TotalType
  <2> QED BY <2>1, <2>4
<1>3. Max(T) \in T
  <2> HIDE DEF T
  <2> QED BY <1>1, <1>2, MaxIn
<1>4. FitEnd(s, room) = LastN(s, Max(T))
  BY DEF FitEnd
<1> QED BY <1>3, <1>4

\* Likewise for the front of a list.
LEMMA FitFrontFits ==
  ASSUME NEW s \in Seq(Nat), NEW room \in Nat
  PROVE  FitFront(s, room) \in Seq(Nat) /\ Total(FitFront(s, room)) <= room
<1> DEFINE T == {n \in 0..Len(s) : Total(SubSeq(s, 1, n)) <= room}
<1>1. Len(s) \in Nat /\ T \subseteq 0..Len(s)
  BY LenProperties
<1>2. \A n \in 0..Len(s) : SubSeq(s, 1, n) \in Seq(Nat) /\ Len(SubSeq(s, 1, n)) = n
  <2> TAKE n \in 0..Len(s)
  <2>1. 1 \in 1..(Len(s) + 1) /\ n \in 0..Len(s)
    BY <1>1
  <2>2. \A i \in 1..n : s[i] \in Nat
    BY <1>1, ElementOfSeq
  <2> QED BY <2>1, <2>2, SubSeqProperties
<1>3. 0 \in T
  <2>1. 0 \in 0..Len(s)
    BY <1>1
  <2>2. SubSeq(s, 1, 0) \in Seq(Nat) /\ Len(SubSeq(s, 1, 0)) = 0
    BY <2>1, <1>2
  <2>3. SubSeq(s, 1, 0) = <<>>
    BY <2>2, EmptySeq
  <2>4. Total(SubSeq(s, 1, 0)) = 0
    BY <2>2, <2>3, TotalType
  <2> QED BY <2>1, <2>4
<1>4. Max(T) \in T
  <2> HIDE DEF T
  <2> QED BY <1>1, <1>3, MaxIn
<1>5. FitFront(s, room) = SubSeq(s, 1, Max(T))
  BY DEF FitFront
<1> QED BY <1>2, <1>4, <1>5

\* The costs of a history are those of its messages.
LEMMA CostsType ==
  ASSUME NEW h \in Seq(Messages)
  PROVE  Costs(h) \in Seq(Nat) /\ Len(Costs(h)) = Len(h)
<1>1. DOMAIN h = 1..Len(h) /\ Len(h) \in Nat
  BY LenProperties
<1>2. \A i \in 1..Len(h) : h[i].cost \in Nat
  <2>1. \A i \in 1..Len(h) : h[i] \in Messages
    BY ElementOfSeq
  <2>2. \A m \in Messages : m.cost \in Nat
    BY DEF Messages
  <2> QED BY <2>1, <2>2
<1>3. Costs(h) \in [1..Len(h) -> Nat]
  BY <1>1, <1>2 DEF Costs
<1>4. Costs(h) \in Seq(Nat)
  BY <1>1, <1>3
<1> QED BY <1>1, <1>3, <1>4, LenProperties

LEMMA CostsOfEnd ==
  ASSUME NEW h \in Seq(Messages), NEW n \in 0..Len(h)
  PROVE  Costs(LastN(h, n)) = LastN(Costs(h), n)
<1>1. /\ LastN(h, n) \in Seq(Messages) /\ Len(LastN(h, n)) = n
      /\ \A i \in 1..n : LastN(h, n)[i] = h[Len(h) - n + i]
  BY LastNType
<1>2. Costs(h) \in Seq(Nat) /\ Len(Costs(h)) = Len(h)
  BY CostsType
<1>3. /\ LastN(Costs(h), n) \in Seq(Nat) /\ Len(LastN(Costs(h), n)) = n
      /\ \A i \in 1..n : LastN(Costs(h), n)[i] = Costs(h)[Len(h) - n + i]
  <2> DEFINE k == Costs(h)
  <2>1. k \in Seq(Nat) /\ n \in 0..Len(k) /\ Len(k) = Len(h)
    BY <1>2
  <2> HIDE DEF k
  <2>2. /\ LastN(k, n) \in Seq(Nat) /\ Len(LastN(k, n)) = n
        /\ \A i \in 1..n : LastN(k, n)[i] = k[Len(k) - n + i]
    BY <2>1, LastNType
  <2> QED BY <2>1, <2>2 DEF k
<1>4. Costs(LastN(h, n)) \in Seq(Nat) /\ Len(Costs(LastN(h, n))) = n
  BY <1>1, CostsType
<1>5. \A i \in 1..n : Costs(LastN(h, n))[i] = LastN(Costs(h), n)[i]
  <2> TAKE i \in 1..n
  <2>1. i \in DOMAIN LastN(h, n) /\ Len(h) - n + i \in DOMAIN h
    BY <1>1, LenProperties
  <2>2. Costs(LastN(h, n))[i] = LastN(h, n)[i].cost /\ Costs(h)[Len(h) - n + i] = h[Len(h) - n + i].cost
    BY <2>1 DEF Costs
  <2> QED BY <2>2, <1>1, <1>3
<1> QED BY <1>3, <1>4, <1>5, SeqEqual

\* Prune keeps a context a context, with its budget and plan, and leaves it
\* within the budget or with nothing but the plan.
LEMMA PruneFits ==
  ASSUME NEW c \in Contexts
  PROVE  /\ Prune(c) \in Contexts
         /\ Prune(c).budget = c.budget /\ Prune(c).plan = c.plan
         /\ c.budget > 0 => Fits(Prune(c))
<1>1. /\ c.budget \in Nat /\ c.plan \in Nat /\ c.pad \in Seq(Nat) /\ c.memories \in Seq(Nat)
      /\ c.history \in Seq(Messages)
  BY EngineAssumption DEF Contexts
<1>2. CASE c.budget <= 0
  <2>1. Prune(c) = c
    BY <1>2 DEF Prune
  <2> QED BY <2>1, <1>1, <1>2
<1>3. CASE c.budget > 0 /\ c.plan > c.budget
  <2>1. Prune(c) = [c EXCEPT !.pad = <<>>, !.memories = <<>>, !.history = <<>>]
    BY <1>1, <1>3 DEF Prune
  <2> DEFINE d == [c EXCEPT !.pad = <<>>, !.memories = <<>>, !.history = <<>>]
  <2>3. <<>> \in Seq(Nat) /\ <<>> \in Seq(Messages)
    OBVIOUS
  <2>2. d \in Contexts /\ d.budget = c.budget /\ d.plan = c.plan /\ d.pad = <<>> /\ d.memories = <<>>
          /\ d.history = <<>>
    <3> DEFINE z == <<>>
               y == [c EXCEPT !.pad = z, !.memories = z, !.history = z]
    <3>1. z \in Seq(Nat) /\ z \in Seq(Messages)
      BY <2>3
    <3> HIDE DEF z
    <3>2. y \in Contexts /\ y.budget = c.budget /\ y.plan = c.plan /\ y.pad = z /\ y.memories = z
            /\ y.history = z
      BY <3>1 DEF Contexts
    <3> QED BY <3>2 DEF z
  <2> HIDE DEF d
  <2>4. Total(<<>>) = 0
    BY <2>3, TotalType
  <2>5. Costs(<<>>) = <<>>
    <3>1. Costs(<<>>) \in Seq(Nat) /\ Len(Costs(<<>>)) = 0
      BY <2>3, CostsType
    <3> QED BY <3>1, EmptySeq
  <2>6. Used(d) = d.plan
    BY <2>2, <2>4, <2>5, <1>1 DEF Used
  <2> QED BY <2>1, <2>2, <2>6 DEF d, Fits
<1>4. CASE c.budget > 0 /\ ~(c.plan > c.budget)
  <2> DEFINE padRoom == c.budget - c.plan
             pad  == FitEnd(c.pad, padRoom)
             room == padRoom - Total(pad)
             mems == FitFront(c.memories, room)
             left == room - Total(mems)
             hist == LastN(c.history, Len(FitEnd(Costs(c.history), left)))
             d == [c EXCEPT !.pad = pad, !.memories = mems, !.history = hist]
  <2>1. Prune(c) = d
    BY <1>1, <1>4 DEF Prune, Pruned
  <2>2. padRoom \in Nat
    BY <1>1, <1>4
  <2> HIDE DEF padRoom
  <2>3. pad \in Seq(Nat) /\ Total(pad) <= padRoom
    <3>1. PICK n \in 0..Len(c.pad) : FitEnd(c.pad, padRoom) = LastN(c.pad, n) /\ Total(LastN(c.pad, n)) <= padRoom
      BY <1>1, <2>2, FitEndFits
    <3>2. LastN(c.pad, n) \in Seq(Nat)
      BY <1>1, LastNType
    <3> QED BY <3>1, <3>2
  <2> HIDE DEF pad
  <2>4. Total(pad) \in Nat /\ room \in Nat
    BY <2>2, <2>3, TotalType
  <2> HIDE DEF room
  <2>5. mems \in Seq(Nat) /\ Total(mems) <= room
    BY <1>1, <2>4, FitFrontFits
  <2> HIDE DEF mems
  <2>6. Total(mems) \in Nat /\ left \in Nat
    BY <2>4, <2>5, TotalType
  <2> HIDE DEF left
  <2>7. hist \in Seq(Messages) /\ Total(Costs(hist)) <= left
    <3> DEFINE k == Costs(c.history)
    <3>1. k \in Seq(Nat) /\ Len(k) = Len(c.history)
      BY <1>1, CostsType
    <3>2. PICK n \in 0..Len(k) : FitEnd(k, left) = LastN(k, n) /\ Total(LastN(k, n)) <= left
      <4> HIDE DEF k
      <4> QED BY <3>1, <2>6, FitEndFits
    <3>3. Len(LastN(k, n)) = n
      <4> HIDE DEF k
      <4> QED BY <3>1, LastNType
    <3>4. hist = LastN(c.history, n)
      BY <3>2, <3>3
    <3>5. n \in 0..Len(c.history)
      BY <3>1
    <3>6. Costs(LastN(c.history, n)) = LastN(k, n) /\ LastN(c.history, n) \in Seq(Messages)
      BY <1>1, <3>5, CostsOfEnd, LastNType
    <3> QED BY <3>2, <3>4, <3>6
  <2> HIDE DEF hist
  <2>8. d \in Contexts /\ d.budget = c.budget /\ d.plan = c.plan /\ d.pad = pad /\ d.memories = mems
          /\ d.history = hist
    BY <2>3, <2>5, <2>7 DEF Contexts
  <2> HIDE DEF d
  <2>9. Total(Costs(hist)) \in Nat
    <3>1. Costs(hist) \in Seq(Nat)
      BY <2>7, CostsType
    <3> QED BY <3>1, TotalType
  <2>10. Used(d) = c.plan + Total(pad) + Total(mems) + Total(Costs(hist))
    BY <2>8 DEF Used
  <2>11. Used(d) <= c.budget
    <3>1. PICK b, p, t, m, h : b = c.budget /\ p = c.plan /\ t = Total(pad) /\ m = Total(mems)
                                 /\ h = Total(Costs(hist))
      OBVIOUS
    <3>2. b \in Nat /\ p \in Nat /\ t \in Nat /\ m \in Nat /\ h \in Nat
      BY <1>1, <2>4, <2>6, <2>9, <3>1
    <3>3. left = b - p - t - m
      BY <3>1 DEF left, room, padRoom
    <3>4. h <= b - p - t - m
      BY <2>7, <3>1, <3>3
    <3>5. p + t + m + h <= b
      BY ONLY <3>2, <3>4
    <3> QED BY <2>10, <3>1, <3>5
  <2> QED BY <2>1, <2>8, <2>11 DEF Fits
<1> QED BY <1>1, <1>2, <1>3, <1>4

-----------------------------------------------------------------------------
(* The steps of a run *)

LEMMA AllowanceStep ==
  ASSUME NEW n \in Nat
  PROVE  /\ Allowance(n) \in Nat /\ Allowance(0) = 0
         /\ Allowance(n + 1) = Allowance(n) + MaxRetriesPerTurn + 1
<1> DEFINE K == MaxRetriesPerTurn + 1
<1>1. K \in Nat
  BY EngineAssumption
<1> HIDE DEF K
<1>2. n * K \in Nat /\ 0 * K = 0 /\ (n + 1) * K = n * K + K
  BY <1>1
<1>3. Allowance(n) = n * K /\ Allowance(0) = 0 * K /\ Allowance(n + 1) = (n + 1) * K
  BY DEF Allowance, K
<1> QED BY <1>1, <1>2, <1>3, EngineAssumption DEF K

LEMMA RunsFacts ==
  ASSUME EngineType
  PROVE  /\ eng \in Runs <=> Running
         /\ \A e \in Runs : /\ e.turn \in Nat /\ e.retries \in 0..MaxRetriesPerTurn /\ e.thinks \in Nat
                            /\ e.mems \in Seq(Nat) /\ e.outs \in Seq(Nat) /\ e.calls \in Nat
                            /\ e.attempt \in Nat /\ e.stale \in BOOLEAN
                            /\ e.phase \in {"plan", "think", "act", "reflect", "replan"}
<1>1. \A e \in Runs : e.phase \in {"plan", "think", "act", "reflect", "replan"}
  BY DEF Runs
<1>2. \A e \in Ended : e.phase = "done"
  BY DEF Ended
<1>3. NoRun.phase = "none"
  BY DEF NoRun
<1>4. eng \in Runs <=> Running
  BY <1>1, <1>2, <1>3 DEF EngineType, Running
<1>5. \A e \in Runs : /\ e.turn \in Nat /\ e.retries \in 0..MaxRetriesPerTurn /\ e.thinks \in Nat
                      /\ e.mems \in Seq(Nat) /\ e.outs \in Seq(Nat) /\ e.calls \in Nat
                      /\ e.attempt \in Nat /\ e.stale \in BOOLEAN
  BY DEF Runs
<1> QED BY <1>1, <1>4, <1>5

LEMMA EmptyContextType == EmptyContext \in Contexts
<1>1. <<>> \in Seq(Nat) /\ <<>> \in Seq(Messages)
  OBVIOUS
<1> QED BY <1>1 DEF EmptyContext, Contexts

LEMMA SpawnType ==
  ASSUME facts \in Facts, NEW mems \in Seq(Nat), SpawnRemember(mems)
  PROVE  facts' \in Facts
<1> DEFINE k == Min({facts.storing + Len(mems), TopMemories})
<1>1. facts.storing + Len(mems) \in Nat
  BY LenProperties DEF Facts
<1>2. k \in Nat
  BY <1>1, EngineAssumption, MinOfTwo
<1>3. facts' = [facts EXCEPT !.storing = k]
  BY DEF SpawnRemember
<1> HIDE DEF k
<1> QED BY <1>2, <1>3 DEF Facts

\* Run returns: the engine is typed and nothing is left to count.
LEMMA EndStep ==
  ASSUME NEW result \in {"fatal", "max_turns", "cancelled", "logic", "answer", "stopped"}, End(result)
  PROVE  eng' \in Ended /\ ctx' \in Contexts /\ ThinksCounted' /\ ContextKept' /\ eng'.phase # "none"
<1>1. eng' = [phase |-> "done", result |-> result] /\ ctx' \in Contexts
  BY EmptyContextType DEF End
<1>2. eng'.phase = "done"
  BY <1>1
<1>3. eng' \in Ended
  BY <1>1 DEF Ended
<1>4. ThinksCounted' /\ ContextKept'
  BY <1>2 DEF ThinksCounted, ContextKept
<1> QED BY <1>1, <1>2, <1>3, <1>4

\* The next turn begins within its allowance if this one kept to its own.
LEMMA NextTurnStep ==
  ASSUME NEW e \in Runs, NEW c \in Contexts, NextTurn(e, c),
         e.thinks <= Allowance(e.turn + 1) + e.retries,
         ~e.stale /\ c.budget > 0 => Fits(c)
  PROVE  eng' \in Runs \cup Ended /\ ctx' \in Contexts /\ ThinksCounted' /\ ContextKept' /\ eng'.phase # "none"
<1>1. CASE e.turn + 1 < MaxTurns
  <2>1. eng' = [e EXCEPT !.phase = "think", !.turn = @ + 1, !.attempt = 0, !.mems = <<>>] /\ ctx' = c
    BY <1>1 DEF NextTurn
  <2>2. <<>> \in Seq(Nat) /\ e.turn + 1 \in Nat
    BY DEF Runs
  <2>3. /\ eng' \in Runs /\ eng'.phase = "think" /\ eng'.turn = e.turn + 1 /\ eng'.thinks = e.thinks
        /\ eng'.retries = e.retries /\ eng'.stale = e.stale
    <3> DEFINE z == <<>>
               t == e.turn + 1
    <3>1. eng' = [e EXCEPT !.phase = "think", !.turn = t, !.attempt = 0, !.mems = z]
      BY <2>1 DEF Runs
    <3>2. z \in Seq(Nat) /\ t \in Nat
      BY <2>2
    <3> HIDE DEF z, t
    <3>3. /\ eng' \in Runs /\ eng'.phase = "think" /\ eng'.turn = t /\ eng'.thinks = e.thinks
          /\ eng'.retries = e.retries /\ eng'.stale = e.stale
      BY <3>1, <3>2 DEF Runs
    <3> QED BY <3>3 DEF t
  <2>4. ThinksCounted'
    BY <2>3 DEF ThinksCounted, Allowance
  <2>5. (Fits(ctx))' <=> Fits(c)
    BY <2>1 DEF Fits, Used, Total, Costs
  <2>6. ContextKept'
    BY <2>1, <2>3, <2>5 DEF ContextKept
  <2> QED BY <2>1, <2>3, <2>4, <2>6
<1>2. CASE ~(e.turn + 1 < MaxTurns)
  <2>1. End("max_turns")
    BY <1>2 DEF NextTurn
  <2> QED BY <2>1, EndStep
<1> QED BY <1>1, <1>2

\* A step that leaves the context, the phase and the counts of thoughts alone.
LEMMA QuietStep ==
  ASSUME EngineInv, Running, eng' \in Runs, UNCHANGED <<ctx, facts>>,
         eng'.phase = eng.phase, eng'.turn = eng.turn, eng'.retries = eng.retries,
         eng'.thinks = eng.thinks, eng'.stale = eng.stale
  PROVE  EngineInv' /\ eng'.phase # "none"
<1>1. EngineType'
  BY DEF EngineInv, EngineType, Runs, Facts, Contexts, NoRun, Ended, Messages
<1>2. ThinksCounted'
  BY DEF EngineInv, ThinksCounted, Allowance
<1>3. (Fits(ctx))' <=> Fits(ctx)
  BY DEF Fits, Used, Total, Costs
<1>4. ContextKept'
  BY <1>3 DEF EngineInv, ContextKept
<1> QED BY <1>1, <1>2, <1>4 DEF EngineInv, Running

LEMMA PlanStep ==
  ASSUME EngineInv, PlanInvalid \/ PlanFails \/ PlanSucceeds
  PROVE  EngineInv' /\ eng'.phase # "none"
<1>1. EngineType /\ ThinksCounted /\ ContextKept /\ ctx \in Contexts /\ facts \in Facts
  BY DEF EngineInv, EngineType
<1>2. eng \in Runs /\ Running /\ eng.phase \in {"plan", "replan"}
  BY <1>1, RunsFacts DEF PlanInvalid, PlanFails, PlanSucceeds, Running
<1>3. /\ eng.turn \in Nat /\ eng.retries \in 0..MaxRetriesPerTurn /\ eng.thinks \in Nat
      /\ eng.mems \in Seq(Nat) /\ eng.attempt \in Nat /\ eng.stale \in BOOLEAN
  BY <1>1, <1>2, RunsFacts
<1>4. Allowance(eng.turn + 1) \in Nat /\ eng.retries \in Nat
  <2>1. \A n \in Nat : Allowance(n) \in Nat
    BY AllowanceStep
  <2>2. eng.turn + 1 \in Nat
    BY <1>3
  <2>3. eng.retries \in Nat
    BY <1>3
  <2> QED BY <2>1, <2>2, <2>3
<1>5. CASE PlanInvalid
  <2> DEFINE a == eng.attempt + 1
  <2>1. a \in Nat /\ eng' = [eng EXCEPT !.attempt = a] /\ UNCHANGED <<ctx, facts>>
    BY <1>3, <1>5 DEF PlanInvalid
  <2> HIDE DEF a
  <2>2. /\ eng' \in Runs /\ eng'.phase = eng.phase /\ eng'.turn = eng.turn /\ eng'.retries = eng.retries
        /\ eng'.thinks = eng.thinks /\ eng'.stale = eng.stale
    BY <1>2, <2>1 DEF Runs
  <2> QED BY <1>2, <2>1, <2>2, QuietStep
<1>6. CASE PlanFails
  <2>1. CASE eng.phase = "plan"
    <3>1. End("fatal") /\ facts' = facts
      BY <1>6, <2>1 DEF PlanFails
    <3> QED BY <1>1, <3>1, EndStep DEF EngineInv, EngineType
  <2>2. CASE eng.phase = "replan"
    <3>1. NextTurn(eng, ctx) /\ SpawnRemember(eng.mems)
      BY <1>6, <2>2 DEF PlanFails
    <3>2. facts' \in Facts
      <4>1. PICK mems \in Seq(Nat) : mems = eng.mems
        BY <1>3
      <4>2. SpawnRemember(mems)
        BY <3>1, <4>1
      <4> QED BY <1>1, <4>2, SpawnType
    <3>3. eng.thinks <= Allowance(eng.turn + 1) + eng.retries
      BY <1>1, <1>3, <1>4, <2>2 DEF ThinksCounted
    <3>4. PICK e \in Runs, c \in Contexts : e = eng /\ c = ctx
      BY <1>1, <1>2
    <3>5. NextTurn(e, c) /\ e.thinks <= Allowance(e.turn + 1) + e.retries /\ (~e.stale /\ c.budget > 0 => Fits(c))
      BY <1>1, <2>2, <3>1, <3>3, <3>4 DEF ContextKept
    <3>6. eng' \in Runs \cup Ended /\ ctx' \in Contexts /\ ThinksCounted' /\ ContextKept' /\ eng'.phase # "none"
      BY <3>5, NextTurnStep
    <3> QED BY <3>2, <3>6 DEF EngineInv, EngineType
  <2> QED BY <1>2, <2>1, <2>2
<1>7. CASE PlanSucceeds
  <2>1. PICK cost \in PlanCosts :
          \/ /\ eng.phase = "plan"
             /\ eng' = [eng EXCEPT !.phase = "think", !.attempt = 0]
             /\ ctx' = [ctx EXCEPT !.plan = cost]
             /\ UNCHANGED facts
          \/ /\ eng.phase = "replan"
             /\ NextTurn([eng EXCEPT !.stale = TRUE], [ctx EXCEPT !.plan = cost])
             /\ SpawnRemember(eng.mems)
    BY <1>7 DEF PlanSucceeds
  <2>2. cost \in Nat
    BY EngineAssumption
  <2>3. [ctx EXCEPT !.plan = cost] \in Contexts
    BY <1>1, <2>2 DEF Contexts
  <2>4. CASE eng.phase = "plan"
    <3>1. eng' = [eng EXCEPT !.phase = "think", !.attempt = 0] /\ ctx' \in Contexts /\ facts' = facts
      BY <2>1, <2>3, <2>4
    <3>2. /\ eng' \in Runs /\ eng'.phase = "think" /\ eng'.turn = eng.turn /\ eng'.retries = eng.retries
          /\ eng'.thinks = eng.thinks /\ eng'.stale = eng.stale
      BY <1>2, <3>1 DEF Runs
    <3>3. ThinksCounted'
      BY <1>1, <2>4, <3>2 DEF ThinksCounted, Allowance
    <3>4. ContextKept'
      BY <1>1, <2>4, <3>2 DEF ContextKept
    <3> QED BY <1>1, <3>1, <3>2, <3>3, <3>4 DEF EngineInv, EngineType
  <2>5. CASE eng.phase = "replan"
    <3>1. NextTurn([eng EXCEPT !.stale = TRUE], [ctx EXCEPT !.plan = cost]) /\ SpawnRemember(eng.mems)
      BY <2>1, <2>5
    <3>2. facts' \in Facts
      <4>1. PICK mems \in Seq(Nat) : mems = eng.mems
        BY <1>3
      <4>2. SpawnRemember(mems)
        BY <3>1, <4>1
      <4> QED BY <1>1, <4>2, SpawnType
    <3>3. eng.thinks <= Allowance(eng.turn + 1) + eng.retries
      BY <1>1, <1>3, <1>4, <2>5 DEF ThinksCounted
    <3>4. [eng EXCEPT !.stale = TRUE] \in Runs
      BY <1>2 DEF Runs
    <3>5. PICK e \in Runs, c \in Contexts : e = [eng EXCEPT !.stale = TRUE] /\ c = [ctx EXCEPT !.plan = cost]
      BY <2>3, <3>4
    <3>6. e.thinks = eng.thinks /\ e.turn = eng.turn /\ e.retries = eng.retries /\ e.stale
      BY <1>2, <3>5 DEF Runs
    <3>7. NextTurn(e, c)
      BY <3>1, <3>5
    <3>8. e.thinks <= Allowance(e.turn + 1) + e.retries
      BY <3>3, <3>6
    <3>9. eng' \in Runs \cup Ended /\ ctx' \in Contexts /\ ThinksCounted' /\ ContextKept' /\ eng'.phase # "none"
      BY <3>6, <3>7, <3>8, NextTurnStep
    <3> QED BY <3>2, <3>9 DEF EngineInv, EngineType
  <2> QED BY <1>2, <2>4, <2>5
<1> QED BY <1>5, <1>6, <1>7

LEMMA ThinkStep ==
  ASSUME EngineInv, ThinkFails \/ ThinkAnswers \/ ThinkCallsTools
  PROVE  EngineInv' /\ eng'.phase # "none"
<1>1. EngineType /\ ThinksCounted /\ ContextKept /\ ctx \in Contexts /\ facts \in Facts
  BY DEF EngineInv, EngineType
<1>2. eng \in Runs /\ eng.phase = "think"
  BY <1>1, RunsFacts DEF ThinkFails, ThinkAnswers, ThinkCallsTools, Running
<1>3. eng.turn \in Nat /\ eng.retries \in Nat /\ eng.thinks \in Nat
  BY <1>1, <1>2, RunsFacts
<1>4. CASE ThinkFails \/ ThinkAnswers
  <2>1. PICK result \in {"cancelled", "logic", "answer"} : End(result) /\ facts' = facts
    BY <1>4 DEF ThinkFails, ThinkAnswers
  <2> QED BY <1>1, <2>1, EndStep DEF EngineInv, EngineType
<1>5. CASE ThinkCallsTools
  <2>1. PICK t \in Thoughts :
          /\ ctx' = [ctx EXCEPT !.history = Append(@, Assistant(t.calls, t.cost))]
          /\ eng' = [eng EXCEPT !.phase = "act", !.calls = t.calls, !.outs = <<>>, !.thinks = @ + 1]
          /\ facts' = facts
    BY <1>5 DEF ThinkCallsTools
  <2>2. t.calls \in Nat /\ t.cost \in Nat
    BY EngineAssumption
  <2>3. Assistant(t.calls, t.cost) \in Messages
    BY <2>2 DEF Assistant, Message, Messages, Roles
  <2>4. ctx' \in Contexts
    <3> DEFINE h == Append(ctx.history, Assistant(t.calls, t.cost))
    <3>1. ctx.history \in Seq(Messages)
      BY <1>1 DEF Contexts
    <3>2. h \in Seq(Messages)
      BY <2>3, <3>1, AppendProperties
    <3>3. ctx' = [ctx EXCEPT !.history = h]
      BY <2>1
    <3> HIDE DEF h
    <3> QED BY <1>1, <3>2, <3>3 DEF Contexts
  <2>5. /\ eng' \in Runs /\ eng'.phase = "act" /\ eng'.turn = eng.turn
        /\ eng'.retries = eng.retries /\ eng'.thinks = eng.thinks + 1
    <3> DEFINE z == <<>>
               k == eng.thinks + 1
    <3>1. z \in Seq(Nat) /\ k \in Nat
      BY <1>3
    <3>2. eng' = [eng EXCEPT !.phase = "act", !.calls = t.calls, !.outs = z, !.thinks = k]
      BY <2>1
    <3> HIDE DEF z, k
    <3>3. /\ eng' \in Runs /\ eng'.phase = "act" /\ eng'.turn = eng.turn
          /\ eng'.retries = eng.retries /\ eng'.thinks = k
      BY <1>2, <2>2, <3>1, <3>2 DEF Runs
    <3> QED BY <3>3 DEF k
  <2>6. ThinksCounted'
    <3>1. eng.thinks <= Allowance(eng.turn) + eng.retries
      BY <1>1, <1>2 DEF ThinksCounted
    <3>2. \A n \in Nat : Allowance(n) \in Nat
      BY AllowanceStep
    <3>3. Allowance(eng.turn) \in Nat
      BY <1>3, <3>2
    <3>4. eng.thinks + 1 <= Allowance(eng.turn) + eng.retries + 1
      BY <1>3, <3>1, <3>3
    <3> QED BY <2>5, <3>4 DEF ThinksCounted, Allowance
  <2>7. ContextKept'
    BY <2>5 DEF ContextKept
  <2> QED BY <1>1, <2>1, <2>4, <2>5, <2>6, <2>7 DEF EngineInv, EngineType
<1> QED BY <1>4, <1>5

LEMMA ActStep ==
  ASSUME EngineInv, Act \/ AppendOutputs
  PROVE  EngineInv' /\ eng'.phase # "none"
<1>1. EngineType /\ ThinksCounted /\ ContextKept /\ ctx \in Contexts /\ facts \in Facts
  BY DEF EngineInv, EngineType
<1>2. eng \in Runs /\ eng.phase = "act" /\ Running
  BY <1>1, RunsFacts DEF Act, AppendOutputs, Running
<1>3. eng.outs \in Seq(Nat) /\ eng.calls \in Nat
  BY <1>1, <1>2, RunsFacts
<1>4. CASE Act
  <2>1. PICK cost \in OutputCosts : eng' = [eng EXCEPT !.outs = Append(@, cost)] /\ UNCHANGED <<ctx, facts>>
    BY <1>4 DEF Act
  <2> DEFINE o == Append(eng.outs, cost)
  <2>2. cost \in Nat
    BY EngineAssumption
  <2>3. o \in Seq(Nat)
    BY <1>3, <2>2, AppendProperties
  <2>4. eng' = [eng EXCEPT !.outs = o]
    BY <2>1
  <2> HIDE DEF o
  <2>5. /\ eng' \in Runs /\ eng'.phase = eng.phase /\ eng'.turn = eng.turn /\ eng'.retries = eng.retries
        /\ eng'.thinks = eng.thinks /\ eng'.stale = eng.stale
    BY <1>2, <2>3, <2>4 DEF Runs
  <2> QED BY <1>2, <2>1, <2>5, QuietStep
<1>5. CASE AppendOutputs
  <2> DEFINE results == [k \in 1..eng.calls |-> ToolResult(k, eng.outs[k])]
             h == ctx.history \o results
  <2>1. /\ Len(eng.outs) = eng.calls /\ facts' = facts
        /\ ctx' = Prune([ctx EXCEPT !.history = h])
        /\ eng' = [eng EXCEPT !.phase = "reflect", !.attempt = 0, !.stale = FALSE, !.outs = <<>>]
    BY <1>5 DEF AppendOutputs
  <2>2. results \in Seq(Messages)
    <3>1. \A k \in 1..eng.calls : k \in Nat /\ eng.outs[k] \in Nat
      BY <1>3, <2>1, ElementOfSeq
    <3>2. \A k \in Nat, o \in Nat : ToolResult(k, o) \in Messages
      BY DEF ToolResult, Message, Messages, Roles
    <3>3. \A k \in 1..eng.calls : ToolResult(k, eng.outs[k]) \in Messages
      BY <3>1, <3>2
    <3>4. results \in [1..eng.calls -> Messages]
      BY <3>3
    <3> QED BY <1>3, <3>4
  <2> HIDE DEF results
  <2>3. h \in Seq(Messages)
    <3>1. ctx.history \in Seq(Messages)
      BY <1>1 DEF Contexts
    <3> QED BY <2>2, <3>1, ConcatProperties
  <2> HIDE DEF h
  <2>4. [ctx EXCEPT !.history = h] \in Contexts
    BY <1>1, <2>3 DEF Contexts
  <2>5. PICK c \in Contexts : c = [ctx EXCEPT !.history = h]
    BY <2>4
  <2>6. ctx' = Prune(c)
    BY <2>1, <2>5
  <2>7. Prune(c) \in Contexts /\ Prune(c).budget = c.budget /\ (c.budget > 0 => Fits(Prune(c)))
    BY PruneFits
  <2>8. ctx' \in Contexts /\ (ctx'.budget > 0 => (Fits(ctx))')
    <3>1. (Fits(ctx))' <=> Fits(Prune(c))
      BY <2>6 DEF Fits, Used, Total, Costs
    <3> QED BY <2>6, <2>7, <3>1
  <2>9. /\ eng' \in Runs /\ eng'.phase = "reflect" /\ eng'.turn = eng.turn
        /\ eng'.retries = eng.retries /\ eng'.thinks = eng.thinks
    <3> DEFINE z == <<>>
    <3>1. z \in Seq(Nat) /\ eng' = [eng EXCEPT !.phase = "reflect", !.attempt = 0, !.stale = FALSE, !.outs = z]
      BY <2>1
    <3> HIDE DEF z
    <3> QED BY <1>2, <3>1 DEF Runs
  <2>10. ThinksCounted'
    BY <1>1, <1>2, <2>9 DEF ThinksCounted, Allowance
  <2>11. ContextKept'
    BY <2>8, <2>9 DEF ContextKept
  <2> QED BY <1>1, <2>1, <2>8, <2>9, <2>10, <2>11 DEF EngineInv, EngineType
<1> QED BY <1>4, <1>5

\* Update leaves a context that fits.
LEMMA UpdateFits ==
  ASSUME NEW d \in Contexts, NEW mems \in Seq(Nat)
  PROVE  Update(d, 1, mems) \in Contexts /\ (Update(d, 1, mems).budget > 0 => Fits(Update(d, 1, mems)))
<1> DEFINE p == Append(d.pad, 1)
           m == d.memories \o mems
           c == [d EXCEPT !.pad = p, !.memories = m]
<1>1. d.pad \in Seq(Nat) /\ d.memories \in Seq(Nat)
  BY DEF Contexts
<1>2. p \in Seq(Nat) /\ m \in Seq(Nat)
  BY <1>1, AppendProperties, ConcatProperties
<1>3. Update(d, 1, mems) = Prune(c)
  BY DEF Update
<1> HIDE DEF p, m
<1>4. c \in Contexts
  BY <1>2 DEF Contexts
<1> HIDE DEF c
<1>5. Prune(c) \in Contexts /\ Prune(c).budget = c.budget /\ (c.budget > 0 => Fits(Prune(c)))
  BY <1>4, PruneFits
<1> QED BY <1>3, <1>5

LEMMA ReflectStep ==
  ASSUME EngineInv, ReflectInvalid \/ ReflectFails \/ \E signal \in Signals : Reflect(signal)
  PROVE  EngineInv' /\ eng'.phase # "none"
<1>1. EngineType /\ ThinksCounted /\ ContextKept /\ ctx \in Contexts /\ facts \in Facts
  BY DEF EngineInv, EngineType
<1>2. eng \in Runs /\ eng.phase = "reflect" /\ Running
  BY <1>1, RunsFacts DEF ReflectInvalid, ReflectFails, Reflect, Running
<1>3. /\ eng.turn \in Nat /\ eng.retries \in 0..MaxRetriesPerTurn /\ eng.retries \in Nat
      /\ eng.thinks \in Nat /\ eng.attempt \in Nat /\ eng.stale \in BOOLEAN
  BY <1>1, <1>2, RunsFacts
<1>4. /\ Allowance(eng.turn) \in Nat /\ Allowance(eng.turn + 1) \in Nat
      /\ Allowance(eng.turn + 1) = Allowance(eng.turn) + MaxRetriesPerTurn + 1
  <2>1. \A n \in Nat : /\ Allowance(n) \in Nat
                       /\ Allowance(n + 1) = Allowance(n) + MaxRetriesPerTurn + 1
    BY AllowanceStep
  <2>2. eng.turn + 1 \in Nat
    BY <1>3
  <2> QED BY <1>3, <2>1, <2>2
<1>5. eng.thinks <= Allowance(eng.turn) + eng.retries + 1 /\ eng.thinks <= Allowance(eng.turn + 1)
  <2>1. eng.thinks <= Allowance(eng.turn) + eng.retries + 1
    BY <1>1, <1>2 DEF ThinksCounted
  <2> QED BY <1>3, <1>4, <2>1, EngineAssumption
<1>6. CASE ReflectInvalid
  <2> DEFINE a == eng.attempt + 1
  <2>1. a \in Nat /\ eng' = [eng EXCEPT !.attempt = a] /\ UNCHANGED <<ctx, facts>>
    BY <1>3, <1>6 DEF ReflectInvalid
  <2> HIDE DEF a
  <2>2. /\ eng' \in Runs /\ eng'.phase = eng.phase /\ eng'.turn = eng.turn /\ eng'.retries = eng.retries
        /\ eng'.thinks = eng.thinks /\ eng'.stale = eng.stale
    BY <1>2, <2>1 DEF Runs
  <2> QED BY <1>2, <2>1, <2>2, QuietStep
<1>7. CASE ReflectFails
  <2>1. NextTurn(eng, ctx) /\ facts' = facts
    BY <1>7 DEF ReflectFails
  <2>2. PICK e \in Runs, c \in Contexts : e = eng /\ c = ctx
    BY <1>1, <1>2
  <2>3. eng.thinks <= Allowance(eng.turn + 1) + eng.retries
    BY <1>3, <1>4, <1>5
  <2>4. NextTurn(e, c) /\ e.thinks <= Allowance(e.turn + 1) + e.retries /\ (~e.stale /\ c.budget > 0 => Fits(c))
    BY <1>1, <1>2, <2>1, <2>2, <2>3 DEF ContextKept
  <2>5. eng' \in Runs \cup Ended /\ ctx' \in Contexts /\ ThinksCounted' /\ ContextKept' /\ eng'.phase # "none"
    BY <2>4, NextTurnStep
  <2> QED BY <1>1, <2>1, <2>5 DEF EngineInv, EngineType
<1>8. CASE \E signal \in Signals : Reflect(signal)
  <2>1. PICK signal \in Signals : Reflect(signal)
    BY <1>8
  <2>2. PICK mems \in {<<>>, <<1>>} :
          \/ signal = "retry" /\ Retry(Update(ctx, 1, mems)) /\ UNCHANGED facts
          \/ /\ signal = "replan"
             /\ eng' = [eng EXCEPT !.phase = "replan", !.attempt = 0, !.retries = 0, !.mems = mems]
             /\ ctx' = Update(ctx, 1, mems)
             /\ UNCHANGED facts
          \/ signal = "stop" /\ End("stopped") /\ UNCHANGED facts
          \/ /\ signal = "continue"
             /\ NextTurn([eng EXCEPT !.retries = 0], Update(ctx, 1, mems))
             /\ SpawnRemember(mems)
    BY <2>1 DEF Reflect
  <2>3. mems \in Seq(Nat)
    <3>1. <<>> \in Seq(Nat) /\ <<1>> \in Seq(Nat)
      OBVIOUS
    <3> QED BY <3>1, Zenon
  <2>4. PICK d \in Contexts : d = ctx
    BY <1>1
  <2>5. PICK c : c = Update(d, 1, mems)
    OBVIOUS
  <2>6. c = Update(ctx, 1, mems) /\ c \in Contexts /\ (c.budget > 0 => Fits(c))
    BY <2>3, <2>4, <2>5, UpdateFits
  <2>7. PICK e : e = [eng EXCEPT !.retries = 0]
    OBVIOUS
  <2>8. /\ e \in Runs /\ e.thinks = eng.thinks /\ e.turn = eng.turn /\ e.retries = 0 /\ e.stale = eng.stale
        /\ 0 \in 0..MaxRetriesPerTurn
    <3>1. 0 \in 0..MaxRetriesPerTurn
      BY EngineAssumption
    <3> QED BY <1>2, <2>7, <3>1 DEF Runs
  <2>9. e.thinks <= Allowance(e.turn + 1) + e.retries
    BY <1>3, <1>4, <1>5, <2>8
  <2>10. CASE NextTurn([eng EXCEPT !.retries = 0], Update(ctx, 1, mems)) /\ facts' \in Facts
    <3>1. NextTurn(e, c)
      BY <2>6, <2>7, <2>10
    <3>2. eng' \in Runs \cup Ended /\ ctx' \in Contexts /\ ThinksCounted' /\ ContextKept' /\ eng'.phase # "none"
      BY <3>1, <2>6, <2>8, <2>9, NextTurnStep
    <3> QED BY <2>10, <3>2 DEF EngineInv, EngineType
  <2>11. CASE signal = "retry"
    <3>1. Retry(Update(ctx, 1, mems)) /\ facts' = facts
      BY <2>2, <2>11
    <3>2. CASE eng.retries >= MaxRetriesPerTurn
      <4>1. NextTurn([eng EXCEPT !.retries = 0], Update(ctx, 1, mems))
        BY <3>1, <3>2 DEF Retry
      <4> QED BY <1>1, <3>1, <4>1, <2>10
    <3>3. CASE ~(eng.retries >= MaxRetriesPerTurn)
      <4> DEFINE k == eng.retries + 1
      <4>1. eng' = [eng EXCEPT !.phase = "think", !.attempt = 0, !.retries = k] /\ ctx' = c
        BY <3>1, <3>3, <2>6 DEF Retry
      <4>2. k \in 0..MaxRetriesPerTurn
        BY <1>3, <3>3, EngineAssumption
      <4> HIDE DEF k
      <4>3. /\ eng' \in Runs /\ eng'.phase = "think" /\ eng'.turn = eng.turn /\ eng'.retries = k
            /\ eng'.thinks = eng.thinks /\ eng'.stale = eng.stale
        BY <1>2, <4>1, <4>2 DEF Runs
      <4>4. eng.thinks <= Allowance(eng.turn) + k
        BY <1>3, <1>4, <1>5 DEF k
      <4>5. ThinksCounted'
        BY <4>3, <4>4 DEF ThinksCounted, Allowance
      <4>6. (Fits(ctx))' <=> Fits(c)
        BY <4>1 DEF Fits, Used, Total, Costs
      <4>7. ContextKept'
        BY <2>6, <4>1, <4>3, <4>6 DEF ContextKept
      <4> QED BY <1>1, <2>6, <3>1, <4>1, <4>3, <4>5, <4>7 DEF EngineInv, EngineType
    <3> QED BY <3>2, <3>3
  <2>12. CASE signal = "replan"
    <3>1. /\ eng' = [eng EXCEPT !.phase = "replan", !.attempt = 0, !.retries = 0, !.mems = mems]
          /\ ctx' = c /\ facts' = facts
      BY <2>2, <2>6, <2>12
    <3>2. /\ eng' \in Runs /\ eng'.phase = "replan" /\ eng'.turn = eng.turn
          /\ eng'.thinks = eng.thinks /\ eng'.stale = eng.stale
      BY <1>2, <2>3, <2>8, <3>1 DEF Runs
    <3>3. ThinksCounted'
      BY <1>5, <3>2 DEF ThinksCounted, Allowance
    <3>4. (Fits(ctx))' <=> Fits(c)
      BY <3>1 DEF Fits, Used, Total, Costs
    <3>5. ContextKept'
      BY <2>6, <3>1, <3>2, <3>4 DEF ContextKept
    <3> QED BY <1>1, <2>6, <3>1, <3>2, <3>3, <3>5 DEF EngineInv, EngineType
  <2>13. CASE signal = "stop"
    <3>1. End("stopped") /\ facts' = facts
      BY <2>2, <2>13
    <3> QED BY <1>1, <3>1, EndStep DEF EngineInv, EngineType
  <2>14. CASE signal = "continue"
    <3>1. NextTurn([eng EXCEPT !.retries = 0], Update(ctx, 1, mems)) /\ SpawnRemember(mems)
      BY <2>2, <2>14
    <3>2. facts' \in Facts
      BY <1>1, <2>3, <3>1, SpawnType
    <3> QED BY <3>1, <3>2, <2>10
  <2> QED BY <2>1, <2>11, <2>12, <2>13, <2>14 DEF Signals
<1> QED BY <1>6, <1>7, <1>8

\* A step of a run keeps what the engine promises.
LEMMA RunStepKeeps ==
  ASSUME EngineInv, RunStep
  PROVE  EngineInv' /\ eng'.phase # "none" /\ eng.phase # "none"
<1>1. eng.phase # "none"
  BY DEF RunStep, PlanInvalid, PlanFails, PlanSucceeds, ThinkFails, ThinkAnswers, ThinkCallsTools, Act,
         AppendOutputs, ReflectInvalid, ReflectFails, Reflect
<1>2. CASE PlanInvalid \/ PlanFails \/ PlanSucceeds
  BY <1>1, <1>2, PlanStep
<1>3. CASE ThinkFails \/ ThinkAnswers \/ ThinkCallsTools
  BY <1>1, <1>3, ThinkStep
<1>4. CASE Act \/ AppendOutputs
  BY <1>1, <1>4, ActStep
<1>5. CASE ReflectInvalid \/ ReflectFails \/ \E signal \in Signals : Reflect(signal)
  BY <1>1, <1>5, ReflectStep
<1> QED BY <1>2, <1>3, <1>4, <1>5 DEF RunStep

-----------------------------------------------------------------------------
(* The steps of a request *)

LEMMA OpenRequest ==
  ASSUME RequestType, req.phase \in Open
  PROVE  req # Idle /\ req.n \in Nat
BY DEF RequestType, Open, Idle

\* A line is added at the end of the transcript.
LEMMA LineAdded ==
  ASSUME transcript \in Seq(Lines), NEW l \in Lines, transcript' = Append(transcript, l)
  PROVE  /\ transcript' \in Seq(Lines) /\ Len(transcript) \in Nat
         /\ DOMAIN transcript = 1..Len(transcript) /\ DOMAIN transcript' = 1..(Len(transcript) + 1)
         /\ \A i \in 1..Len(transcript) : transcript'[i] = transcript[i] /\ transcript[i] \in Lines
         /\ transcript'[Len(transcript) + 1] = l
<1>1. transcript' \in Seq(Lines) /\ Len(transcript') = Len(transcript) + 1
  BY AppendProperties
<1>2. \A i \in 1..Len(transcript) : transcript'[i] = transcript[i] /\ transcript[i] \in Lines
  BY AppendProperties, ElementOfSeq
<1>3. transcript'[Len(transcript) + 1] = l
  BY AppendProperties
<1>4. Len(transcript) \in Nat /\ DOMAIN transcript = 1..Len(transcript)
  BY LenProperties
<1>5. DOMAIN transcript' = 1..(Len(transcript) + 1)
  BY <1>1, LenProperties
<1> QED BY <1>1, <1>2, <1>3, <1>4, <1>5

\* What is recorded stays so when a line is added that answers nobody who was
\* answered before.
LEMMA RepliesKept ==
  ASSUME SessionInv, NEW l \in Lines, transcript' = Append(transcript, l), sent' = sent,
         \A i \in DOMAIN transcript : transcript[i].req = l.req => ~transcript[i].reply
  PROVE  /\ \A r \in sent' : Replies(r)' # {}
         /\ \A i, j \in DOMAIN transcript' :
              transcript'[i].reply /\ transcript'[i].req = transcript'[j].req => j <= i
<1>1. transcript \in Seq(Lines) /\ RepliesAreRecorded
  BY DEF SessionInv, SessionType
<1>2. /\ transcript' \in Seq(Lines) /\ Len(transcript) \in Nat
      /\ DOMAIN transcript = 1..Len(transcript) /\ DOMAIN transcript' = 1..(Len(transcript) + 1)
      /\ \A i \in 1..Len(transcript) : transcript'[i] = transcript[i] /\ transcript[i] \in Lines
      /\ transcript'[Len(transcript) + 1] = l
  BY <1>1, LineAdded
<1>3. \A r \in sent' : Replies(r)' # {}
  <2> TAKE r \in sent'
  <2>1. PICK i \in DOMAIN transcript : transcript[i].req = r /\ transcript[i].reply
    BY <1>1 DEF RepliesAreRecorded, Replies
  <2>2. i \in DOMAIN transcript' /\ transcript'[i] = transcript[i]
    BY <1>2, <2>1
  <2>3. i \in Replies(r)'
    BY <2>1, <2>2 DEF Replies
  <2> QED BY <2>3
<1>4. ASSUME NEW i \in DOMAIN transcript', NEW j \in DOMAIN transcript',
             transcript'[i].reply, transcript'[i].req = transcript'[j].req
      PROVE  j <= i
  <2>1. i \in 1..(Len(transcript) + 1) /\ j \in 1..(Len(transcript) + 1)
    BY <1>2
  <2>2. CASE i = Len(transcript) + 1
    BY <1>2, <2>1, <2>2
  <2>3. CASE i \in 1..Len(transcript) /\ j = Len(transcript) + 1
    <3>1. transcript[i].reply /\ transcript[i].req = l.req /\ i \in DOMAIN transcript
      BY <1>2, <1>4, <2>3
    <3> QED BY <3>1
  <2>4. CASE i \in 1..Len(transcript) /\ j \in 1..Len(transcript)
    <3>1. transcript[i].reply /\ transcript[i].req = transcript[j].req /\ i \in DOMAIN transcript /\ j \in DOMAIN transcript
      BY <1>2, <1>4, <2>4
    <3> QED BY <1>1, <3>1 DEF RepliesAreRecorded
  <2> QED BY <1>2, <2>1, <2>2, <2>3, <2>4
<1> QED BY <1>3, <1>4

\* A request goes on, or ends with an error, and records nothing.
LEMMA RequestMoves ==
  ASSUME SessionInv, UNCHANGED <<inbox, submitted, transcript, sent>>, RequestType',
         req.phase \in Open, req'.n = req.n,
         req'.phase \in Open \/ (req'.phase = "returned" /\ req'.outcome = "error")
  PROVE  SessionInv'
<1>1. SessionType /\ InTurn /\ Unreplied /\ RepliesAreRecorded
  BY DEF SessionInv
<1>2. req # Idle
  BY <1>1, OpenRequest DEF SessionType
<1>3. SessionType'
  BY <1>1 DEF SessionType
<1>4. InTurn'
  BY <1>1, <1>2 DEF InTurn
<1>5. Unreplied'
  BY <1>1 DEF Unreplied
<1>6. Recorded'
  BY DEF Recorded, Open
<1>7. \A r : Replies(r)' = Replies(r)
  BY DEF Replies
<1>8. RepliesAreRecorded'
  BY <1>1, <1>7 DEF RepliesAreRecorded, Open
<1> QED BY <1>3, <1>4, <1>5, <1>6, <1>8 DEF SessionInv

\* A request adds a line: a note and goes on, or its reply, which is then sent.
LEMMA RequestRecords ==
  ASSUME SessionInv, UNCHANGED <<inbox, submitted, sent>>, RequestType',
         NEW l \in Lines, transcript' = Append(transcript, l), l.req = req.n,
         req.phase \in Open, req'.n = req.n,
         (req'.phase \in Open /\ ~l.reply) \/ (req'.phase = "send" /\ l.reply)
  PROVE  SessionInv'
<1>1. SessionType /\ InTurn /\ Unreplied /\ RepliesAreRecorded /\ transcript \in Seq(Lines)
  BY DEF SessionInv, SessionType
<1>2. req # Idle
  BY <1>1, OpenRequest DEF SessionType
<1>3. /\ transcript' \in Seq(Lines) /\ Len(transcript) \in Nat
      /\ DOMAIN transcript = 1..Len(transcript) /\ DOMAIN transcript' = 1..(Len(transcript) + 1)
      /\ \A i \in 1..Len(transcript) : transcript'[i] = transcript[i] /\ transcript[i] \in Lines
      /\ transcript'[Len(transcript) + 1] = l
  BY <1>1, LineAdded
<1>4. \A i \in DOMAIN transcript : transcript[i].req = l.req => ~transcript[i].reply
  BY <1>1 DEF Unreplied
<1>5. \A i \in DOMAIN transcript' : i \in DOMAIN transcript \/ i = Len(transcript) + 1
  BY <1>3
<1>6. SessionType'
  BY <1>1, <1>3 DEF SessionType
<1>7. InTurn'
  <2>1. \A i \in DOMAIN transcript' : \/ i \in DOMAIN transcript /\ transcript'[i].req = transcript[i].req
                                      \/ transcript'[i].req = req.n
    BY <1>3, <1>5
  <2>2. \A i \in DOMAIN transcript' : transcript'[i].req <= submitted'
    BY <1>1, <1>2, <2>1 DEF InTurn
  <2>3. \A i \in DOMAIN transcript', j \in DOMAIN inbox' : transcript'[i].req < inbox'[j].n
    BY <1>1, <1>2, <2>1 DEF InTurn
  <2> QED BY <1>1, <1>2, <2>2, <2>3 DEF InTurn
<1>8. Unreplied'
  <2> SUFFICES ASSUME req'.phase \in Open, NEW i \in DOMAIN transcript', transcript'[i].req = req'.n
               PROVE  ~transcript'[i].reply
    BY DEF Unreplied
  <2>1. ~l.reply
    BY DEF Open
  <2>2. CASE i = Len(transcript) + 1
    BY <1>3, <2>1, <2>2
  <2>3. CASE i \in DOMAIN transcript
    BY <1>3, <1>4, <2>3
  <2> QED BY <1>5, <2>2, <2>3
<1>9. Recorded'
  <2> SUFFICES ASSUME req'.phase = "send" PROVE Replies(req.n)' # {}
    BY DEF Recorded, Replies
  <2>1. l.reply
    BY DEF Open
  <2>2. Len(transcript) + 1 \in DOMAIN transcript' /\ transcript'[Len(transcript) + 1] = l
    BY <1>3
  <2>3. Len(transcript) + 1 \in {i \in DOMAIN transcript' : transcript'[i].req = req'.n /\ transcript'[i].reply}
    BY <2>1, <2>2
  <2> QED BY <2>3 DEF Replies
<1>10. RepliesAreRecorded'
  <2>1. /\ \A r \in sent' : Replies(r)' # {}
        /\ \A i, j \in DOMAIN transcript' :
              transcript'[i].reply /\ transcript'[i].req = transcript'[j].req => j <= i
    BY <1>4, RepliesKept
  <2>2. req'.phase # "returned"
    BY DEF Open
  <2> QED BY <2>1, <2>2 DEF RepliesAreRecorded
<1> QED BY <1>6, <1>7, <1>8, <1>9, <1>10 DEF SessionInv

LEMMA SubmitStep ==
  ASSUME SessionInv, NEW kind \in Kinds, NEW meta, Submit(kind, meta)
  PROVE  SessionInv'
<1>1. /\ SessionType /\ InTurn /\ Unreplied /\ Recorded /\ RepliesAreRecorded
      /\ inbox \in Seq([kind : Kinds, n : Nat]) /\ submitted \in Nat /\ transcript \in Seq(Lines)
  BY DEF SessionInv, SessionType
<1> DEFINE e == [kind |-> kind, n |-> submitted + 1]
           T == [kind : Kinds, n : Nat]
<1>2. submitted' = submitted + 1 /\ inbox' = Append(inbox, e) /\ UNCHANGED <<transcript, req, sent>>
  BY DEF Submit
<1>3. e \in T /\ e.n = submitted + 1
  BY <1>1
<1> HIDE DEF e, T
<1>4. inbox \in Seq(T)
  BY <1>1 DEF T
<1>5. /\ inbox' \in Seq(T) /\ Len(inbox') = Len(inbox) + 1 /\ Len(inbox) \in Nat
      /\ \A i \in 1..Len(inbox) : inbox'[i] = inbox[i]
      /\ inbox'[Len(inbox) + 1] = e
  BY <1>2, <1>3, <1>4, AppendProperties, LenProperties
<1>6. DOMAIN inbox = 1..Len(inbox) /\ DOMAIN inbox' = 1..(Len(inbox) + 1)
  BY <1>4, <1>5, LenProperties
<1>7. \A i \in DOMAIN inbox' : \/ i \in DOMAIN inbox /\ inbox'[i].n = inbox[i].n
                               \/ i = Len(inbox) + 1 /\ inbox'[i].n = submitted + 1
  BY <1>3, <1>5, <1>6
<1>8. \A i \in DOMAIN inbox : inbox[i].n \in Nat /\ inbox[i].n <= submitted /\ i \in Nat /\ i <= Len(inbox)
  <2>1. \A i \in DOMAIN inbox : inbox[i] \in T
    BY <1>4, <1>6, ElementOfSeq
  <2>2. \A x \in T : x.n \in Nat
    BY DEF T
  <2> QED BY <1>1, <1>6, <2>1, <2>2 DEF InTurn
<1>9. \A i \in DOMAIN transcript : transcript[i].req \in Nat /\ transcript[i].req <= submitted
  <2>1. \A i \in DOMAIN transcript : transcript[i] \in Lines
    BY <1>1, LenProperties, ElementOfSeq
  <2>2. \A x \in Lines : x.req \in Nat
    BY DEF Lines
  <2> QED BY <1>1, <2>1, <2>2 DEF InTurn
<1>10. SessionType'
  <2>1. RequestType'
    BY <1>1, <1>2 DEF SessionType, RequestType
  <2> QED BY <1>1, <1>2, <1>5, <2>1 DEF SessionType, T
<1>11. InTurn'
  <2>1. \A i \in DOMAIN inbox' : inbox'[i].n <= submitted'
    BY <1>1, <1>2, <1>7, <1>8
  <2>2. \A i, j \in DOMAIN inbox' : i < j => inbox'[i].n < inbox'[j].n
    <3> SUFFICES ASSUME NEW i \in DOMAIN inbox', NEW j \in DOMAIN inbox', i < j
                 PROVE  inbox'[i].n < inbox'[j].n
      OBVIOUS
    <3>1. i \in DOMAIN inbox /\ inbox'[i].n = inbox[i].n
      BY <1>5, <1>6, <1>7
    <3>2. CASE j \in DOMAIN inbox /\ inbox'[j].n = inbox[j].n
      BY <1>1, <3>1, <3>2 DEF InTurn
    <3>3. CASE inbox'[j].n = submitted + 1
      BY <1>1, <1>8, <3>1, <3>3
    <3> QED BY <1>7, <3>2, <3>3
  <2>3. \A i \in DOMAIN transcript' : transcript'[i].req <= submitted'
    BY <1>1, <1>2, <1>9
  <2>4. \A i \in DOMAIN transcript', j \in DOMAIN inbox' : transcript'[i].req < inbox'[j].n
    <3> SUFFICES ASSUME NEW i \in DOMAIN transcript, NEW j \in DOMAIN inbox'
                 PROVE  transcript[i].req < inbox'[j].n
      BY <1>2
    <3>1. CASE j \in DOMAIN inbox /\ inbox'[j].n = inbox[j].n
      BY <1>1, <3>1 DEF InTurn
    <3>2. CASE inbox'[j].n = submitted + 1
      BY <1>1, <1>9, <3>2
    <3> QED BY <1>7, <3>1, <3>2
  <2>5. req' # Idle => req'.n <= submitted' /\ \A j \in DOMAIN inbox' : req'.n < inbox'[j].n
    <3> SUFFICES ASSUME req # Idle
                 PROVE  req.n <= submitted + 1 /\ \A j \in DOMAIN inbox' : req.n < inbox'[j].n
      BY <1>2
    <3>1. req.n \in Nat /\ req.n <= submitted
      BY <1>1 DEF InTurn, SessionType, RequestType
    <3>2. ASSUME NEW j \in DOMAIN inbox' PROVE req.n < inbox'[j].n
      <4>1. CASE j \in DOMAIN inbox /\ inbox'[j].n = inbox[j].n
        BY <1>1, <4>1 DEF InTurn
      <4>2. CASE inbox'[j].n = submitted + 1
        BY <1>1, <3>1, <4>2
      <4> QED BY <1>7, <4>1, <4>2
    <3> QED BY <1>1, <3>1, <3>2
  <2> QED BY <2>1, <2>2, <2>3, <2>4, <2>5 DEF InTurn
<1>12. Unreplied' /\ Recorded' /\ RepliesAreRecorded'
  <2>1. \A r : Replies(r)' = Replies(r)
    BY <1>2 DEF Replies
  <2> QED BY <1>1, <1>2, <2>1 DEF Unreplied, Recorded, RepliesAreRecorded, Replies
<1> QED BY <1>10, <1>11, <1>12 DEF SessionInv

\* The worker takes the oldest event; its number is above all that left a line.
LEMMA ExecuteStep ==
  ASSUME SessionInv, Execute
  PROVE  SessionInv'
<1>1. /\ SessionType /\ InTurn /\ Unreplied /\ Recorded /\ RepliesAreRecorded
      /\ inbox \in Seq([kind : Kinds, n : Nat]) /\ submitted \in Nat /\ transcript \in Seq(Lines)
  BY DEF SessionInv, SessionType
<1> DEFINE T == [kind : Kinds, n : Nat]
<1>2. /\ req = Idle /\ inbox # <<>> /\ inbox' = Tail(inbox) /\ UNCHANGED <<submitted, sent>>
  BY DEF Execute
<1>3. PICK e : e = Head(inbox)
  OBVIOUS
<1>4. inbox \in Seq(T)
  BY <1>1
<1> HIDE DEF T
<1>5. /\ Len(inbox) \in Nat \ {0} /\ DOMAIN inbox = 1..Len(inbox) /\ e = inbox[1] /\ e \in T
      /\ inbox' \in Seq(T) /\ Len(inbox') = Len(inbox) - 1
      /\ \A i \in 1..Len(inbox') : inbox'[i] = inbox[i + 1]
  <2>1. Len(inbox) \in Nat \ {0} /\ DOMAIN inbox = 1..Len(inbox)
    BY <1>2, <1>4, LenProperties, EmptySeq
  <2>2. e = inbox[1] /\ e \in T
    BY <1>2, <1>3, <1>4, HeadTailProperties, <2>1, ElementOfSeq
  <2> QED BY <1>2, <1>4, <2>1, <2>2, HeadTailProperties
<1>6. /\ DOMAIN inbox' = 1..(Len(inbox) - 1)
      /\ \A i \in DOMAIN inbox' : i + 1 \in DOMAIN inbox /\ inbox'[i] = inbox[i + 1] /\ 1 < i + 1
  <2>1. DOMAIN inbox' = 1..(Len(inbox) - 1)
    BY <1>5, LenProperties
  <2> QED BY <1>5, <2>1
<1>7. e.n \in Nat /\ e.kind \in Kinds
  BY <1>5 DEF T
<1>8. e.n <= submitted /\ \A j \in DOMAIN inbox' : e.n < inbox'[j].n
  <2>1. 1 \in DOMAIN inbox
    BY <1>5
  <2>2. e.n <= submitted
    BY <1>1, <1>5, <2>1 DEF InTurn
  <2>3. ASSUME NEW j \in DOMAIN inbox' PROVE e.n < inbox'[j].n
    <3>1. j + 1 \in DOMAIN inbox /\ inbox'[j] = inbox[j + 1] /\ 1 < j + 1
      BY <1>6
    <3>2. inbox[1].n < inbox[j + 1].n
      BY <1>1, <2>1, <3>1 DEF InTurn
    <3> QED BY <1>5, <3>1, <3>2
  <2> QED BY <2>2, <2>3
<1>9. \A i \in DOMAIN transcript : transcript[i].req < e.n /\ transcript[i].req \in Nat
  <2>1. 1 \in DOMAIN inbox
    BY <1>5
  <2>2. \A i \in DOMAIN transcript : transcript[i] \in Lines
    BY <1>1, LenProperties, ElementOfSeq
  <2>3. \A x \in Lines : x.req \in Nat
    BY DEF Lines
  <2> QED BY <1>1, <1>5, <2>1, <2>2, <2>3 DEF InTurn
<1>10. /\ \A i \in DOMAIN inbox' : inbox'[i].n <= submitted'
       /\ \A i, j \in DOMAIN inbox' : i < j => inbox'[i].n < inbox'[j].n
  <2>1. \A i \in DOMAIN inbox' : inbox'[i].n <= submitted'
    BY <1>1, <1>2, <1>6 DEF InTurn
  <2>2. ASSUME NEW i \in DOMAIN inbox', NEW j \in DOMAIN inbox', i < j
        PROVE  inbox'[i].n < inbox'[j].n
    <3>1. i + 1 \in DOMAIN inbox /\ j + 1 \in DOMAIN inbox /\ i + 1 < j + 1
      BY <1>5, <1>6, <2>2
    <3>2. inbox[i + 1].n < inbox[j + 1].n
      BY <1>1, <3>1 DEF InTurn
    <3> QED BY <1>6, <3>2
  <2> QED BY <2>1, <2>2
<1>11. CASE UNCHANGED <<req, transcript>>
  <2>1. SessionType'
    BY <1>1, <1>2, <1>5, <1>11 DEF SessionType, RequestType, T
  <2>2. InTurn'
    <3>1. \A i \in DOMAIN transcript' : transcript'[i].req <= submitted'
      BY <1>1, <1>2, <1>11 DEF InTurn
    <3>2. \A i \in DOMAIN transcript', j \in DOMAIN inbox' : transcript'[i].req < inbox'[j].n
      BY <1>1, <1>6, <1>11 DEF InTurn
    <3>3. req' = Idle
      BY <1>2, <1>11
    <3> QED BY <1>10, <3>1, <3>2, <3>3 DEF InTurn
  <2>3. \A r : Replies(r)' = Replies(r)
    BY <1>11 DEF Replies
  <2>4. Unreplied' /\ Recorded' /\ RepliesAreRecorded'
    BY <1>1, <1>2, <1>11, <2>3 DEF Unreplied, Recorded, RepliesAreRecorded, Replies
  <2> QED BY <2>1, <2>2, <2>4 DEF SessionInv
<1>12. CASE /\ req'.phase \in {"clear", "model", "command", "context"} /\ req'.n = e.n
            /\ UNCHANGED transcript
  <2>1. SessionType'
    <3>1. RequestType'
      BY <1>7, <1>12 DEF RequestType, Open
    <3> QED BY <1>1, <1>2, <1>5, <1>12, <3>1 DEF SessionType, T
  <2>2. InTurn'
    <3>1. \A i \in DOMAIN transcript' : transcript'[i].req <= submitted'
      BY <1>1, <1>2, <1>12 DEF InTurn
    <3>2. \A i \in DOMAIN transcript', j \in DOMAIN inbox' : transcript'[i].req < inbox'[j].n
      BY <1>1, <1>6, <1>12 DEF InTurn
    <3> QED BY <1>2, <1>8, <1>10, <1>12, <3>1, <3>2 DEF InTurn
  <2>3. \A r : Replies(r)' = Replies(r)
    BY <1>12 DEF Replies
  <2>4. Unreplied'
    BY <1>7, <1>9, <1>12 DEF Unreplied
  <2>5. Recorded' /\ RepliesAreRecorded'
    BY <1>1, <1>2, <1>12, <2>3 DEF Recorded, RepliesAreRecorded
  <2> QED BY <2>1, <2>2, <2>4, <2>5 DEF SessionInv
<1>13. CASE /\ req'.phase = "context" /\ req'.n = e.n
            /\ transcript' = Append(transcript, [role |-> "user", req |-> e.n, reply |-> FALSE])
  <2> DEFINE l == [role |-> "user", req |-> e.n, reply |-> FALSE]
  <2>1. l \in Lines /\ l.req = e.n /\ ~l.reply
    BY <1>7 DEF Lines, Speakers
  <2>2. transcript' = Append(transcript, l)
    BY <1>13
  <2> HIDE DEF l
  <2>3. /\ transcript' \in Seq(Lines) /\ Len(transcript) \in Nat
        /\ DOMAIN transcript = 1..Len(transcript) /\ DOMAIN transcript' = 1..(Len(transcript) + 1)
        /\ \A i \in 1..Len(transcript) : transcript'[i] = transcript[i] /\ transcript[i] \in Lines
        /\ transcript'[Len(transcript) + 1] = l
    BY <1>1, <2>1, <2>2, LineAdded
  <2>4. \A i \in DOMAIN transcript' : \/ i \in DOMAIN transcript /\ transcript'[i] = transcript[i]
                                      \/ transcript'[i] = l
    BY <2>3
  <2>5. SessionType'
    <3>1. RequestType'
      BY <1>7, <1>13 DEF RequestType, Open
    <3> QED BY <1>1, <1>2, <1>5, <2>3, <3>1 DEF SessionType, T
  <2>6. InTurn'
    <3>1. \A i \in DOMAIN transcript' : transcript'[i].req <= submitted'
      BY <1>1, <1>2, <1>8, <2>1, <2>4 DEF InTurn
    <3>2. \A i \in DOMAIN transcript', j \in DOMAIN inbox' : transcript'[i].req < inbox'[j].n
      BY <1>1, <1>6, <1>8, <2>1, <2>4 DEF InTurn
    <3> QED BY <1>2, <1>8, <1>10, <1>13, <3>1, <3>2 DEF InTurn
  <2>7. \A i \in DOMAIN transcript : transcript[i].req # e.n
    BY <1>7, <1>9
  <2>8. Unreplied'
    BY <1>13, <2>1, <2>4, <2>7 DEF Unreplied
  <2>9. /\ \A r \in sent' : Replies(r)' # {}
        /\ \A i, j \in DOMAIN transcript' :
              transcript'[i].reply /\ transcript'[i].req = transcript'[j].req => j <= i
    BY <1>2, <2>1, <2>2, <2>7, RepliesKept
  <2>10. Recorded' /\ RepliesAreRecorded'
    BY <1>13, <2>9 DEF Recorded, RepliesAreRecorded
  <2> QED BY <2>5, <2>6, <2>8, <2>10 DEF SessionInv
<1>14. \/ UNCHANGED <<req, transcript>>
       \/ /\ req'.phase \in {"clear", "model", "command", "context"} /\ req'.n = e.n
          /\ UNCHANGED transcript
       \/ /\ req'.phase = "context" /\ req'.n = e.n
          /\ transcript' = Append(transcript, [role |-> "user", req |-> e.n, reply |-> FALSE])
  <2>1. \/ e.kind = "cron" /\ UNCHANGED <<req, transcript>>
        \/ /\ e.kind \in {"clear", "model", "command"}
           /\ req' = [phase |-> e.kind, n |-> e.n]
           /\ UNCHANGED transcript
        \/ /\ req' = [phase |-> "context", n |-> e.n]
           /\ \E saved \in BOOLEAN :
                transcript' = IF saved
                              THEN Append(transcript, [role |-> "user", req |-> e.n, reply |-> FALSE])
                              ELSE transcript
    BY <1>3 DEF Execute
  <2>2. CASE req' = [phase |-> e.kind, n |-> e.n] /\ e.kind \in {"clear", "model", "command"} /\ UNCHANGED transcript
    <3>1. req'.phase = e.kind /\ req'.n = e.n
      BY <2>2
    <3> QED BY <2>2, <3>1
  <2>3. CASE /\ req' = [phase |-> "context", n |-> e.n]
             /\ \E saved \in BOOLEAN :
                  transcript' = IF saved
                                THEN Append(transcript, [role |-> "user", req |-> e.n, reply |-> FALSE])
                                ELSE transcript
    <3>1. req'.phase = "context" /\ req'.n = e.n
      BY <2>3
    <3>2. transcript' = transcript \/ transcript' = Append(transcript, [role |-> "user", req |-> e.n, reply |-> FALSE])
      BY <2>3, Zenon
    <3> QED BY <3>1, <3>2, Zenon
  <2> QED BY <2>1, <2>2, <2>3
<1> QED BY <1>11, <1>12, <1>13, <1>14

\* /clear: the lines are gone, and so is what was recorded of them.
LEMMA ClearStep ==
  ASSUME SessionInv, HandleClear
  PROVE  SessionInv'
<1>1. /\ req.phase = "clear" /\ req.phase \in Open /\ UNCHANGED <<inbox, submitted>>
      /\ req' = [phase |-> "persist", n |-> req.n, role |-> "system"]
  BY DEF HandleClear, Reply, Open
<1>2. req'.phase = "persist" /\ req'.phase \in Open /\ req'.n = req.n /\ req'.role = "system"
  BY <1>1 DEF Open
<1>3. /\ SessionType /\ InTurn /\ RepliesAreRecorded /\ RequestType
  BY DEF SessionInv, SessionType
<1>4. req # Idle /\ req.n \in Nat
  BY <1>1, <1>3, OpenRequest
<1>5. RequestType'
  BY <1>2, <1>4 DEF RequestType, Speakers
<1>6. CASE UNCHANGED <<transcript, sent>>
  BY <1>1, <1>2, <1>5, <1>6, RequestMoves
<1>7. CASE transcript' = <<>> /\ sent' = {}
  <2>1. transcript' \in Seq(Lines) /\ DOMAIN transcript' = {}
    BY <1>7
  <2>2. SessionType'
    BY <1>1, <1>3, <1>5, <2>1 DEF SessionType
  <2>3. InTurn'
    BY <1>1, <1>2, <1>3, <1>4, <2>1 DEF InTurn
  <2>4. Unreplied' /\ Recorded'
    BY <1>2, <2>1 DEF Unreplied, Recorded
  <2>5. RepliesAreRecorded'
    BY <1>2, <1>7, <2>1 DEF RepliesAreRecorded
  <2> QED BY <2>2, <2>3, <2>4, <2>5 DEF SessionInv
<1>8. UNCHANGED <<transcript, sent>> \/ (transcript' = <<>> /\ sent' = {})
  <2>1. PICK done \in {"none", "reset", "all"} :
          /\ transcript' = IF done = "none" THEN transcript ELSE <<>>
          /\ sent' = IF done = "none" THEN sent ELSE {}
    BY DEF HandleClear
  <2>2. CASE done = "none"
    BY <2>1, <2>2
  <2>3. CASE done # "none"
    BY <2>1, <2>3
  <2> QED BY <2>2, <2>3
<1> QED BY <1>6, <1>7, <1>8

\* The reply is on record when the adapter takes it.
LEMMA SendStep ==
  ASSUME SessionInv, Send
  PROVE  SessionInv'
<1>1. /\ req.phase = "send" /\ UNCHANGED <<inbox, submitted, transcript>>
      /\ \/ req' = [phase |-> "returned", n |-> req.n, outcome |-> "error"] /\ sent' = sent
         \/ req' = [phase |-> "returned", n |-> req.n, outcome |-> "ok"] /\ sent' = sent \cup {req.n}
  BY DEF Send, Return
<1>2. req'.phase = "returned" /\ req'.n = req.n
  BY <1>1
<1>3. /\ SessionType /\ InTurn /\ Recorded /\ RepliesAreRecorded /\ RequestType
  BY DEF SessionInv, SessionType
<1>4. req # Idle /\ req.n \in Nat
  BY <1>1, <1>3 DEF RequestType, Idle
<1>5. SessionType'
  <2>1. RequestType'
    BY <1>2, <1>4 DEF RequestType
  <2> QED BY <1>1, <1>3, <2>1 DEF SessionType
<1>6. InTurn'
  BY <1>1, <1>2, <1>3, <1>4 DEF InTurn
<1>7. Unreplied' /\ Recorded'
  BY <1>2 DEF Unreplied, Recorded, Open
<1>8. RepliesAreRecorded'
  <2>1. \A r : Replies(r)' = Replies(r)
    BY <1>1 DEF Replies
  <2>2. \A r \in sent' : Replies(r) # {}
    BY <1>1, <1>3 DEF Recorded, RepliesAreRecorded
  <2>3. req'.outcome = "ok" => req'.n \in sent'
    BY <1>1, <1>2
  <2>4. \A i, j \in DOMAIN transcript' :
          transcript'[i].reply /\ transcript'[i].req = transcript'[j].req => j <= i
    BY <1>1, <1>3 DEF RepliesAreRecorded
  <2> QED BY <2>1, <2>2, <2>3, <2>4 DEF RepliesAreRecorded
<1> QED BY <1>5, <1>6, <1>7, <1>8 DEF SessionInv

LEMMA FinishStep ==
  ASSUME SessionInv, Finish
  PROVE  SessionInv'
<1>1. req' = Idle /\ UNCHANGED <<inbox, submitted, transcript, sent>>
  BY DEF Finish
<1>2. SessionType /\ InTurn /\ RepliesAreRecorded
  BY DEF SessionInv
<1>3. req'.phase = "idle"
  BY <1>1 DEF Idle
<1>4. SessionType'
  BY <1>1, <1>2, <1>3 DEF SessionType, RequestType
<1>5. InTurn'
  BY <1>1, <1>2 DEF InTurn
<1>6. Unreplied' /\ Recorded'
  BY <1>3 DEF Unreplied, Recorded, Open
<1>7. \A r : Replies(r)' = Replies(r)
  BY <1>1 DEF Replies
<1>8. RepliesAreRecorded'
  BY <1>1, <1>2, <1>3, <1>7 DEF RepliesAreRecorded
<1> QED BY <1>4, <1>5, <1>6, <1>8 DEF SessionInv

\* The note about the sub-tasks, and the reply, are lines of the request.
LEMMA RecordStep ==
  ASSUME SessionInv, Decompose \/ Persist
  PROVE  SessionInv'
<1>1. SessionType /\ RequestType
  BY DEF SessionInv, SessionType
<1>2. req.phase \in Open /\ UNCHANGED <<inbox, submitted, sent>>
  BY DEF Decompose, Persist, Open
<1>3. req.n \in Nat
  BY <1>1, <1>2, OpenRequest
<1>4. CASE req' = [phase |-> "returned", n |-> req.n, outcome |-> "error"] /\ UNCHANGED transcript
  <2>1. req'.phase = "returned" /\ req'.n = req.n /\ req'.outcome = "error"
    BY <1>4
  <2>2. RequestType'
    BY <1>3, <2>1 DEF RequestType
  <2> QED BY <1>2, <1>4, <2>1, <2>2, RequestMoves
<1>5. CASE Decompose /\ req' = [phase |-> "subtasks", n |-> req.n, left |-> MaxSubTasks]
  <2>1. req'.phase = "subtasks" /\ req'.n = req.n /\ req'.phase \in Open
    BY <1>5 DEF Open
  <2>2. RequestType'
    BY <1>3, <1>5, <2>1, KernelAssumption DEF RequestType
  <2>3. PICK l : l = Line("system", FALSE)
    OBVIOUS
  <2>4. l \in Lines /\ l.req = req.n /\ ~l.reply
    BY <1>3, <2>3 DEF Line, Lines, Speakers
  <2>5. transcript' = transcript \/ transcript' = Append(transcript, l)
    <3>1. req'.phase # "returned"
      BY <2>1
    <3>2. ~Return("error")
      BY <3>1 DEF Return
    <3>3. \E saved \in BOOLEAN : transcript' = IF saved THEN Append(transcript, l) ELSE transcript
      BY <1>5, <2>3, <3>2 DEF Decompose
    <3> QED BY <3>3, Zenon
  <2>6. CASE transcript' = transcript
    BY <1>2, <2>1, <2>2, <2>6, RequestMoves
  <2>7. CASE transcript' = Append(transcript, l)
    BY <1>2, <2>1, <2>2, <2>4, <2>7, RequestRecords
  <2> QED BY <2>5, <2>6, <2>7
<1>6. CASE Persist /\ req' = [phase |-> "send", n |-> req.n] /\ transcript' = Append(transcript, Line(req.role, TRUE))
  <2>1. req'.phase = "send" /\ req'.n = req.n
    BY <1>6
  <2>2. RequestType'
    BY <1>3, <2>1 DEF RequestType
  <2>3. req.role \in Speakers
    BY <1>1, <1>6 DEF Persist, RequestType
  <2>4. PICK l : l = Line(req.role, TRUE)
    OBVIOUS
  <2>5. l \in Lines /\ l.req = req.n /\ l.reply
    BY <1>3, <2>3, <2>4 DEF Line, Lines
  <2>6. transcript' = Append(transcript, l)
    BY <1>6, <2>4
  <2> QED BY <1>2, <2>1, <2>2, <2>5, <2>6, RequestRecords
<1>7. CASE Decompose
  BY <1>4, <1>5, <1>7 DEF Decompose, Return
<1>8. CASE Persist
  BY <1>4, <1>6, <1>8 DEF Persist, Return
<1> QED BY <1>7, <1>8

\* The steps of a request between its taking and its reply.
LEMMA WorkStep ==
  ASSUME SessionInv,
         \/ \E goal \in Goals, tools \in Registries : HandleRequest(goal, tools)
         \/ ExecuteSimpleTask \/ StartSubTask \/ EndSubTasks \/ EndRun \/ HandleModel \/ HandleCommand
  PROVE  SessionInv'
<1>1. SessionType /\ RequestType
  BY DEF SessionInv, SessionType
<1>2. req.phase \in Open /\ UNCHANGED <<inbox, submitted, transcript, sent>>
  BY DEF HandleRequest, ExecuteSimpleTask, StartSubTask, EndSubTasks, EndRun, HandleModel, HandleCommand, Open
<1>3. req.n \in Nat
  BY <1>1, <1>2, OpenRequest
<1>4. CASE \E goal \in Goals, tools \in Registries : HandleRequest(goal, tools)
  <2>1. req'.phase = "offer" /\ req'.n = req.n
    BY <1>4 DEF HandleRequest
  <2>2. RequestType' /\ req'.phase \in Open
    BY <1>3, <2>1 DEF RequestType, Open
  <2> QED BY <1>2, <2>1, <2>2, RequestMoves
<1>5. CASE ExecuteSimpleTask
  <2>1. req'.phase = "run" /\ req'.n = req.n
    BY <1>5 DEF ExecuteSimpleTask
  <2>2. RequestType' /\ req'.phase \in Open
    BY <1>3, <2>1 DEF RequestType, Open
  <2> QED BY <1>2, <2>1, <2>2, RequestMoves
<1>6. CASE StartSubTask
  <2> DEFINE k == req.left - 1
             S == [phase : {"subtasks"}, n : Nat, left : Nat]
  <2>1. req \in S
    BY <1>1, <1>6 DEF StartSubTask, RequestType
  <2>2. k \in Nat /\ req' = [req EXCEPT !.left = k]
    BY <1>6, <2>1 DEF StartSubTask
  <2> HIDE DEF k
  <2>3. req' \in S /\ req'.phase = "subtasks" /\ req'.n = req.n
    BY <2>1, <2>2
  <2>4. RequestType' /\ req'.phase \in Open
    BY <1>3, <2>3 DEF RequestType, Open
  <2> QED BY <1>2, <2>3, <2>4, RequestMoves
<1>7. CASE req' = [phase |-> "returned", n |-> req.n, outcome |-> "error"]
  <2>1. req'.phase = "returned" /\ req'.n = req.n /\ req'.outcome = "error"
    BY <1>7
  <2>2. RequestType'
    BY <1>3, <2>1 DEF RequestType
  <2> QED BY <1>2, <2>1, <2>2, RequestMoves
<1>8. CASE \E role \in {"assistant", "system"} : req' = [phase |-> "persist", n |-> req.n, role |-> role]
  <2>1. req'.phase = "persist" /\ req'.n = req.n /\ req'.role \in Speakers
    BY <1>8 DEF Speakers
  <2>2. RequestType' /\ req'.phase \in Open
    BY <1>3, <2>1 DEF RequestType, Open
  <2> QED BY <1>2, <2>1, <2>2, RequestMoves
<1>9. CASE EndSubTasks
  BY <1>7, <1>8, <1>9 DEF EndSubTasks, Return, Reply
<1>10. CASE EndRun
  <2>1. req' = [phase |-> "persist", n |-> req.n,
                role |-> IF eng.result \in {"answer", "stopped"} THEN "assistant" ELSE "system"]
    BY <1>10 DEF EndRun, Reply
  <2>2. CASE eng.result \in {"answer", "stopped"}
    <3>1. req' = [phase |-> "persist", n |-> req.n, role |-> "assistant"]
      BY <2>1, <2>2
    <3> QED BY <1>8, <3>1
  <2>3. CASE eng.result \notin {"answer", "stopped"}
    <3>1. req' = [phase |-> "persist", n |-> req.n, role |-> "system"]
      BY <2>1, <2>3
    <3> QED BY <1>8, <3>1
  <2> QED BY <2>2, <2>3
<1>11. CASE HandleModel
  BY <1>8, <1>11 DEF HandleModel, Reply
<1>12. CASE HandleCommand
  BY <1>8, <1>12 DEF HandleCommand, Reply
<1> QED BY <1>4, <1>5, <1>6, <1>9, <1>10, <1>11, <1>12

LEMMA SessionSame ==
  ASSUME SessionInv, UNCHANGED kernelVars
  PROVE  SessionInv' /\ req' = req
<1>1. /\ SessionType /\ InTurn /\ Unreplied /\ Recorded /\ RepliesAreRecorded
      /\ UNCHANGED <<inbox, submitted, transcript, req, sent>>
  BY DEF SessionInv, kernelVars
<1>2. \A r : Replies(r)' = Replies(r)
  BY <1>1 DEF Replies
<1>3. SessionType' /\ InTurn' /\ Unreplied'
  BY <1>1 DEF SessionType, RequestType, InTurn, Unreplied
<1>4. Recorded' /\ RepliesAreRecorded'
  BY <1>1, <1>2 DEF Recorded, RepliesAreRecorded, Replies
<1> QED BY <1>1, <1>3, <1>4 DEF SessionInv

LEMMA EngineSame ==
  ASSUME EngineInv, UNCHANGED engineVars
  PROVE  EngineInv' /\ eng' = eng
<1>1. EngineType /\ ThinksCounted /\ ContextKept /\ UNCHANGED <<eng, ctx, facts>>
  BY DEF EngineInv, engineVars
<1>2. EngineType'
  BY <1>1 DEF EngineType
<1>3. ThinksCounted'
  BY <1>1 DEF ThinksCounted, Allowance
<1>4. (Fits(ctx))' <=> Fits(ctx)
  BY <1>1 DEF Fits, Used, Total, Costs
<1>5. ContextKept'
  BY <1>1, <1>4 DEF ContextKept
<1> QED BY <1>1, <1>2, <1>3, <1>5 DEF EngineInv

\* Outside a run the context is free.
LEMMA NoRunStep ==
  ASSUME eng' = NoRun, ctx' \in Contexts, facts' \in Facts
  PROVE  EngineInv'
<1>1. eng'.phase = "none"
  BY DEF NoRun
<1> QED BY <1>1 DEF EngineInv, EngineType, ThinksCounted, ContextKept

LEMMA StartRunStep ==
  ASSUME NEW c \in Contexts, StartRun(c), facts' \in Facts
  PROVE  EngineInv'
<1> DEFINE z == <<>>
<1>1. eng' = [phase |-> "plan", turn |-> 0, retries |-> 0, attempt |-> 0, thinks |-> 0,
              outs |-> z, calls |-> 0, mems |-> z, stale |-> TRUE] /\ ctx' = c
  BY DEF StartRun
<1>2. z \in Seq(Nat) /\ 0 \in 0..MaxRetriesPerTurn
  BY EngineAssumption
<1> HIDE DEF z
<1>3. eng' \in Runs /\ eng'.phase = "plan" /\ eng'.turn = 0 /\ eng'.retries = 0 /\ eng'.thinks = 0 /\ eng'.stale
  BY <1>1, <1>2 DEF Runs
<1>4. ThinksCounted'
  <2>1. Allowance(0) = 0
    BY AllowanceStep
  <2>2. eng'.thinks <= Allowance(0) + eng'.retries
    BY <1>3, <2>1
  <2> QED BY <1>3, <2>2 DEF ThinksCounted, Allowance
<1>5. ContextKept'
  BY <1>3 DEF ContextKept
<1> QED BY <1>1, <1>3, <1>4, <1>5 DEF EngineInv, EngineType

\* The context HandleRequest loads: lines of the transcript and facts.
LEMMA SessionContextsType ==
  ASSUME transcript \in Seq(Lines), facts \in Facts
  PROVE  SessionContexts \subseteq Contexts
<1> DEFINE k == Min({HistoryLimit, Len(transcript)})
           lines == LastN(transcript, k)
<1>1. Len(transcript) \in Nat /\ HistoryLimit \in Nat
  BY LenProperties, KernelAssumption
<1>2. k \in 0..Len(transcript)
  <2>1. \E x \in {HistoryLimit, Len(transcript)} : \A y \in {HistoryLimit, Len(transcript)} : x =< y
    BY <1>1
  <2>2. k \in {HistoryLimit, Len(transcript)} /\ \A y \in {HistoryLimit, Len(transcript)} : k =< y
    BY <2>1 DEF Min
  <2> QED BY <1>1, <2>2
<1>3. SessionHistory = [i \in DOMAIN lines |-> Message(lines[i].role, 1)]
  BY DEF SessionHistory, readTranscript
<1> HIDE DEF k
<1>4. lines \in Seq(Lines)
  <2>1. PICK s \in Seq(Lines) : s = transcript
    OBVIOUS
  <2>2. PICK n \in 0..Len(s) : n = k
    BY <1>2, <2>1
  <2>3. LastN(s, n) \in Seq(Lines)
    BY LastNType
  <2> QED BY <2>1, <2>2, <2>3
<1> HIDE DEF lines
<1>5. SessionHistory \in Seq(Messages)
  <2>1. DOMAIN lines = 1..Len(lines) /\ Len(lines) \in Nat
    BY <1>4, LenProperties
  <2>2. \A i \in DOMAIN lines : lines[i] \in Lines
    BY <1>4, <2>1, ElementOfSeq
  <2>3. \A x \in Lines : x.role \in Roles
    BY DEF Lines, Speakers, Roles
  <2>4. \A role \in Roles : Message(role, 1) \in Messages
    BY DEF Message, Messages
  <2>5. \A i \in DOMAIN lines : Message(lines[i].role, 1) \in Messages
    BY <2>2, <2>3, <2>4
  <2>6. SessionHistory \in [1..Len(lines) -> Messages]
    BY <1>3, <2>1, <2>5
  <2> QED BY <2>1, <2>6
<1>6. Retrieve \in Seq(Nat)
  <2>1. facts.found \in Nat
    BY DEF Facts
  <2>2. Retrieve = [i \in 1..facts.found |-> 1]
    BY DEF Retrieve, searchVectors
  <2>3. Retrieve \in [1..facts.found -> Nat]
    BY <2>2
  <2> QED BY <2>1, <2>3
<1>7. EmptyContext \in Contexts
  BY EmptyContextType
<1>8. \A h \in Seq(Messages) : [EmptyContext EXCEPT !.history = h] \in Contexts
  BY <1>7 DEF Contexts
<1>9. \A h \in Seq(Messages), m \in Seq(Nat) : [EmptyContext EXCEPT !.history = h, !.memories = m] \in Contexts
  BY <1>7 DEF Contexts
<1>10. ASSUME NEW c \in SessionContexts PROVE c \in Contexts
  <2>1. \/ c = EmptyContext
        \/ c = [EmptyContext EXCEPT !.history = SessionHistory]
        \/ c = [EmptyContext EXCEPT !.history = SessionHistory, !.memories = Retrieve]
    BY DEF SessionContexts
  <2>2. CASE c = EmptyContext
    BY <1>7, <2>2
  <2>3. CASE c = [EmptyContext EXCEPT !.history = SessionHistory]
    BY <1>5, <1>8, <2>3, Zenon
  <2>4. CASE c = [EmptyContext EXCEPT !.history = SessionHistory, !.memories = Retrieve]
    BY <1>5, <1>6, <1>9, <2>4, Zenon
  <2> QED BY <2>1, <2>2, <2>3, <2>4
<1> QED BY <1>10

\* A request that is not worked on by an engine has none.
LEMMA NotRunning ==
  ASSUME EngineInv, RunsForRequest, req.phase \notin {"run", "subtasks"}
  PROVE  eng = NoRun /\ eng.phase = "none"
<1>1. eng.phase = "none"
  BY DEF RunsForRequest
<1>2. \A e \in Runs \cup Ended : e.phase # "none"
  BY DEF Runs, Ended
<1> QED BY <1>1, <1>2 DEF EngineInv, EngineType

-----------------------------------------------------------------------------
(* The theorems *)

\* The invariant is kept by a step that leaves the engine alone, if the request
\* still is at one of the phases of a run when there is one.
LEMMA EngineUntouched ==
  ASSUME IInv, UNCHANGED engineVars, SessionInv',
         req'.phase = req.phase \/ req.phase \notin {"run", "subtasks"} \/ eng = NoRun
  PROVE  IInv'
<1>1. EngineInv /\ RunsForRequest
  BY DEF IInv
<1>2. EngineInv' /\ eng' = eng
  BY <1>1, EngineSame
<1>3. RunsForRequest'
  <2>1. CASE req'.phase = req.phase
    BY <1>1, <1>2, <2>1 DEF RunsForRequest
  <2>2. CASE req.phase \notin {"run", "subtasks"} \/ eng = NoRun
    <3>1. eng.phase = "none"
      BY <1>1, <2>2, NotRunning DEF NoRun
    <3> QED BY <1>2, <3>1 DEF RunsForRequest
  <2> QED BY <2>1, <2>2
<1> QED BY <1>2, <1>3 DEF IInv

\* The steps of Kernel.Execute and of the worker around the runs of the engine.
LEMMA RequestStep ==
  ASSUME IInv,
         \/ \E kind \in Kinds, meta \in {"sourced", "bare"} : Submit(kind, meta)
         \/ Execute \/ EndSubTasks \/ HandleClear \/ HandleModel \/ HandleCommand
         \/ Persist \/ Send \/ Finish
  PROVE  IInv'
<1>1. SessionInv
  BY DEF IInv
<1>2. CASE \E kind \in Kinds, meta \in {"sourced", "bare"} : Submit(kind, meta)
  <2>1. PICK kind \in Kinds, meta \in {"sourced", "bare"} : Submit(kind, meta)
    BY <1>2
  <2>2. SessionInv'
    BY <1>1, <2>1, SubmitStep
  <2>3. UNCHANGED engineVars /\ req' = req
    BY <2>1 DEF Submit
  <2> QED BY <2>2, <2>3, EngineUntouched
<1>3. CASE Execute
  <2>1. SessionInv'
    BY <1>1, <1>3, ExecuteStep
  <2>2. UNCHANGED engineVars /\ req.phase = "idle"
    BY <1>3 DEF Execute, Idle
  <2> QED BY <2>1, <2>2, EngineUntouched
<1>4. CASE EndSubTasks
  <2>1. SessionInv'
    BY <1>1, <1>4, WorkStep
  <2>2. UNCHANGED engineVars /\ eng = NoRun
    BY <1>4 DEF EndSubTasks
  <2> QED BY <2>1, <2>2, EngineUntouched
<1>5. CASE HandleClear
  <2>1. SessionInv'
    BY <1>1, <1>5, ClearStep
  <2>2. UNCHANGED engineVars /\ req.phase = "clear"
    BY <1>5 DEF HandleClear
  <2> QED BY <2>1, <2>2, EngineUntouched
<1>6. CASE HandleModel \/ HandleCommand
  <2>1. SessionInv'
    BY <1>1, <1>6, WorkStep
  <2>2. UNCHANGED engineVars /\ req.phase \in {"model", "command"}
    BY <1>6 DEF HandleModel, HandleCommand
  <2> QED BY <2>1, <2>2, EngineUntouched
<1>7. CASE Persist
  <2>1. SessionInv'
    BY <1>1, <1>7, RecordStep
  <2>2. UNCHANGED engineVars /\ req.phase = "persist"
    BY <1>7 DEF Persist
  <2> QED BY <2>1, <2>2, EngineUntouched
<1>8. CASE Send
  <2>1. SessionInv'
    BY <1>1, <1>8, SendStep
  <2>2. UNCHANGED engineVars /\ req.phase = "send"
    BY <1>8 DEF Send
  <2> QED BY <2>1, <2>2, EngineUntouched
<1>9. CASE Finish
  <2>1. SessionInv'
    BY <1>1, <1>9, FinishStep
  <2>2. UNCHANGED engineVars /\ req.phase = "returned"
    BY <1>9 DEF Finish
  <2> QED BY <2>1, <2>2, EngineUntouched
<1> QED BY <1>2, <1>3, <1>4, <1>5, <1>6, <1>7, <1>8, <1>9

\* The steps that prepare, start or end a run.
LEMMA TaskStep ==
  ASSUME IInv,
         \/ \E goal \in Goals, tools \in Registries : HandleRequest(goal, tools)
         \/ ExecuteSimpleTask \/ Decompose \/ StartSubTask \/ EndSubTask \/ EndRun
  PROVE  IInv'
<1>1. /\ EngineInv /\ SessionInv /\ RunsForRequest /\ ctx \in Contexts /\ facts \in Facts
      /\ transcript \in Seq(Lines)
  BY DEF IInv, EngineInv, EngineType, SessionInv, SessionType
<1>2. NoRun.phase = "none"
  BY DEF NoRun
<1>3. CASE \E goal \in Goals, tools \in Registries : HandleRequest(goal, tools)
  <2>1. SessionInv'
    BY <1>1, <1>3, WorkStep
  <2>2. req.phase = "context" /\ eng' = eng /\ facts' = facts /\ ctx' \in SessionContexts
    BY <1>3 DEF HandleRequest
  <2>3. eng' = NoRun
    BY <1>1, <2>2, NotRunning
  <2>4. ctx' \in Contexts
    BY <1>1, <2>2, SessionContextsType
  <2>5. EngineInv'
    BY <1>1, <2>2, <2>3, <2>4, NoRunStep
  <2> QED BY <1>2, <2>1, <2>3, <2>5 DEF IInv, RunsForRequest
<1>4. CASE ExecuteSimpleTask
  <2>1. SessionInv'
    BY <1>1, <1>4, WorkStep
  <2>2. req'.phase = "run" /\ facts' = facts /\ StartRun([ctx EXCEPT !.budget = 0])
    BY <1>4 DEF ExecuteSimpleTask
  <2>3. PICK c : c = [ctx EXCEPT !.budget = 0]
    OBVIOUS
  <2>4. c \in Contexts
    BY <1>1, <2>3 DEF Contexts
  <2>5. StartRun(c)
    BY <2>2, <2>3
  <2>6. EngineInv'
    BY <1>1, <2>2, <2>4, <2>5, StartRunStep
  <2> QED BY <2>1, <2>2, <2>6 DEF IInv, RunsForRequest
<1>5. CASE Decompose
  <2>1. SessionInv'
    BY <1>1, <1>5, RecordStep
  <2>2. req.phase = "offer" /\ eng' = eng /\ facts' = facts /\ ctx' = EmptyContext
    BY <1>5 DEF Decompose
  <2>3. eng' = NoRun
    BY <1>1, <2>2, NotRunning
  <2>4. EngineInv'
    BY <1>1, <2>2, <2>3, EmptyContextType, NoRunStep
  <2> QED BY <1>2, <2>1, <2>3, <2>4 DEF IInv, RunsForRequest
<1>6. CASE StartSubTask
  <2>1. SessionInv'
    BY <1>1, <1>6, WorkStep
  <2>2. PICK pad \in {<<>>, <<1>>} : StartRun([EmptyContext EXCEPT !.pad = pad])
    BY <1>6 DEF StartSubTask
  <2>3. facts' = facts /\ req'.phase = "subtasks"
    <3>1. req \in [phase : {"subtasks"}, n : Nat, left : Nat]
      BY <1>1, <1>6 DEF StartSubTask, SessionInv, SessionType, RequestType
    <3>2. req' = [req EXCEPT !.left = @ - 1] /\ facts' = facts
      BY <1>6 DEF StartSubTask
    <3> QED BY <3>1, <3>2
  <2>4. pad \in Seq(Nat)
    <3>1. <<>> \in Seq(Nat) /\ <<1>> \in Seq(Nat)
      OBVIOUS
    <3> QED BY <3>1, Zenon
  <2>5. [EmptyContext EXCEPT !.pad = pad] \in Contexts
    BY <2>4, EmptyContextType DEF Contexts
  <2>6. EngineInv'
    BY <1>1, <2>2, <2>3, <2>5, StartRunStep
  <2> QED BY <2>1, <2>3, <2>6 DEF IInv, RunsForRequest
<1>7. CASE EndSubTask
  <2>1. eng' = NoRun /\ UNCHANGED <<ctx, facts, kernelVars>>
    BY <1>7 DEF EndSubTask
  <2>2. SessionInv'
    BY <1>1, <2>1, SessionSame
  <2>3. EngineInv'
    BY <1>1, <2>1, NoRunStep
  <2> QED BY <1>2, <2>1, <2>2, <2>3 DEF IInv, RunsForRequest
<1>8. CASE EndRun
  <2>1. SessionInv'
    BY <1>1, <1>8, WorkStep
  <2>2. eng' = NoRun /\ ctx' = ctx /\ facts' = facts
    BY <1>8 DEF EndRun
  <2>3. EngineInv'
    BY <1>1, <2>2, NoRunStep
  <2> QED BY <1>2, <2>1, <2>2, <2>3 DEF IInv, RunsForRequest
<1> QED BY <1>3, <1>4, <1>5, <1>6, <1>7, <1>8

\* The goroutine that stores a fact touches nothing but the facts.
LEMMA RememberStep ==
  ASSUME EngineInv, Remember
  PROVE  EngineInv' /\ eng' = eng
<1>1. EngineType /\ ThinksCounted /\ ContextKept /\ UNCHANGED <<eng, ctx>> /\ facts \in Facts
  BY DEF EngineInv, EngineType, Remember
<1>2. facts' \in Facts
  <2>1. facts.storing \in Nat /\ facts.found \in Nat
    BY <1>1 DEF Facts
  <2>2. upsertVector \in Nat
    <3>1. facts.found + 1 \in Nat
      BY <2>1
    <3> QED BY <3>1, EngineAssumption, MinOfTwo DEF upsertVector
  <2>3. PICK found \in {facts.found, upsertVector} : facts' = [storing |-> facts.storing - 1, found |-> found]
    BY DEF Remember
  <2>4. facts.storing - 1 \in Nat /\ found \in Nat
    BY <2>1, <2>2, <2>3 DEF Remember
  <2> QED BY <2>3, <2>4 DEF Facts
<1>3. EngineType'
  BY <1>1, <1>2 DEF EngineType
<1>4. ThinksCounted'
  BY <1>1 DEF ThinksCounted, Allowance
<1>5. (Fits(ctx))' <=> Fits(ctx)
  BY <1>1 DEF Fits, Used, Total, Costs
<1>6. ContextKept'
  BY <1>1, <1>5 DEF ContextKept
<1> QED BY <1>1, <1>3, <1>4, <1>6 DEF EngineInv

\* IInv is an inductive invariant of the kernel over the cognitive engine: the
\* types, the thoughts counted, the context within its budget, and the requests
\* in turn with their replies on record (Kernel.Execute, Engine.Run).
THEOREM Inductive == Spec => []IInv
<1>1. Init => IInv
  <2> SUFFICES ASSUME Init PROVE IInv
    OBVIOUS
  <2>1. /\ eng = NoRun /\ ctx = EmptyContext /\ facts = [storing |-> 0, found |-> 0]
        /\ inbox = <<>> /\ submitted = 0 /\ transcript = <<>> /\ req = Idle /\ sent = {}
    BY DEF Init, EngineInit
  <2>2. eng.phase = "none" /\ req.phase = "idle" /\ facts \in Facts
    BY <2>1 DEF NoRun, Idle, Facts
  <2>3. EngineInv
    BY <2>1, <2>2, EmptyContextType DEF EngineInv, EngineType, ThinksCounted, ContextKept
  <2>4. DOMAIN inbox = {} /\ DOMAIN transcript = {} /\ inbox \in Seq([kind : Kinds, n : Nat]) /\ transcript \in Seq(Lines)
    BY <2>1
  <2>5. SessionType
    BY <2>1, <2>2, <2>4 DEF SessionType, RequestType
  <2>6. InTurn /\ Unreplied /\ Recorded /\ RepliesAreRecorded
    BY <2>1, <2>2, <2>4 DEF InTurn, Unreplied, Recorded, RepliesAreRecorded, Open
  <2> QED BY <2>2, <2>3, <2>5, <2>6 DEF IInv, SessionInv, RunsForRequest
<1>2. IInv /\ [Next]_vars => IInv'
  <2> SUFFICES ASSUME IInv, [Next]_vars PROVE IInv'
    OBVIOUS
  <2>1. EngineInv /\ SessionInv /\ RunsForRequest
    BY DEF IInv
  <2>2. CASE \/ \E kind \in Kinds, meta \in {"sourced", "bare"} : Submit(kind, meta)
             \/ Execute \/ EndSubTasks \/ HandleClear \/ HandleModel \/ HandleCommand
             \/ Persist \/ Send \/ Finish
    BY <2>2, RequestStep
  <2>3. CASE \/ \E goal \in Goals, tools \in Registries : HandleRequest(goal, tools)
             \/ ExecuteSimpleTask \/ Decompose \/ StartSubTask \/ EndSubTask \/ EndRun
    BY <2>3, TaskStep
  <2>4. CASE RunStep /\ UNCHANGED kernelVars
    <3>1. EngineInv' /\ eng.phase # "none"
      BY <2>1, <2>4, RunStepKeeps
    <3>2. SessionInv' /\ req' = req
      BY <2>1, <2>4, SessionSame
    <3> QED BY <2>1, <3>1, <3>2 DEF IInv, RunsForRequest
  <2>5. CASE Remember /\ UNCHANGED kernelVars
    <3>1. EngineInv' /\ eng' = eng
      BY <2>1, <2>5, RememberStep
    <3>2. SessionInv' /\ req' = req
      BY <2>1, <2>5, SessionSame
    <3> QED BY <2>1, <3>1, <3>2 DEF IInv, RunsForRequest
  <2>6. CASE UNCHANGED vars
    <3>1. UNCHANGED engineVars /\ UNCHANGED kernelVars
      BY <2>6 DEF vars
    <3>2. SessionInv' /\ req' = req
      BY <2>1, <3>1, SessionSame
    <3> QED BY <3>1, <3>2, EngineUntouched
  <2> QED BY <2>2, <2>3, <2>4, <2>5, <2>6 DEF Next
<1> QED BY <1>1, <1>2, PTL DEF Spec

\* A run thinks at most MaxRetriesPerTurn + 1 times per turn, whatever the model
\* answers and however retries, failed reflections and replans follow each other
\* (Engine.Run).
THEOREM ThoughtsBounded == Spec => []ThinksBounded
<1>1. IInv => ThinksBounded
  <2> SUFFICES ASSUME IInv, Running PROVE eng.thinks <= Allowance(eng.turn + 1)
    BY DEF ThinksBounded, Allowance
  <2>1. EngineType /\ ThinksCounted
    BY DEF IInv, EngineInv
  <2>2. eng \in Runs
    BY <2>1, RunsFacts
  <2>3. /\ eng.turn \in Nat /\ eng.retries \in 0..MaxRetriesPerTurn /\ eng.thinks \in Nat
        /\ eng.phase \in {"plan", "think", "act", "reflect", "replan"}
    BY <2>1, <2>2, RunsFacts
  <2>4. \A n \in Nat : /\ Allowance(n) \in Nat
                       /\ Allowance(n + 1) = Allowance(n) + MaxRetriesPerTurn + 1
    BY AllowanceStep
  <2>5. Allowance(eng.turn) \in Nat /\ Allowance(eng.turn + 1) = Allowance(eng.turn) + MaxRetriesPerTurn + 1
    BY <2>3, <2>4
  <2>6. \/ eng.thinks <= Allowance(eng.turn) + eng.retries
        \/ eng.thinks <= Allowance(eng.turn) + eng.retries + 1
        \/ eng.thinks <= Allowance(eng.turn + 1)
    BY <2>1, <2>3 DEF ThinksCounted
  <2> QED BY <2>3, <2>5, <2>6, EngineAssumption
<1> QED BY <1>1, Inductive, PTL

\* When a turn begins or is reflected on, the context is within the token budget
\* or holds nothing but the plan, for every budget and all costs (Prune).
THEOREM BudgetKept == Spec => []ContextFits
<1>1. IInv => ContextFits
  BY DEF IInv, EngineInv, ContextKept, ContextFits, Fits
<1> QED BY <1>1, Inductive, PTL

\* Every reply the adapter took since the last reset is in the transcript, once
\* and behind its request, and a request that ended without an error was sent
\* (persistAndSend, the command handler).
THEOREM RecordKept == Spec => []RepliesAreRecorded
<1>1. IInv => RepliesAreRecorded
  BY DEF IInv, SessionInv
<1> QED BY <1>1, Inductive, PTL

-----------------------------------------------------------------------------
(* What a request is offered *)

Steps(G, L, S) == \A k \in 1..L : \A s \in S : G[k][s] \in S

Iterates(f, L, S, z, G) ==
  f \in [0..L -> S] /\ f[0] = z /\ \A k \in 1..L : f[k] = G[k][f[k - 1]]

\* A sequence of values built step by step: G[k] makes the k-th of the one before.
LEMMA IterExists ==
  ASSUME NEW L \in Nat, NEW S, NEW z \in S, NEW G, Steps(G, L, S)
  PROVE  \E f : Iterates(f, L, S, z, G)
<1> USE DEF Steps
<1> DEFINE Upto(f, m) == Iterates(f, m, S, z, G)
           T == {m \in Nat : m <= L => \E f : Upto(f, m)}
<1>1. 0 \in T
  <2>1. Upto([k \in 0..0 |-> z], 0)
    BY DEF Iterates
  <2> QED BY <2>1
<1>2. \A m \in Nat : m \in T => m + 1 \in T
  <2> HIDE DEF Upto, Steps
  <2> SUFFICES ASSUME NEW m \in Nat, m <= L => \E f : Upto(f, m), m + 1 <= L
               PROVE  \E g : Upto(g, m + 1)
    OBVIOUS
  <2> USE DEF Upto, Iterates, Steps
  <2>1. PICK f : Upto(f, m)
    OBVIOUS
  <2> DEFINE last == G[m + 1][f[m]]
             g == [k \in 0..(m + 1) |-> IF k <= m THEN f[k] ELSE last]
  <2>2. last \in S
    <3>1. m + 1 \in 1..L /\ f[m] \in S
      BY <2>1
    <3> QED BY <3>1
  <2> HIDE DEF last
  <2>3. g \in [0..(m + 1) -> S] /\ g[0] = z
    BY <2>1, <2>2
  <2>4. ASSUME NEW k \in 1..(m + 1) PROVE g[k] = G[k][g[k - 1]]
    <3>1. CASE k <= m
      BY <2>1, <3>1
    <3>2. CASE k = m + 1
      <4>1. g[k] = last /\ k - 1 = m /\ g[m] = f[m]
        BY <3>2
      <4> QED BY <3>2, <4>1 DEF last
    <3> QED BY <3>1, <3>2
  <2> HIDE DEF g
  <2> QED BY <2>3, <2>4
<1> HIDE DEF T
<1>3. Nat \subseteq T
  BY <1>1, <1>2, NatInd
<1>4. L \in T
  BY <1>3
<1> QED BY <1>4 DEF T

\* What holds of the first and is kept from each to the next holds of all.
LEMMA IterInvariant ==
  ASSUME NEW L \in Nat, NEW f, NEW P,
         f[0] \in P[0], \A k \in 1..L : f[k - 1] \in P[k - 1] => f[k] \in P[k]
  PROVE  \A k \in 0..L : f[k] \in P[k]
<1> DEFINE T == {m \in Nat : m <= L => f[m] \in P[m]}
<1>1. 0 \in T
  OBVIOUS
<1>2. \A m \in Nat : m \in T => m + 1 \in T
  <2> SUFFICES ASSUME NEW m \in Nat, m <= L => f[m] \in P[m], m + 1 <= L PROVE f[m + 1] \in P[m + 1]
    OBVIOUS
  <2>1. m + 1 \in 1..L /\ (m + 1) - 1 = m /\ m <= L
    OBVIOUS
  <2> QED BY <2>1
<1> HIDE DEF T
<1>3. Nat \subseteq T
  BY <1>1, <1>2, NatInd
<1> QED BY <1>3 DEF T

\* An order of a finite set has every element of it.
LEMMA OrderCovers ==
  ASSUME NEW T, IsFiniteSet(T), NEW r \in SetToSeqs(T)
  PROVE  /\ Cardinality(T) \in Nat /\ r \in [1..Cardinality(T) -> T]
         /\ Len(r) = Cardinality(T) /\ \A t \in T : \E n \in 1..Len(r) : r[n] = t
<1> DEFINE N == Cardinality(T)
<1>1. N \in Nat
  BY FS_CardinalityType
<1>2. r \in [1..N -> T] /\ \A i, j \in 1..N : i # j => r[i] # r[j]
  BY DEF SetToSeqs
<1>3. r \in Injection(1..N, T)
  BY <1>2 DEF Injection, IsInjective
<1>4. Cardinality(1..N) = N
  BY <1>1, FS_Interval
<1>5. r \in Surjection(1..N, T)
  <2> HIDE DEF N
  <2>1. Cardinality(1..N) = Cardinality(T)
    BY <1>4 DEF N
  <2> QED BY <1>3, <2>1, FS_Injection
<1>6. \A t \in T : \E n \in 1..N : r[n] = t
  BY <1>5 DEF Surjection
<1>7. Len(r) = N
  BY <1>1, <1>2
<1> QED BY <1>1, <1>2, <1>6, <1>7

\* The scores of tools, before and after the risk is considered.
LEMMA ScoreFacts ==
  ASSUME NEW goal \in Goals, NEW t
  PROVE  /\ Match(t, goal) \in Nat /\ RiskPenalty(t.risk) \in {0, 2, 6}
         /\ goal.tokens \cap Mutating = {} =>
              /\ scoreCapability(t, goal) \in Int
              /\ scoreCapability(t, goal) >= Match(t, goal) - RiskPenalty(t.risk)
              /\ scoreCapability(t, goal) <= Match(t, goal) - RiskPenalty(t.risk) + 1
<1>1. IsFiniteSet(goal.tokens)
  BY OfferAssumption
<1>2. ASSUME NEW T PROVE Cardinality(T \cap goal.tokens) \in Nat
  <2>1. IsFiniteSet(T \cap goal.tokens)
    <3>1. T \cap goal.tokens \subseteq goal.tokens
      OBVIOUS
    <3> QED BY <1>1, <3>1, FS_Subset
  <2> QED BY <2>1, FS_CardinalityType
<1>3. RiskPenalty(t.risk) \in {0, 2, 6}
  BY DEF RiskPenalty
<1>4. Match(t, goal) \in Nat
  <2>1. PICK a, b, x, y : /\ a = Cardinality(Tags(t) \cap goal.tokens) /\ b = Cardinality(t.capTokens \cap goal.tokens)
                          /\ x = (IF t.name \in goal.names THEN 10 ELSE 0)
                          /\ y = (IF goal.path /\ "file" \in t.capTokens THEN 6 ELSE 0)
    OBVIOUS
  <2>2. a \in Nat /\ b \in Nat
    BY <1>2, <2>1
  <2>3. x \in Nat /\ y \in Nat
    BY <2>1
  <2>4. Match(t, goal) = 4 * a + 6 * b + x + y
    BY <2>1 DEF Match
  <2> QED BY <2>2, <2>3, <2>4
<1>5. ASSUME goal.tokens \cap Mutating = {}
      PROVE  /\ scoreCapability(t, goal) \in Int
             /\ scoreCapability(t, goal) >= Match(t, goal) - RiskPenalty(t.risk)
             /\ scoreCapability(t, goal) <= Match(t, goal) - RiskPenalty(t.risk) + 1
  <2>1. PICK q, m, p : q = (SourceOf(t) \in {"builtin", "runtime"}) /\ m = Match(t, goal) /\ p = RiskPenalty(t.risk)
    OBVIOUS
  <2>2. scoreCapability(t, goal) = m - p \/ (m - p = 0 /\ scoreCapability(t, goal) = 1)
    BY <1>5, <2>1 DEF scoreCapability
  <2> QED BY <1>3, <1>4, <2>1, <2>2
<1> QED BY <1>3, <1>4, <1>5

\* SelectWithMetadata: a tool that is left out is no better than one that is not.
LEMMA ToolsSound ==
  ASSUME NEW goal \in Goals, NEW tools \in Registries, NEW offered \in SelectTools(goal, tools),
         goal.tokens \cap Mutating = {},
         NEW i \in DOMAIN offered, NEW u \in Range(tools), ~Contains(offered, u),
         RiskPenalty(u.risk) < RiskPenalty(offered[i].risk)
  PROVE  Match(offered[i], goal) > Match(u, goal)
<1>1. tools \in Seq(Range(tools)) /\ IsInjective(tools)
  BY OfferAssumption
<1>2. PICK R, L : R = Range(tools) /\ L = Len(tools)
  OBVIOUS
<1>3. tools \in [1..L -> R] /\ L \in Nat /\ \A x \in R : \E n \in 1..L : tools[n] = x
  BY <1>1, <1>2 DEF Range
<1>4. offered # tools
  <2>1. Contains(tools, u)
    BY <1>2, <1>3 DEF Contains
  <2> QED BY <2>1
<1>5. ~(MaxToolsPerTurn <= 0 \/ L <= MaxToolsPerTurn)
  BY <1>2, <1>4 DEF SelectTools
<1>6. MaxToolsPerTurn \in Nat /\ MaxToolsPerTurn < L
  BY <1>3, <1>5, SelectionAssumption
<1>7. PICK r \in ToolRankings(goal, tools) : offered = SubSeq(r, 1, MaxToolsPerTurn)
  BY <1>2, <1>5 DEF SelectTools
<1>8. IsFiniteSet(R) /\ Cardinality(R) = L
  <2>1. IsFiniteSet(1..L) /\ Cardinality(1..L) = L
    BY <1>3, FS_Interval
  <2>2. tools \in Surjection(1..L, R)
    BY <1>3 DEF Surjection
  <2>3. tools \in Injection(1..L, R)
    BY <1>1, <1>3 DEF Injection
  <2> QED BY <2>1, <2>2, <2>3, FS_Surjection
<1>9. r \in SetToSeqs(R)
  BY <1>2 DEF ToolRankings
<1>10. r \in [1..L -> R] /\ \A x \in R : \E n \in 1..L : r[n] = x
  <2>1. /\ Cardinality(R) \in Nat /\ r \in [1..Cardinality(R) -> R]
        /\ Len(r) = Cardinality(R) /\ \A t \in R : \E n \in 1..Len(r) : r[n] = t
    BY <1>8, <1>9, OrderCovers
  <2> QED BY <1>8, <2>1
<1>11. PICK j \in 1..L : r[j] = u
  BY <1>2, <1>10
<1>12. /\ r \in Seq(R) /\ Len(r) = L
       /\ Len(offered) = MaxToolsPerTurn /\ DOMAIN offered = 1..MaxToolsPerTurn
       /\ \A n \in 1..MaxToolsPerTurn : offered[n] = r[n]
  BY <1>3, <1>6, <1>7, <1>10
<1>13. j > MaxToolsPerTurn
  BY <1>6, <1>11, <1>12 DEF Contains
<1>14. i \in 1..L /\ i < j /\ offered[i] = r[i]
  BY <1>3, <1>6, <1>12, <1>13
<1>15. ~(scoreCapability(u, goal) > scoreCapability(offered[i], goal))
  BY <1>10, <1>11, <1>14 DEF ToolRankings
<1>16. PICK t : t = offered[i]
  OBVIOUS
<1>17. /\ Match(t, goal) \in Nat /\ Match(u, goal) \in Nat
       /\ RiskPenalty(t.risk) \in {0, 2, 6} /\ RiskPenalty(u.risk) \in {0, 2, 6}
       /\ scoreCapability(t, goal) \in Int /\ scoreCapability(u, goal) \in Int
       /\ scoreCapability(t, goal) <= Match(t, goal) - RiskPenalty(t.risk) + 1
       /\ scoreCapability(u, goal) >= Match(u, goal) - RiskPenalty(u.risk)
  BY ScoreFacts
<1>18. RiskPenalty(t.risk) - RiskPenalty(u.risk) >= 2
  BY <1>16, <1>17
<1>19. Match(t, goal) > Match(u, goal)
  BY <1>15, <1>16, <1>17, <1>18
<1> QED BY <1>16, <1>19

Skills == DOMAIN SkillRegistry

\* A choice of skills: each once, within the limit.
Selections == {c \in Seq(Skills) : IsInjective(c) /\ Len(c) <= SkillLimit}

Extends(a, c) == Len(c) <= Len(a) /\ \A q \in 1..Len(c) : a[q] = c[q]

\* Lists that each extend the one before extend all before.
LEMMA ExtendsAll ==
  ASSUME NEW L \in Nat, NEW c,
         \A k \in 0..L : Len(c[k]) \in Nat, \A k \in 1..L : Extends(c[k], c[k - 1]),
         NEW j \in 0..L, NEW m \in 0..L, j <= m
  PROVE  Extends(c[m], c[j])
<1> DEFINE E(k) == {a \in {c[k]} : k >= j => Extends(a, c[j])}
           Q == [k \in 0..L |-> E(k)]
<1>1. \A k \in 0..L : c[k] \in Q[k] <=> (k >= j => Extends(c[k], c[j]))
  OBVIOUS
<1>2. c[0] \in Q[0]
  <2>1. 0 \in 0..L /\ (0 >= j => j = 0)
    OBVIOUS
  <2>2. Extends(c[0], c[0])
    BY <2>1 DEF Extends
  <2> HIDE DEF Q
  <2> QED BY <1>1, <2>1, <2>2
<1>3. ASSUME NEW k \in 1..L, c[k - 1] \in Q[k - 1] PROVE c[k] \in Q[k]
  <2> HIDE DEF Q
  <2>1. k \in 0..L /\ k - 1 \in 0..L
    OBVIOUS
  <2>2. Len(c[j]) \in Nat /\ Len(c[k - 1]) \in Nat /\ Len(c[k]) \in Nat
    BY <2>1
  <2>3. CASE k < j
    BY <1>1, <2>1, <2>3
  <2>4. CASE k = j
    <3>1. Extends(c[j], c[j])
      BY <2>2 DEF Extends
    <3> QED BY <1>1, <2>1, <2>4, <3>1
  <2>5. CASE k > j
    <3>1. k - 1 >= j
      BY <2>5
    <3>2. Extends(c[k - 1], c[j])
      BY <1>1, <1>3, <2>1, <3>1
    <3>3. Extends(c[k], c[k - 1])
      OBVIOUS
    <3>4. Extends(c[k], c[j])
      BY <2>2, <3>2, <3>3 DEF Extends
    <3> QED BY <1>1, <2>1, <3>4
  <2> QED BY <2>3, <2>4, <2>5
<1> HIDE DEF Q
<1>4. \A k \in 0..L : c[k] \in Q[k]
  BY <1>2, <1>3, IterInvariant
<1> QED BY <1>1, <1>4

\* A skill is added at the end, unless it is there or the limit is reached.
Added(c, x, a) ==
  /\ a \in Selections /\ Extends(a, c)
  /\ \A q \in 1..Len(a) : q \in 1..Len(c) \/ a[q] = x
  /\ x # NoSkill => Contains(a, x) \/ Len(a) = SkillLimit

LEMMA AddStep ==
  ASSUME NEW c \in Selections, NEW x \in Skills \cup {NoSkill}, NEW a, a = add(c, x)
  PROVE  Added(c, x, a)
<1>1. /\ c \in Seq(Skills) /\ Len(c) \in Nat /\ DOMAIN c = 1..Len(c) /\ Len(c) <= SkillLimit
      /\ \A i, j \in DOMAIN c : c[i] = c[j] => i = j
  BY DEF Selections, IsInjective
<1>2. SkillLimit \in Nat
  BY SelectionAssumption
<1>3. CASE x = NoSkill \/ Contains(c, x) \/ Len(c) >= SkillLimit
  <2>1. a = c
    BY <1>3 DEF add
  <2>2. x # NoSkill => Contains(a, x) \/ Len(a) = SkillLimit
    <3>1. Len(c) >= SkillLimit => Len(c) = SkillLimit
      <4>1. PICK l : l = Len(c)
        OBVIOUS
      <4>2. l \in Nat /\ l <= SkillLimit
        BY <1>1, <4>1
      <4>3. l >= SkillLimit => l = SkillLimit
        BY ONLY <1>2, <4>2
      <4> QED BY <4>1, <4>3
    <3> QED BY <1>3, <2>1, <3>1, Zenon
  <2> QED BY <1>1, <2>1, <2>2 DEF Added, Extends
<1>4. CASE ~(x = NoSkill \/ Contains(c, x) \/ Len(c) >= SkillLimit)
  <2>1. a = Append(c, x) /\ x \in Skills
    BY <1>4 DEF add
  <2>2. \A i \in 1..Len(c) : c[i] # x
    BY <1>4 DEF Contains
  <2>3. /\ a \in Seq(Skills) /\ Len(a) = Len(c) + 1 /\ DOMAIN a = 1..(Len(c) + 1)
        /\ a[Len(c) + 1] = x /\ \A q \in 1..Len(c) : a[q] = c[q]
    BY <1>1, <2>1
  <2>4. Len(a) <= SkillLimit
    BY <1>1, <1>2, <1>4, <2>3
  <2>5. \A q \in 1..Len(a) : q \in 1..Len(c) \/ q = Len(c) + 1
    BY <1>1, <2>3
  <2>6. IsInjective(a)
    <3> SUFFICES ASSUME NEW i \in 1..Len(a), NEW j \in 1..Len(a), a[i] = a[j] PROVE i = j
      BY <2>3 DEF IsInjective
    <3> QED BY <1>1, <2>2, <2>3, <2>5
  <2>7. Contains(a, x)
    <3>1. Len(c) + 1 \in 1..Len(a)
      BY <1>1, <2>3
    <3> QED BY <2>3, <3>1 DEF Contains
  <2>8. Extends(a, c)
    BY <1>1, <2>3 DEF Extends
  <2> QED BY <2>3, <2>4, <2>5, <2>6, <2>7, <2>8 DEF Added, Selections
<1> QED BY <1>3, <1>4

\* The choices selectSkills makes one after the other.
Selects(c, names) ==
  /\ c[0] = <<>> /\ c[Len(names)] = Chosen(names)
  /\ \A k \in 0..Len(names) : c[k] \in Selections
  /\ \A k \in 1..Len(names) : Added(c[k - 1], names[k], c[k])

LEMMA ChosenSteps ==
  ASSUME NEW names \in Seq(Skills \cup {NoSkill})
  PROVE  \E c : Selects(c, names)
<1> DEFINE L == Len(names)
           S == Selections
           z == <<>>
           G == [k \in 1..L |-> [s \in S |-> add(s, names[k])]]
<1>1. L \in Nat /\ \A k \in 1..L : names[k] \in Skills \cup {NoSkill}
  OBVIOUS
<1>2. z \in S
  <2>1. z \in Seq(Skills) /\ Len(z) = 0 /\ DOMAIN z = {}
    OBVIOUS
  <2>2. 0 <= SkillLimit
    BY SelectionAssumption
  <2> HIDE DEF z
  <2> QED BY <2>1, <2>2 DEF Selections, IsInjective
<1>3. \A k \in 1..L : \A s \in S : G[k][s] = add(s, names[k])
  OBVIOUS
<1>4. \A k \in 1..L : \A s \in S : Added(s, names[k], add(s, names[k]))
  BY <1>1, AddStep
<1>5. \A k \in 1..L : \A s \in S : add(s, names[k]) \in S
  BY <1>4 DEF Added
<1> HIDE DEF G, S, z, L
<1>6. Steps(G, L, S)
  BY <1>3, <1>5 DEF Steps
<1>7. PICK f : Iterates(f, L, S, z, G)
  BY <1>1, <1>2, <1>6, IterExists
<1>8. f \in [0..L -> S] /\ f[0] = z /\ \A k \in 1..L : f[k] = G[k][f[k - 1]]
  BY <1>7 DEF Iterates
<1> DEFINE Step(g, n) == IF n = 0 THEN z ELSE add(g[n - 1], names[n])
           c == CHOOSE g : g = [n \in 0..L |-> Step(g, n)]
<1>9. f = [n \in 0..L |-> Step(f, n)]
  <2>1. ASSUME NEW n \in 0..L PROVE f[n] = Step(f, n)
    <3>1. CASE n = 0
      BY <1>8, <3>1
    <3>2. CASE n # 0
      <4>1. n \in 1..L /\ n - 1 \in 0..L
        BY <1>1, <3>2
      <4> QED BY <1>3, <1>8, <3>2, <4>1
    <3> QED BY <3>1, <3>2
  <2> HIDE DEF Step
  <2> QED BY <1>8, <2>1
<1>10. c = [n \in 0..L |-> Step(c, n)]
  <2> HIDE DEF Step
  <2> QED BY <1>9
<1>11. Chosen(names) = c[L]
  BY DEF Chosen, z, L
<1> HIDE DEF c
<1>12. c[0] = z /\ \A n \in 1..L : c[n] = add(c[n - 1], names[n])
  <2>1. \A n \in 0..L : c[n] = Step(c, n)
    <3> HIDE DEF Step
    <3> QED BY <1>10
  <2>2. 0 \in 0..L /\ \A n \in 1..L : n \in 0..L /\ n # 0
    BY <1>1
  <2> QED BY <2>1, <2>2
<1> DEFINE P == [k \in 0..L |-> S]
<1>13. \A k \in 0..L : c[k] \in P[k]
  <2>1. c[0] \in P[0]
    BY <1>1, <1>2, <1>12
  <2>2. ASSUME NEW k \in 1..L, c[k - 1] \in P[k - 1] PROVE c[k] \in P[k]
    <3>1. k \in 0..L /\ k - 1 \in 0..L
      BY <1>1
    <3>2. c[k - 1] \in S
      BY <2>2, <3>1
    <3> QED BY <1>5, <1>12, <3>1, <3>2
  <2> HIDE DEF P
  <2> QED BY <1>1, <2>1, <2>2, IterInvariant
<1>14. \A k \in 0..L : c[k] \in S
  BY <1>13
<1>15. ASSUME NEW k \in 1..L PROVE Added(c[k - 1], names[k], c[k])
  <2>1. c[k - 1] \in S
    <3>1. k - 1 \in 0..L
      BY <1>1
    <3> QED BY <1>14, <3>1
  <2> QED BY <1>4, <1>12, <2>1
<1>16. Selects(c, names)
  BY <1>11, <1>12, <1>14, <1>15 DEF Selects, L, S, z
<1> QED BY <1>16

\* What a choice owes to the first names: its first skills, and those names
\* themselves unless the limit was reached.
Owes(a, names, K, n) ==
  /\ a \in Selections /\ n \in Nat /\ n <= Len(a)
  /\ \A q \in 1..n : \E p \in 1..K : a[q] = names[p]
  /\ \A p \in 1..K : names[p] # NoSkill => n = SkillLimit \/ \E q \in 1..n : a[q] = names[p]

LEMMA ChosenFacts ==
  ASSUME NEW names \in Seq(Skills \cup {NoSkill}), NEW K \in 0..Len(names)
  PROVE  \E n : Owes(Chosen(names), names, K, n)
<1>1. PICK c : Selects(c, names)
  BY ChosenSteps
<1>2. PICK L : L = Len(names) /\ L \in Nat
  OBVIOUS
<1>3. /\ c[0] = <<>> /\ c[L] = Chosen(names)
      /\ \A k \in 0..L : c[k] \in Selections
      /\ \A k \in 1..L : Added(c[k - 1], names[k], c[k])
  BY <1>1, <1>2 DEF Selects
<1>4. /\ \A k \in 0..L : Len(c[k]) \in Nat /\ Len(c[k]) <= SkillLimit
      /\ \A k \in 1..L : k \in 0..L /\ k - 1 \in 0..L
  BY <1>2, <1>3 DEF Selections
<1> DEFINE From(k) == {a \in Selections : \A q \in 1..Len(a) : \E p \in 1..k : a[q] = names[p]}
           P == [k \in 0..L |-> From(k)]
<1>5. \A k \in 0..L : c[k] \in P[k]
  <2>1. c[0] \in P[0]
    <3>1. Len(c[0]) = 0 /\ 0 \in 0..L
      BY <1>2, <1>3
    <3>2. c[0] \in From(0)
      BY <1>3, <3>1
    <3> HIDE DEF From
    <3> QED BY <3>1, <3>2
  <2>2. ASSUME NEW k \in 1..L, c[k - 1] \in P[k - 1] PROVE c[k] \in P[k]
    <3>1. k \in 0..L /\ k - 1 \in 0..L
      BY <1>4
    <3>2. P[k] = From(k) /\ P[k - 1] = From(k - 1)
      <4> HIDE DEF From
      <4> QED BY <3>1
    <3>3. \A q \in 1..Len(c[k - 1]) : \E p \in 1..(k - 1) : c[k - 1][q] = names[p]
      BY <2>2, <3>2
    <3>4. 1..(k - 1) \subseteq 1..k /\ k \in 1..k
      BY <1>2
    <3>5. /\ \A q \in 1..Len(c[k]) : q \in 1..Len(c[k - 1]) \/ c[k][q] = names[k]
          /\ \A q \in 1..Len(c[k - 1]) : c[k][q] = c[k - 1][q]
      BY <1>3 DEF Added, Extends
    <3>6. c[k] \in From(k)
      BY <1>3, <3>1, <3>3, <3>4, <3>5
    <3> HIDE DEF From
    <3> QED BY <3>2, <3>6
  <2> HIDE DEF P
  <2> QED BY <1>2, <2>1, <2>2, IterInvariant
<1>6. \A k \in 0..L : \A q \in 1..Len(c[k]) : \E p \in 1..k : c[k][q] = names[p]
  <2>1. \A k \in 0..L : c[k] \in From(k)
    <3> HIDE DEF From
    <3> QED BY <1>5
  <2> QED BY <2>1
<1>7. ASSUME NEW j \in 0..L, NEW m \in 0..L, j <= m PROVE Extends(c[m], c[j])
  <2>1. (\A k \in 0..L : Len(c[k]) \in Nat) /\ \A k \in 1..L : Extends(c[k], c[k - 1])
    BY <1>3, <1>4 DEF Added
  <2> QED BY <1>2, <1>7, <2>1, ExtendsAll
<1>8. PICK n : n = Len(c[K])
  OBVIOUS
<1>9. K \in 0..L /\ L \in 0..L /\ K <= L /\ n \in Nat /\ n <= SkillLimit /\ SkillLimit \in Nat
  <2>1. K \in 0..L /\ L \in 0..L /\ K <= L
    BY <1>2
  <2> QED BY <1>4, <1>8, <2>1, SelectionAssumption
<1>10. n <= Len(c[L]) /\ \A q \in 1..n : c[L][q] = c[K][q]
  <2>1. Extends(c[L], c[K])
    BY <1>7, <1>9
  <2> QED BY <1>8, <2>1 DEF Extends
<1>11. \A q \in 1..n : \E p \in 1..K : c[L][q] = names[p]
  BY <1>6, <1>8, <1>9, <1>10
<1>12. ASSUME NEW p \in 1..K, names[p] # NoSkill
       PROVE  n = SkillLimit \/ \E q \in 1..n : c[L][q] = names[p]
  <2>1. p \in 1..L /\ p \in 0..L /\ p <= K
    BY <1>2, <1>9
  <2>2. Contains(c[p], names[p]) \/ Len(c[p]) = SkillLimit
    BY <1>3, <1>12, <2>1 DEF Added
  <2>3. Len(c[p]) <= n /\ \A q \in 1..Len(c[p]) : c[K][q] = c[p][q]
    <3>1. Extends(c[K], c[p])
      BY <1>7, <1>9, <2>1
    <3> QED BY <1>8, <3>1 DEF Extends
  <2>4. Len(c[p]) \in Nat
    BY <1>4, <2>1
  <2>5. CASE Len(c[p]) = SkillLimit
    BY <1>9, <2>3, <2>5
  <2>6. CASE Contains(c[p], names[p])
    <3>1. PICK q \in 1..Len(c[p]) : c[p][q] = names[p]
      BY <2>6 DEF Contains
    <3>2. q \in 1..n
      BY <1>9, <2>3, <2>4
    <3> QED BY <1>10, <2>3, <3>1, <3>2
  <2> QED BY <2>2, <2>5, <2>6
<1>13. c[L] \in Selections
  BY <1>3, <1>9
<1>14. Owes(c[L], names, K, n)
  BY <1>9, <1>10, <1>11, <1>12, <1>13 DEF Owes
<1> QED BY <1>3, <1>14

\* The skills of a choice are distinct, and those before a mentioned one are
\* what mentions were resolved to.
SkillsAreSound(goal, skills) ==
  /\ IsInjective(skills)
  /\ \A i, j \in DOMAIN skills :
       Contains(goal.mentions, skills[j]) /\ i < j =>
         \E m \in Range(goal.mentions) : skills[i] \in Resolutions(m)

LEMMA SkillsSound ==
  ASSUME NEW goal \in Goals, NEW skills \in SkillChoices(goal)
  PROVE  SkillsAreSound(goal, skills)
<1>1. PICK ms : ms = goal.mentions
  OBVIOUS
<1>2. ms \in Seq(Range(ms))
  BY <1>1, OfferAssumption
<1>3. PICK M : M = Len(ms)
  OBVIOUS
<1>4. M \in Nat /\ DOMAIN ms = 1..M
  BY <1>2, <1>3
<1>5. PICK f \in Named(goal), r \in Rankings(goal.text) : skills = Chosen(f \o r)
  BY DEF SkillChoices
<1>6. f \in [1..M -> Skills \cup {NoSkill}] /\ \A p \in 1..M : f[p] \in Resolutions(ms[p])
  BY <1>1, <1>4, <1>5 DEF Named, Skills
<1>7. f \in Seq(Skills \cup {NoSkill}) /\ Len(f) = M
  BY <1>4, <1>6
<1>8. r \in Seq(Skills)
  <2> DEFINE T == {s \in DOMAIN SkillRegistry : Relevance(s, goal.text) > 0}
  <2>1. r \in SetToSeqs(T) /\ T \subseteq Skills
    BY <1>5 DEF Rankings, Skills
  <2>2. IsFiniteSet(T)
    <3> HIDE DEF T
    <3>1. IsFiniteSet(Skills)
      BY SelectionAssumption DEF Skills
    <3> QED BY <2>1, <3>1, FS_Subset
  <2> HIDE DEF T
  <2>3. Cardinality(T) \in Nat /\ r \in [1..Cardinality(T) -> T]
    BY <2>1, <2>2, OrderCovers
  <2> QED BY <2>1, <2>3
<1>9. PICK names : names = f \o r
  OBVIOUS
<1>10. /\ names \in Seq(Skills \cup {NoSkill}) /\ M \in 0..Len(names)
       /\ \A p \in 1..M : names[p] = f[p]
  <2>1. r \in Seq(Skills \cup {NoSkill}) /\ Len(r) \in Nat
    BY <1>8
  <2> QED BY <1>4, <1>7, <1>9, <2>1
<1>11. PICK n : Owes(skills, names, M, n)
  BY <1>5, <1>9, <1>10, ChosenFacts
<1>12. /\ skills \in Seq(Skills) /\ IsInjective(skills) /\ Len(skills) <= SkillLimit
       /\ n \in Nat /\ n <= Len(skills)
       /\ \A q \in 1..n : \E p \in 1..M : skills[q] = names[p]
       /\ \A p \in 1..M : names[p] # NoSkill => n = SkillLimit \/ \E q \in 1..n : skills[q] = names[p]
  BY <1>11 DEF Owes, Selections
<1>13. DOMAIN skills = 1..Len(skills) /\ Len(skills) \in Nat /\ SkillLimit \in Nat
  BY <1>12, SelectionAssumption
<1>14. ASSUME NEW i \in 1..Len(skills), NEW j \in 1..Len(skills), Contains(ms, skills[j]), i < j
       PROVE  \E m \in Range(ms) : skills[i] \in Resolutions(m)
  <2>1. CASE i <= n
    <3>1. PICK p \in 1..M : skills[i] = names[p]
      BY <1>12, <1>13, <2>1
    <3>2. ms[p] \in Range(ms)
      BY <1>4 DEF Range
    <3> QED BY <1>6, <1>10, <3>1, <3>2
  <2>2. CASE i > n
    <3>1. PICK p \in 1..M : ms[p] = skills[j]
      BY <1>3, <1>14 DEF Contains
    <3>2. skills[j] \in Skills /\ skills[j] # NoSkill
      BY <1>12, SelectionAssumption DEF Skills
    <3>3. Resolutions(ms[p]) = {skills[j]}
      BY <3>1, <3>2 DEF Resolutions, Skills
    <3>4. names[p] = skills[j]
      BY <1>6, <1>10, <3>3
    <3>5. n # SkillLimit
      BY <1>12, <1>13, <2>2
    <3>6. PICK q \in 1..n : skills[q] = skills[j]
      BY <1>12, <3>2, <3>4, <3>5
    <3>7. q \in DOMAIN skills /\ j \in DOMAIN skills /\ q # j
      BY <1>12, <1>13, <1>14, <2>2
    <3> QED BY <1>12, <3>6, <3>7 DEF IsInjective
  <2> QED BY <1>12, <1>13, <2>1, <2>2
<1> QED BY <1>1, <1>12, <1>13, <1>14 DEF SkillsAreSound

\* HandleRequest offers what SelectWithMetadata and selectSkills chose.
LEMMA OfferStep ==
  ASSUME NEW goal \in Goals, NEW tools \in Registries, HandleRequest(goal, tools)
  PROVE  OfferIsSound'
<1>1. PICK offered \in SelectTools(goal, tools), skills \in SkillChoices(goal) :
        req' = [phase |-> "offer", n |-> req.n, goal |-> goal, registry |-> tools,
                tools |-> offered, skills |-> skills]
  BY DEF HandleRequest
<1>2. /\ req'.goal = goal /\ req'.registry = tools /\ req'.tools = offered /\ req'.skills = skills
  BY <1>1
<1>3. SkillsAreSound(goal, skills)
  BY SkillsSound
<1>4. ASSUME goal.tokens \cap Mutating = {}, NEW i \in DOMAIN offered, NEW u \in Range(tools),
             ~Contains(offered, u), RiskPenalty(u.risk) < RiskPenalty(offered[i].risk)
      PROVE  Match(offered[i], goal) > Match(u, goal)
  BY <1>4, ToolsSound
<1> QED BY <1>2, <1>3, <1>4 DEF OfferIsSound, SkillsAreSound

\* A request stays as it is, or it leaves the phase in which it has an offer.
LEMMA OfferKept ==
  ASSUME IInv, OfferIsSound, [Next]_vars
  PROVE  OfferIsSound'
<1>1. CASE UNCHANGED req
  BY <1>1 DEF OfferIsSound
<1>2. CASE req'.phase # "offer"
  BY <1>2 DEF OfferIsSound
<1>3. CASE \E goal \in Goals, tools \in Registries : HandleRequest(goal, tools)
  BY <1>3, OfferStep
<1>4. CASE \E kind \in Kinds, meta \in {"sourced", "bare"} : Submit(kind, meta)
  BY <1>1, <1>4 DEF Submit
<1>5. CASE Execute
  <2>1. UNCHANGED req \/ (\E n : \E x \in {"clear", "model", "command", "context"} : req' = [phase |-> x, n |-> n])
    BY <1>5 DEF Execute
  <2> QED BY <1>1, <1>2, <2>1
<1>6. CASE ExecuteSimpleTask
  BY <1>2, <1>6 DEF ExecuteSimpleTask
<1>7. CASE Decompose
  <2>1. req'.phase = "returned" \/ req'.phase = "subtasks"
    <3>1. \/ req' = [phase |-> "returned", n |-> req.n, outcome |-> "error"]
          \/ req' = [phase |-> "subtasks", n |-> req.n, left |-> MaxSubTasks]
      BY <1>7, Zenon DEF Decompose, Return
    <3> QED BY ONLY <3>1
  <2> QED BY <1>2, <2>1
<1>8. CASE StartSubTask
  <2>1. req \in [phase : {"subtasks"}, n : Nat, left : Nat]
    BY <1>8 DEF StartSubTask, IInv, SessionInv, SessionType, RequestType
  <2>2. req'.phase = "subtasks"
    BY <1>8, <2>1 DEF StartSubTask
  <2> QED BY <1>2, <2>2
<1>9. CASE EndSubTask \/ (RunStep /\ UNCHANGED kernelVars) \/ (Remember /\ UNCHANGED kernelVars) \/ UNCHANGED vars
  BY <1>1, <1>9 DEF EndSubTask, kernelVars, vars
<1>10. CASE EndSubTasks \/ EndRun \/ HandleClear \/ HandleModel \/ HandleCommand
  BY <1>2, <1>10 DEF EndSubTasks, EndRun, HandleClear, HandleModel, HandleCommand, Reply, Return
<1>11. CASE Persist \/ Send \/ Finish
  <2>1. req'.phase \in {"returned", "send", "idle"}
    <3>1. CASE Persist
      <4>1. \/ req' = [phase |-> "returned", n |-> req.n, outcome |-> "error"]
            \/ req' = [phase |-> "send", n |-> req.n]
        BY <3>1, Zenon DEF Persist, Return
      <4> QED BY ONLY <4>1
    <3>2. CASE Send \/ Finish
      BY <3>2 DEF Send, Finish, Return, Idle
    <3> QED BY <1>11, <3>1, <3>2
  <2> QED BY <1>2, <2>1
<1> QED BY <1>3, <1>4, <1>5, <1>6, <1>7, <1>8, <1>9, <1>10, <1>11 DEF Next

\* The tools and skills of a request: for a goal that asks for no change a tool
\* is offered in place of a less risky one only if it matches the goal better,
\* whatever scoreCapability's penalty and baseline make of the scores and in
\* whichever order sort.Slice leaves ties (SelectWithMetadata); selectSkills
\* offers no skill twice and nothing unmentioned before a mentioned skill.
THEOREM OfferSound == Spec => []OfferIsSound
<1>1. Init => OfferIsSound
  BY DEF Init, Idle, OfferIsSound
<1>2. IInv /\ OfferIsSound /\ [Next]_vars => OfferIsSound'
  BY OfferKept
<1> QED BY <1>1, <1>2, Inductive, PTL DEF Spec

-----------------------------------------------------------------------------
(* What a thought is sent *)

\* The calls of a message are followed by their results, in order.
Answered(h) ==
  \A i \in DOMAIN h : \A k \in 1..h[i].calls :
    i + k \in DOMAIN h /\ h[i + k].role = "tool" /\ h[i + k].answers = k

\* The result at j belongs to a call of the message that many places before it.
Follows(h, j) ==
  h[j].answers \in 1..(j - 1) /\ h[j].answers <= h[j - h[j].answers].calls

\* The results at the front of what Prune has left may have lost their calls.
Leading(h, j) == \A i \in 1..j : h[i].role = "tool" \/ h[i].prompt

\* A conversation a provider can be sent.
Talk(h, budget) ==
  /\ Answered(h)
  /\ \A j \in DOMAIN h : h[j].role = "tool" => Follows(h, j) \/ (budget > 0 /\ Leading(h, j))
  /\ \A i \in DOMAIN h : h[i].calls > 0 => h[i].role = "assistant" /\ ~h[i].prompt

Plain(h) == \A i \in DOMAIN h : h[i].role # "tool" /\ h[i].calls = 0

LEMMA PlainTalk ==
  ASSUME NEW h, Plain(h), NEW b
  PROVE  Talk(h, b)
<1>1. Answered(h)
  BY DEF Plain, Answered
<1>2. \A i \in DOMAIN h : ~(h[i].calls > 0)
  BY DEF Plain
<1>3. \A i \in DOMAIN h : h[i].role # "tool"
  BY DEF Plain
<1> QED BY <1>1, <1>2, <1>3, Zenon DEF Talk

LEMMA MessagesOf ==
  ASSUME NEW h \in Seq(Messages)
  PROVE  /\ Len(h) \in Nat /\ DOMAIN h = 1..Len(h)
         /\ \A i \in 1..Len(h) : h[i] \in Messages /\ h[i].calls \in Nat /\ h[i].answers \in Nat
<1>1. Len(h) \in Nat /\ DOMAIN h = 1..Len(h) /\ \A i \in 1..Len(h) : h[i] \in Messages
  OBVIOUS
<1>2. \A m \in Messages : m.calls \in Nat /\ m.answers \in Nat
  BY DEF Messages
<1> QED BY <1>1, <1>2

LEMMA TalkFacts ==
  ASSUME NEW h, NEW b, Talk(h, b), NEW L, DOMAIN h = 1..L
  PROVE  /\ \A i \in 1..L : \A k \in 1..h[i].calls :
              i + k \in 1..L /\ h[i + k].role = "tool" /\ h[i + k].answers = k
         /\ \A j \in 1..L : h[j].role = "tool" => Follows(h, j) \/ (b > 0 /\ Leading(h, j))
         /\ \A i \in 1..L : h[i].calls > 0 => h[i].role = "assistant" /\ ~h[i].prompt
BY DEF Talk, Answered

LEMMA Joined ==
  ASSUME NEW S, NEW s \in Seq(S), NEW r \in Seq(S)
  PROVE  /\ s \o r \in Seq(S) /\ Len(s \o r) = Len(s) + Len(r)
         /\ \A i \in 1..Len(s) : (s \o r)[i] = s[i]
         /\ \A k \in 1..Len(r) : (s \o r)[Len(s) + k] = r[k]
OBVIOUS

\* The end of a conversation is one, whatever Prune drops before it.
LEMMA SuffixTalk ==
  ASSUME NEW h \in Seq(Messages), NEW b, b > 0, Talk(h, b), NEW n \in 0..Len(h)
  PROVE  Talk(LastN(h, n), b)
<1>1. PICK g : g = LastN(h, n)
  OBVIOUS
<1>2. /\ Len(h) \in Nat /\ DOMAIN h = 1..Len(h)
      /\ \A i \in 1..Len(h) : h[i] \in Messages /\ h[i].calls \in Nat /\ h[i].answers \in Nat
  BY MessagesOf
<1>3. PICK d : d = Len(h) - n
  OBVIOUS
<1>4. d \in Nat /\ n \in Nat /\ d + n = Len(h)
  BY <1>2, <1>3
<1>5. DOMAIN g = 1..n /\ \A i \in 1..n : g[i] = h[d + i] /\ d + i \in 1..Len(h)
  <2>1. /\ LastN(h, n) \in Seq(Messages) /\ Len(LastN(h, n)) = n
        /\ \A i \in 1..n : LastN(h, n)[i] = h[Len(h) - n + i]
    BY LastNType
  <2>2. DOMAIN g = 1..n
    BY <1>1, <2>1
  <2> QED BY <1>1, <1>2, <1>3, <1>4, <2>1, <2>2
<1>6. /\ \A i \in 1..Len(h) : \A k \in 1..h[i].calls :
           i + k \in 1..Len(h) /\ h[i + k].role = "tool" /\ h[i + k].answers = k
      /\ \A j \in 1..Len(h) : h[j].role = "tool" => Follows(h, j) \/ Leading(h, j)
      /\ \A i \in 1..Len(h) : h[i].calls > 0 => h[i].role = "assistant" /\ ~h[i].prompt
  BY <1>2 DEF Talk, Answered
<1>7. Answered(g)
  <2> SUFFICES ASSUME NEW i \in 1..n, NEW k \in 1..g[i].calls
               PROVE  i + k \in 1..n /\ g[i + k].role = "tool" /\ g[i + k].answers = k
    BY <1>5 DEF Answered
  <2>1. g[i] = h[d + i] /\ d + i \in 1..Len(h)
    BY <1>5
  <2>2. (d + i) + k \in 1..Len(h) /\ h[(d + i) + k].role = "tool" /\ h[(d + i) + k].answers = k
    BY <1>6, <2>1
  <2>3. k \in Nat /\ k >= 1
    BY <1>2, <2>1
  <2>4. i + k \in 1..n /\ d + (i + k) = (d + i) + k
    BY <1>4, <2>2, <2>3
  <2> QED BY <1>5, <2>2, <2>4
<1>8. ASSUME NEW j \in 1..n, g[j].role = "tool" PROVE Follows(g, j) \/ (b > 0 /\ Leading(g, j))
  <2>1. g[j] = h[d + j] /\ d + j \in 1..Len(h)
    BY <1>5
  <2>2. CASE Leading(h, d + j)
    <3>1. ASSUME NEW i \in 1..j PROVE g[i].role = "tool" \/ g[i].prompt
      <4>1. d + i \in 1..(d + j) /\ i \in 1..n
        BY <1>4
      <4>2. g[i] = h[d + i]
        BY <1>5, <4>1
      <4> QED BY <2>2, <4>1, <4>2 DEF Leading
    <3> QED BY <3>1 DEF Leading
  <2>3. CASE Follows(h, d + j)
    <3>1. PICK a : a = g[j].answers
      OBVIOUS
    <3>2. a \in 1..((d + j) - 1) /\ a <= h[(d + j) - a].calls
      <4>1. a = h[d + j].answers
        BY <2>1, <3>1
      <4> QED BY ONLY <2>3, <4>1, Zenon DEF Follows
    <3>3. CASE a < j
      <4>1. j - a \in 1..n /\ a \in 1..(j - 1) /\ d + (j - a) = (d + j) - a
        BY <1>4, <3>2, <3>3
      <4>2. g[j - a] = h[(d + j) - a]
        BY <1>5, <4>1
      <4> QED BY <3>1, <3>2, <4>1, <4>2 DEF Follows
    <3>4. CASE a >= j
      <4>1. ASSUME NEW i \in 1..j PROVE g[i].role = "tool"
        <5>1. PICK e : e = (d + j) - a
          OBVIOUS
        <5>2. PICK k : k = d + i - e
          OBVIOUS
        <5>3. e \in 1..Len(h) /\ k \in Nat /\ k >= 1 /\ k <= a /\ e + k = d + i
          BY <1>2, <1>4, <2>1, <3>2, <3>4, <5>1, <5>2
        <5>4. k \in 1..h[e].calls
          BY <1>2, <3>2, <5>1, <5>3
        <5>5. h[d + i].role = "tool"
          BY <1>6, <5>3, <5>4
        <5>6. i \in 1..n
          BY <1>4
        <5> QED BY <1>5, <5>5, <5>6
      <4> QED BY <4>1 DEF Leading
    <3> QED BY <1>4, <3>2, <3>3, <3>4
  <2> QED BY <1>6, <1>8, <2>1, <2>2, <2>3
<1>9. ASSUME NEW i \in 1..n, g[i].calls > 0 PROVE g[i].role = "assistant" /\ ~g[i].prompt
  BY <1>5, <1>6, <1>9
<1> QED BY <1>1, <1>5, <1>7, <1>8, <1>9 DEF Talk

\* AppendOutputs: the results that follow a message with calls answer them.
LEMMA ResultsTalk ==
  ASSUME NEW h \in Seq(Messages), NEW b, Talk(h, b), NEW m \in Messages,
         m.role = "assistant", ~m.prompt,
         NEW rs \in Seq(Messages), Len(rs) = m.calls,
         \A k \in 1..m.calls : rs[k].role = "tool" /\ rs[k].answers = k /\ rs[k].calls = 0
  PROVE  Talk(Append(h, m) \o rs, b)
<1>1. PICK g : g = Append(h, m) \o rs
  OBVIOUS
<1>2. PICK L, c : L = Len(h) /\ c = m.calls
  OBVIOUS
<1>3. /\ L \in Nat /\ DOMAIN h = 1..L
      /\ \A i \in 1..L : h[i].calls \in Nat /\ h[i].answers \in Nat
  BY <1>2, MessagesOf
<1>4. c \in Nat
  BY <1>2 DEF Messages
<1>5. /\ DOMAIN g = 1..(L + 1 + c)
      /\ \A i \in 1..L : g[i] = h[i]
      /\ g[L + 1] = m
      /\ \A k \in 1..c : g[L + 1 + k] = rs[k]
  <2>1. PICK x : x = Append(h, m)
    OBVIOUS
  <2>2. x \in Seq(Messages) /\ Len(x) = L + 1 /\ x[L + 1] = m /\ \A i \in 1..L : x[i] = h[i]
    BY <1>2, <1>3, <2>1
  <2>3. g = x \o rs /\ Len(rs) = c
    BY <1>1, <1>2, <2>1
  <2>4. DOMAIN g = 1..(L + 1 + c) /\ (\A i \in 1..(L + 1) : g[i] = x[i]) /\ \A k \in 1..c : g[L + 1 + k] = rs[k]
    <3>1. x \in Seq(Messages) /\ rs \in Seq(Messages) /\ Len(x) = L + 1 /\ Len(rs) = c
      BY <2>2, <2>3
    <3>2. /\ x \o rs \in Seq(Messages) /\ Len(x \o rs) = Len(x) + Len(rs)
          /\ \A i \in 1..Len(x) : (x \o rs)[i] = x[i]
          /\ \A k \in 1..Len(rs) : (x \o rs)[Len(x) + k] = rs[k]
      <4>1. x \in Seq(Messages) /\ rs \in Seq(Messages)
        BY <3>1
      <4> QED BY ONLY <4>1, Joined
    <3>3. DOMAIN g = 1..Len(g) /\ Len(g) = L + 1 + c
      BY ONLY <1>3, <1>4, <2>3, <3>1, <3>2
    <3> QED BY <2>3, <3>1, <3>2, <3>3, Zenon
  <2>5. L + 1 \in 1..(L + 1) /\ \A i \in 1..L : i \in 1..(L + 1)
    BY <1>3
  <2> QED BY <2>2, <2>4, <2>5
<1>6. \A i \in 1..(L + 1 + c) : i \in 1..L \/ i = L + 1 \/ \E k \in 1..c : i = L + 1 + k
  <2>1. ASSUME NEW i \in 1..(L + 1 + c), i > L + 1 PROVE i - L - 1 \in 1..c /\ i = L + 1 + (i - L - 1)
    BY <1>3, <1>4, <2>1
  <2> QED BY <1>3, <1>4, <2>1
<1>7. /\ \A i \in 1..L : \A k \in 1..h[i].calls :
           i + k \in 1..L /\ h[i + k].role = "tool" /\ h[i + k].answers = k
      /\ \A j \in 1..L : h[j].role = "tool" => Follows(h, j) \/ (b > 0 /\ Leading(h, j))
      /\ \A i \in 1..L : h[i].calls > 0 => h[i].role = "assistant" /\ ~h[i].prompt
  BY ONLY <1>3, Talk(h, b), TalkFacts
<1>8. \A k \in 1..c : rs[k].role = "tool" /\ rs[k].answers = k /\ rs[k].calls = 0
  BY <1>2
<1>9. Answered(g)
  <2> SUFFICES ASSUME NEW i \in 1..(L + 1 + c), NEW k \in 1..g[i].calls
               PROVE  i + k \in 1..(L + 1 + c) /\ g[i + k].role = "tool" /\ g[i + k].answers = k
    BY <1>5 DEF Answered
  <2>1. CASE i \in 1..L
    <3>1. i + k \in 1..L /\ h[i + k].role = "tool" /\ h[i + k].answers = k
      BY <1>5, <1>7, <2>1
    <3>2. i + k \in 1..(L + 1 + c)
      BY <1>3, <1>4, <3>1
    <3> QED BY <1>5, <3>1, <3>2
  <2>2. CASE i = L + 1
    <3>1. k \in 1..c /\ i + k = L + 1 + k
      BY <1>2, <1>3, <1>5, <2>2
    <3>2. L + 1 + k \in 1..(L + 1 + c)
      BY <1>3, <1>4, <3>1
    <3> QED BY <1>5, <1>8, <3>1, <3>2
  <2>3. CASE \E n \in 1..c : i = L + 1 + n
    <3>1. PICK n \in 1..c : i = L + 1 + n
      BY <2>3
    <3>2. g[i].calls = 0
      BY <1>5, <1>8, <3>1
    <3>3. FALSE
      BY <3>2
    <3> QED BY <3>3
  <2> QED BY <1>6, <2>1, <2>2, <2>3
<1>10. ASSUME NEW j \in 1..(L + 1 + c), g[j].role = "tool"
       PROVE  Follows(g, j) \/ (b > 0 /\ Leading(g, j))
  <2>1. CASE j \in 1..L
    <3>1. h[j].role = "tool" /\ g[j] = h[j]
      BY <1>5, <1>10, <2>1
    <3>2. CASE Follows(h, j)
      <4>1. j - h[j].answers \in 1..L
        BY <1>3, <2>1, <3>2 DEF Follows
      <4>2. g[j - h[j].answers] = h[j - h[j].answers]
        BY <1>5, <4>1
      <4> QED BY <3>1, <3>2, <4>2, Zenon DEF Follows
    <3>3. CASE b > 0 /\ Leading(h, j)
      <4>1. \A i \in 1..j : i \in 1..L
        BY <1>3, <2>1
      <4> QED BY <1>5, <3>3, <4>1 DEF Leading
    <3> QED BY <1>7, <2>1, <3>1, <3>2, <3>3
  <2>2. CASE j = L + 1
    BY <1>5, <1>10, <2>2
  <2>3. CASE \E k \in 1..c : j = L + 1 + k
    <3>1. PICK k \in 1..c : j = L + 1 + k
      BY <2>3
    <3>2. g[j].answers = k
      BY <1>5, <1>8, <3>1
    <3>3. k \in 1..(j - 1) /\ j - k = L + 1 /\ k <= c
      BY <1>3, <1>4, <3>1
    <3>4. g[j - k].calls = c
      BY <1>2, <1>5, <3>3
    <3> QED BY <3>2, <3>3, <3>4 DEF Follows
  <2> QED BY <1>6, <2>1, <2>2, <2>3
<1>11. ASSUME NEW i \in 1..(L + 1 + c), g[i].calls > 0 PROVE g[i].role = "assistant" /\ ~g[i].prompt
  <2>1. CASE i \in 1..L
    BY <1>5, <1>7, <1>11, <2>1
  <2>2. CASE i = L + 1
    BY <1>5, <2>2
  <2>3. ASSUME NEW k \in 1..c, i = L + 1 + k PROVE FALSE
    BY <1>5, <1>8, <1>11, <2>3
  <2> QED BY <1>6, <2>1, <2>2, <2>3
<1> QED BY <1>1, <1>5, <1>9, <1>10, <1>11 DEF Talk

\* Think puts the prompt before the history.
LEMMA PromptTalk ==
  ASSUME NEW h \in Seq(Messages), NEW b, Talk(h, b)
  PROVE  Talk(<<Prompt>> \o h, b)
<1>1. PICK g, L : g = <<Prompt>> \o h /\ L = Len(h)
  OBVIOUS
<1>2. /\ L \in Nat /\ DOMAIN h = 1..L
      /\ \A i \in 1..L : h[i].calls \in Nat /\ h[i].answers \in Nat
  BY <1>1, MessagesOf
<1>3. Prompt.role = "system" /\ Prompt.calls = 0 /\ Prompt.prompt = TRUE
  BY DEF Prompt, Message
<1>4. /\ DOMAIN g = 1..(L + 1) /\ g[1] = Prompt
      /\ \A i \in 1..L : g[i + 1] = h[i]
  <2>1. PICK x : x = Prompt
    OBVIOUS
  <2>2. <<x>> \in Seq({x}) /\ Len(<<x>>) = 1 /\ <<x>>[1] = x
    OBVIOUS
  <2>3. g = <<x>> \o h
    BY <1>1, <2>1
  <2>4. DOMAIN g = 1..(L + 1) /\ g[1] = x /\ \A i \in 1..L : g[i + 1] = h[i]
    BY <1>1, <1>2, <2>2, <2>3
  <2> QED BY <2>1, <2>4
<1>5. \A i \in 1..(L + 1) : i = 1 \/ \E n \in 1..L : i = n + 1
  <2>1. ASSUME NEW i \in 1..(L + 1), i # 1 PROVE i - 1 \in 1..L /\ i = (i - 1) + 1
    BY <1>2, <2>1
  <2> QED BY <2>1
<1>6. /\ \A i \in 1..L : \A k \in 1..h[i].calls :
           i + k \in 1..L /\ h[i + k].role = "tool" /\ h[i + k].answers = k
      /\ \A j \in 1..L : h[j].role = "tool" => Follows(h, j) \/ (b > 0 /\ Leading(h, j))
      /\ \A i \in 1..L : h[i].calls > 0 => h[i].role = "assistant" /\ ~h[i].prompt
  BY <1>2 DEF Talk, Answered
<1>7. Answered(g)
  <2> SUFFICES ASSUME NEW i \in 1..(L + 1), NEW k \in 1..g[i].calls
               PROVE  i + k \in 1..(L + 1) /\ g[i + k].role = "tool" /\ g[i + k].answers = k
    BY <1>4 DEF Answered
  <2>1. i # 1
    <3> SUFFICES ASSUME i = 1 PROVE FALSE
      OBVIOUS
    <3>1. g[i].calls = 0
      BY <1>3, <1>4
    <3> QED BY <3>1
  <2>2. PICK n \in 1..L : i = n + 1
    BY <1>5, <2>1
  <2>3. n + k \in 1..L /\ h[n + k].role = "tool" /\ h[n + k].answers = k
    BY <1>4, <1>6, <2>2
  <2>4. k \in Nat
    BY <1>2, <1>4, <2>2
  <2>5. i + k = (n + k) + 1 /\ i + k \in 1..(L + 1)
    BY <1>2, <2>2, <2>3, <2>4
  <2>6. g[(n + k) + 1] = h[n + k]
    BY <1>4, <2>3
  <2> QED BY <2>3, <2>5, <2>6
<1>8. ASSUME NEW j \in 1..(L + 1), g[j].role = "tool" PROVE Follows(g, j) \/ (b > 0 /\ Leading(g, j))
  <2>1. j # 1
    BY <1>3, <1>4, <1>8
  <2>2. PICK n \in 1..L : j = n + 1
    BY <1>5, <2>1
  <2>3. g[j] = h[n] /\ h[n].role = "tool"
    BY <1>4, <1>8, <2>2
  <2>4. CASE Follows(h, n)
    <3>1. PICK a : a = h[n].answers
      OBVIOUS
    <3>2. a \in 1..(n - 1) /\ a <= h[n - a].calls
      BY <2>4, <3>1, Zenon DEF Follows
    <3>3. a \in 1..(j - 1) /\ n - a \in 1..L /\ j - a = (n - a) + 1
      BY <1>2, <2>2, <3>2
    <3>4. g[j - a] = h[n - a]
      BY <1>4, <3>3
    <3>5. g[j].answers = a
      BY <2>3, <3>1
    <3> QED BY <3>2, <3>3, <3>4, <3>5, Zenon DEF Follows
  <2>5. CASE b > 0 /\ Leading(h, n)
    <3>1. ASSUME NEW i \in 1..j PROVE g[i].role = "tool" \/ g[i].prompt
      <4>1. CASE i = 1
        BY <1>3, <1>4, <4>1
      <4>2. CASE i # 1
        <5>1. i \in 1..(L + 1)
          BY <1>2
        <5>2. PICK l \in 1..L : i = l + 1
          BY <1>5, <4>2, <5>1
        <5>3. l \in 1..n
          BY <1>2, <2>2, <5>2
        <5> QED BY <1>4, <2>5, <5>2, <5>3 DEF Leading
      <4> QED BY <4>1, <4>2
    <3> QED BY <2>5, <3>1 DEF Leading
  <2> QED BY <1>6, <2>3, <2>4, <2>5
<1>9. ASSUME NEW i \in 1..(L + 1), g[i].calls > 0 PROVE g[i].role = "assistant" /\ ~g[i].prompt
  <2>1. i # 1
    BY <1>3, <1>4, <1>9
  <2>2. PICK n \in 1..L : i = n + 1
    BY <1>5, <2>1
  <2> QED BY <1>4, <1>6, <1>9, <2>2
<1> QED BY <1>1, <1>4, <1>7, <1>8, <1>9 DEF Talk

WireItems ==
  [type : {"text", "call", "result"}, role : Roles \cup {"model"}, k : Nat, prompt : BOOLEAN]

\* What a message that is no result is on the wire: its text or not, its calls.
Spoken(s, m, t) ==
  /\ Len(s) = t + m.calls
  /\ \A q \in 1..t : s[q].type = "text" /\ s[q].prompt = m.prompt
  /\ \A k \in 1..m.calls : s[t + k] = Call(k)

LEMMA SpokenItems ==
  ASSUME NEW m \in Messages, NEW x \in WireItems, x.type = "text", x.prompt = m.prompt
  PROVE  /\ CallsOf(m) \in Seq(WireItems) /\ Spoken(CallsOf(m), m, 0)
         /\ <<x>> \o CallsOf(m) \in Seq(WireItems) /\ Spoken(<<x>> \o CallsOf(m), m, 1)
<1>1. PICK n, s : n = m.calls /\ s = CallsOf(m)
  OBVIOUS
<1>2. n \in Nat
  BY <1>1 DEF Messages
<1>3. \A k \in Nat : Call(k) \in WireItems
  BY DEF Call, WireItems, Roles
<1>4. s = [k \in 1..n |-> Call(k)]
  BY <1>1 DEF CallsOf
<1>5. \A k \in 1..n : Call(k) \in WireItems
  BY <1>2, <1>3
<1>6. s \in Seq(WireItems) /\ Len(s) = n /\ \A k \in 1..n : s[k] = Call(k)
  <2>1. s \in [1..n -> WireItems] /\ \A k \in 1..n : s[k] = Call(k)
    BY <1>4, <1>5
  <2> QED BY <1>2, <2>1
<1>7. Spoken(s, m, 0)
  <2>1. Len(s) = 0 + m.calls
    BY <1>1, <1>2, <1>6
  <2>2. \A k \in 1..m.calls : 0 + k = k
    OBVIOUS
  <2>3. \A k \in 1..m.calls : s[0 + k] = Call(k)
    BY <1>1, <1>6, <2>2
  <2> QED BY <2>1, <2>3 DEF Spoken
<1>8. <<x>> \in Seq(WireItems) /\ Len(<<x>>) = 1 /\ <<x>>[1] = x
  OBVIOUS
<1>9. PICK w : w = <<x>> \o s
  OBVIOUS
<1>10. w \in Seq(WireItems) /\ Len(w) = 1 + n /\ w[1] = x /\ \A k \in 1..n : w[1 + k] = s[k]
  BY ONLY <1>2, <1>6, <1>8, <1>9, x \in WireItems
<1>11. Spoken(w, m, 1)
  <2>1. Len(w) = 1 + m.calls /\ \A k \in 1..m.calls : w[1 + k] = Call(k)
    BY <1>1, <1>6, <1>10
  <2>2. \A q \in 1..1 : w[q].type = "text" /\ w[q].prompt = m.prompt
    BY <1>10
  <2> QED BY <2>1, <2>2 DEF Spoken
<1> QED BY <1>1, <1>6, <1>7, <1>9, <1>10, <1>11

\* The providers that send calls put a result, or a text or not and the calls.
LEMMA CallItems ==
  ASSUME NEW kind \in CallKinds, NEW m \in Messages, m.calls > 0 => m.role = "assistant"
  PROVE  /\ Items(kind, m) \in Seq(WireItems)
         /\ m.role = "tool" => Items(kind, m) = <<Result(m)>>
         /\ m.role # "tool" => \E t \in {0, 1} : Spoken(Items(kind, m), m, t)
         /\ m.role # "tool" /\ kind # "openai-codex" => Spoken(Items(kind, m), m, 1)
<1>1. m.role \in Roles /\ m.calls \in Nat /\ m.prompt \in BOOLEAN /\ m.answers \in Nat
  BY DEF Messages
<1>2. Result(m) \in WireItems /\ <<Result(m)>> \in Seq(WireItems)
  <2>1. Result(m) \in WireItems
    BY <1>1 DEF Result, WireItems, Roles
  <2> QED BY <2>1
<1>3. ASSUME NEW role \in Roles \cup {"model"}
      PROVE  Text(role, m) \in WireItems /\ Text(role, m).type = "text" /\ Text(role, m).prompt = m.prompt
  BY <1>1 DEF Text, WireItems
<1>4. ASSUME NEW role \in Roles
      PROVE  /\ CallsOf(m) \in Seq(WireItems) /\ Spoken(CallsOf(m), m, 0)
             /\ <<Text(role, m)>> \o CallsOf(m) \in Seq(WireItems)
             /\ Spoken(<<Text(role, m)>> \o CallsOf(m), m, 1)
  <2>1. Text(role, m) \in WireItems /\ Text(role, m).type = "text" /\ Text(role, m).prompt = m.prompt
    BY <1>3
  <2> QED BY <2>1, SpokenItems
<1>5. CASE kind # "openai-codex"
  <2>1. Items(kind, m) = OpenAIItems(m)
    BY <1>5 DEF Items, CallKinds, ZaiItems
  <2>2. CASE m.role = "tool"
    BY <1>2, <2>1, <2>2 DEF OpenAIItems
  <2>3. CASE m.role # "tool"
    <3>1. Items(kind, m) = <<Text(m.role, m)>> \o CallsOf(m)
      BY <2>1, <2>3 DEF OpenAIItems
    <3> QED BY <1>1, <1>4, <2>3, <3>1
  <2> QED BY <2>2, <2>3
<1>6. CASE kind = "openai-codex"
  <2>1. Items(kind, m) = CodexItems(m)
    BY <1>6 DEF Items
  <2>2. CASE m.role = "tool"
    <3>1. CodexItems(m) = <<Result(m)>>
      BY <2>2 DEF CodexItems
    <3> QED BY <1>2, <1>6, <2>1, <2>2, <3>1
  <2>3. CASE m.role = "system"
    <3>1. m.calls = 0
      BY <1>1, <2>3
    <3>2. CodexItems(m) = <<>>
      BY <2>3 DEF CodexItems
    <3>3. <<>> \in Seq(WireItems) /\ Len(<<>>) = 0
      OBVIOUS
    <3>4. Spoken(<<>>, m, 0)
      BY <3>1, <3>3 DEF Spoken
    <3> QED BY <1>6, <2>1, <2>3, <3>2, <3>3, <3>4
  <2>4. CASE m.role = "user"
    <3>1. m.calls = 0
      BY <1>1, <2>4
    <3>2. CodexItems(m) = <<Text("user", m)>>
      BY <2>4 DEF CodexItems
    <3>3. PICK x : x = Text("user", m)
      OBVIOUS
    <3>4. x \in WireItems /\ x.type = "text" /\ x.prompt = m.prompt
      BY <1>3, <3>3 DEF Roles
    <3>5. <<x>> \in Seq(WireItems) /\ Len(<<x>>) = 1 /\ <<x>>[1] = x
      BY <3>4
    <3>6. Spoken(<<x>>, m, 1)
      BY <3>1, <3>4, <3>5 DEF Spoken
    <3> QED BY <1>6, <2>1, <2>4, <3>2, <3>3, <3>5, <3>6
  <2>5. CASE m.role = "assistant"
    <3>1. PICK s : s = CallsOf(m)
      OBVIOUS
    <3>2. CodexItems(m) = (IF m.cost > 0 THEN <<Text("assistant", m)>> ELSE <<>>) \o s
      BY <2>5, <3>1 DEF CodexItems
    <3>3. "assistant" \in Roles
      BY DEF Roles
    <3>4. /\ s \in Seq(WireItems) /\ Spoken(s, m, 0)
          /\ <<Text("assistant", m)>> \o s \in Seq(WireItems)
          /\ Spoken(<<Text("assistant", m)>> \o s, m, 1)
      BY <1>4, <3>1, <3>3
    <3>5. <<>> \o s = s
      BY <3>4, ConcatEmptySeq
    <3>6. CodexItems(m) = s \/ CodexItems(m) = <<Text("assistant", m)>> \o s
      BY <3>2, <3>5, Zenon
    <3> QED BY <1>6, <2>1, <2>5, <3>4, <3>6, Zenon
  <2> QED BY <1>1, <2>2, <2>3, <2>4, <2>5 DEF Roles
<1> QED BY <1>5, <1>6

\* The providers that send no calls put one item for a message.
LEMMA TextItems ==
  ASSUME NEW kind \in TextKinds, NEW m \in Messages
  PROVE  \E x \in WireItems :
           /\ Items(kind, m) = <<x>>
           /\ m.role = "tool" => x = Result(m)
           /\ m.role # "tool" => x.type = "text" /\ x.prompt = m.prompt
<1>1. m.role \in Roles /\ m.prompt \in BOOLEAN /\ m.answers \in Nat
  BY DEF Messages
<1>2. Result(m) \in WireItems
  BY <1>1 DEF Result, WireItems, Roles
<1>3. ASSUME NEW role \in Roles \cup {"model"}
      PROVE  Text(role, m) \in WireItems /\ Text(role, m).type = "text" /\ Text(role, m).prompt = m.prompt
  BY <1>1 DEF Text, WireItems
<1>4. Items(kind, m) = AnthropicItems(m) \/ Items(kind, m) = GeminiItems(m)
  BY DEF Items, TextKinds
<1>5. CASE m.role = "tool"
  <2>1. Items(kind, m) = <<Result(m)>>
    BY <1>4, <1>5 DEF AnthropicItems, GeminiItems
  <2> QED BY <1>2, <1>5, <2>1
<1>6. CASE m.role # "tool"
  <2>1. \E role \in Roles \cup {"model"} : Items(kind, m) = <<Text(role, m)>>
    <3>1. \/ Items(kind, m) = <<Text("assistant", m)>>
          \/ Items(kind, m) = <<Text("model", m)>>
          \/ Items(kind, m) = <<Text("user", m)>>
      BY <1>4, <1>6 DEF AnthropicItems, GeminiItems
    <3> QED BY <3>1 DEF Roles
  <2> QED BY <1>3, <1>6, <2>1
<1> QED BY <1>5, <1>6

\* Where the items of each message are on the wire: behind off[n - 1].
Laid(off, w, kind, ms, L) ==
  /\ w \in Seq(WireItems) /\ off[0] = 0 /\ off[L] = Len(w)
  /\ \A n \in 0..L : off[n] \in Nat
  /\ \A l, n \in 0..L : l <= n => off[l] <= off[n]
  /\ \A n \in 1..L : off[n] = off[n - 1] + Len(Items(kind, ms[n]))
  /\ \A n \in 1..L : \A q \in 1..Len(Items(kind, ms[n])) : w[off[n - 1] + q] = Items(kind, ms[n])[q]
  /\ \A i \in 1..Len(w) : \E n \in 1..L : \E q \in 1..Len(Items(kind, ms[n])) : i = off[n - 1] + q

\* The wires of the first messages, each the one before with the next items.
Grows(c, kind, ms, L) ==
  /\ c[0] = <<>> /\ c[L] = Wire(kind, ms)
  /\ \A n \in 0..L : c[n] \in Seq(WireItems)
  /\ \A n \in 1..L : c[n] = c[n - 1] \o Items(kind, ms[n])

LEMMA WireGrows ==
  ASSUME NEW kind, NEW ms, NEW L \in Nat, Len(ms) = L,
         \A n \in 1..L : Items(kind, ms[n]) \in Seq(WireItems)
  PROVE  \E c : Grows(c, kind, ms, L)
<1> DEFINE S == Seq(WireItems)
           z == <<>>
           G == [k \in 1..L |-> [s \in S |-> s \o Items(kind, ms[k])]]
<1>1. z \in S
  OBVIOUS
<1>2. \A k \in 1..L : \A s \in S : G[k][s] = s \o Items(kind, ms[k])
  OBVIOUS
<1>3. \A k \in 1..L : \A s \in S : s \o Items(kind, ms[k]) \in S
  <2>1. \A s, r \in Seq(WireItems) : s \o r \in Seq(WireItems)
    BY ConcatProperties
  <2> QED BY <2>1
<1> HIDE DEF G, S, z
<1>4. Steps(G, L, S)
  BY <1>2, <1>3 DEF Steps
<1>5. PICK f : Iterates(f, L, S, z, G)
  BY <1>1, <1>4, IterExists
<1>6. f \in [0..L -> S] /\ f[0] = z /\ \A k \in 1..L : f[k] = G[k][f[k - 1]]
  BY <1>5 DEF Iterates
<1> DEFINE Step(g, n) == IF n = 0 THEN z ELSE g[n - 1] \o Items(kind, ms[n])
           c == CHOOSE g : g = [n \in 0..L |-> Step(g, n)]
<1>7. f = [n \in 0..L |-> Step(f, n)]
  <2>1. ASSUME NEW n \in 0..L PROVE f[n] = Step(f, n)
    <3>1. CASE n = 0
      BY <1>6, <3>1
    <3>2. CASE n # 0
      <4>1. n \in 1..L /\ n - 1 \in 0..L
        BY <3>2
      <4>2. f[n - 1] \in S /\ f[n] = G[n][f[n - 1]]
        BY <1>6, <4>1
      <4> QED BY <1>2, <3>2, <4>1, <4>2
    <3> QED BY <3>1, <3>2
  <2> HIDE DEF Step
  <2> QED BY <1>6, <2>1
<1>8. c = [n \in 0..L |-> Step(c, n)]
  <2> HIDE DEF Step
  <2> QED BY <1>7
<1>9. Wire(kind, ms) = c[L]
  BY DEF Wire, z
<1> HIDE DEF c
<1>10. c[0] = z /\ \A n \in 1..L : c[n] = c[n - 1] \o Items(kind, ms[n])
  <2>1. \A n \in 0..L : c[n] = Step(c, n)
    <3> HIDE DEF Step
    <3> QED BY <1>8
  <2>2. 0 \in 0..L /\ \A n \in 1..L : n \in 0..L /\ n # 0
    OBVIOUS
  <2> QED BY <2>1, <2>2
<1> DEFINE P == [k \in 0..L |-> S]
<1>11. \A k \in 0..L : c[k] \in P[k]
  <2>1. c[0] \in P[0]
    BY <1>1, <1>10
  <2>2. ASSUME NEW k \in 1..L, c[k - 1] \in P[k - 1] PROVE c[k] \in P[k]
    <3>1. k \in 0..L /\ k - 1 \in 0..L
      OBVIOUS
    <3>2. c[k - 1] \in S
      BY <2>2, <3>1
    <3> QED BY <1>3, <1>10, <3>1, <3>2
  <2> HIDE DEF P
  <2> QED BY <2>1, <2>2, IterInvariant
<1>12. \A k \in 0..L : c[k] \in S
  BY <1>11
<1>13. Grows(c, kind, ms, L)
  BY <1>9, <1>10, <1>12 DEF Grows, S, z
<1> QED BY <1>13

LEMMA WireLaid ==
  ASSUME NEW kind, NEW ms, NEW L \in Nat, Len(ms) = L,
         \A n \in 1..L : Items(kind, ms[n]) \in Seq(WireItems)
  PROVE  \E off : Laid(off, Wire(kind, ms), kind, ms, L)
<1>1. PICK c : Grows(c, kind, ms, L)
  BY WireGrows
<1>2. /\ c[0] = <<>> /\ c[L] = Wire(kind, ms)
      /\ \A n \in 0..L : c[n] \in Seq(WireItems)
      /\ \A n \in 1..L : c[n] = c[n - 1] \o Items(kind, ms[n])
  BY <1>1 DEF Grows
<1>3. PICK it, w, off : /\ it = [n \in 1..L |-> Items(kind, ms[n])] /\ w = Wire(kind, ms)
                        /\ off = [n \in 0..L |-> Len(c[n])]
  OBVIOUS
<1>4. /\ \A n \in 1..L : it[n] = Items(kind, ms[n]) /\ it[n] \in Seq(WireItems) /\ Len(it[n]) \in Nat
      /\ \A n \in 0..L : off[n] = Len(c[n]) /\ off[n] \in Nat
  <2>1. /\ \A n \in 1..L : it[n] = Items(kind, ms[n])
        /\ \A n \in 0..L : off[n] = Len(c[n])
    BY <1>3
  <2>2. \A s \in Seq(WireItems) : Len(s) \in Nat
    OBVIOUS
  <2>3. \A n \in 1..L : it[n] \in Seq(WireItems)
    BY <2>1
  <2> QED BY <1>2, <2>1, <2>2, <2>3
<1>5. \A n \in 1..L : n \in 0..L /\ n - 1 \in 0..L
  OBVIOUS
<1>6. ASSUME NEW n \in 1..L
      PROVE  /\ off[n] = off[n - 1] + Len(it[n])
             /\ \A i \in 1..off[n - 1] : c[n][i] = c[n - 1][i]
             /\ \A q \in 1..Len(it[n]) : c[n][off[n - 1] + q] = it[n][q]
  <2>1. PICK s, r : s = c[n - 1] /\ r = it[n]
    OBVIOUS
  <2>2. s \in Seq(WireItems) /\ r \in Seq(WireItems) /\ c[n] = s \o r /\ Len(s) = off[n - 1] /\ Len(c[n]) = off[n]
    BY <1>2, <1>4, <1>5, <2>1
  <2>3. /\ s \o r \in Seq(WireItems) /\ Len(s \o r) = Len(s) + Len(r)
        /\ \A i \in 1..Len(s) : (s \o r)[i] = s[i]
        /\ \A k \in 1..Len(r) : (s \o r)[Len(s) + k] = r[k]
    <3>1. s \in Seq(WireItems) /\ r \in Seq(WireItems)
      BY <2>2
    <3> QED BY ONLY <3>1, Joined
  <2> QED BY <2>1, <2>2, <2>3, Zenon
<1>7. ASSUME NEW l \in 0..L, NEW n \in 0..L, l <= n
      PROVE  off[l] <= off[n] /\ \A i \in 1..off[l] : c[n][i] = c[l][i]
  <2>1. \A k \in 0..L : Len(c[k]) \in Nat
    BY <1>4
  <2>2. ASSUME NEW k \in 1..L PROVE Extends(c[k], c[k - 1])
    <3>1. off[k] >= off[k - 1]
      <4>1. off[k] \in Nat /\ off[k - 1] \in Nat /\ Len(it[k]) \in Nat
        BY <1>4, <1>5
      <4>2. off[k] = off[k - 1] + Len(it[k])
        BY <1>6
      <4> QED BY ONLY <4>1, <4>2
    <3> QED BY <1>4, <1>5, <1>6, <3>1 DEF Extends
  <2>3. Extends(c[n], c[l])
    BY <1>7, <2>1, <2>2, ExtendsAll
  <2> QED BY <1>4, <2>3 DEF Extends
<1>8. 0 \in 0..L /\ L \in 0..L
  OBVIOUS
<1>9. w \in Seq(WireItems) /\ off[0] = 0 /\ off[L] = Len(w)
  <2>1. Len(c[0]) = 0
    BY <1>2
  <2> QED BY <1>2, <1>3, <1>4, <1>8, <2>1
<1>10. ASSUME NEW n \in 1..L, NEW q \in 1..Len(it[n]) PROVE w[off[n - 1] + q] = it[n][q]
  <2>1. c[n][off[n - 1] + q] = it[n][q]
    BY <1>6
  <2>2. off[n - 1] + q \in 1..off[n]
    BY <1>4, <1>5, <1>6
  <2>3. c[L][off[n - 1] + q] = c[n][off[n - 1] + q]
    BY <1>5, <1>7, <1>8, <2>2
  <2> QED BY <1>2, <1>3, <2>1, <2>3
<1>11. ASSUME NEW i \in 1..Len(w) PROVE \E n \in 1..L : \E q \in 1..Len(it[n]) : i = off[n - 1] + q
  <2> DEFINE T == {n \in 0..L : i <= off[n]}
  <2>1. T \subseteq Nat /\ T # {}
    <3>1. i <= off[L]
      BY <1>4, <1>8, <1>9
    <3>2. L \in T
      BY <1>8, <3>1
    <3>3. T \subseteq Nat
      BY ONLY TRUE
    <3> QED BY <3>2, <3>3
  <2>2. PICK x \in T : \A y \in T : x <= y
    <3> HIDE DEF T
    <3> QED BY <2>1, LeastNat
  <2>3. x \in 0..L /\ i <= off[x] /\ x # 0
    <3>1. x \in 0..L /\ i <= off[x]
      OBVIOUS
    <3>2. off[L] \in Nat
      BY <1>4, <1>8
    <3>3. i >= 1
      BY <1>9, <3>2
    <3> QED BY <1>9, <3>1, <3>2, <3>3
  <2>4. x \in 1..L /\ x - 1 \in 0..L
    BY <2>3
  <2>5. ~(i <= off[x - 1])
    <3> SUFFICES ASSUME i <= off[x - 1] PROVE FALSE
      OBVIOUS
    <3>1. x - 1 \in T
      BY <2>4
    <3>2. x <= x - 1
      <4> HIDE DEF T
      <4> QED BY <2>2, <3>1
    <3> QED BY <2>4, <3>2
  <2>6. off[x] = off[x - 1] + Len(it[x]) /\ off[x] \in Nat /\ off[x - 1] \in Nat /\ Len(it[x]) \in Nat
    BY <1>4, <1>5, <1>6, <2>4
  <2>7. i - off[x - 1] \in 1..Len(it[x]) /\ i = off[x - 1] + (i - off[x - 1])
    <3>1. i \in Nat
      BY <1>9, <2>6
    <3> QED BY <2>3, <2>5, <2>6, <3>1
  <2> QED BY <2>4, <2>7
<1>12. Laid(off, w, kind, ms, L)
  <2>1. \A l, n \in 0..L : l <= n => off[l] <= off[n]
    BY <1>7
  <2>2. \A n \in 1..L : /\ off[n] = off[n - 1] + Len(Items(kind, ms[n]))
                        /\ \A q \in 1..Len(Items(kind, ms[n])) : w[off[n - 1] + q] = Items(kind, ms[n])[q]
    BY <1>4, <1>6, <1>10
  <2>3. \A i \in 1..Len(w) : \E n \in 1..L : \E q \in 1..Len(Items(kind, ms[n])) : i = off[n - 1] + q
    <3> SUFFICES ASSUME NEW i \in 1..Len(w)
                 PROVE  \E n \in 1..L : \E q \in 1..Len(Items(kind, ms[n])) : i = off[n - 1] + q
      OBVIOUS
    <3>1. PICK n \in 1..L : \E q \in 1..Len(it[n]) : i = off[n - 1] + q
      BY <1>11
    <3>2. it[n] = Items(kind, ms[n])
      BY <1>4
    <3> QED BY <3>1, <3>2
  <2> QED BY <1>4, <1>9, <2>1, <2>2, <2>3 DEF Laid
<1> QED BY <1>3, <1>12

CallsSent(w) ==
  \A i \in DOMAIN w : w[i].type = "call" =>
    \E j \in DOMAIN w : OneExchange(w, i, j) /\ w[j].type = "result" /\ w[j].k = w[i].k

ResultsSent(w, budget) ==
  \A j \in DOMAIN w : w[j].type = "result" =>
    \/ \E i \in DOMAIN w : OneExchange(w, i, j) /\ w[i].type = "call" /\ w[i].k = w[j].k
    \/ budget > 0 /\ \A i \in 1..j : w[i].type = "result" \/ w[i].prompt

\* What the n-th message is on the wire w, if its items are it[n].
Tells(w, it, ms, n) ==
  \/ ms[n].role = "tool" /\ it[n] = <<Result(ms[n])>>
  \/ ms[n].role # "tool" /\ \E t \in {0, 1} : Spoken(it[n], ms[n], t)

\* A conversation keeps its calls and results together on the wire.
LEMMA CallWire ==
  ASSUME NEW kind \in CallKinds, NEW ms \in Seq(Messages), NEW b, Talk(ms, b),
         NEW w, w = Wire(kind, ms)
  PROVE  CallsSent(w) /\ ResultsSent(w, b)
<1>1. PICK L, it : L = Len(ms) /\ it = [n \in 1..L |-> Items(kind, ms[n])]
  OBVIOUS
<1>2. /\ L \in Nat /\ DOMAIN ms = 1..L
      /\ \A i \in 1..L : ms[i] \in Messages /\ ms[i].calls \in Nat /\ ms[i].answers \in Nat
  BY <1>1, MessagesOf
<1>3. /\ \A i \in 1..L : \A k \in 1..ms[i].calls :
           i + k \in 1..L /\ ms[i + k].role = "tool" /\ ms[i + k].answers = k
      /\ \A j \in 1..L : ms[j].role = "tool" => Follows(ms, j) \/ (b > 0 /\ Leading(ms, j))
      /\ \A i \in 1..L : ms[i].calls > 0 => ms[i].role = "assistant" /\ ~ms[i].prompt
  BY ONLY <1>2, Talk(ms, b), TalkFacts
<1>4. ASSUME NEW n \in 1..L
      PROVE  it[n] = Items(kind, ms[n]) /\ it[n] \in Seq(WireItems) /\ Tells(w, it, ms, n)
  <2>1. it[n] = Items(kind, ms[n])
    BY <1>1
  <2>2. PICK m \in Messages : m = ms[n]
    BY <1>2
  <2>3. m.calls > 0 => m.role = "assistant"
    BY <1>3, <2>2
  <2>4. /\ Items(kind, m) \in Seq(WireItems)
        /\ m.role = "tool" => Items(kind, m) = <<Result(m)>>
        /\ m.role # "tool" => \E t \in {0, 1} : Spoken(Items(kind, m), m, t)
    BY <2>3, CallItems
  <2> QED BY <2>1, <2>2, <2>4 DEF Tells
<1>5. PICK off : Laid(off, w, kind, ms, L)
  <2>1. \A n \in 1..L : Items(kind, ms[n]) \in Seq(WireItems)
    BY <1>4
  <2> QED BY <1>1, <1>2, <2>1, WireLaid
<1>6. /\ w \in Seq(WireItems) /\ off[0] = 0 /\ off[L] = Len(w)
      /\ \A n \in 0..L : off[n] \in Nat
      /\ \A l, n \in 0..L : l <= n => off[l] <= off[n]
      /\ \A n \in 1..L : off[n] = off[n - 1] + Len(it[n])
      /\ \A n \in 1..L : \A q \in 1..Len(it[n]) : w[off[n - 1] + q] = it[n][q]
  BY <1>4, <1>5 DEF Laid
<1>7. DOMAIN w = 1..off[L] /\ off[L] \in Nat
  BY <1>2, <1>6
<1>8. ASSUME NEW i \in 1..off[L]
      PROVE  \E n \in 1..L : \E q \in 1..Len(it[n]) : i = off[n - 1] + q
  <2>1. PICK n \in 1..L : \E q \in 1..Len(Items(kind, ms[n])) : i = off[n - 1] + q
    BY <1>5, <1>6 DEF Laid
  <2> QED BY <1>4, <2>1
<1>9. \A n \in 1..L : n \in 0..L /\ n - 1 \in 0..L /\ Len(it[n]) \in Nat
  <2>1. \A s \in Seq(WireItems) : Len(s) \in Nat
    OBVIOUS
  <2> QED BY <1>2, <1>4, <2>1
<1>10. ASSUME NEW n \in 1..L, ms[n].role = "tool"
       PROVE  /\ Len(it[n]) = 1 /\ off[n] = off[n - 1] + 1 /\ off[n] \in 1..off[L]
              /\ w[off[n]].type = "result" /\ w[off[n]].k = ms[n].answers
  <2>1. PICK x : x = Result(ms[n])
    OBVIOUS
  <2>2. it[n] = <<x>>
    BY <1>4, <1>10, <2>1 DEF Tells
  <2>3. Len(it[n]) = 1 /\ it[n][1] = x
    BY <2>2
  <2>4. off[n] = off[n - 1] + 1 /\ w[off[n - 1] + 1] = x
    BY <1>6, <2>3
  <2>5. off[n] \in Nat /\ off[n - 1] \in Nat /\ off[n] <= off[L] /\ off[L] \in Nat
    <3>1. n \in 0..L /\ n - 1 \in 0..L /\ L \in 0..L /\ n <= L
      BY <1>2
    <3> QED BY <1>6, <3>1
  <2>6. x.type = "result" /\ x.k = ms[n].answers
    BY <2>1 DEF Result
  <2>7. off[n] \in 1..off[L]
    BY ONLY <2>4, <2>5
  <2> QED BY <2>3, <2>4, <2>6, <2>7
<1>11. ASSUME NEW n \in 1..L, NEW t \in {0, 1}, Spoken(it[n], ms[n], t)
       PROVE  /\ Len(it[n]) = t + ms[n].calls
              /\ \A q \in 1..t : w[off[n - 1] + q].type = "text" /\ w[off[n - 1] + q].prompt = ms[n].prompt
              /\ \A k \in 1..ms[n].calls :
                   w[off[n - 1] + (t + k)].type = "call" /\ w[off[n - 1] + (t + k)].k = k
  <2>1. /\ Len(it[n]) = t + ms[n].calls
        /\ \A q \in 1..t : it[n][q].type = "text" /\ it[n][q].prompt = ms[n].prompt
        /\ \A k \in 1..ms[n].calls : it[n][t + k] = Call(k)
    BY <1>11 DEF Spoken
  <2>2. PICK c : c = ms[n].calls
    OBVIOUS
  <2>3. c \in Nat
    BY <1>2, <2>2
  <2>4. \A q \in 1..t : q \in 1..(t + c)
    BY ONLY <2>3, t \in {0, 1}
  <2>5. \A k \in 1..c : t + k \in 1..(t + c)
    BY ONLY <2>3, t \in {0, 1}
  <2>6. \A q \in 1..(t + c) : w[off[n - 1] + q] = it[n][q]
    BY <1>6, <2>1, <2>2
  <2>7. \A k : Call(k).type = "call" /\ Call(k).k = k
    BY DEF Call
  <2> QED BY <2>1, <2>2, <2>4, <2>5, <2>6, <2>7
<1>12. ASSUME NEW n \in 1..L, NEW q \in 1..Len(it[n]), NEW t \in {0, 1}, Spoken(it[n], ms[n], t), q > t
       PROVE  q - t \in 1..ms[n].calls /\ t + (q - t) = q
  <2>1. PICK c : c = ms[n].calls
    OBVIOUS
  <2>2. c \in Nat /\ q \in 1..(t + c)
    BY <1>2, <1>11, <1>12, <2>1
  <2>3. q - t \in 1..c /\ t + (q - t) = q
    BY ONLY <2>2, <1>12, t \in {0, 1}
  <2> QED BY <2>1, <2>3
<1>13. ASSUME NEW i \in 1..off[L], NEW n \in 1..L, NEW q \in 1..Len(it[n]), i = off[n - 1] + q,
              NEW m \in 1..L
       PROVE  /\ i > off[m] => n > m
              /\ i <= off[m] => n <= m
  <2>1. /\ off[n] = off[n - 1] + Len(it[n]) /\ off[n] \in Nat /\ off[n - 1] \in Nat /\ Len(it[n]) \in Nat
        /\ off[m] \in Nat
    BY <1>6, <1>9
  <2>2. n <= m => off[n] <= off[m]
    BY <1>6, <1>9
  <2>3. n > m => off[m] <= off[n - 1]
    <3>1. n > m => m <= n - 1
      BY <1>2
    <3> QED BY <1>6, <1>9, <3>1
  <2>4. i > off[n - 1] /\ i <= off[n]
    BY ONLY <1>13, <2>1
  <2>5. n > m \/ n <= m
    BY <1>2
  <2>6. PICK x, y, z : x = off[n] /\ y = off[n - 1] /\ z = off[m]
    OBVIOUS
  <2>7. x \in Nat /\ y \in Nat /\ z \in Nat /\ i \in Nat /\ i > y /\ i <= x
    BY <1>7, <2>1, <2>4, <2>6
  <2>8. (i > z => ~(x <= z)) /\ (i <= z => ~(z <= y))
    BY ONLY <2>7
  <2>9. (n <= m => ~(n > m)) /\ (n > m => ~(n <= m))
    BY <1>2
  <2> QED BY <2>2, <2>3, <2>5, <2>6, <2>8, <2>9
<1>14. ASSUME NEW n \in 1..L, NEW t \in {0, 1}, ms[n].role # "tool", Spoken(it[n], ms[n], t),
              NEW k \in 1..ms[n].calls, NEW m \in 1..L, n < m, \A l \in (n + 1)..m : ms[l].role = "tool"
       PROVE  /\ off[n - 1] + (t + k) \in 1..off[L]
              /\ OneExchange(w, off[n - 1] + (t + k), off[m])
  <2>1. PICK i : i = off[n - 1] + (t + k)
    OBVIOUS
  <2>2. PICK x, y, z, a, c : x = off[n] /\ y = off[n - 1] /\ z = off[m] /\ a = off[L] /\ c = ms[n].calls
    OBVIOUS
  <2>3. x \in Nat /\ y \in Nat /\ z \in Nat /\ a \in Nat /\ c \in Nat /\ k \in 1..c
    BY <1>2, <1>6, <1>7, <1>9, <2>2
  <2>4. x = y + (t + c)
    BY <1>6, <1>11, <1>14, <2>2
  <2>5. i = y + (t + k)
    BY <2>1, <2>2
  <2>6. i \in Nat /\ i >= 1 /\ i <= x /\ i > y + t
    BY ONLY <2>3, <2>4, <2>5, t \in {0, 1}
  <2>7. x < z /\ z <= a
    <3>1. m \in (n + 1)..m /\ m - 1 \in 0..L /\ n \in 0..L /\ n <= m - 1 /\ m \in 0..L /\ m <= L /\ L \in 0..L
      BY <1>2, <1>14
    <3>2. ms[m].role = "tool"
      BY <1>14, <3>1
    <3>3. off[m] = off[m - 1] + 1
      BY <1>10, <3>2
    <3>4. off[n] <= off[m - 1] /\ off[m] <= off[L] /\ off[m - 1] \in Nat
      BY <1>6, <3>1
    <3> QED BY ONLY <2>2, <2>3, <3>3, <3>4
  <2>8. i \in 1..a /\ i < z
    BY ONLY <2>3, <2>6, <2>7
  <2>9. ASSUME NEW p \in (i + 1)..(z - 1) PROVE w[p].type # "text"
    <3>1. p \in 1..a /\ p > i /\ p < z /\ p > y + t
      BY ONLY <2>3, <2>6, <2>7, p \in (i + 1)..(z - 1)
    <3>2. PICK l \in 1..L : \E q \in 1..Len(it[l]) : p = off[l - 1] + q
      BY <1>8, <2>2, <3>1
    <3>3. PICK q \in 1..Len(it[l]) : p = off[l - 1] + q
      BY <3>2
    <3>4. l <= m
      <4>1. p <= off[m]
        BY ONLY <2>2, <2>3, <3>1
      <4> QED BY <1>13, <2>2, <3>1, <3>3, <4>1
    <3>5. CASE l = n
      <4>1. p = y + q /\ q \in 1..(t + c)
        BY <1>11, <1>14, <2>2, <3>3, <3>5
      <4>2. q > t
        BY ONLY <2>3, <3>1, <4>1, t \in {0, 1}
      <4>3. PICK d : d = q - t
        OBVIOUS
      <4>4. d \in 1..ms[n].calls /\ t + d = q
        BY <1>12, <1>14, <3>5, <4>2, <4>3
      <4>5. w[off[n - 1] + (t + d)].type = "call"
        BY <1>11, <1>14, <4>4
      <4>6. w[p].type = "call"
        BY <3>3, <3>5, <4>4, <4>5
      <4> QED BY <4>6
    <3>6. CASE l # n
      <4>1. l > n
        <5> SUFFICES ASSUME l < n PROVE FALSE
          BY <1>2, <3>6
        <5>1. l \in 0..L /\ n - 1 \in 0..L /\ l <= n - 1
          BY <1>2
        <5>2. off[l] <= y /\ off[l] \in Nat
          BY <1>6, <2>2, <5>1
        <5>3. p > off[l]
          BY ONLY <2>3, <3>1, <5>2, t \in {0, 1}
        <5>4. l > l
          BY <1>13, <2>2, <3>1, <3>3, <5>3
        <5> QED BY <5>4
      <4>2. l \in (n + 1)..m
        BY <1>2, <3>4, <4>1
      <4>3. ms[l].role = "tool"
        BY <1>14, <4>2
      <4>4. Len(it[l]) = 1 /\ off[l] = off[l - 1] + 1 /\ w[off[l]].type = "result"
        BY <1>10, <4>3
      <4>5. q = 1
        BY <4>4
      <4>6. w[p].type = "result"
        BY <3>3, <4>4, <4>5
      <4> QED BY <4>6
    <3> QED BY <3>5, <3>6
  <2>10. OneExchange(w, i, z)
    BY <2>8, <2>9 DEF OneExchange
  <2> QED BY <2>1, <2>2, <2>8, <2>10
<1>15. CallsSent(w)
  <2> SUFFICES ASSUME NEW i \in 1..off[L], w[i].type = "call"
               PROVE  \E j \in 1..off[L] : OneExchange(w, i, j) /\ w[j].type = "result" /\ w[j].k = w[i].k
    BY <1>7 DEF CallsSent
  <2>1. PICK n \in 1..L : \E q \in 1..Len(it[n]) : i = off[n - 1] + q
    BY <1>8
  <2>2. PICK q \in 1..Len(it[n]) : i = off[n - 1] + q
    BY <2>1
  <2>3. ms[n].role # "tool"
    <3> SUFFICES ASSUME ms[n].role = "tool" PROVE FALSE
      OBVIOUS
    <3>1. Len(it[n]) = 1 /\ off[n] = off[n - 1] + 1 /\ w[off[n]].type = "result"
      BY <1>10
    <3>2. q = 1
      BY <3>1
    <3>3. w[i].type = "result"
      BY <2>2, <3>1, <3>2
    <3> QED BY <3>3
  <2>4. PICK t \in {0, 1} : Spoken(it[n], ms[n], t)
    BY <1>4, <2>3 DEF Tells
  <2>5. q > t
    <3> SUFFICES ASSUME ~(q > t) PROVE FALSE
      OBVIOUS
    <3>1. q \in 1..t
      <4>1. q \in Nat /\ q >= 1
        BY <1>9
      <4> QED BY <4>1
    <3>2. w[i].type = "text"
      BY <1>11, <2>2, <2>4, <3>1
    <3> QED BY <3>2
  <2>6. PICK k : k = q - t
    OBVIOUS
  <2>7. k \in 1..ms[n].calls /\ t + k = q
    BY <1>12, <2>4, <2>5, <2>6
  <2>8. w[i].k = k
    BY <1>11, <2>2, <2>4, <2>7
  <2>9. n + k \in 1..L /\ ms[n + k].role = "tool" /\ ms[n + k].answers = k
    BY <1>3, <2>7
  <2>10. k \in Nat /\ k >= 1 /\ ms[n].calls \in Nat /\ k <= ms[n].calls
    BY <1>2, <2>7
  <2>11. ASSUME NEW l \in (n + 1)..(n + k) PROVE ms[l].role = "tool"
    <3>1. PICK c : c = ms[n].calls
      OBVIOUS
    <3>2. l - n \in 1..c /\ n + (l - n) = l
      <4>1. c \in Nat /\ k \in Nat /\ k <= c /\ n \in Nat
        BY <2>10, <3>1
      <4> QED BY ONLY <4>1, l \in (n + 1)..(n + k)
    <3> QED BY <1>3, <3>1, <3>2
  <2>12. n < n + k
    BY <2>10
  <2>13. OneExchange(w, off[n - 1] + (t + k), off[n + k])
    BY <1>14, <2>3, <2>4, <2>7, <2>9, <2>11, <2>12
  <2>14. off[n + k] \in 1..off[L] /\ w[off[n + k]].type = "result" /\ w[off[n + k]].k = k
    BY <1>10, <2>9
  <2> QED BY <2>2, <2>7, <2>8, <2>13, <2>14
<1>16. ResultsSent(w, b)
  <2> SUFFICES ASSUME NEW j \in 1..off[L], w[j].type = "result"
               PROVE  \/ \E i \in 1..off[L] : OneExchange(w, i, j) /\ w[i].type = "call" /\ w[i].k = w[j].k
                      \/ b > 0 /\ \A i \in 1..j : w[i].type = "result" \/ w[i].prompt
    BY <1>7 DEF ResultsSent
  <2>1. PICK n \in 1..L : \E q \in 1..Len(it[n]) : j = off[n - 1] + q
    BY <1>8
  <2>2. PICK q \in 1..Len(it[n]) : j = off[n - 1] + q
    BY <2>1
  <2>3. ms[n].role = "tool"
    <3> SUFFICES ASSUME ms[n].role # "tool" PROVE FALSE
      OBVIOUS
    <3>1. PICK t \in {0, 1} : Spoken(it[n], ms[n], t)
      BY <1>4 DEF Tells
    <3>2. CASE q > t
      <4>1. PICK k : k = q - t
        OBVIOUS
      <4>2. k \in 1..ms[n].calls /\ t + k = q
        BY <1>12, <3>1, <3>2, <4>1
      <4>3. w[j].type = "call"
        BY <1>11, <2>2, <3>1, <4>2
      <4> QED BY <4>3
    <3>3. CASE ~(q > t)
      <4>1. q \in 1..t
        <5>1. q \in Nat /\ q >= 1
          BY <1>9
        <5> QED BY <3>3, <5>1
      <4>2. w[j].type = "text"
        BY <1>11, <2>2, <3>1, <4>1
      <4> QED BY <4>2
    <3> QED BY <3>2, <3>3
  <2>4. Len(it[n]) = 1 /\ off[n] = off[n - 1] + 1 /\ w[off[n]].k = ms[n].answers
    BY <1>10, <2>3
  <2>5. q = 1
    BY <2>4
  <2>6. j = off[n] /\ w[j].k = ms[n].answers
    BY <2>2, <2>4, <2>5
  <2>7. CASE Follows(ms, n)
    <3>1. PICK a : a = ms[n].answers
      OBVIOUS
    <3>2. a \in 1..(n - 1) /\ a <= ms[n - a].calls
      BY <2>7, <3>1, Zenon DEF Follows
    <3>3. PICK e : e = n - a
      OBVIOUS
    <3>4. e \in 1..L /\ e < n /\ a \in Nat /\ a >= 1 /\ e + a = n
      BY <1>2, <3>2, <3>3
    <3>5. PICK c : c = ms[e].calls
      OBVIOUS
    <3>6. c \in Nat /\ a <= c
      BY <1>2, <3>2, <3>3, <3>4, <3>5
    <3>7. c > 0 /\ a \in 1..c
      BY <3>4, <3>6
    <3>8. ms[e].role # "tool"
      BY <1>3, <3>4, <3>5, <3>7
    <3>9. PICK t \in {0, 1} : Spoken(it[e], ms[e], t)
      BY <1>4, <3>4, <3>8 DEF Tells
    <3>10. ASSUME NEW l \in (e + 1)..n PROVE ms[l].role = "tool"
      <4>1. l - e \in 1..c /\ e + (l - e) = l
        BY <1>2, <3>4, <3>6
      <4> QED BY <1>3, <3>4, <3>5, <4>1
    <3>11. off[e - 1] + (t + a) \in 1..off[L] /\ OneExchange(w, off[e - 1] + (t + a), off[n])
      BY <1>14, <3>4, <3>5, <3>7, <3>8, <3>9, <3>10
    <3>12. w[off[e - 1] + (t + a)].type = "call" /\ w[off[e - 1] + (t + a)].k = a
      <4>1. e \in 1..L /\ a \in 1..ms[e].calls
        BY <3>4, <3>5, <3>7
      <4>2. \A k \in 1..ms[e].calls :
              w[off[e - 1] + (t + k)].type = "call" /\ w[off[e - 1] + (t + k)].k = k
        BY <1>11, <3>9, <4>1
      <4> QED BY <4>1, <4>2
    <3> QED BY <2>6, <3>1, <3>11, <3>12
  <2>8. CASE b > 0 /\ Leading(ms, n)
    <3> SUFFICES ASSUME NEW i \in 1..j PROVE w[i].type = "result" \/ w[i].prompt
      BY <2>8
    <3>1. i \in 1..off[L] /\ i <= off[n]
      BY <1>7, <2>6
    <3>2. PICK l \in 1..L : \E p \in 1..Len(it[l]) : i = off[l - 1] + p
      BY <1>8, <3>1
    <3>3. PICK p \in 1..Len(it[l]) : i = off[l - 1] + p
      BY <3>2
    <3>4. l <= n
      BY <1>13, <3>1, <3>3
    <3>5. l \in 1..n
      BY <1>2, <3>4
    <3>6. CASE ms[l].role = "tool"
      <4>1. Len(it[l]) = 1 /\ off[l] = off[l - 1] + 1 /\ w[off[l]].type = "result"
        BY <1>10, <3>6
      <4>2. p = 1
        BY <4>1
      <4> QED BY <3>3, <4>1, <4>2
    <3>7. CASE ms[l].role # "tool"
      <4>1. ms[l].prompt
        BY <2>8, <3>5, <3>7 DEF Leading
      <4>2. ms[l].calls = 0
        BY <1>2, <1>3, <4>1
      <4>3. PICK t \in {0, 1} : Spoken(it[l], ms[l], t)
        BY <1>4, <3>7 DEF Tells
      <4>4. Len(it[l]) = t
        BY <1>11, <4>2, <4>3
      <4>5. p \in 1..t
        BY <4>4
      <4> QED BY <1>11, <3>3, <4>1, <4>3, <4>5
    <3> QED BY <3>6, <3>7
  <2> QED BY <1>3, <2>3, <2>7, <2>8
<1> QED BY <1>15, <1>16

\* The providers that send no calls send one item per message.
TextsSent(w, ms) ==
  /\ Len(w) = Len(ms)
  /\ \A i \in DOMAIN w : IF ms[i].role = "tool" THEN w[i] = Result(ms[i]) ELSE w[i].type = "text"

LEMMA TextWire ==
  ASSUME NEW kind \in TextKinds, NEW ms \in Seq(Messages), NEW w, w = Wire(kind, ms)
  PROVE  TextsSent(w, ms)
<1>1. PICK L, it : L = Len(ms) /\ it = [n \in 1..L |-> Items(kind, ms[n])]
  OBVIOUS
<1>2. L \in Nat /\ \A i \in 1..L : ms[i] \in Messages
  BY <1>1, MessagesOf
<1>3. ASSUME NEW n \in 1..L
      PROVE  /\ it[n] = Items(kind, ms[n]) /\ it[n] \in Seq(WireItems) /\ Len(it[n]) = 1
             /\ ms[n].role = "tool" => it[n][1] = Result(ms[n])
             /\ ms[n].role # "tool" => it[n][1].type = "text"
  <2>1. it[n] = Items(kind, ms[n])
    BY <1>1
  <2>2. PICK m \in Messages : m = ms[n]
    BY <1>2
  <2>3. PICK x \in WireItems : /\ Items(kind, m) = <<x>>
                               /\ m.role = "tool" => x = Result(m)
                               /\ m.role # "tool" => x.type = "text" /\ x.prompt = m.prompt
    BY TextItems
  <2>4. <<x>> \in Seq(WireItems) /\ Len(<<x>>) = 1 /\ <<x>>[1] = x
    OBVIOUS
  <2> QED BY <2>1, <2>2, <2>3, <2>4
<1>4. PICK off : Laid(off, w, kind, ms, L)
  <2>1. \A n \in 1..L : Items(kind, ms[n]) \in Seq(WireItems)
    BY <1>3
  <2> QED BY <1>1, <1>2, <2>1, WireLaid
<1>5. /\ w \in Seq(WireItems) /\ off[0] = 0 /\ off[L] = Len(w)
      /\ \A n \in 1..L : off[n] = off[n - 1] + 1
      /\ \A n \in 1..L : w[off[n - 1] + 1] = it[n][1]
  <2>1. /\ w \in Seq(WireItems) /\ off[0] = 0 /\ off[L] = Len(w)
        /\ \A n \in 1..L : off[n] = off[n - 1] + Len(it[n])
        /\ \A n \in 1..L : \A q \in 1..Len(it[n]) : w[off[n - 1] + q] = it[n][q]
    BY <1>3, <1>4 DEF Laid
  <2>2. ASSUME NEW n \in 1..L PROVE off[n] = off[n - 1] + 1 /\ w[off[n - 1] + 1] = it[n][1]
    <3>1. Len(it[n]) = 1
      BY <1>3
    <3>2. 1 \in 1..Len(it[n])
      BY <3>1
    <3> QED BY <2>1, <3>1, <3>2
  <2> QED BY <2>1, <2>2
<1> DEFINE P == [n \in 0..L |-> {n}]
<1>6. \A n \in 0..L : off[n] \in P[n]
  <2>1. off[0] \in P[0]
    BY <1>2, <1>5
  <2>2. ASSUME NEW n \in 1..L, off[n - 1] \in P[n - 1] PROVE off[n] \in P[n]
    <3>1. n \in 0..L /\ n - 1 \in 0..L
      BY <1>2
    <3>2. off[n - 1] = n - 1 /\ (n - 1) + 1 = n
      BY <2>2, <3>1
    <3> QED BY <1>5, <3>1, <3>2
  <2> HIDE DEF P
  <2> QED BY <1>2, <2>1, <2>2, IterInvariant
<1>7. \A n \in 0..L : off[n] = n
  BY <1>6
<1>8. Len(w) = L /\ DOMAIN w = 1..L
  BY <1>2, <1>5, <1>7
<1>9. ASSUME NEW n \in 1..L PROVE w[n] = it[n][1]
  <2>1. n - 1 \in 0..L /\ (n - 1) + 1 = n
    BY <1>2
  <2> QED BY <1>5, <1>7, <2>1
<1> QED BY <1>1, <1>3, <1>8, <1>9 DEF TextsSent

\* The first message of a provider that keeps it is the first on the wire.
LEMMA FirstSent ==
  ASSUME NEW kind \in (CallKinds \cup TextKinds) \ {"openai-codex"}, NEW ms \in Seq(Messages),
         NEW b, Talk(ms, b), Len(ms) > 0, ms[1] = Prompt
  PROVE  Wire(kind, ms)[1].prompt
<1>1. PICK L : L = Len(ms)
  OBVIOUS
<1>2. /\ L \in Nat /\ L >= 1 /\ DOMAIN ms = 1..L /\ \A i \in 1..L : ms[i] \in Messages
  BY <1>1, MessagesOf
<1>3. Prompt.role = "system" /\ Prompt.calls = 0 /\ Prompt.prompt = TRUE
  BY DEF Prompt, Message
<1>4. \A i \in 1..L : ms[i].calls > 0 => ms[i].role = "assistant"
  BY ONLY <1>2, Talk(ms, b), TalkFacts
<1>5. ASSUME NEW n \in 1..L PROVE Items(kind, ms[n]) \in Seq(WireItems)
  <2>1. PICK m \in Messages : m = ms[n]
    BY <1>2
  <2>2. m.calls > 0 => m.role = "assistant"
    BY <1>4, <2>1
  <2>3. CASE kind \in CallKinds
    BY <2>1, <2>2, <2>3, CallItems
  <2>4. CASE kind \in TextKinds
    <3>1. PICK x \in WireItems : Items(kind, m) = <<x>>
      BY <2>4, TextItems
    <3> QED BY <2>1, <3>1
  <2> QED BY <2>3, <2>4
<1>6. PICK off : Laid(off, Wire(kind, ms), kind, ms, L)
  BY <1>1, <1>2, <1>5, WireLaid
<1>7. PICK s : s = Items(kind, Prompt)
  OBVIOUS
<1>8. Len(s) = 1 /\ s[1].prompt
  <2>1. Prompt \in Messages
    BY <1>2
  <2>2. CASE kind \in CallKinds
    <3>1. Spoken(s, Prompt, 1)
      BY <1>3, <1>7, <2>1, <2>2, CallItems
    <3>2. Len(s) = 1 + 0 /\ \A q \in 1..1 : s[q].prompt = TRUE
      BY <1>3, <3>1 DEF Spoken
    <3> QED BY <3>2
  <2>3. CASE kind \in TextKinds
    <3>1. PICK x \in WireItems : Items(kind, Prompt) = <<x>> /\ x.prompt = TRUE
      BY <1>3, <2>1, <2>3, TextItems
    <3> QED BY <1>7, <3>1
  <2> QED BY <2>2, <2>3
<1>9. 1 \in 1..L /\ 1 - 1 = 0 /\ 0 + 1 = 1 /\ 1 \in 1..Len(s)
  BY <1>2, <1>8
<1>10. Wire(kind, ms)[off[1 - 1] + 1] = s[1]
  BY <1>6, <1>7, <1>9 DEF Laid
<1>11. off[0] = 0
  BY <1>6 DEF Laid
<1> QED BY <1>8, <1>9, <1>10, <1>11

LEMMA PromptInstructs ==
  ASSUME NEW ms \in Seq(Messages), Len(ms) > 0, ms[1] = Prompt,
         \A i \in 2..Len(ms) : ms[i].role # "system"
  PROVE  CodexInstructions(ms) = <<Prompt>>
<1> DEFINE T == {i \in DOMAIN ms : ms[i].role = "system"}
<1>1. Len(ms) \in Nat /\ DOMAIN ms = 1..Len(ms)
  OBVIOUS
<1>2. Prompt.role = "system"
  BY DEF Prompt, Message
<1>3. T = {1}
  <2>1. 1 \in T
    BY <1>1, <1>2
  <2>2. ASSUME NEW i \in T PROVE i = 1
    <3>1. i \in 1..Len(ms) /\ ms[i].role = "system"
      BY <1>1
    <3>2. i = 1 \/ i \in 2..Len(ms)
      BY <1>1, <3>1
    <3> QED BY <3>1, <3>2
  <2> HIDE DEF T
  <2> QED BY <2>1, <2>2
<1>4. Max({1}) = 1
  BY DEF Max
<1>5. CodexInstructions(ms) = <<ms[Max(T)]>>
  BY <1>3 DEF CodexInstructions
<1> HIDE DEF T
<1> QED BY <1>3, <1>4, <1>5

\* What Think sends is a conversation if the history is.
LEMMA ThinkTalk ==
  ASSUME ctx \in Contexts, Talk(ctx.history, ctx.budget)
  PROVE  /\ ThinkMessages \in Seq(Messages) /\ Len(ThinkMessages) > 0 /\ ThinkMessages[1] = Prompt
         /\ Talk(ThinkMessages, ctx.budget)
         /\ \A i \in 2..Len(ThinkMessages) :
              ThinkMessages[i].role = "system" => \E n \in DOMAIN ctx.history : ctx.history[n].role = "system"
<1>1. PICK h, x, u, ms : h = ctx.history /\ x = Prompt /\ u = Message("user", 0) /\ ms = ThinkMessages
  OBVIOUS
<1>2. h \in Seq(Messages) /\ Talk(h, ctx.budget)
  BY <1>1 DEF Contexts
<1>3. /\ x \in Messages /\ x.role = "system" /\ x.calls = 0
      /\ u \in Messages /\ u.role = "user" /\ u.calls = 0
  BY <1>1 DEF Prompt, Message, Messages, Roles
<1>4. ms = (<<x>> \o h) \o (IF h = <<>> THEN <<u>> ELSE <<>>)
  BY <1>1 DEF ThinkMessages
<1>5. CASE h = <<>>
  <2>1. ms = <<x>> \o <<u>>
    <3>1. <<x>> \in Seq(Messages) /\ <<u>> \in Seq(Messages)
      BY <1>3
    <3>2. <<x>> \o <<>> = <<x>>
      BY <3>1, ConcatEmptySeq
    <3> QED BY <1>4, <1>5, <3>2, Zenon
  <2>2. ms \in Seq(Messages) /\ Len(ms) = 2 /\ DOMAIN ms = 1..2 /\ ms[1] = x /\ ms[2] = u
    BY <1>3, <2>1
  <2>3. Plain(ms)
    <3>1. \A i \in 1..2 : i = 1 \/ i = 2
      OBVIOUS
    <3>2. ASSUME NEW i \in 1..2 PROVE ms[i].role # "tool" /\ ms[i].calls = 0
      BY <1>3, <2>2, <3>1
    <3> QED BY <2>2, <3>2 DEF Plain
  <2>4. Talk(ms, ctx.budget)
    BY <2>3, PlainTalk
  <2>5. \A i \in 2..Len(ms) : ms[i].role # "system"
    <3>1. \A i \in 2..Len(ms) : i = 2
      BY <2>2
    <3> QED BY <1>3, <2>2, <3>1
  <2> QED BY <1>1, <2>2, <2>4, <2>5
<1>6. CASE h # <<>>
  <2>1. <<x>> \in Seq(Messages) /\ Len(<<x>>) = 1 /\ <<x>>[1] = x
    BY <1>3
  <2>2. PICK g : g = <<x>> \o h
    OBVIOUS
  <2>3. g \in Seq(Messages) /\ Len(g) = 1 + Len(h) /\ g[1] = x /\ \A i \in 1..Len(h) : g[1 + i] = h[i]
    BY ONLY <1>2, <2>1, <2>2, Joined
  <2>4. ms = g
    <3>1. ms = g \o <<>>
      BY <1>4, <1>6, <2>2
    <3> QED BY <2>3, <3>1, ConcatEmptySeq
  <2>5. Talk(g, ctx.budget)
    BY <1>1, <1>2, <2>2, PromptTalk
  <2>6. Len(h) \in Nat /\ DOMAIN h = 1..Len(h)
    BY <1>2
  <2>7. ASSUME NEW i \in 2..Len(g) PROVE i - 1 \in 1..Len(h) /\ g[i] = h[i - 1]
    <3>1. i - 1 \in 1..Len(h) /\ 1 + (i - 1) = i
      BY ONLY <2>3, <2>6, i \in 2..Len(g)
    <3> QED BY <2>3, <3>1
  <2>8. \A i \in 2..Len(g) : g[i].role = "system" => \E n \in DOMAIN h : h[n].role = "system"
    BY <2>6, <2>7
  <2>9. Len(g) > 0
    BY <2>3, <2>6
  <2> QED BY <1>1, <2>3, <2>4, <2>5, <2>8, <2>9
<1> QED BY <1>5, <1>6

\* WireIsWellFormed of messages, a history and a budget.
WellSent(ms, h, b) ==
  /\ \A kind \in CallKinds :
       LET w == Wire(kind, ms)
       IN /\ \A i \in DOMAIN w : w[i].type = "call" =>
               \E j \in DOMAIN w : OneExchange(w, i, j) /\ w[j].type = "result" /\ w[j].k = w[i].k
          /\ \A j \in DOMAIN w : w[j].type = "result" =>
               \/ \E i \in DOMAIN w : OneExchange(w, i, j) /\ w[i].type = "call" /\ w[i].k = w[j].k
               \/ b > 0 /\ \A i \in 1..j : w[i].type = "result" \/ w[i].prompt
          /\ IF kind # "openai-codex" THEN w[1].prompt
             ELSE \/ CodexInstructions(ms) = <<Prompt>>
                  \/ \E i \in DOMAIN h : h[i].role = "system"
  /\ \A kind \in TextKinds :
       LET w == Wire(kind, ms)
       IN /\ w[1].prompt
          /\ Len(w) = Len(ms)
          /\ \A i \in DOMAIN w :
               LET m == ms[i]
               IN IF m.role = "tool" THEN w[i] = Result(m) ELSE w[i].type = "text"

LEMMA WireSound ==
  ASSUME ctx \in Contexts, Talk(ctx.history, ctx.budget)
  PROVE  WireIsWellFormed
<1>1. PICK ms, h, b : ms = ThinkMessages /\ h = ctx.history /\ b = ctx.budget
  OBVIOUS
<1>2. /\ ms \in Seq(Messages) /\ Len(ms) > 0 /\ ms[1] = Prompt /\ Talk(ms, b)
      /\ \A i \in 2..Len(ms) : ms[i].role = "system" => \E n \in DOMAIN h : h[n].role = "system"
  BY <1>1, ThinkTalk
<1>3. ASSUME NEW kind \in CallKinds
      PROVE  CallsSent(Wire(kind, ms)) /\ ResultsSent(Wire(kind, ms), b)
  BY <1>2, CallWire
<1>4. ASSUME NEW kind \in CallKinds, kind # "openai-codex" PROVE Wire(kind, ms)[1].prompt
  BY <1>2, <1>4, FirstSent
<1>5. CodexInstructions(ms) = <<Prompt>> \/ \E i \in DOMAIN h : h[i].role = "system"
  BY <1>2, PromptInstructs
<1>6. ASSUME NEW kind \in TextKinds PROVE Wire(kind, ms)[1].prompt /\ TextsSent(Wire(kind, ms), ms)
  <2>1. kind # "openai-codex"
    BY DEF TextKinds
  <2> QED BY <1>2, <2>1, FirstSent, TextWire
<1>7. ASSUME NEW kind \in CallKinds
      PROVE  /\ CallsSent(Wire(kind, ms)) /\ ResultsSent(Wire(kind, ms), b)
             /\ IF kind # "openai-codex" THEN Wire(kind, ms)[1].prompt
                ELSE \/ CodexInstructions(ms) = <<Prompt>>
                     \/ \E i \in DOMAIN h : h[i].role = "system"
  BY <1>3, <1>4, <1>5
<1>8. WellSent(ms, h, b)
  BY <1>6, <1>7, Zenon DEF WellSent, CallsSent, ResultsSent, TextsSent
<1>9. WellSent(ThinkMessages, ctx.history, ctx.budget)
  BY <1>1, <1>8, Zenon
<1> QED BY <1>9, Zenon DEF WellSent, WireIsWellFormed


\* A message with calls has joined a conversation, its results have not yet.
Pending(c, calls) ==
  \E h \in Seq(Messages), m \in Messages :
    /\ c.history = Append(h, m) /\ Talk(h, c.budget)
    /\ m.role = "assistant" /\ ~m.prompt /\ m.calls = calls

\* The history is a conversation except while the actor runs the calls.
EngineTalks ==
  /\ eng.phase \in {"plan", "think", "reflect", "replan"} => Talk(ctx.history, ctx.budget)
  /\ eng.phase = "act" => Pending(ctx, eng.calls)

\* The session's history, too, before a simple task takes its budget away.
HistoryInv == EngineTalks /\ (req.phase = "offer" => Plain(ctx.history))

LEMMA TalksNext ==
  ASSUME eng'.phase \in {"plan", "think", "reflect", "replan"} => Talk(ctx'.history, ctx'.budget),
         eng'.phase = "act" => Pending(ctx', eng'.calls)
  PROVE  EngineTalks'
BY DEF EngineTalks, Pending, Talk, Answered, Follows, Leading

LEMMA EmptyTalks == Plain(<<>>) /\ EmptyContext.history = <<>>
<1>1. DOMAIN <<>> = {}
  OBVIOUS
<1> QED BY <1>1 DEF Plain, EmptyContext

LEMMA PruneTalks ==
  ASSUME NEW c \in Contexts, Talk(c.history, c.budget)
  PROVE  Talk(Prune(c).history, Prune(c).budget)
<1>1. c.budget \in Nat /\ c.plan \in Nat /\ c.history \in Seq(Messages)
  BY EngineAssumption DEF Contexts
<1>2. Prune(c).budget = c.budget
  BY PruneFits
<1>3. CASE c.budget <= 0
  <2>1. Prune(c) = c
    BY <1>3 DEF Prune
  <2> QED BY <2>1
<1>4. CASE c.budget > 0 /\ c.plan > c.budget
  <2>1. Prune(c) = [c EXCEPT !.pad = <<>>, !.memories = <<>>, !.history = <<>>]
    BY <1>1, <1>4 DEF Prune
  <2>2. PICK z : z = <<>>
    OBVIOUS
  <2>3. Prune(c) = [c EXCEPT !.pad = z, !.memories = z, !.history = z]
    BY <2>1, <2>2
  <2>4. Prune(c).history = z
    BY <2>3 DEF Contexts
  <2>5. Talk(z, c.budget)
    BY <2>2, EmptyTalks, PlainTalk
  <2> QED BY <1>2, <2>4, <2>5
<1>5. CASE c.budget > 0 /\ ~(c.plan > c.budget)
  <2>1. PICK room : room = c.budget - c.plan
    OBVIOUS
  <2>2. Prune(c) = Pruned(c, room)
    BY <1>1, <1>5, <2>1 DEF Prune
  <2>3. PICK pad, mems, left :
          /\ pad = FitEnd(c.pad, room)
          /\ mems = FitFront(c.memories, room - Total(pad))
          /\ left = room - Total(pad) - Total(mems)
    OBVIOUS
  <2>4. PICK k : k = Costs(c.history)
    OBVIOUS
  <2>5. PICK g : g = LastN(c.history, Len(FitEnd(k, left)))
    OBVIOUS
  <2>6. Prune(c) = [c EXCEPT !.pad = pad, !.memories = mems, !.history = g]
    BY <2>2, <2>3, <2>4, <2>5 DEF Pruned
  <2>7. Prune(c).history = g
    BY <2>6 DEF Contexts
  <2>8. left \in Nat /\ k \in Seq(Nat) /\ Len(k) = Len(c.history)
    <3>1. room \in Nat /\ c.pad \in Seq(Nat) /\ c.memories \in Seq(Nat)
      BY <1>1, <1>5, <2>1 DEF Contexts
    <3>2. pad \in Seq(Nat) /\ Total(pad) <= room
      <4>1. PICK n \in 0..Len(c.pad) : FitEnd(c.pad, room) = LastN(c.pad, n) /\ Total(LastN(c.pad, n)) <= room
        BY <3>1, FitEndFits
      <4>2. LastN(c.pad, n) \in Seq(Nat)
        BY <3>1, LastNType
      <4> QED BY <2>3, <4>1, <4>2
    <3>3. PICK rest : rest = room - Total(pad)
      OBVIOUS
    <3>4. rest \in Nat
      BY <3>1, <3>2, <3>3, TotalType
    <3>5. mems \in Seq(Nat) /\ Total(mems) <= rest
      BY <2>3, <3>1, <3>3, <3>4, FitFrontFits
    <3>6. Total(mems) \in Nat
      BY <3>5, TotalType
    <3>7. left = rest - Total(mems)
      BY <2>3, <3>3
    <3>8. left \in Nat
      BY ONLY <3>4, <3>5, <3>6, <3>7
    <3> QED BY <1>1, <2>4, <3>8, CostsType
  <2>9. PICK n \in 0..Len(k) : FitEnd(k, left) = LastN(k, n)
    BY <2>8, FitEndFits
  <2>10. Len(LastN(k, n)) = n
    BY <2>8, LastNType
  <2>11. n \in 0..Len(c.history) /\ g = LastN(c.history, n)
    BY <2>5, <2>8, <2>9, <2>10
  <2>12. Talk(LastN(c.history, n), c.budget)
    BY <1>1, <1>5, <2>11, SuffixTalk
  <2> QED BY <1>2, <2>7, <2>11, <2>12
<1> QED BY <1>1, <1>3, <1>4, <1>5

LEMMA UpdateTalks ==
  ASSUME NEW d \in Contexts, NEW mems \in Seq(Nat), Talk(d.history, d.budget)
  PROVE  Talk(Update(d, 1, mems).history, Update(d, 1, mems).budget)
<1>1. PICK p, m : p = Append(d.pad, 1) /\ m = d.memories \o mems
  OBVIOUS
<1>2. PICK c : c = [d EXCEPT !.pad = p, !.memories = m]
  OBVIOUS
<1>3. p \in Seq(Nat) /\ m \in Seq(Nat)
  <2>1. d.pad \in Seq(Nat) /\ d.memories \in Seq(Nat)
    BY DEF Contexts
  <2> QED BY <1>1, <2>1, AppendProperties, ConcatProperties
<1>4. c \in Contexts /\ c.history = d.history /\ c.budget = d.budget
  BY <1>2, <1>3 DEF Contexts
<1>5. Update(d, 1, mems) = Prune(c)
  BY <1>1, <1>2 DEF Update
<1> QED BY <1>4, <1>5, PruneTalks

LEMMA EndTalks ==
  ASSUME NEW result, End(result)
  PROVE  EngineTalks'
<1>1. eng'.phase = "done"
  BY DEF End
<1> QED BY <1>1, TalksNext

LEMMA NextTurnTalks ==
  ASSUME NEW e \in Runs, NEW c, Talk(c.history, c.budget), NextTurn(e, c)
  PROVE  EngineTalks'
<1>1. CASE e.turn + 1 < MaxTurns
  <2>1. eng' = [e EXCEPT !.phase = "think", !.turn = @ + 1, !.attempt = 0, !.mems = <<>>] /\ ctx' = c
    BY <1>1 DEF NextTurn
  <2>2. eng'.phase = "think"
    BY <2>1 DEF Runs
  <2> QED BY <2>1, <2>2, TalksNext
<1>2. CASE ~(e.turn + 1 < MaxTurns)
  BY <1>2, EndTalks DEF NextTurn
<1> QED BY <1>1, <1>2

\* A step of a run leaves a conversation that can be sent (Engine.Run).
LEMMA RunTalks ==
  ASSUME EngineInv, EngineTalks, RunStep
  PROVE  EngineTalks'
<1>1. EngineType /\ ctx \in Contexts
  BY DEF EngineInv, EngineType
<1>2. /\ eng.phase \in {"plan", "think", "reflect", "replan"} => Talk(ctx.history, ctx.budget)
      /\ eng.phase = "act" => Pending(ctx, eng.calls)
  BY DEF EngineTalks
<1>3. eng \in Runs
  BY <1>1, RunsFacts DEF Running, RunStep, PlanInvalid, PlanFails, PlanSucceeds, ThinkFails, ThinkAnswers,
     ThinkCallsTools, Act, AppendOutputs, ReflectInvalid, ReflectFails, Reflect
<1>4. eng.outs \in Seq(Nat) /\ eng.calls \in Nat
  BY <1>1, <1>3, RunsFacts
<1>5. CASE PlanInvalid \/ ReflectInvalid
  <2>1. eng.phase \in {"plan", "replan", "reflect"} /\ ctx' = ctx /\ eng' = [eng EXCEPT !.attempt = @ + 1]
    BY <1>5 DEF PlanInvalid, ReflectInvalid
  <2>2. eng'.phase = eng.phase
    BY <1>3, <2>1 DEF Runs
  <2> QED BY <1>2, <2>1, <2>2, TalksNext
<1>6. CASE ThinkFails \/ ThinkAnswers
  <2>1. \E result : End(result)
    BY <1>6 DEF ThinkFails, ThinkAnswers
  <2> QED BY <2>1, EndTalks
<1>7. CASE PlanFails
  <2>1. CASE eng.phase = "plan" /\ End("fatal")
    BY <2>1, EndTalks
  <2>2. CASE eng.phase = "replan" /\ NextTurn(eng, ctx)
    BY <1>2, <1>3, <2>2, NextTurnTalks
  <2> QED BY <1>7, <2>1, <2>2 DEF PlanFails
<1>8. CASE PlanSucceeds
  <2>1. PICK cost \in PlanCosts :
          \/ /\ eng.phase = "plan"
             /\ eng' = [eng EXCEPT !.phase = "think", !.attempt = 0]
             /\ ctx' = [ctx EXCEPT !.plan = cost]
          \/ /\ eng.phase = "replan"
             /\ NextTurn([eng EXCEPT !.stale = TRUE], [ctx EXCEPT !.plan = cost])
    BY <1>8 DEF PlanSucceeds
  <2>2. PICK c, e : c = [ctx EXCEPT !.plan = cost] /\ e = [eng EXCEPT !.stale = TRUE]
    OBVIOUS
  <2>3. c.history = ctx.history /\ c.budget = ctx.budget /\ e \in Runs
    BY <1>1, <1>3, <2>2 DEF Contexts, Runs
  <2>4. eng.phase \in {"plan", "replan"}
    BY <2>1
  <2>5. Talk(c.history, c.budget)
    BY <1>2, <2>3, <2>4
  <2>6. CASE eng.phase = "plan" /\ ctx' = c /\ eng' = [eng EXCEPT !.phase = "think", !.attempt = 0]
    <3>1. eng'.phase = "think"
      BY <1>3, <2>6 DEF Runs
    <3> QED BY <2>5, <2>6, <3>1, TalksNext
  <2>7. CASE NextTurn(e, c)
    BY <2>3, <2>5, <2>7, NextTurnTalks
  <2> QED BY <2>1, <2>2, <2>6, <2>7
<1>9. CASE ThinkCallsTools
  <2>1. PICK t \in Thoughts :
          /\ eng.phase = "think"
          /\ ctx' = [ctx EXCEPT !.history = Append(@, Assistant(t.calls, t.cost))]
          /\ eng' = [eng EXCEPT !.phase = "act", !.calls = t.calls, !.outs = <<>>, !.thinks = @ + 1]
    BY <1>9 DEF ThinkCallsTools
  <2>2. PICK m, h, z, k : m = Assistant(t.calls, t.cost) /\ h = ctx.history /\ z = <<>> /\ k = eng.thinks + 1
    OBVIOUS
  <2>3. t.calls \in Nat /\ t.cost \in Nat
    BY EngineAssumption
  <2>4. m \in Messages /\ m.role = "assistant" /\ ~m.prompt /\ m.calls = t.calls
    BY <2>2, <2>3 DEF Assistant, Message, Messages, Roles
  <2>5. h \in Seq(Messages) /\ Talk(h, ctx.budget)
    BY <1>1, <1>2, <2>1, <2>2 DEF Contexts
  <2>6. PICK g : g = Append(h, m)
    OBVIOUS
  <2>7. ctx' = [ctx EXCEPT !.history = g]
    BY <2>1, <2>2, <2>6
  <2>8. ctx'.history = g /\ ctx'.budget = ctx.budget
    BY <1>1, <2>7 DEF Contexts
  <2>9. eng'.phase = "act" /\ eng'.calls = t.calls
    <3>1. eng' = [eng EXCEPT !.phase = "act", !.calls = t.calls, !.outs = z, !.thinks = k]
      BY <2>1, <2>2
    <3> QED BY <1>3, <3>1 DEF Runs
  <2>10. Pending(ctx', eng'.calls)
    BY <2>4, <2>5, <2>6, <2>8, <2>9 DEF Pending
  <2> QED BY <2>9, <2>10, TalksNext
<1>10. CASE Act
  <2>1. PICK o : eng' = [eng EXCEPT !.outs = o] /\ ctx' = ctx /\ eng.phase = "act"
    BY <1>10 DEF Act
  <2>2. eng'.phase = "act" /\ eng'.calls = eng.calls
    BY <1>3, <2>1 DEF Runs
  <2> QED BY <1>2, <2>1, <2>2, TalksNext
<1>11. CASE AppendOutputs
  <2>1. PICK n, outs, rs : n = eng.calls /\ outs = eng.outs /\ rs = [k \in 1..n |-> ToolResult(k, outs[k])]
    OBVIOUS
  <2>2. PICK c : c = [ctx EXCEPT !.history = ctx.history \o rs]
    OBVIOUS
  <2>3. /\ eng.phase = "act" /\ Len(outs) = n /\ ctx' = Prune(c)
        /\ eng' = [eng EXCEPT !.phase = "reflect", !.attempt = 0, !.stale = FALSE, !.outs = <<>>]
    BY <1>11, <2>1, <2>2 DEF AppendOutputs
  <2>4. PICK h \in Seq(Messages), m \in Messages :
          /\ ctx.history = Append(h, m) /\ Talk(h, ctx.budget)
          /\ m.role = "assistant" /\ ~m.prompt /\ m.calls = n
    BY <1>2, <2>1, <2>3 DEF Pending
  <2>5. n \in Nat /\ \A k \in 1..n : k \in Nat /\ outs[k] \in Nat
    BY <1>4, <2>1, <2>3, ElementOfSeq
  <2>6. \A k \in Nat, o \in Nat : /\ ToolResult(k, o) \in Messages /\ ToolResult(k, o).role = "tool"
                                  /\ ToolResult(k, o).answers = k /\ ToolResult(k, o).calls = 0
    BY DEF ToolResult, Message, Messages, Roles
  <2>7. \A k \in 1..n : rs[k] = ToolResult(k, outs[k])
    BY <2>1
  <2>8. \A k \in 1..n : rs[k] \in Messages /\ rs[k].role = "tool" /\ rs[k].answers = k /\ rs[k].calls = 0
    BY <2>5, <2>6, <2>7
  <2>9. rs \in Seq(Messages) /\ Len(rs) = n
    <3>1. DOMAIN rs = 1..n /\ rs = [k \in 1..n |-> rs[k]]
      BY <2>1
    <3>2. rs \in [1..n -> Messages]
      BY <2>8, <3>1
    <3> QED BY <2>5, <3>2
  <2>10. PICK g : g = Append(h, m) \o rs
    OBVIOUS
  <2>11. Talk(g, ctx.budget)
    BY <2>4, <2>8, <2>9, <2>10, ResultsTalk
  <2>12. g \in Seq(Messages)
    <3>1. Append(h, m) \in Seq(Messages)
      BY AppendProperties
    <3> QED BY <2>9, <2>10, <3>1, ConcatProperties
  <2>13. c = [ctx EXCEPT !.history = g]
    BY <2>2, <2>4, <2>10
  <2>14. c \in Contexts /\ c.history = g /\ c.budget = ctx.budget
    BY <1>1, <2>12, <2>13 DEF Contexts
  <2>15. Talk(Prune(c).history, Prune(c).budget)
    BY <2>11, <2>14, PruneTalks
  <2>16. eng'.phase = "reflect"
    <3>1. PICK z : z = <<>>
      OBVIOUS
    <3>2. eng' = [eng EXCEPT !.phase = "reflect", !.attempt = 0, !.stale = FALSE, !.outs = z]
      BY <2>3, <3>1
    <3> QED BY <1>3, <3>2 DEF Runs
  <2> QED BY <2>3, <2>15, <2>16, TalksNext
<1>12. CASE ReflectFails
  BY <1>2, <1>3, <1>12, NextTurnTalks DEF ReflectFails
<1>13. CASE \E signal \in Signals : Reflect(signal)
  <2>1. PICK signal \in Signals : Reflect(signal)
    BY <1>13
  <2>2. PICK mems \in {<<>>, <<1>>} :
          \/ Retry(Update(ctx, 1, mems))
          \/ /\ eng' = [eng EXCEPT !.phase = "replan", !.attempt = 0, !.retries = 0, !.mems = mems]
             /\ ctx' = Update(ctx, 1, mems)
          \/ End("stopped")
          \/ NextTurn([eng EXCEPT !.retries = 0], Update(ctx, 1, mems))
    BY <2>1 DEF Reflect
  <2>3. eng.phase = "reflect"
    BY <2>1 DEF Reflect
  <2>4. mems \in Seq(Nat)
    <3>1. <<>> \in Seq(Nat) /\ <<1>> \in Seq(Nat)
      OBVIOUS
    <3> QED BY <3>1, Zenon
  <2>5. PICK c, e : c = Update(ctx, 1, mems) /\ e = [eng EXCEPT !.retries = 0]
    OBVIOUS
  <2>6. Talk(c.history, c.budget)
    <3>1. Talk(ctx.history, ctx.budget)
      BY <1>2, <2>3
    <3> QED BY <1>1, <2>4, <2>5, <3>1, UpdateTalks
  <2>7. e \in Runs
    <3>1. 0 \in 0..MaxRetriesPerTurn
      BY EngineAssumption
    <3> QED BY <1>3, <2>5, <3>1 DEF Runs
  <2>8. CASE NextTurn(e, c)
    BY <2>6, <2>7, <2>8, NextTurnTalks
  <2>9. CASE Retry(c)
    <3>1. NextTurn(e, c) \/ (ctx' = c /\ eng' = [eng EXCEPT !.phase = "think", !.attempt = 0, !.retries = @ + 1])
      BY <2>5, <2>9 DEF Retry
    <3>2. CASE ctx' = c /\ eng' = [eng EXCEPT !.phase = "think", !.attempt = 0, !.retries = @ + 1]
      <4>1. eng'.phase = "think"
        BY <1>3, <3>2 DEF Runs
      <4> QED BY <2>6, <3>2, <4>1, TalksNext
    <3> QED BY <2>8, <3>1, <3>2
  <2>10. CASE ctx' = c /\ eng' = [eng EXCEPT !.phase = "replan", !.attempt = 0, !.retries = 0, !.mems = mems]
    <3>1. eng'.phase = "replan"
      BY <1>3, <2>10 DEF Runs
    <3> QED BY <2>6, <2>10, <3>1, TalksNext
  <2>11. CASE End("stopped")
    BY <2>11, EndTalks
  <2> QED BY <2>2, <2>5, <2>8, <2>9, <2>10, <2>11
<1> QED BY <1>5, <1>6, <1>7, <1>8, <1>9, <1>10, <1>11, <1>12, <1>13 DEF RunStep

\* GetContext: the lines of a transcript are no calls and no results.
LEMMA SessionPlain ==
  ASSUME transcript \in Seq(Lines), NEW c \in SessionContexts
  PROVE  Plain(c.history)
<1>1. PICK k, lines : k = Min({HistoryLimit, Len(transcript)}) /\ lines = LastN(transcript, k)
  OBVIOUS
<1>2. k \in 0..Len(transcript)
  <2>1. Len(transcript) \in Nat /\ HistoryLimit \in Nat
    BY LenProperties, KernelAssumption
  <2>2. \E x \in {HistoryLimit, Len(transcript)} : \A y \in {HistoryLimit, Len(transcript)} : x =< y
    BY <2>1
  <2>3. k \in {HistoryLimit, Len(transcript)} /\ \A y \in {HistoryLimit, Len(transcript)} : k =< y
    BY <1>1, <2>2 DEF Min
  <2> QED BY <2>1, <2>3
<1>3. lines \in Seq(Lines)
  BY <1>1, <1>2, LastNType
<1>4. PICK h, mem : h = SessionHistory /\ mem = Retrieve
  OBVIOUS
<1>5. h = [i \in DOMAIN lines |-> Message(lines[i].role, 1)]
  BY <1>1, <1>4 DEF SessionHistory, readTranscript
<1>6. Plain(h)
  <2>1. \A i \in DOMAIN lines : lines[i] \in Lines
    BY <1>3
  <2>2. \A x \in Lines : x.role # "tool"
    BY DEF Lines, Speakers
  <2>3. \A role : Message(role, 1).role = role /\ Message(role, 1).calls = 0
    BY DEF Message
  <2>4. ASSUME NEW i \in DOMAIN h PROVE h[i].role # "tool" /\ h[i].calls = 0
    <3>1. i \in DOMAIN lines /\ h[i] = Message(lines[i].role, 1)
      BY <1>5
    <3> QED BY <2>1, <2>2, <2>3, <3>1
  <2> QED BY <2>4 DEF Plain
<1>7. c.history = <<>> \/ c.history = h
  <2>1. \/ c = EmptyContext
        \/ c = [EmptyContext EXCEPT !.history = h]
        \/ c = [EmptyContext EXCEPT !.history = h, !.memories = mem]
    BY <1>4 DEF SessionContexts
  <2>2. PICK x \in Contexts : x = EmptyContext
    BY EmptyContextType
  <2>3. CASE c = EmptyContext
    BY <2>3, EmptyTalks
  <2>4. CASE c = [x EXCEPT !.history = h]
    BY <2>4 DEF Contexts
  <2>5. CASE c = [x EXCEPT !.history = h, !.memories = mem]
    BY <2>5 DEF Contexts
  <2> QED BY <2>1, <2>2, <2>3, <2>4, <2>5
<1> QED BY <1>6, <1>7, EmptyTalks

\* A step that leaves the run and its context alone.
LEMMA TalksSame ==
  ASSUME HistoryInv, eng' = eng, ctx' = ctx, req' = req \/ req'.phase # "offer"
  PROVE  HistoryInv'
BY DEF HistoryInv, EngineTalks, Pending, Plain, Talk, Answered, Follows, Leading

\* A step after which there is no run.
LEMMA TalksNoRun ==
  ASSUME eng' = NoRun, req'.phase = "offer" => Plain(ctx'.history)
  PROVE  HistoryInv'
<1>1. eng'.phase = "none"
  BY DEF NoRun
<1>2. EngineTalks'
  BY <1>1, TalksNext
<1> QED BY <1>2 DEF HistoryInv, Plain

LEMMA StartTalks ==
  ASSUME NEW c, StartRun(c), Plain(c.history), req'.phase # "offer"
  PROVE  HistoryInv'
<1>1. eng'.phase = "plan" /\ ctx' = c
  BY DEF StartRun
<1>2. Talk(c.history, c.budget)
  BY PlainTalk
<1>3. EngineTalks'
  BY <1>1, <1>2, TalksNext
<1> QED BY <1>3 DEF HistoryInv

LEMMA HistoryKept ==
  ASSUME IInv, HistoryInv, [Next]_vars
  PROVE  HistoryInv'
<1>1. /\ EngineInv /\ SessionInv /\ RunsForRequest /\ ctx \in Contexts /\ transcript \in Seq(Lines)
  BY DEF IInv, EngineInv, EngineType, SessionInv, SessionType
<1>2. CASE \E goal \in Goals, tools \in Registries : HandleRequest(goal, tools)
  <2>1. req.phase = "context" /\ eng' = eng /\ ctx' \in SessionContexts
    BY <1>2 DEF HandleRequest
  <2>2. eng' = NoRun
    BY <1>1, <2>1, NotRunning
  <2>3. Plain(ctx'.history)
    BY <1>1, <2>1, SessionPlain
  <2> QED BY <2>2, <2>3, TalksNoRun
<1>3. CASE ExecuteSimpleTask
  <2>1. req.phase = "offer" /\ req'.phase = "run"
    BY <1>3 DEF ExecuteSimpleTask
  <2>2. PICK c : c = [ctx EXCEPT !.budget = 0]
    OBVIOUS
  <2>3. StartRun(c)
    BY <1>3, <2>2 DEF ExecuteSimpleTask
  <2>4. c.history = ctx.history
    BY <1>1, <2>2 DEF Contexts
  <2>5. Plain(c.history)
    BY <2>1, <2>4 DEF HistoryInv
  <2> QED BY <2>1, <2>3, <2>5, StartTalks
<1>4. CASE Decompose
  <2>1. req.phase = "offer" /\ eng' = eng /\ ctx' = EmptyContext
    BY <1>4 DEF Decompose
  <2>2. eng' = NoRun
    BY <1>1, <2>1, NotRunning
  <2>3. Plain(ctx'.history)
    BY <2>1, EmptyTalks
  <2> QED BY <2>2, <2>3, TalksNoRun
<1>5. CASE StartSubTask
  <2>1. PICK pad : StartRun([EmptyContext EXCEPT !.pad = pad])
    BY <1>5 DEF StartSubTask
  <2>2. PICK x \in Contexts : x = EmptyContext
    BY EmptyContextType
  <2>3. PICK c : c = [x EXCEPT !.pad = pad]
    OBVIOUS
  <2>4. c.history = x.history
    BY <2>3 DEF Contexts
  <2>5. Plain(c.history) /\ StartRun(c)
    BY <2>1, <2>2, <2>3, <2>4, EmptyTalks
  <2>6. req'.phase = "subtasks"
    <3>1. req \in [phase : {"subtasks"}, n : Nat, left : Nat]
      BY <1>5 DEF StartSubTask, IInv, SessionInv, SessionType, RequestType
    <3> QED BY <1>5, <3>1 DEF StartSubTask
  <2> QED BY <2>5, <2>6, StartTalks
<1>6. CASE EndSubTask \/ EndRun
  <2>1. eng' = NoRun /\ req'.phase # "offer"
    BY <1>6 DEF EndSubTask, EndRun, Reply, kernelVars
  <2> QED BY <2>1, TalksNoRun
<1>7. CASE RunStep /\ UNCHANGED kernelVars
  <2>1. EngineTalks'
    BY <1>1, <1>7, RunTalks DEF HistoryInv
  <2>2. eng.phase # "none"
    BY <1>1, <1>7, RunStepKeeps
  <2>3. req.phase # "offer" /\ req' = req
    BY <1>1, <1>7, <2>2 DEF RunsForRequest, kernelVars
  <2> QED BY <2>1, <2>3 DEF HistoryInv
<1>8. CASE (Remember /\ UNCHANGED kernelVars) \/ UNCHANGED vars
           \/ \E kind \in Kinds, meta \in {"sourced", "bare"} : Submit(kind, meta)
  <2>1. eng' = eng /\ ctx' = ctx /\ req' = req
    BY <1>8 DEF Remember, kernelVars, engineVars, vars, Submit
  <2> QED BY <2>1, TalksSame
<1>9. CASE Execute \/ EndSubTasks \/ HandleClear \/ HandleModel \/ HandleCommand \/ Persist \/ Send \/ Finish
  <2>1. eng' = eng /\ ctx' = ctx
    BY <1>9 DEF Execute, EndSubTasks, HandleClear, HandleModel, HandleCommand, Persist, Send, Finish, engineVars
  <2>2. req' = req \/ req'.phase # "offer"
    <3>1. CASE Execute
      BY <3>1 DEF Execute
    <3>2. CASE EndSubTasks \/ HandleClear \/ HandleModel \/ HandleCommand
      BY <3>2 DEF EndSubTasks, HandleClear, HandleModel, HandleCommand, Reply, Return
    <3>3. CASE Persist
      <4>1. \/ req' = [phase |-> "returned", n |-> req.n, outcome |-> "error"]
            \/ req' = [phase |-> "send", n |-> req.n]
        BY <3>3, Zenon DEF Persist, Return
      <4> QED BY ONLY <4>1
    <3>4. CASE Send \/ Finish
      BY <3>4 DEF Send, Finish, Return, Idle
    <3> QED BY <1>9, <3>1, <3>2, <3>3, <3>4
  <2> QED BY <2>1, <2>2, TalksSame
<1> QED BY <1>2, <1>3, <1>4, <1>5, <1>6, <1>7, <1>8, <1>9 DEF Next

\* Whatever Prune has dropped, what Think sends is well-formed on the wire of
\* every provider: each call is followed by its result and each result follows
\* its call, but for results a budget has cut off from theirs at the front, the
\* prompt comes first or is the instructions, and the providers that send no
\* calls send an item per message (the Generate methods, toCodexInput).
THEOREM WireWellFormed == Spec => []WireIsWellFormed
<1>1. Init => HistoryInv
  <2> SUFFICES ASSUME Init PROVE HistoryInv
    OBVIOUS
  <2>1. eng.phase = "none" /\ req.phase = "idle"
    BY DEF Init, EngineInit, NoRun, Idle
  <2> QED BY <2>1 DEF HistoryInv, EngineTalks
<1>2. IInv /\ HistoryInv /\ [Next]_vars => HistoryInv'
  BY HistoryKept
<1>3. IInv /\ HistoryInv => WireIsWellFormed
  <2> SUFFICES ASSUME IInv, HistoryInv, eng.phase = "think" PROVE WireIsWellFormed
    BY DEF WireIsWellFormed
  <2>1. ctx \in Contexts /\ Talk(ctx.history, ctx.budget)
    BY DEF IInv, EngineInv, EngineType, HistoryInv, EngineTalks
  <2> QED BY <2>1, WireSound
<1> QED BY <1>1, <1>2, <1>3, Inductive, PTL DEF Spec
=============================================================================
