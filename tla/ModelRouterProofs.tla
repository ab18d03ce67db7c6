------------------------- MODULE ModelRouterProofs -------------------------
(***************************************************************************)
(* What the router and the codex provider promise, for every               *)
(* configuration, every list of model names and every number of logins,    *)
(* requests, calls and parts of a response: a token on disk belongs to the *)
(* login that wrote it, a request is given up only when the providers it   *)
(* should go to were asked, and a streamed response says what was sent.    *)
(***************************************************************************)
EXTENDS ModelRouter, FiniteSetTheorems, SequenceTheorems, WellFoundedInduction, TLAPS

\* The login command: a code it holds is its own.
LoginInv ==
  /\ login \in [phase : {"idle", "waiting", "saving", "truncated", "done", "failed"}, n : Nat, code : Nat]
  /\ login.code \in {NoCode, login.n}
  /\ login.phase \in {"saving", "truncated"} => login.code = login.n
  /\ TokenFromOwnLogin

Models == Range(Names)

Ends == {"ok", "failed", "not_found", "exhausted", "cancelled"}

\* A completion in progress: the provider at hand, and who was asked before.
RouteInv ==
  Attempting =>
    /\ request \in [op : {"route"}, model : Models, phase : {"attempt"}, attempt : Nat,
                    current : Models, provider : Models]
    /\ request.provider \in Providers
    /\ request.attempt = 0 =>
          /\ request.current = request.model /\ request.provider = Resolved(request.model)
          /\ asked = IF gen = "idle" THEN <<>> ELSE <<request.provider>>
    /\ request.attempt # 0 =>
          /\ request.current = cfg.fallback /\ request.provider = cfg.fallback
          /\ asked # <<>> /\ (request.model \in Providers => asked[1] = request.model)
          /\ gen # "idle" => asked[Len(asked)] = request.provider

\* An embedding in progress: the providers asked and those to come are all there
\* are, each once.
EmbedInv ==
  Trying =>
    /\ request \in [op : {"embed"}, model : Models, phase : {"try"}, order : Seq(Models), lastErr : BOOLEAN]
    /\ IsInjective(request.order) /\ IsInjective(asked)
    /\ Range(asked) \subseteq Providers
    /\ Range(asked) \cap Range(request.order) = {}
    /\ Providers \subseteq Range(asked) \cup Range(request.order)

\* The request is none, in progress or answered; the codex provider works only
\* for a completion in progress.
RequestInv ==
  /\ cfg \in Configs
  /\ asked \in Seq(Models)
  /\ request.op \in {"none", "route", "embed"}
  /\ request.op = "none" => request = Idle /\ asked = <<>>
  /\ request.op # "none" => request.model \in Models /\ request.phase \in {"attempt", "try"} \cup Ends
  /\ request.op = "route" => request.phase # "try"
  /\ request.op = "embed" => request.phase # "attempt"
  /\ gen # "idle" => Attempting /\ KindOf(request.provider) = "openai-codex"

\* Argument pieces and tool calls on the parser's heap.
Pieces    == [call : Calls \cup {"", "{}"}, part : Nat]
ToolCalls == [id : Int, name : Calls, input : Seq(Pieces)]

\* A tool call has the id the vendor gave it, or none, or one that was made up, and
\* holds no part of another one's arguments.
Own(ids, tc) ==
  /\ ids[tc.name] # NoID => tc.id = ids[tc.name]
  /\ ids[tc.name] = NoID => tc.id >= 0
  /\ \A n \in DOMAIN tc.input : tc.input[n].part # 0 => tc.input[n].call = tc.name

HeapOK(ids, heap) == heap \in Seq(ToolCalls) /\ \A i \in DOMAIN heap : Own(ids, heap[i])

\* What is listed has an id, no other has the same, and its arguments are whole or
\* an empty object.
Listed(heap, calls) ==
  /\ calls \in Seq(DOMAIN heap)
  /\ \A j \in DOMAIN calls : heap[calls[j]].id # NoID
  /\ \A i, j \in DOMAIN calls : heap[calls[i]].id = heap[calls[j]].id => i = j
  /\ \A j \in DOMAIN calls : heap[calls[j]].input \in {Whole(heap[calls[j]].name), Braces}

\* The calls of W have their arguments whole wherever they are.
WholeIn(heap, W) == \A i \in DOMAIN heap : heap[i].name \in W => heap[i].input = Whole(heap[i].name)

\* A call is listed, with its arguments if it has no id.
Shows(ids, heap, calls, c) ==
  \E j \in DOMAIN calls :
    heap[calls[j]].name = c /\ (ids[c] = NoID => heap[calls[j]].input = Whole(c))

Covers(ids, heap, calls, D) == \A c \in D : Shows(ids, heap, calls, c)

\* None of the ids has the form of those the parser makes up.
Foreign(ids) == \A c \in Calls : ids[c] <= 0

\* Then these are numbered as the calls are listed, and only listed calls have one.
MadeUp(heap, calls) ==
  /\ \A j \in DOMAIN calls : heap[calls[j]].id <= Len(calls)
  /\ \A i \in DOMAIN heap : heap[i].id > 0 => \E j \in DOMAIN calls : calls[j] = i

\* The calls of O have one tool call at most.
Once(heap, O) ==
  \A i, k \in DOMAIN heap : heap[i].name = heap[k].name /\ heap[i].name \in O => i = k

Parses(ids, heap, calls, W, D, O) ==
  /\ HeapOK(ids, heap) /\ Listed(heap, calls)
  /\ WholeIn(heap, W) /\ Covers(ids, heap, calls, D)
  /\ Foreign(ids) => MadeUp(heap, calls) /\ Once(heap, O)

\* The calls whose id cannot be taken for another one's.
Sure(ids) ==
  {c \in Calls : ids[c] < 0 \/ ~\E d, e \in Calls : ids[d] = NoID /\ ids[e] > 0}

\* The first k parts of the arguments of c.
First(c, k) == [n \in 1..k |-> Part(c, n)]

VendorType ==
  /\ vendor \in [id : CallIDs, text : 0..TextParts, textDone : BOOLEAN, completed : BOOLEAN,
                 again : SUBSET Calls, bare : SUBSET Calls,
                 added : [Calls -> {"no", "bare", "quoted"}], parts : [Calls -> 0..ArgParts],
                 argsDone : [Calls -> BOOLEAN], done : [Calls -> BOOLEAN]]
  /\ ~vendor.completed => vendor.again = {} /\ vendor.bare = {}

CallMap(ids, map) == [c \in Calls |-> IF ids[c] # NoID THEN map[c] ELSE NoToolCall]

\* A call has a buffer from its announcement until it is finished, the only one
\* with its name, and in it what was streamed of its arguments.
BufferInv ==
  /\ byItem \in [Calls -> Nat] /\ byCall = CallMap(vendor.id, byItem)
  /\ \A c \in Calls : byItem[c] # NoToolCall <=> vendor.added[c] # "no" /\ ~vendor.done[c]
  /\ \A c \in Calls : byItem[c] # NoToolCall =>
       /\ byItem[c] \in DOMAIN buf /\ buf[byItem[c]].name = c
       /\ vendor.argsDone[c] => buf[byItem[c]].input = Whole(c)
       /\ vendor.added[c] = "bare" /\ ~vendor.argsDone[c] =>
            buf[byItem[c]].input = First(c, vendor.parts[c])
  /\ \A i \in DOMAIN buf : buf[i].name \in DoneCalls \/ byItem[buf[i].name] = i
  /\ \A j \in DOMAIN out.calls : buf[out.calls[j]].name \in DoneCalls
  /\ \A c \in Calls : vendor.argsDone[c] => vendor.added[c] # "no"

OutInv ==
  /\ out \in [text : Nat, calls : Seq(Nat)]
  /\ out.text = IF vendor.textDone THEN TextParts ELSE vendor.text

\* Finished calls are listed, with their arguments unless they were repeated bare.
FullCalls  == DoneCalls \ vendor.bare
SureCalls  == DoneCalls \cap Sure(vendor.id)
OnceCalls  == {c \in Calls : vendor.id[c] = NoID /\ c \notin vendor.again}

Parsed == Parses(vendor.id, buf, out.calls, FullCalls, SureCalls, OnceCalls)

StreamInv == VendorType /\ Parsed /\ BufferInv /\ OutInv

ParserInv == gen = "streaming" => StreamInv

IInv ==
  /\ LoginInv
  /\ RequestInv /\ RouteInv /\ EmbedInv /\ GivesUpOnlyWhenExhausted
  /\ ParserInv /\ ResponseIsFaithful

-----------------------------------------------------------------------------
(* Induction over the natural numbers, stated of sets                      *)

\* A nonempty set of natural numbers has a least element.
LEMMA LeastNat ==
  ASSUME NEW T, T \subseteq Nat, T # {}
  PROVE  \E x \in T : \A y \in T : x <= y
<1> DEFINE R == OpToRel(<, Nat)
<1>1. IsWellFoundedOn(R, Nat)
  BY NatLessThanWellFounded
<1>2. PICK x \in T : \A y \in T : ~ (<<y, x>> \in R)
  <2> HIDE DEF R
  <2> QED BY <1>1, WFMin
<1>3. \A y \in T : y < x => <<y, x>> \in R
  BY DEF OpToRel
<1>4. \A y \in T : ~(y < x)
  <2> HIDE DEF R
  <2> QED BY <1>2, <1>3
<1>5. x \in Nat /\ \A y \in T : y \in Nat
  OBVIOUS
<1>6. \A y \in T : x <= y
  <2> HIDE DEF R
  <2> QED BY <1>4, <1>5
<1> QED BY <1>6

\* A set that holds 0 and the successor of each of its numbers holds them all.
LEMMA NatInd ==
  ASSUME NEW S, 0 \in S, \A n \in Nat : n \in S => n + 1 \in S
  PROVE  Nat \subseteq S
<1> SUFFICES ASSUME Nat \ S # {} PROVE FALSE
  OBVIOUS
<1>1. PICK x \in Nat \ S : \A y \in Nat \ S : x <= y
  <2> DEFINE T == Nat \ S
  <2>1. T \subseteq Nat /\ T # {}
    OBVIOUS
  <2> HIDE DEF T
  <2>2. \E x \in T : \A y \in T : x <= y
    BY <2>1, LeastNat
  <2> QED BY <2>2 DEF T
<1>2. x # 0 /\ x - 1 \in Nat
  OBVIOUS
<1>3. x - 1 \in S
  BY <1>1, <1>2
<1> QED BY <1>2, <1>3

Steps(G, L, S) == \A k \in 1..L : \A s \in S : G[k][s] \in S

Iterates(f, L, S, z, G) ==
  f \in [0..L -> S] /\ f[0] = z /\ \A k \in 1..L : f[k] = G[k][f[k - 1]]

\* A sequence of values built step by step: G[k] makes the k-th of the one before.
LEMMA IterExists ==
  ASSUME NEW L \in Nat, NEW S, NEW z \in S, NEW G, Steps(G, L, S)
  PROVE  \E f : Iterates(f, L, S, z, G)
<1> USE DEF Steps
<1> DEFINE Upto(f, m) == Iterates(f, m, S, z, G)
           T == {m \in Nat : m <= L => \E f : Upto(f, m)}
<1>1. 0 \in T
  <2>1. Upto([k \in 0..0 |-> z], 0)
    BY DEF Iterates
  <2> QED BY <2>1
<1>2. \A m \in Nat : m \in T => m + 1 \in T
  <2> HIDE DEF Upto, Steps
  <2> SUFFICES ASSUME NEW m \in Nat, m <= L => \E f : Upto(f, m), m + 1 <= L
               PROVE  \E g : Upto(g, m + 1)
    OBVIOUS
  <2> USE DEF Upto, Iterates, Steps
  <2>1. PICK f : Upto(f, m)
    OBVIOUS
  <2> DEFINE last == G[m + 1][f[m]]
             g == [k \in 0..(m + 1) |-> IF k <= m THEN f[k] ELSE last]
  <2>2. last \in S
    <3>1. m + 1 \in 1..L /\ f[m] \in S
      BY <2>1
    <3> QED BY <3>1
  <2> HIDE DEF last
  <2>3. g \in [0..(m + 1) -> S] /\ g[0] = z
    BY <2>1, <2>2
  <2>4. ASSUME NEW k \in 1..(m + 1) PROVE g[k] = G[k][g[k - 1]]
    <3>1. CASE k <= m
      BY <2>1, <3>1
    <3>2. CASE k = m + 1
      <4>1. g[k] = last /\ k - 1 = m /\ g[m] = f[m]
        BY <3>2
      <4> QED BY <3>2, <4>1 DEF last
    <3> QED BY <3>1, <3>2
  <2> HIDE DEF g
  <2> QED BY <2>3, <2>4
<1> HIDE DEF T
<1>3. Nat \subseteq T
  BY <1>1, <1>2, NatInd
<1>4. L \in T
  BY <1>3
<1> QED BY <1>4 DEF T

\* What holds of the first and is kept from each to the next holds of all.
LEMMA IterInvariant ==
  ASSUME NEW L \in Nat, NEW f, NEW P,
         f[0] \in P[0], \A k \in 1..L : f[k - 1] \in P[k - 1] => f[k] \in P[k]
  PROVE  \A k \in 0..L : f[k] \in P[k]
<1> DEFINE T == {m \in Nat : m <= L => f[m] \in P[m]}
<1>1. 0 \in T
  OBVIOUS
<1>2. \A m \in Nat : m \in T => m + 1 \in T
  <2> SUFFICES ASSUME NEW m \in Nat, m <= L => f[m] \in P[m], m + 1 <= L PROVE f[m + 1] \in P[m + 1]
    OBVIOUS
  <2>1. m + 1 \in 1..L /\ (m + 1) - 1 = m /\ m <= L
    OBVIOUS
  <2> QED BY <2>1
<1> HIDE DEF T
<1>3. Nat \subseteq T
  BY <1>1, <1>2, NatInd
<1> QED BY <1>3 DEF T

-----------------------------------------------------------------------------
(* Sequences without repetition                                            *)

LEMMA AppendFresh ==
  ASSUME NEW S, NEW s \in Seq(S), NEW x \in S, IsInjective(s), x \notin Range(s)
  PROVE  /\ Append(s, x) \in Seq(S)
         /\ IsInjective(Append(s, x))
         /\ Range(Append(s, x)) = Range(s) \cup {x}
<1> DEFINE a == Append(s, x)
<1>1. /\ a \in Seq(S) /\ Len(s) \in Nat /\ DOMAIN s = 1..Len(s)
      /\ DOMAIN a = 1..(Len(s) + 1)
      /\ \A i \in 1..Len(s) : a[i] = s[i]
      /\ a[Len(s) + 1] = x
  BY AppendProperties, LenProperties
<1> HIDE DEF a
<1>2. \A i \in DOMAIN a : i \in DOMAIN s \/ i = Len(s) + 1
  BY <1>1
<1>3. \A i \in DOMAIN s : i \in DOMAIN a /\ a[i] \in Range(s)
  BY <1>1 DEF Range
<1>4. IsInjective(a)
  <2> SUFFICES ASSUME NEW i \in DOMAIN a, NEW j \in DOMAIN a, a[i] = a[j] PROVE i = j
    BY DEF IsInjective
  <2>1. CASE i \in DOMAIN s /\ j \in DOMAIN s
    BY <2>1, <1>1 DEF IsInjective
  <2>2. CASE i = Len(s) + 1 \/ j = Len(s) + 1
    BY <2>2, <1>1, <1>2, <1>3
  <2> QED BY <1>2, <2>1, <2>2
<1>5. Range(a) \subseteq Range(s) \cup {x}
  BY <1>1, <1>2, <1>3 DEF Range
<1>6. Len(s) + 1 \in DOMAIN a
  BY <1>1
<1>7. Range(s) \cup {x} \subseteq Range(a)
  BY <1>1, <1>3, <1>6 DEF Range
<1> QED BY <1>1, <1>4, <1>5, <1>7 DEF a

LEMMA TailFresh ==
  ASSUME NEW S, NEW s \in Seq(S), s # <<>>, IsInjective(s)
  PROVE  /\ Head(s) \in S /\ Tail(s) \in Seq(S)
         /\ IsInjective(Tail(s))
         /\ Head(s) \notin Range(Tail(s))
         /\ Range(s) = {Head(s)} \cup Range(Tail(s))
<1> DEFINE r == Tail(s)
<1>1. /\ r \in Seq(S) /\ Len(s) \in Nat \ {0} /\ DOMAIN s = 1..Len(s)
      /\ DOMAIN r = 1..(Len(s) - 1)
      /\ \A i \in 1..(Len(s) - 1) : r[i] = s[i + 1]
      /\ Head(s) = s[1] /\ Head(s) \in S
  BY HeadTailProperties, LenProperties, EmptySeq
<1> HIDE DEF r
<1>2. \A i \in DOMAIN r : i + 1 \in DOMAIN s /\ i + 1 # 1 /\ r[i] = s[i + 1] /\ i \in Nat
  BY <1>1
<1>3. \A i \in DOMAIN s : i = 1 \/ (i - 1 \in DOMAIN r /\ r[i - 1] = s[i])
  BY <1>1
<1>4. 1 \in DOMAIN s
  BY <1>1
<1>5. IsInjective(r)
  <2> SUFFICES ASSUME NEW i \in DOMAIN r, NEW j \in DOMAIN r, r[i] = r[j] PROVE i = j
    BY DEF IsInjective
  <2>1. i + 1 = j + 1
    BY <1>2 DEF IsInjective
  <2> QED BY <2>1, <1>2
<1>6. Head(s) \notin Range(r)
  <2> SUFFICES ASSUME NEW i \in DOMAIN r, r[i] = s[1] PROVE FALSE
    BY <1>1 DEF Range
  <2> QED BY <1>2, <1>4 DEF IsInjective
<1>7. Range(s) \subseteq {Head(s)} \cup Range(r)
  BY <1>1, <1>3 DEF Range
<1>8. {Head(s)} \cup Range(r) \subseteq Range(s)
  BY <1>1, <1>2, <1>4 DEF Range
<1> QED BY <1>1, <1>5, <1>6, <1>7, <1>8 DEF r

\* Such a sequence is as long as the set of its elements is large.
LEMMA FreshLength ==
  ASSUME NEW S, NEW s \in Seq(S), IsInjective(s)
  PROVE  Len(s) = Cardinality(Range(s))
<1>1. Len(s) \in Nat /\ DOMAIN s = 1..Len(s) /\ s \in [1..Len(s) -> S]
  BY LenProperties
<1>2. s \in [1..Len(s) -> Range(s)]
  BY <1>1 DEF Range
<1>3. s \in Bijection(1..Len(s), Range(s))
  BY <1>1, <1>2 DEF Bijection, Injection, Surjection, Range
<1>4. ExistsBijection(1..Len(s), Range(s))
  BY <1>3 DEF ExistsBijection
<1> QED BY <1>1, <1>4, FS_CountingElements

LEMMA EmptyFresh ==
  ASSUME NEW S
  PROVE  <<>> \in Seq(S) /\ IsInjective(<<>>) /\ Range(<<>>) = {}
<1>1. <<>> \in Seq(S) /\ DOMAIN <<>> = {}
  BY EmptySeq
<1> QED BY <1>1 DEF IsInjective, Range

-----------------------------------------------------------------------------
(* The try order                                                           *)

LEMMA ConfigFacts ==
  ASSUME cfg \in Configs
  PROVE  /\ Providers \subseteq Models
         /\ NoModel \notin Models
         /\ cfg.fallback \in Models \cup {NoModel}
         /\ MaxAttempts \in Nat
<1>1. ConfigOK(cfg) /\ NoModel \notin Models
  BY RouterAssumption DEF Models
<1> QED BY <1>1 DEF ConfigOK, Providers, Models, MaxAttempts, DefaultMax

\* embeddingTryOrder lists names of models, each once, and every registered one:
\* the recursive function of its definition exists, and has this property.
LEMMA TryOrderComplete ==
  ASSUME cfg \in Configs, NEW model \in Models
  PROVE  /\ TryOrder(model) \in Seq(Models)
         /\ IsInjective(TryOrder(model))
         /\ Providers \subseteq Range(TryOrder(model))
<1> DEFINE fallback == cfg.fallback
           cs == <<model, fallback>> \o Names
           L == Len(cs)
           Next1(o, k) == IF k > 2 /\ cs[k] \notin Providers THEN o ELSE AppendUnique(o, cs[k])
           Is(f) == f = [k \in 0..L |->
                           IF k = 0 THEN <<>>
                           ELSE IF k > 2 /\ cs[k] \notin Providers THEN f[k - 1]
                           ELSE AppendUnique(f[k - 1], cs[k])]
           order == CHOOSE f : Is(f)
           Upto(f, m) == DOMAIN f = 0..m /\ f = [k \in 0..m |-> IF k = 0 THEN <<>> ELSE Next1(f[k - 1], k)]
           Good(o, m) ==
               /\ o \in Seq(Models) /\ IsInjective(o)
               /\ \A i \in 3..m : cs[i] \in Providers => cs[i] \in Range(o)
<1>1. TryOrder(model) = order[L]
  BY DEF TryOrder
<1>2. Providers \subseteq Models /\ NoModel \notin Models /\ fallback \in Models \cup {NoModel}
  BY ConfigFacts
<1>3. Names \in Seq(Models) /\ Len(Names) \in Nat /\ DOMAIN Names = 1..Len(Names)
  BY RouterAssumption, LenProperties DEF Models
<1>4. /\ cs \in Seq(Models \cup {NoModel}) /\ L = Len(Names) + 2 /\ L \in Nat
      /\ \A i \in 1..L : cs[i] \in Models \cup {NoModel}
      /\ \A i \in 1..Len(Names) : cs[i + 2] = Names[i]
  <2> DEFINE M == Models \cup {NoModel}
             two == <<model, fallback>>
  <2>1. two \in Seq(M) /\ Len(two) = 2 /\ Names \in Seq(M)
    BY <1>2, <1>3, SeqMonotonic
  <2> HIDE DEF two, M
  <2>2. /\ two \o Names \in Seq(M) /\ Len(two \o Names) = 2 + Len(Names)
        /\ \A i \in 1..(2 + Len(Names)) : (two \o Names)[i] = IF i <= 2 THEN two[i] ELSE Names[i - 2]
    <3>1. /\ two \o Names \in Seq(M) /\ Len(two \o Names) = Len(two) + Len(Names)
          /\ \A i \in 1..(Len(two) + Len(Names)) :
                (two \o Names)[i] = IF i <= Len(two) THEN two[i] ELSE Names[i - Len(two)]
      BY <2>1, ConcatProperties
    <3> QED BY <2>1, <3>1
  <2>3. \A i \in 1..Len(two \o Names) : (two \o Names)[i] \in M
    BY <2>2, ElementOfSeq
  <2>4. \A i \in 1..Len(Names) : (two \o Names)[i + 2] = Names[i]
    <3> SUFFICES ASSUME NEW i \in 1..Len(Names) PROVE (two \o Names)[i + 2] = Names[i]
      OBVIOUS
    <3>1. i + 2 \in 1..(2 + Len(Names)) /\ ~(i + 2 <= 2) /\ (i + 2) - 2 = i
      BY <1>3
    <3> QED BY <3>1, <2>2
  <2> QED BY <1>3, <2>2, <2>3, <2>4 DEF two, M
<1> HIDE DEF cs, fallback
<1>5. \E f : Upto(f, 0)
  <2>1. Upto([k \in 0..0 |-> <<>>], 0)
    OBVIOUS
  <2> QED BY <2>1
<1>6. ASSUME NEW m \in Nat, NEW f, Upto(f, m) PROVE \E g : Upto(g, m + 1)
  <2> HIDE DEF Next1
  <2> DEFINE last == Next1(f[m], m + 1)
             g == [k \in 0..(m + 1) |-> IF k <= m THEN f[k] ELSE last]
  <2>1. \A k \in 0..(m + 1) : g[k] = IF k = 0 THEN <<>> ELSE Next1(g[k - 1], k)
    <3> SUFFICES ASSUME NEW k \in 0..(m + 1) PROVE g[k] = IF k = 0 THEN <<>> ELSE Next1(g[k - 1], k)
      OBVIOUS
    <3>1. \A i \in 0..m : f[i] = IF i = 0 THEN <<>> ELSE Next1(f[i - 1], i)
      BY <1>6
    <3>2. CASE k = 0
      BY <3>1, <3>2
    <3>3. CASE k # 0 /\ k <= m
      <4>1. k \in 0..m /\ k - 1 \in 0..(m + 1) /\ k - 1 <= m
        BY <3>3
      <4>2. g[k] = f[k] /\ g[k - 1] = f[k - 1]
        BY <4>1, <3>3
      <4> QED BY <4>1, <4>2, <3>1, <3>3
    <3>4. CASE k = m + 1
      <4>1. k - 1 = m /\ m \in 0..(m + 1) /\ ~(k <= m) /\ k # 0
        BY <3>4
      <4>2. g[k] = last /\ g[k - 1] = f[m]
        BY <4>1
      <4> QED BY <4>1, <4>2, <3>4
    <3> QED BY <3>2, <3>3, <3>4
  <2>2. DOMAIN g = 0..(m + 1) /\ g = [k \in DOMAIN g |-> g[k]]
    OBVIOUS
  <2> HIDE DEF g
  <2>3. Upto(g, m + 1)
    BY <2>1, <2>2
  <2> QED BY <2>3
<1>7. \E f : Upto(f, L)
  <2> HIDE DEF Upto
  <2> DEFINE S == {m \in Nat : \E f : Upto(f, m)}
  <2>1. 0 \in S
    BY <1>5
  <2>2. \A m \in Nat : m \in S => m + 1 \in S
    BY <1>6
  <2> HIDE DEF S
  <2>3. Nat \subseteq S
    BY <2>1, <2>2, NatInd
  <2>4. L \in S
    BY <2>3, <1>4
  <2> QED BY <2>4 DEF S
<1>8. Is(order)
  <2>1. PICK f : Upto(f, L)
    BY <1>7
  <2>2. Is(f)
    BY <2>1
  <2> HIDE DEF Is
  <2> QED BY <2>2
<1> HIDE DEF order, L
<1>9. order[0] = <<>> /\ \A k \in 1..L : order[k] = Next1(order[k - 1], k)
  <2>1. \A k \in 0..L : order[k] = IF k = 0 THEN <<>>
                                    ELSE IF k > 2 /\ cs[k] \notin Providers THEN order[k - 1]
                                    ELSE AppendUnique(order[k - 1], cs[k])
    BY <1>8
  <2>2. 0 \in 0..L /\ \A k \in 1..L : k \in 0..L /\ k # 0
    BY <1>4
  <2> QED BY <2>1, <2>2
<1>10. \A m \in Nat : m <= L => Good(order[m], m)
  <2> DEFINE S == {m \in Nat : m <= L => Good(order[m], m)}
  <2>1. 0 \in S
    <3>1. <<>> \in Seq(Models) /\ IsInjective(<<>>)
      BY EmptyFresh
    <3>2. Good(<<>>, 0)
      BY <3>1
    <3> HIDE DEF Good
    <3> QED BY <3>2, <1>9
  <2>2. \A m \in Nat : m \in S => m + 1 \in S
    <3> SUFFICES ASSUME NEW m \in Nat, m <= L => Good(order[m], m), m + 1 <= L
                 PROVE  Good(order[m + 1], m + 1)
      OBVIOUS
    <3> DEFINE o == order[m]
               x == cs[m + 1]
    <3>1. o \in Seq(Models) /\ IsInjective(o) /\ \A i \in 3..m : cs[i] \in Providers => cs[i] \in Range(o)
      BY <1>4
    <3>2. order[m + 1] = IF m + 1 > 2 /\ x \notin Providers THEN o ELSE AppendUnique(o, x)
      BY <1>4, <1>9
    <3>3. x \in Models \cup {NoModel}
      BY <1>4
    <3>4. \A i \in 3..(m + 1) : i \in 3..m \/ (i = m + 1 /\ m + 1 > 2)
      OBVIOUS
    <3>5. CASE order[m + 1] = o /\ ((m + 1 > 2 /\ x \notin Providers) \/ x = NoModel \/ x \in Range(o))
      <4>1. x \in Providers /\ m + 1 > 2 => x \in Range(o)
        BY <3>5, <1>2
      <4> HIDE DEF o
      <4>2. \A i \in 3..(m + 1) : cs[i] \in Providers => cs[i] \in Range(o)
        BY <3>1, <3>4, <4>1
      <4> QED BY <3>1, <3>5, <4>2
    <3>6. CASE order[m + 1] = Append(o, x) /\ x # NoModel /\ x \notin Range(o)
      <4> HIDE DEF o
      <4>1. x \in Models
        BY <3>3, <3>6
      <4>2. Append(o, x) \in Seq(Models) /\ IsInjective(Append(o, x)) /\ Range(Append(o, x)) = Range(o) \cup {x}
        BY <3>1, <3>6, <4>1, AppendFresh
      <4>3. \A i \in 3..(m + 1) : cs[i] \in Providers => cs[i] \in Range(o) \cup {x}
        BY <3>1, <3>4
      <4> QED BY <3>6, <4>2, <4>3
    <3> QED BY <3>2, <3>5, <3>6 DEF AppendUnique
  <2> HIDE DEF S
  <2>3. Nat \subseteq S
    BY <2>1, <2>2, NatInd
  <2> QED BY <2>3 DEF S
<1>11. Good(order[L], L)
  BY <1>4, <1>10
<1>12. Providers \subseteq Range(order[L])
  <2> SUFFICES ASSUME NEW p \in Providers PROVE p \in Range(order[L])
    OBVIOUS
  <2>1. PICK i \in 1..Len(Names) : Names[i] = p
    BY <1>2, <1>3 DEF Models, Range
  <2>2. i + 2 \in 3..L /\ cs[i + 2] = p
    BY <2>1, <1>3, <1>4
  <2> QED BY <2>2, <1>11
<1> QED BY <1>1, <1>11, <1>12

-----------------------------------------------------------------------------
(* The login                                                               *)

LEMMA LoginStep ==
  ASSUME LoginInv, Login \/ UNCHANGED loginVars
  PROVE  LoginInv'
<1> DEFINE Phases == {"idle", "waiting", "saving", "truncated", "done", "failed"}
<1>1. /\ login \in [phase : Phases, n : Nat, code : Nat]
      /\ login.code \in {NoCode, login.n}
      /\ login.phase \in {"saving", "truncated"} => login.code = login.n
      /\ tokenFile.kind = "token" => tokenFile.code = tokenFile.login
  BY DEF LoginInv, TokenFromOwnLogin
<1> DEFINE Inv2 == /\ login' \in [phase : Phases, n : Nat, code : Nat]
                   /\ login'.code \in {NoCode, login'.n}
                   /\ login'.phase \in {"saving", "truncated"} => login'.code = login'.n
                   /\ tokenFile'.kind = "token" => tokenFile'.code = tokenFile'.login
<1> SUFFICES Inv2
  BY DEF LoginInv, TokenFromOwnLogin
<1>2. CASE StartLogin
  BY <1>1, <1>2 DEF StartLogin, NoCode
<1>3. ASSUME NEW state \in 1..login.n, Callback(state) PROVE Inv2
  BY <1>1, <1>3 DEF Callback, AcceptsState, NoCode
<1>4. CASE ExchangeCode
  BY <1>1, <1>4 DEF ExchangeCode
<1>5. CASE LoginFails
  BY <1>1, <1>5 DEF LoginFails
<1>6. CASE TruncateToken
  BY <1>1, <1>6 DEF TruncateToken, Cut
<1>7. CASE EncodeToken
  BY <1>1, <1>7 DEF EncodeToken
<1>8. CASE KillLogin
  BY <1>1, <1>8 DEF KillLogin
<1>9. CASE UNCHANGED loginVars
  BY <1>1, <1>9 DEF loginVars
<1> HIDE DEF Inv2
<1> QED BY <1>2, <1>3, <1>4, <1>5, <1>6, <1>7, <1>8, <1>9 DEF Login

\* The stream leaves the login alone and neither begins nor ends a request.
LEMMA StreamStep ==
  ASSUME Stream
  PROVE  gen # "idle" /\ gen' # "idle" /\ UNCHANGED loginVars
<1>1. CASE SendRequest
  BY <1>1 DEF SendRequest
<1>2. CASE TextDelta \/ TextDone
  BY <1>2 DEF TextDelta, TextDone, Streaming
<1>3. ASSUME NEW c \in Calls, NEW b \in BOOLEAN, ItemAdded(c, b) \/ ItemDone(c, b)
      PROVE  gen # "idle" /\ gen' # "idle" /\ UNCHANGED loginVars
  BY <1>3 DEF ItemAdded, ItemDone, Streaming
<1>4. ASSUME NEW c \in Calls, ArgsDelta(c) \/ ArgsDone(c)
      PROVE  gen # "idle" /\ gen' # "idle" /\ UNCHANGED loginVars
  BY <1>4 DEF ArgsDelta, ArgsDone, Streaming
<1>5. CASE Completed
  BY <1>5 DEF Completed, Streaming
<1>6. CASE StreamFails \/ StreamEnds
  BY <1>6 DEF StreamFails, StreamEnds
<1> QED BY <1>1, <1>2, <1>3, <1>4, <1>5, <1>6 DEF Stream

-----------------------------------------------------------------------------
(* The router                                                              *)

RouterInv == RequestInv /\ RouteInv /\ EmbedInv /\ GivesUpOnlyWhenExhausted

LEMMA ConfigFrame ==
  ASSUME cfg' = cfg
  PROVE  /\ Providers' = Providers /\ MaxAttempts' = MaxAttempts
         /\ \A m : Resolved(m)' = Resolved(m) /\ KindOf(m)' = KindOf(m)
<1>1. Providers' = Providers /\ MaxAttempts' = MaxAttempts
  BY DEF Providers, MaxAttempts
<1> QED BY <1>1 DEF Resolved, KindOf

\* A registered model is served by its own provider, and one that is not by a
\* registered fallback.
LEMMA ResolvedFacts ==
  ASSUME cfg \in Configs, NEW m \in Models
  PROVE  /\ Resolved(m) \in Providers \cup {NoModel}
         /\ m \in Providers => Resolved(m) = m
         /\ Resolved(m) = NoModel => m \notin Providers /\ cfg.fallback \notin Providers
<1>1. Providers \subseteq Models /\ NoModel \notin Models
  BY ConfigFacts
<1> QED BY <1>1 DEF Resolved

\* A step that leaves the request where it is.
LEMMA RouterFrame ==
  ASSUME RouterInv, cfg' = cfg, request' = request, asked' = asked, gen' = "idle" <=> gen = "idle"
  PROVE  RouterInv'
<1> USE DEF RouterInv
<1>1. Providers' = Providers /\ MaxAttempts' = MaxAttempts
      /\ \A m : Resolved(m)' = Resolved(m) /\ KindOf(m)' = KindOf(m)
  BY ConfigFrame
<1>2. Resolved(request.model)' = Resolved(request.model) /\ KindOf(request.provider)' = KindOf(request.provider)
  BY <1>1 DEF Resolved, KindOf
<1>3. Attempting' = Attempting /\ Trying' = Trying /\ Answered' = Answered
  BY DEF Attempting, Trying, Answered
<1>4. RequestInv'
  BY <1>2, <1>3 DEF RequestInv
<1>5. RouteInv'
  BY <1>1, <1>2, <1>3 DEF RouteInv
<1>6. EmbedInv'
  BY <1>1, <1>3 DEF EmbedInv
<1>7. GivesUpOnlyWhenExhausted'
  BY <1>1, <1>3 DEF GivesUpOnlyWhenExhausted
<1> QED BY <1>4, <1>5, <1>6, <1>7

\* The request is answered.
LEMMA EndStep ==
  ASSUME RouterInv, request.op \in {"route", "embed"}, NEW result \in Ends, End(result),
         cfg' = cfg, gen' = "idle", asked' \in Seq(Models)
  PROVE  /\ RequestInv' /\ RouteInv' /\ EmbedInv'
         /\ request'.op = request.op /\ request'.model = request.model /\ request'.phase = result
<1>1. request'.op = request.op /\ request'.model = request.model /\ request'.phase = result
  BY DEF End
<1>2. request.model \in Models /\ cfg \in Configs
  BY DEF RouterInv, RequestInv
<1>3. result \notin {"attempt", "try"}
  BY DEF Ends
<1>4. ~Attempting' /\ ~Trying'
  BY <1>1, <1>3 DEF Attempting, Trying
<1>5. RequestInv'
  BY <1>1, <1>2, <1>3 DEF RequestInv
<1>6. RouteInv' /\ EmbedInv'
  BY <1>4 DEF RouteInv, EmbedInv
<1> QED BY <1>1, <1>5, <1>6

LEMMA EndWell ==
  ASSUME RouterInv, request.op \in {"route", "embed"}, NEW result \in {"ok", "cancelled"}, End(result),
         cfg' = cfg, gen' = "idle", asked' \in Seq(Models)
  PROVE  RouterInv'
<1>1. /\ RequestInv' /\ RouteInv' /\ EmbedInv' /\ request'.phase = result
  BY EndStep DEF Ends
<1>2. GivesUpOnlyWhenExhausted'
  BY <1>1 DEF GivesUpOnlyWhenExhausted
<1> QED BY <1>1, <1>2 DEF RouterInv

\* A completion that is given up has asked whom it should.
LEMMA EndRoute ==
  ASSUME RouterInv, request.op = "route", NEW result \in Ends, End(result),
         cfg' = cfg, gen' = "idle", asked' \in Seq(Models),
         request.model \in Providers => asked' # <<>> /\ asked'[1] = request.model,
         cfg.fallback \in Providers /\ MaxAttempts > 1 => asked' # <<>> /\ asked'[Len(asked')] = cfg.fallback
  PROVE  RouterInv'
<1>1. /\ RequestInv' /\ RouteInv' /\ EmbedInv'
      /\ request'.op = "route" /\ request'.model = request.model /\ request'.phase = result
  BY EndStep
<1>2. Providers' = Providers /\ MaxAttempts' = MaxAttempts
  BY ConfigFrame
<1>3. GivesUpOnlyWhenExhausted'
  BY <1>1, <1>2 DEF GivesUpOnlyWhenExhausted
<1> QED BY <1>1, <1>3 DEF RouterInv

\* A provider has failed a completion: the router gives up or goes on.
LEMMA AfterFailureStep ==
  ASSUME RouterInv, Attempting, AfterFailure, cfg' = cfg, gen' = "idle",
         asked' \in Seq(Models), asked' # <<>>, asked'[Len(asked')] = request.provider,
         request.model \in Providers => asked'[1] = request.model
  PROVE  RouterInv'
<1>1. /\ request \in [op : {"route"}, model : Models, phase : {"attempt"}, attempt : Nat,
                      current : Models, provider : Models]
      /\ request.op = "route" /\ request.phase = "attempt" /\ request.model \in Models /\ cfg \in Configs
      /\ request.attempt \in Nat /\ request.provider \in Providers
      /\ request.attempt = 0 => request.current = request.model /\ request.provider = Resolved(request.model)
      /\ request.attempt # 0 => request.current = cfg.fallback /\ request.provider = cfg.fallback
  BY DEF RouterInv, RequestInv, RouteInv, Attempting
<1>2. Providers \subseteq Models /\ NoModel \notin Models /\ MaxAttempts \in Nat
  BY <1>1, ConfigFacts
<1>3. request.model \in Providers => Resolved(request.model) = request.model
  BY <1>1, ResolvedFacts
<1>4. CASE cfg.fallback = NoModel \/ request.current = cfg.fallback
  <2>1. End("failed")
    BY <1>4 DEF AfterFailure
  <2>2. cfg.fallback \in Providers => asked'[Len(asked')] = cfg.fallback
    BY <1>1, <1>2, <1>3, <1>4
  <2> QED BY <1>1, <2>1, <2>2, EndRoute DEF Ends
<1>5. CASE ~(cfg.fallback = NoModel \/ request.current = cfg.fallback) /\ cfg.fallback \notin Providers
  <2>1. End("not_found")
    BY <1>5 DEF AfterFailure
  <2> QED BY <1>1, <1>5, <2>1, EndRoute DEF Ends
<1>6. CASE /\ ~(cfg.fallback = NoModel \/ request.current = cfg.fallback) /\ cfg.fallback \in Providers
           /\ request.attempt + 1 >= MaxAttempts
  <2>1. End("exhausted")
    BY <1>6 DEF AfterFailure
  <2>2. request.attempt = 0
    BY <1>1, <1>6
  <2>3. ~(MaxAttempts > 1)
    BY <1>2, <1>6, <2>2
  <2> QED BY <1>1, <2>1, <2>3, EndRoute DEF Ends
<1>7. CASE /\ ~(cfg.fallback = NoModel \/ request.current = cfg.fallback) /\ cfg.fallback \in Providers
           /\ ~(request.attempt + 1 >= MaxAttempts)
  <2>1. request' = [request EXCEPT !.attempt = request.attempt + 1, !.current = cfg.fallback,
                                   !.provider = cfg.fallback]
    BY <1>7 DEF AfterFailure
  <2>2. request.attempt = 0
    BY <1>1, <1>7
  <2>3. /\ request'.op = "route" /\ request'.phase = "attempt" /\ request'.model = request.model
        /\ request'.attempt = 1 /\ request'.current = cfg.fallback /\ request'.provider = cfg.fallback
        /\ request' \in [op : {"route"}, model : Models, phase : {"attempt"}, attempt : Nat,
                        current : Models, provider : Models]
    <3>1. PICK fb \in Models : fb = cfg.fallback
      BY <1>2, <1>7
    <3>2. request' = [request EXCEPT !.attempt = 1, !.current = fb, !.provider = fb]
      BY <2>1, <2>2, <3>1
    <3>3. /\ request'.op = request.op /\ request'.phase = request.phase /\ request'.model = request.model
          /\ request'.attempt = 1 /\ request'.current = fb /\ request'.provider = fb
      BY <1>1, <3>2
    <3>4. request' \in [op : {"route"}, model : Models, phase : {"attempt"}, attempt : Nat,
                       current : Models, provider : Models]
      BY <1>1, <3>2
    <3> QED BY <1>1, <3>1, <3>3, <3>4
  <2>4. Providers' = Providers
    BY ConfigFrame
  <2>5. RequestInv'
    BY <1>1, <2>3 DEF RequestInv, Ends
  <2>6. RouteInv'
    BY <1>7, <2>3, <2>4 DEF RouteInv
  <2>7. EmbedInv' /\ GivesUpOnlyWhenExhausted'
    BY <2>3 DEF EmbedInv, Trying, GivesUpOnlyWhenExhausted, Answered
  <2> QED BY <2>5, <2>6, <2>7 DEF RouterInv
<1> QED BY <1>4, <1>5, <1>6, <1>7

LEMMA StartRouteStep ==
  ASSUME RouterInv, NEW model \in Models, StartRoute(model)
  PROVE  RouterInv'
<1>1. /\ request = Idle /\ asked = <<>> /\ cfg \in Configs /\ gen = "idle"
  BY DEF RouterInv, RequestInv, StartRoute, Idle, Attempting
<1>2. cfg' = cfg /\ asked' = asked /\ gen' = gen
  BY DEF StartRoute, codexVars, streamVars
<1>3. /\ request'.op = "route" /\ request'.model = model
      /\ request'.phase = IF Resolved(model) = NoModel THEN "not_found" ELSE "attempt"
      /\ request'.attempt = 0 /\ request'.current = model /\ request'.provider = Resolved(model)
  BY DEF StartRoute
<1>4. Providers' = Providers /\ Resolved(model)' = Resolved(model)
  BY <1>2, ConfigFrame
<1>5. /\ Resolved(model) \in Providers \cup {NoModel}
      /\ model \in Providers => Resolved(model) = model
      /\ Resolved(model) = NoModel => model \notin Providers /\ cfg.fallback \notin Providers
  BY <1>1, ResolvedFacts
<1>6. RequestInv'
  <2>1. <<>> \in Seq(Models)
    BY EmptySeq
  <2>2. request'.phase \in {"attempt", "not_found"}
    BY <1>3
  <2> QED BY <1>1, <1>2, <1>3, <2>1, <2>2 DEF RequestInv, Ends
<1>7. RouteInv'
  <2> SUFFICES ASSUME Attempting' PROVE
        /\ request' \in [op : {"route"}, model : Models, phase : {"attempt"}, attempt : Nat,
                        current : Models, provider : Models]
        /\ request'.provider \in Providers'
        /\ request'.attempt = 0
        /\ request'.current = request'.model /\ request'.provider = Resolved(request.model)'
        /\ asked' = <<>>
    BY <1>1, <1>2 DEF RouteInv
  <2>1. Resolved(model) # NoModel
    BY <1>3 DEF Attempting
  <2>2. Resolved(request.model)' = Resolved(model)
    BY <1>2, <1>3, <1>4 DEF Resolved
  <2>3. request' = [op |-> "route", model |-> model, phase |-> "attempt",
                    attempt |-> 0, current |-> model, provider |-> Resolved(model)]
    BY <2>1 DEF StartRoute
  <2>4. Resolved(model) \in Providers /\ Resolved(model) \in Models
    BY <1>1, <1>5, <2>1, ConfigFacts
  <2>5. request' \in [op : {"route"}, model : Models, phase : {"attempt"}, attempt : Nat,
                     current : Models, provider : Models]
    BY <2>3, <2>4
  <2> QED BY <1>1, <1>2, <1>3, <1>4, <2>2, <2>4, <2>5
<1>8. EmbedInv'
  BY <1>3 DEF EmbedInv, Trying
<1>9. GivesUpOnlyWhenExhausted'
  <2> SUFFICES ASSUME Answered' PROVE model \notin Providers /\ cfg.fallback \notin Providers
    BY <1>2, <1>3, <1>4 DEF GivesUpOnlyWhenExhausted
  <2>1. Resolved(model) = NoModel
    BY <1>3 DEF Answered
  <2> QED BY <1>5, <2>1
<1> QED BY <1>6, <1>7, <1>8, <1>9 DEF RouterInv

LEMMA StartEmbeddingStep ==
  ASSUME RouterInv, NEW model \in Models, StartEmbedding(model)
  PROVE  RouterInv'
<1>1. /\ request = Idle /\ asked = <<>> /\ cfg \in Configs /\ gen = "idle"
  BY DEF RouterInv, RequestInv, StartEmbedding, Idle, Attempting
<1>2. cfg' = cfg /\ asked' = asked /\ gen' = gen
  BY DEF StartEmbedding, codexVars, streamVars
<1>3. /\ request'.op = "embed" /\ request'.model = model /\ request'.phase = "try"
      /\ request'.order = TryOrder(model)
      /\ request' = [op |-> "embed", model |-> model, phase |-> "try", order |-> TryOrder(model), lastErr |-> FALSE]
  BY DEF StartEmbedding
<1>4. Providers' = Providers
  BY <1>2, ConfigFrame
<1>5. /\ TryOrder(model) \in Seq(Models) /\ IsInjective(TryOrder(model)) /\ Providers \subseteq Range(TryOrder(model))
  BY <1>1, TryOrderComplete
<1>6. asked' \in Seq(Models) /\ IsInjective(asked') /\ Range(asked') = {}
  BY <1>1, <1>2, EmptyFresh
<1>7. RequestInv'
  BY <1>1, <1>2, <1>3, <1>6 DEF RequestInv
<1>8. EmbedInv'
  <2> DEFINE o == TryOrder(model)
  <2> HIDE DEF o
  <2>1. request'.order = o /\ o \in Seq(Models) /\ IsInjective(o) /\ Providers \subseteq Range(o)
    BY <1>3, <1>5 DEF o
  <2>2. request' \in [op : {"embed"}, model : Models, phase : {"try"}, order : Seq(Models), lastErr : BOOLEAN]
    BY <1>3, <1>5
  <2> QED BY <1>4, <1>6, <2>1, <2>2 DEF EmbedInv
<1>9. RouteInv' /\ GivesUpOnlyWhenExhausted'
  BY <1>3 DEF RouteInv, Attempting, GivesUpOnlyWhenExhausted, Answered
<1> QED BY <1>7, <1>8, <1>9 DEF RouterInv

\* The provider of a completion is asked: it is in the list, last, behind the
\* model's own.
LEMMA AskStep ==
  ASSUME RouterInv, Attempting, gen = "idle", Ask(request.provider)
  PROVE  /\ asked' \in Seq(Models) /\ asked' # <<>> /\ asked'[Len(asked')] = request.provider
         /\ request.model \in Providers => asked'[1] = request.model
         /\ request.attempt = 0 => asked' = <<request.provider>>
<1>1. /\ request.model \in Models /\ cfg \in Configs /\ asked \in Seq(Models)
      /\ request.provider \in Providers
      /\ request.attempt = 0 => request.provider = Resolved(request.model) /\ asked = <<>>
      /\ request.attempt # 0 => asked # <<>> /\ (request.model \in Providers => asked[1] = request.model)
  BY DEF RouterInv, RequestInv, RouteInv, Attempting
<1>2. request.provider \in Models
  BY <1>1, ConfigFacts
<1>3. PICK p \in Models : p = request.provider
  BY <1>2
<1>4. asked' = Append(asked, p)
  BY <1>3 DEF Ask
<1>5. /\ asked' \in Seq(Models) /\ asked' # <<>> /\ Len(asked') = Len(asked) + 1
      /\ \A i \in 1..Len(asked) : asked'[i] = asked[i]
      /\ asked'[Len(asked) + 1] = p /\ Len(asked) \in Nat
  BY <1>1, <1>4, AppendProperties, LenProperties
<1>6. request.attempt = 0 => asked' = <<p>>
  BY <1>1, <1>4
<1>7. request.model \in Providers => asked'[1] = request.model
  <2>1. CASE request.attempt = 0
    <3>1. request.model \in Providers => p = request.model
      BY <1>1, <1>3, <2>1, ResolvedFacts
    <3> QED BY <3>1, <1>6, <2>1
  <2>2. CASE request.attempt # 0
    <3>1. 1 \in 1..Len(asked)
      BY <1>1, <1>5, <2>2, EmptySeq
    <3> QED BY <3>1, <1>1, <1>5, <2>2
  <2> QED BY <2>1, <2>2
<1> QED BY <1>3, <1>5, <1>6, <1>7

LEMMA GenerateStep ==
  ASSUME RouterInv, Generate
  PROVE  RouterInv'
<1>1. /\ Attempting /\ KindOf(request.provider) # "openai-codex" /\ cfg' = cfg /\ gen' = gen
      /\ Ask(request.provider) /\ (End("ok") \/ AfterFailure)
  BY DEF Generate, codexVars, streamVars
<1>2. gen = "idle" /\ request.op = "route"
  BY <1>1 DEF RouterInv, RequestInv, Attempting
<1>3. /\ asked' \in Seq(Models) /\ asked' # <<>> /\ asked'[Len(asked')] = request.provider
      /\ request.model \in Providers => asked'[1] = request.model
  BY <1>1, <1>2, AskStep
<1>4. CASE End("ok")
  BY <1>1, <1>2, <1>3, <1>4, EndWell
<1>5. CASE AfterFailure
  BY <1>1, <1>2, <1>3, <1>5, AfterFailureStep
<1> QED BY <1>1, <1>4, <1>5

LEMMA GenerateCodexStep ==
  ASSUME RouterInv, GenerateCodex
  PROVE  RouterInv'
<1>1. /\ Attempting /\ KindOf(request.provider) = "openai-codex" /\ cfg' = cfg /\ request' = request
      /\ gen = "idle" /\ gen' \in {"token", "failed"} /\ Ask(request.provider)
  BY DEF GenerateCodex, LoadToken
<1>2. /\ asked' \in Seq(Models) /\ asked' # <<>> /\ asked'[Len(asked')] = request.provider
      /\ request.model \in Providers => asked'[1] = request.model
      /\ request.attempt = 0 => asked' = <<request.provider>>
  BY <1>1, AskStep
<1>3. Providers' = Providers
  BY <1>1, ConfigFrame
<1>4. Resolved(request.model)' = Resolved(request.model) /\ KindOf(request.provider)' = KindOf(request.provider)
  BY <1>1, <1>3 DEF Resolved, KindOf
<1>5. Attempting' /\ ~Trying' /\ ~Answered'
  BY <1>1 DEF Attempting, Trying, Answered
<1>6. RequestInv'
  BY <1>1, <1>2, <1>4, <1>5 DEF RouterInv, RequestInv, Attempting
<1>7. RouteInv'
  BY <1>1, <1>2, <1>3, <1>4, <1>5 DEF RouterInv, RouteInv
<1>8. EmbedInv' /\ GivesUpOnlyWhenExhausted'
  BY <1>5 DEF EmbedInv, GivesUpOnlyWhenExhausted
<1> QED BY <1>6, <1>7, <1>8 DEF RouterInv

LEMMA CodexEndStep ==
  ASSUME RouterInv, CodexOK \/ CodexFailed \/ AbandonRoute
  PROVE  RouterInv'
<1>1. /\ Attempting /\ cfg' = cfg /\ asked' = asked /\ gen' = "idle"
      /\ \/ End("ok") \/ End("cancelled")
         \/ gen # "idle" /\ AfterFailure
  BY DEF CodexOK, CodexFailed, AbandonRoute, TakeResult, codexVars, streamVars
<1>2. request.op = "route" /\ asked \in Seq(Models) /\ request.model \in Models /\ cfg \in Configs
  BY <1>1 DEF RouterInv, RequestInv, Attempting
<1>3. CASE End("ok")
  BY <1>1, <1>2, <1>3, EndWell
<1>4. CASE End("cancelled")
  BY <1>1, <1>2, <1>4, EndWell
<1>5. CASE gen # "idle" /\ AfterFailure
  <2>1. /\ request.attempt = 0 => request.provider = Resolved(request.model) /\ asked = <<request.provider>>
        /\ request.attempt # 0 => /\ asked # <<>> /\ (request.model \in Providers => asked[1] = request.model)
                                  /\ asked[Len(asked)] = request.provider
    BY <1>1, <1>5 DEF RouterInv, RouteInv
  <2>2. request.model \in Providers => Resolved(request.model) = request.model
    BY <1>2, ResolvedFacts
  <2>3. asked # <<>> /\ asked[Len(asked)] = request.provider /\ (request.model \in Providers => asked[1] = request.model)
    <3>1. CASE request.attempt = 0
      <4>1. PICK p : p = request.provider
        OBVIOUS
      <4>2. asked = <<p>>
        BY <2>1, <3>1, <4>1
      <4>3. Len(<<p>>) = 1 /\ <<p>>[1] = p /\ <<p>> # <<>>
        OBVIOUS
      <4> QED BY <2>1, <2>2, <3>1, <4>1, <4>2, <4>3
    <3>2. CASE request.attempt # 0
      BY <2>1, <3>2
    <3> QED BY <3>1, <3>2
  <2> QED BY <1>1, <1>2, <1>5, <2>3, AfterFailureStep
<1> QED BY <1>1, <1>3, <1>4, <1>5

\* The next name of the try order is passed over, or its provider asked.
LEMMA TryStep ==
  ASSUME RouterInv, SkipUnregistered \/ TryEmbed
  PROVE  RouterInv'
<1>1. /\ Trying /\ cfg' = cfg /\ gen' = gen /\ request.order # <<>>
  BY DEF SkipUnregistered, TryEmbed, codexVars, streamVars
<1>2. /\ request.op = "embed" /\ request.phase = "try" /\ request.model \in Models /\ gen = "idle"
      /\ asked \in Seq(Models) /\ cfg \in Configs
  BY <1>1 DEF RouterInv, RequestInv, Trying, Attempting
<1>3. PICK o \in Seq(Models) : o = request.order
  BY <1>1 DEF RouterInv, EmbedInv
<1>4. /\ o # <<>> /\ IsInjective(o) /\ IsInjective(asked) /\ Range(asked) \subseteq Providers
      /\ Range(asked) \cap Range(o) = {} /\ Providers \subseteq Range(asked) \cup Range(o)
  BY <1>1, <1>3 DEF RouterInv, EmbedInv
<1>5. PICK x \in Models : x = Head(o)
  BY <1>4, TailFresh
<1>6. PICK r \in Seq(Models) : r = Tail(o)
  BY <1>4, TailFresh
<1>7. IsInjective(r) /\ x \notin Range(r) /\ Range(o) = {x} \cup Range(r)
  BY <1>4, <1>5, <1>6, TailFresh
<1>8. Providers' = Providers
  BY <1>1, ConfigFrame
<1>9. \/ x \notin Providers /\ asked' = asked /\ request' = [request EXCEPT !.order = r]
      \/ x \in Providers /\ asked' = Append(asked, x) /\ End("ok")
      \/ /\ x \in Providers /\ asked' = Append(asked, x)
         /\ \E b \in BOOLEAN : request' = [request EXCEPT !.order = r, !.lastErr = b]
  <2>1. CASE SkipUnregistered
    BY <2>1, <1>3, <1>5, <1>6 DEF SkipUnregistered
  <2>2. CASE TryEmbed
    <3>1. x \in Providers /\ asked' = Append(asked, x)
      BY <2>2, <1>3, <1>5 DEF TryEmbed, Ask
    <3>2. PICK result : \/ End("ok")
                        \/ request' = [request EXCEPT !.order = Tail(request.order),
                                                      !.lastErr = request.lastErr \/ (result = "error")]
      BY <2>2 DEF TryEmbed
    <3>3. (request.lastErr \/ (result = "error")) \in BOOLEAN
      OBVIOUS
    <3> QED BY <3>1, <3>2, <3>3, <1>3, <1>6
  <2> QED BY <2>1, <2>2
<1>10. /\ x \in Providers => /\ Append(asked, x) \in Seq(Models) /\ IsInjective(Append(asked, x))
                             /\ Range(Append(asked, x)) = Range(asked) \cup {x}
  BY <1>2, <1>4, <1>7, AppendFresh
<1>11. asked' \in Seq(Models)
  BY <1>2, <1>9, <1>10
<1>12. CASE End("ok")
  BY <1>1, <1>2, <1>11, <1>12, EndWell
<1>13. CASE ~End("ok")
  <2>1. /\ request'.op = "embed" /\ request'.phase = "try" /\ request'.model = request.model /\ request'.order = r
        /\ request' \in [op : {"embed"}, model : Models, phase : {"try"}, order : Seq(Models), lastErr : BOOLEAN]
    <3>1. request \in [op : {"embed"}, model : Models, phase : {"try"}, order : Seq(Models), lastErr : BOOLEAN]
      BY <1>1 DEF RouterInv, EmbedInv
    <3>2. CASE request' = [request EXCEPT !.order = r]
      BY <1>2, <3>1, <3>2
    <3>3. ASSUME NEW b \in BOOLEAN, request' = [request EXCEPT !.order = r, !.lastErr = b]
          PROVE  /\ request'.op = "embed" /\ request'.phase = "try" /\ request'.model = request.model /\ request'.order = r
                 /\ request' \in [op : {"embed"}, model : Models, phase : {"try"}, order : Seq(Models), lastErr : BOOLEAN]
      BY <1>2, <3>1, <3>3
    <3> QED BY <1>9, <1>13, <3>2, <3>3
  <2>2. /\ IsInjective(asked') /\ Range(asked') \subseteq Providers
        /\ Range(asked') \cap Range(r) = {} /\ Providers \subseteq Range(asked') \cup Range(r)
    <3>1. CASE x \notin Providers /\ asked' = asked
      BY <3>1, <1>4, <1>7
    <3>2. CASE x \in Providers /\ asked' = Append(asked, x)
      BY <3>2, <1>4, <1>7, <1>10
    <3> QED BY <1>9, <3>1, <3>2
  <2>3. RequestInv'
    BY <1>1, <1>2, <1>11, <2>1 DEF RequestInv
  <2>4. EmbedInv'
    BY <1>7, <1>8, <2>1, <2>2 DEF EmbedInv
  <2>5. RouteInv' /\ GivesUpOnlyWhenExhausted'
    BY <2>1 DEF RouteInv, Attempting, GivesUpOnlyWhenExhausted, Answered
  <2> QED BY <2>3, <2>4, <2>5 DEF RouterInv
<1> QED BY <1>12, <1>13

LEMMA EndEmbeddingStep ==
  ASSUME RouterInv, EndEmbedding
  PROVE  RouterInv'
<1>1. /\ Trying /\ cfg' = cfg /\ gen' = gen /\ asked' = asked
      /\ End("cancelled") \/ (request.order = <<>> /\ (End("failed") \/ End("not_found")))
  BY DEF EndEmbedding, codexVars, streamVars
<1>2. /\ request.op = "embed" /\ request.phase = "try" /\ gen = "idle" /\ asked \in Seq(Models)
  BY <1>1 DEF RouterInv, RequestInv, Trying, Attempting
<1>3. CASE End("cancelled")
  BY <1>1, <1>2, <1>3, EndWell
<1>4. CASE request.order = <<>> /\ (End("failed") \/ End("not_found"))
  <2>1. PICK result \in Ends : End(result)
    BY <1>4 DEF Ends
  <2>2. RequestInv' /\ RouteInv' /\ EmbedInv' /\ request'.op = "embed"
    BY <1>1, <1>2, <2>1, EndStep
  <2>3. Providers' = Providers
    BY <1>1, ConfigFrame
  <2>4. Range(<<>>) = {}
    BY EmptyFresh
  <2>5. IsInjective(asked) /\ Range(asked) = Providers
    BY <1>1, <1>4, <2>4 DEF RouterInv, EmbedInv
  <2>6. Len(asked) = Cardinality(Providers)
    BY <1>2, <2>5, FreshLength
  <2>7. GivesUpOnlyWhenExhausted'
    BY <1>1, <2>2, <2>3, <2>5, <2>6 DEF GivesUpOnlyWhenExhausted
  <2> QED BY <2>2, <2>7 DEF RouterInv
<1> QED BY <1>1, <1>3, <1>4

LEMMA NextRequestStep ==
  ASSUME RouterInv, NextRequest
  PROVE  RouterInv'
<1>1. request' = Idle /\ asked' = <<>> /\ cfg' = cfg /\ gen' = gen /\ Answered
  BY DEF NextRequest, codexVars, streamVars
<1>2. gen = "idle" /\ cfg \in Configs
  BY <1>1 DEF RouterInv, RequestInv, Attempting, Answered
<1>3. request'.op = "none" /\ <<>> \in Seq(Models)
  BY <1>1, EmptySeq DEF Idle
<1>4. RequestInv'
  BY <1>1, <1>2, <1>3 DEF RequestInv
<1>5. RouteInv' /\ EmbedInv' /\ GivesUpOnlyWhenExhausted'
  BY <1>1, <1>3 DEF RouteInv, EmbedInv, Attempting, Trying, GivesUpOnlyWhenExhausted, Answered
<1> QED BY <1>4, <1>5 DEF RouterInv

-----------------------------------------------------------------------------
(* The parser of a stream                                                  *)

LEMMA PieceFacts ==
  ASSUME NEW c \in Calls
  PROVE  /\ Whole(c) \in Seq(Pieces) /\ Braces \in Seq(Pieces) /\ Whole(c) # Braces
         /\ DOMAIN Whole(c) = 1..ArgParts /\ 1 \in 1..ArgParts
         /\ \A n \in DOMAIN Whole(c) : Whole(c)[n].call = c /\ Whole(c)[n].part = n
         /\ \A n \in DOMAIN Braces : Braces[n].part = 0
         /\ First(c, ArgParts) = Whole(c)
<1>1. ArgParts \in Nat /\ 1 \in 1..ArgParts
  BY CodexAssumption
<1>2. \A n \in 1..ArgParts : Part(c, n) \in Pieces /\ Part(c, n).call = c /\ Part(c, n).part = n
  <2> SUFFICES ASSUME NEW n \in 1..ArgParts
               PROVE  Part(c, n) \in Pieces /\ Part(c, n).call = c /\ Part(c, n).part = n
    OBVIOUS
  <2>1. n \in Nat
    BY <1>1
  <2>2. c \in Calls \cup {"", "{}"}
    OBVIOUS
  <2> QED BY <2>1, <2>2 DEF Part, Pieces
<1>3. Whole(c) \in [1..ArgParts -> Pieces]
  BY <1>2 DEF Whole
<1>4. Whole(c) \in Seq(Pieces)
  BY <1>1, <1>3, IsASeq
<1>5. \A n \in 1..ArgParts : Whole(c)[n].call = c /\ Whole(c)[n].part = n
  BY <1>2 DEF Whole
<1> DEFINE brace == [call |-> "{}", part |-> 0]
<1>6. brace \in Pieces /\ brace.part = 0
  BY DEF Pieces
<1>7. Braces = <<brace>>
  BY DEF Braces
<1> HIDE DEF brace
<1>8. Braces \in Seq(Pieces) /\ DOMAIN Braces = {1} /\ Braces[1].part = 0
  BY <1>6, <1>7
<1>9. Whole(c) # Braces
  BY <1>1, <1>5, <1>8
<1> QED BY <1>1, <1>3, <1>4, <1>5, <1>8, <1>9 DEF First, Whole

\* The ids the vendor gives.
LEMMA IdFacts ==
  ASSUME NEW ids \in CallIDs
  PROVE  /\ \A c \in Calls : ids[c] \in Int
         /\ \A c, d \in Calls : ids[c] = ids[d] /\ ids[c] # NoID => c = d
  BY CallsAssumption

\* A tool call that has the id of a call whose id is sure is that call's; a sure
\* call without an id meets no id of the made-up form.
LEMMA SureFacts ==
  ASSUME NEW ids \in CallIDs, NEW c \in Sure(ids)
  PROVE  /\ c \in Calls
         /\ ids[c] # NoID => \A tc \in ToolCalls : Own(ids, tc) /\ tc.id = ids[c] => tc.name = c
         /\ ids[c] = NoID => Foreign(ids)
<1>1. /\ c \in Calls /\ ids[c] \in Int
      /\ ids[c] < 0 \/ ~\E d, e \in Calls : ids[d] = NoID /\ ids[e] > 0
  BY IdFacts DEF Sure
<1>2. ASSUME ids[c] # NoID, NEW tc \in ToolCalls, Own(ids, tc), tc.id = ids[c] PROVE tc.name = c
  <2>1. tc.name \in Calls /\ tc.id \in Int /\ ids[tc.name] \in Int
    BY IdFacts DEF ToolCalls
  <2>2. CASE ids[tc.name] # NoID
    BY <1>1, <1>2, <2>1, <2>2, IdFacts DEF Own
  <2>3. CASE ids[tc.name] = NoID
    <3>1. ids[c] >= 0
      BY <1>2, <2>3 DEF Own
    <3>2. ids[c] > 0
      BY <1>1, <1>2, <3>1 DEF NoID
    <3> QED BY <1>1, <2>1, <2>3, <3>1, <3>2
  <2> QED BY <2>2, <2>3
<1>3. ASSUME ids[c] = NoID PROVE Foreign(ids)
  <2>1. \A e \in Calls : ~(ids[e] > 0)
    BY <1>1, <1>3 DEF NoID
  <2> QED BY <2>1, IdFacts DEF Foreign
<1> QED BY <1>1, <1>2, <1>3

\* normalizeCodexToolInput gives a call its own arguments or an empty object.
LEMMA NormalizeFacts ==
  ASSUME NEW ids, NEW tc \in ToolCalls, Own(ids, tc)
  PROVE  /\ normalizeCodexToolInput(tc.input) \in {Whole(tc.name), Braces}
         /\ tc.input = Whole(tc.name) => normalizeCodexToolInput(tc.input) = Whole(tc.name)
<1>1. tc.name \in Calls
  BY DEF ToolCalls
<1>2. ASSUME NEW c \in Calls, tc.input = Whole(c) PROVE c = tc.name
  <2>1. 1 \in DOMAIN Whole(c) /\ Whole(c)[1].call = c /\ Whole(c)[1].part = 1
    BY PieceFacts
  <2> QED BY <1>2, <2>1 DEF Own
<1> QED BY <1>1, <1>2 DEF normalizeCodexToolInput

LEMMA SeqEdit ==
  ASSUME NEW S, NEW s \in Seq(S), NEW i \in DOMAIN s, NEW x \in S, NEW g, g = [s EXCEPT ![i] = x]
  PROVE  /\ g \in Seq(S) /\ DOMAIN g = DOMAIN s /\ g[i] = x /\ Len(g) = Len(s)
         /\ \A k \in DOMAIN s : k # i => g[k] = s[k]
  OBVIOUS

\* The parts of what the parser has in its hands.
LEMMA ParsesFacts ==
  ASSUME NEW ids, NEW heap, NEW calls, NEW W, NEW D, NEW O, Parses(ids, heap, calls, W, D, O)
  PROVE  /\ heap \in Seq(ToolCalls) /\ DOMAIN heap = 1..Len(heap) /\ Len(heap) \in Nat
         /\ calls \in Seq(DOMAIN heap) /\ DOMAIN calls = 1..Len(calls) /\ Len(calls) \in Nat
         /\ \A i \in DOMAIN heap : heap[i] \in ToolCalls /\ Own(ids, heap[i])
         /\ \A i \in DOMAIN heap : heap[i].id \in Int /\ heap[i].name \in Calls
         /\ \A j \in DOMAIN calls : calls[j] \in DOMAIN heap
<1>1. /\ heap \in Seq(ToolCalls) /\ calls \in Seq(DOMAIN heap)
      /\ \A i \in DOMAIN heap : Own(ids, heap[i])
  BY DEF Parses, HeapOK, Listed
<1>2. \A i \in DOMAIN heap : heap[i] \in ToolCalls
  BY <1>1
<1>3. \A i \in DOMAIN heap : heap[i].id \in Int /\ heap[i].name \in Calls
  BY <1>2 DEF ToolCalls
<1>4. \A j \in DOMAIN calls : calls[j] \in DOMAIN heap
  BY <1>1
<1>5. DOMAIN heap = 1..Len(heap) /\ Len(heap) \in Nat /\ DOMAIN calls = 1..Len(calls) /\ Len(calls) \in Nat
  BY <1>1
<1> QED BY <1>1, <1>2, <1>3, <1>4, <1>5

\* p is tool call i as appendCodexToolCall prepares it.
Prepared(heap, calls, i, p) ==
  /\ p.name = heap[i].name
  /\ p.id = IF heap[i].id = NoID THEN Len(calls) + 1 ELSE heap[i].id
  /\ p.input = normalizeCodexToolInput(heap[i].input)

LEMMA PrepareFacts ==
  ASSUME NEW ids \in CallIDs, NEW heap, NEW calls, NEW W, NEW D, NEW O,
         Parses(ids, heap, calls, W, D, O), NEW i \in DOMAIN heap,
         NEW h, h = prepared(heap, calls, i)
  PROVE  /\ h = [heap EXCEPT ![i] = h[i]]
         /\ h[i] \in ToolCalls /\ Prepared(heap, calls, i, h[i]) /\ Own(ids, h[i])
         /\ h[i].id # NoID
         /\ h[i].input \in {Whole(h[i].name), Braces}
         /\ heap[i].input = Whole(heap[i].name) => h[i].input = Whole(h[i].name)
         /\ h[i].name \in W => h[i].input = Whole(h[i].name)
<1>1. /\ heap \in Seq(ToolCalls) /\ heap[i] \in ToolCalls /\ Own(ids, heap[i])
      /\ heap[i].id \in Int /\ heap[i].name \in Calls /\ Len(calls) \in Nat
  BY ParsesFacts
<1>2. PICK x, v : /\ x = normalizeCodexToolInput(heap[i].input)
                  /\ v = IF heap[i].id = NoID THEN Len(calls) + 1 ELSE heap[i].id
  OBVIOUS
<1>3. /\ x \in {Whole(heap[i].name), Braces}
      /\ heap[i].input = Whole(heap[i].name) => x = Whole(heap[i].name)
  BY <1>1, <1>2, NormalizeFacts
<1>4. x \in Seq(Pieces) /\ \A n \in DOMAIN x : x[n].part # 0 => x[n].call = heap[i].name
  BY <1>1, <1>3, PieceFacts
<1>5. v \in Int /\ v # NoID /\ (heap[i].id # NoID => v = heap[i].id) /\ (heap[i].id >= 0 => v >= 0)
  BY <1>1, <1>2 DEF NoID
<1>6. PICK p : p = [heap[i] EXCEPT !.input = x, !.id = v]
  OBVIOUS
<1>7. p \in ToolCalls /\ p.name = heap[i].name /\ p.id = v /\ p.input = x
  BY <1>1, <1>4, <1>5, <1>6 DEF ToolCalls
<1>8. h = [heap EXCEPT ![i] = p]
  <2>1. h = [heap EXCEPT ![i].input = x, ![i].id = v]
    <3>1. [heap EXCEPT ![i].input = normalizeCodexToolInput(@)] = [heap EXCEPT ![i].input = x]
      BY <1>2
    <3>2. [heap EXCEPT ![i].input = x][i].id = heap[i].id
      BY <1>1 DEF ToolCalls
    <3> QED BY <1>2, <3>1, <3>2 DEF prepared
  <2> QED BY <1>1, <1>6, <2>1
<1>9. h[i] = p
  BY <1>1, <1>8
<1>10. Own(ids, p)
  BY <1>1, <1>4, <1>5, <1>7 DEF Own
<1>11. heap[i].name \in W => heap[i].input = Whole(heap[i].name)
  BY DEF Parses, WholeIn
<1> QED BY <1>2, <1>3, <1>5, <1>7, <1>8, <1>9, <1>10, <1>11 DEF Prepared

\* Preparing a tool call disturbs nothing that is listed.
LEMMA PrepareStep ==
  ASSUME NEW ids \in CallIDs, NEW heap, NEW calls, NEW W, NEW D, NEW O,
         Parses(ids, heap, calls, W, D, O), NEW i \in DOMAIN heap,
         NEW h, h = prepared(heap, calls, i)
  PROVE  /\ HeapOK(ids, h) /\ Listed(h, calls) /\ WholeIn(h, W) /\ Covers(ids, h, calls, D)
         /\ DOMAIN h = DOMAIN heap /\ Len(h) = Len(heap)
         /\ \A k \in DOMAIN heap : h[k].name = heap[k].name /\ (k # i => h[k] = heap[k])
         /\ \A j \in DOMAIN calls : h[calls[j]].id = heap[calls[j]].id
<1>1. /\ heap \in Seq(ToolCalls) /\ calls \in Seq(DOMAIN heap)
      /\ \A k \in DOMAIN heap : heap[k] \in ToolCalls /\ Own(ids, heap[k])
      /\ \A j \in DOMAIN calls : calls[j] \in DOMAIN heap
  BY ParsesFacts
<1>2. PICK p : p = h[i]
  OBVIOUS
<1>3. /\ h = [heap EXCEPT ![i] = p] /\ p \in ToolCalls /\ Own(ids, p) /\ p.name = heap[i].name
      /\ heap[i].id # NoID => p.id = heap[i].id
      /\ p.input \in {Whole(p.name), Braces}
      /\ heap[i].input = Whole(heap[i].name) => p.input = Whole(p.name)
      /\ p.name \in W => p.input = Whole(p.name)
  BY <1>2, PrepareFacts DEF Prepared
<1>4. /\ h \in Seq(ToolCalls) /\ DOMAIN h = DOMAIN heap /\ h[i] = p /\ Len(h) = Len(heap)
      /\ \A k \in DOMAIN heap : k # i => h[k] = heap[k]
  <2>1. heap \in Seq(ToolCalls) /\ p \in ToolCalls /\ h = [heap EXCEPT ![i] = p]
    BY <1>1, <1>3
  <2> QED BY ONLY <2>1, i \in DOMAIN heap, SeqEdit
<1>5. \A k \in DOMAIN heap : h[k].name = heap[k].name
  BY <1>3, <1>4
<1>6. /\ \A j \in DOMAIN calls : heap[calls[j]].id # NoID
      /\ \A j, k \in DOMAIN calls : heap[calls[j]].id = heap[calls[k]].id => j = k
      /\ \A j \in DOMAIN calls : heap[calls[j]].input \in {Whole(heap[calls[j]].name), Braces}
  BY DEF Parses, Listed
<1>7. \A j \in DOMAIN calls : h[calls[j]].id = heap[calls[j]].id
  BY <1>1, <1>3, <1>4, <1>6
<1>8. HeapOK(ids, h)
  BY <1>1, <1>3, <1>4 DEF HeapOK
<1>9. Listed(h, calls)
  <2>1. \A j \in DOMAIN calls : h[calls[j]].input \in {Whole(h[calls[j]].name), Braces}
    BY <1>1, <1>3, <1>4, <1>5, <1>6
  <2> QED BY <1>1, <1>4, <1>6, <1>7, <2>1 DEF Listed
<1>10. WholeIn(h, W)
  BY <1>3, <1>4 DEF Parses, WholeIn
<1>11. Covers(ids, h, calls, D)
  <2> SUFFICES ASSUME NEW c \in D PROVE Shows(ids, h, calls, c)
    BY DEF Covers
  <2>1. PICK j \in DOMAIN calls :
          heap[calls[j]].name = c /\ (ids[c] = NoID => heap[calls[j]].input = Whole(c))
    BY DEF Parses, Covers, Shows
  <2>2. h[calls[j]].name = c /\ (ids[c] = NoID => h[calls[j]].input = Whole(c))
    BY <1>1, <1>3, <1>4, <1>5, <2>1
  <2> QED BY <2>2 DEF Shows
<1> QED BY <1>4, <1>5, <1>7, <1>8, <1>9, <1>10, <1>11

\* With foreign ids, tool call i has the id of a listed one only if it is that one
\* or both have the id the vendor gave to the call.
LEMMA SameId ==
  ASSUME NEW ids \in CallIDs, NEW heap, NEW calls, NEW W, NEW D, NEW O,
         Parses(ids, heap, calls, W, D, O), NEW i \in DOMAIN heap,
         NEW h, h = prepared(heap, calls, i), NEW j \in DOMAIN calls,
         h[calls[j]].id = h[i].id, Foreign(ids)
  PROVE  /\ h[i].id > 0 => calls[j] = i
         /\ h[i].id < 0 \/ calls[j] = i
         /\ h[calls[j]].name = h[i].name
<1>1. /\ \A k \in DOMAIN heap : heap[k].id \in Int /\ heap[k].name \in Calls /\ Own(ids, heap[k])
      /\ \A k \in DOMAIN heap : heap[k] \in ToolCalls
      /\ \A k \in DOMAIN calls : calls[k] \in DOMAIN heap
      /\ Len(calls) \in Nat
  BY ParsesFacts
<1>2. /\ \A k \in DOMAIN heap : h[k].name = heap[k].name
      /\ \A k \in DOMAIN calls : h[calls[k]].id = heap[calls[k]].id
      /\ \A m, k \in DOMAIN calls : h[calls[m]].id = h[calls[k]].id => m = k
  BY PrepareStep DEF Listed
<1>3. /\ h[i].id = IF heap[i].id = NoID THEN Len(calls) + 1 ELSE heap[i].id
      /\ h[i].id # NoID
  BY PrepareFacts DEF Prepared
<1>4. MadeUp(heap, calls)
  BY DEF Parses
<1>5. ASSUME h[i].id > 0 PROVE calls[j] = i
  <2>1. heap[i].id # NoID
    <3>1. heap[calls[j]].id <= Len(calls)
      BY <1>4 DEF MadeUp
    <3>2. heap[calls[j]].id \in Int
      BY <1>1
    <3> QED BY <1>1, <1>2, <1>3, <3>1, <3>2
  <2>2. PICK k \in DOMAIN calls : calls[k] = i
    BY <1>3, <1>4, <1>5, <2>1 DEF MadeUp
  <2> QED BY <1>2, <2>2
<1>6. h[i].id \in Int
  BY <1>1, <1>3
<1>7. h[i].id > 0 \/ h[i].id < 0
  BY <1>3, <1>6 DEF NoID
<1>8. CASE h[i].id < 0
  <2>1. PICK d : d = calls[j]
    OBVIOUS
  <2>2. d \in DOMAIN heap /\ heap[d].id = h[i].id /\ heap[i].id = h[i].id
    BY <1>1, <1>2, <1>3, <1>8, <2>1
  <2>3. ids[heap[d].name] # NoID /\ ids[heap[i].name] # NoID
    BY <1>1, <1>8, <2>2 DEF Own
  <2>4. ids[heap[d].name] = ids[heap[i].name]
    BY <1>1, <2>2, <2>3 DEF Own
  <2>5. heap[d].name = heap[i].name
    BY <1>1, <2>2, <2>3, <2>4, IdFacts
  <2>6. ~(h[i].id > 0)
    BY <1>6, <1>8
  <2> QED BY <1>2, <1>8, <2>1, <2>2, <2>5, <2>6
<1> QED BY <1>5, <1>7, <1>8

\* What appendCodexToolCall makes of the heap and of the calls listed.
Appended(ids, heap, calls, i, W, D, O, e) ==
  /\ Parses(ids, e.heap, e.calls, W, D, O)
  /\ ids[heap[i].name] # NoID \/ heap[i].input = Whole(heap[i].name) =>
       Shows(ids, e.heap, e.calls, heap[i].name)
  /\ DOMAIN e.heap = DOMAIN heap /\ Len(e.heap) = Len(heap)
  /\ e = [heap |-> e.heap, calls |-> e.calls]
  /\ \A n \in DOMAIN heap : e.heap[n].name \in {heap[n].name, heap[i].name}
  /\ \A n \in DOMAIN heap : n # i /\ (\A j \in DOMAIN calls : calls[j] # n) => e.heap[n] = heap[n]
  /\ \A n \in DOMAIN e.calls : e.calls[n] = i \/ (n \in DOMAIN calls /\ e.calls[n] = calls[n])

\* A tool call whose id is not listed is added to the list.
LEMMA AppendNew ==
  ASSUME NEW ids \in CallIDs, NEW heap, NEW calls, NEW W, NEW D, NEW O,
         Parses(ids, heap, calls, W, D, O), NEW i \in DOMAIN heap,
         NEW h, h = prepared(heap, calls, i), \A j \in DOMAIN calls : h[calls[j]].id # h[i].id,
         NEW e, e = [heap |-> h, calls |-> Append(calls, i)]
  PROVE  Appended(ids, heap, calls, i, W, D, O, e)
<1>1. /\ HeapOK(ids, h) /\ Listed(h, calls) /\ WholeIn(h, W) /\ Covers(ids, h, calls, D)
      /\ DOMAIN h = DOMAIN heap /\ Len(h) = Len(heap)
      /\ \A k \in DOMAIN heap : h[k].name = heap[k].name /\ (k # i => h[k] = heap[k])
      /\ \A j \in DOMAIN calls : h[calls[j]].id = heap[calls[j]].id
  BY PrepareStep
<1>2. /\ h[i].id = IF heap[i].id = NoID THEN Len(calls) + 1 ELSE heap[i].id
      /\ h[i].id # NoID /\ h[i].input \in {Whole(h[i].name), Braces}
      /\ heap[i].input = Whole(heap[i].name) => h[i].input = Whole(h[i].name)
  BY PrepareFacts DEF Prepared
<1>3. /\ calls \in Seq(DOMAIN h) /\ DOMAIN calls = 1..Len(calls) /\ Len(calls) \in Nat
      /\ \A j \in DOMAIN calls : calls[j] \in DOMAIN h
      /\ \A k \in DOMAIN heap : heap[k].id \in Int
  BY <1>1, ParsesFacts
<1>4. PICK a : a = Append(calls, i)
  OBVIOUS
<1>5. /\ a \in Seq(DOMAIN h) /\ DOMAIN a = 1..(Len(calls) + 1) /\ Len(a) = Len(calls) + 1
      /\ \A j \in DOMAIN calls : a[j] = calls[j]
      /\ a[Len(calls) + 1] = i
  BY <1>1, <1>3, <1>4
<1>6. \A j \in DOMAIN a : (j \in DOMAIN calls /\ a[j] = calls[j]) \/ (j = Len(calls) + 1 /\ a[j] = i)
  BY <1>3, <1>5
<1>7. DOMAIN calls \subseteq DOMAIN a /\ Len(calls) + 1 \in DOMAIN a
  BY <1>3, <1>5
<1>8. Listed(h, a)
  <2>1. ASSUME NEW j \in DOMAIN a, NEW k \in DOMAIN a, h[a[j]].id = h[a[k]].id PROVE j = k
    <3>1. CASE a[j] # i /\ a[k] # i
      BY <1>1, <1>6, <2>1, <3>1 DEF Listed
    <3>2. CASE a[j] = i \/ a[k] = i
      <4>1. \A m \in DOMAIN calls : a[m] # i
        BY <1>5
      <4> QED BY <1>6, <2>1, <3>2, <4>1
    <3> QED BY <3>1, <3>2
  <2>2. \A j \in DOMAIN a : h[a[j]].id # NoID /\ h[a[j]].input \in {Whole(h[a[j]].name), Braces}
    BY <1>1, <1>2, <1>6 DEF Listed
  <2> QED BY <1>5, <2>1, <2>2 DEF Listed
<1>9. Covers(ids, h, a, D)
  <2> SUFFICES ASSUME NEW c \in D PROVE Shows(ids, h, a, c)
    BY DEF Covers
  <2>1. PICK j \in DOMAIN calls : h[calls[j]].name = c /\ (ids[c] = NoID => h[calls[j]].input = Whole(c))
    BY <1>1 DEF Covers, Shows
  <2> QED BY <1>5, <1>7, <2>1 DEF Shows
<1>10. ASSUME Foreign(ids) PROVE MadeUp(h, a) /\ Once(h, O)
  <2>1. MadeUp(heap, calls) /\ Once(heap, O)
    BY <1>10 DEF Parses
  <2>2. Once(h, O)
    BY <1>1, <2>1 DEF Once
  <2>3. h[i].id <= Len(calls) + 1
    <3>1. CASE heap[i].id = NoID
      BY <1>2, <1>3, <3>1
    <3>2. CASE heap[i].id # NoID
      <4>1. ~(heap[i].id > 0)
        <5>1. heap[i].id > 0 => \E j \in DOMAIN calls : calls[j] = i
          BY <2>1 DEF MadeUp
        <5> QED BY <5>1
      <4> QED BY <1>2, <1>3, <3>2, <4>1
    <3> QED BY <3>1, <3>2
  <2>4. \A j \in DOMAIN a : h[a[j]].id <= Len(a)
    <3>1. \A j \in DOMAIN calls : h[calls[j]].id \in Int /\ h[calls[j]].id <= Len(calls)
      BY <1>1, <1>3, <2>1 DEF MadeUp
    <3>2. \A j \in DOMAIN calls : h[calls[j]].id <= Len(calls) + 1
      BY <1>3, <3>1
    <3> QED BY <1>5, <1>6, <2>3, <3>2
  <2>5. \A k \in DOMAIN h : h[k].id > 0 => \E j \in DOMAIN a : a[j] = k
    <3> SUFFICES ASSUME NEW k \in DOMAIN h, h[k].id > 0, k # i PROVE \E j \in DOMAIN a : a[j] = k
      BY <1>5, <1>7
    <3>1. heap[k].id > 0 /\ k \in DOMAIN heap
      BY <1>1
    <3>2. PICK j \in DOMAIN calls : calls[j] = k
      BY <2>1, <3>1 DEF MadeUp
    <3> QED BY <1>5, <1>7, <3>2
  <2> QED BY <2>2, <2>4, <2>5 DEF MadeUp
<1>11. e.heap = h /\ e.calls = a /\ e = [heap |-> e.heap, calls |-> e.calls]
  BY <1>4
<1>12. Parses(ids, e.heap, e.calls, W, D, O)
  BY <1>1, <1>8, <1>9, <1>10, <1>11 DEF Parses
<1>13. ids[heap[i].name] # NoID \/ heap[i].input = Whole(heap[i].name) =>
         Shows(ids, h, a, heap[i].name)
  BY <1>1, <1>2, <1>5, <1>7 DEF Shows
<1> QED BY <1>1, <1>6, <1>11, <1>12, <1>13 DEF Appended

\* One whose id is listed overwrites the call that has it.
LEMMA AppendSame ==
  ASSUME NEW ids \in CallIDs, NEW heap, NEW calls, NEW W, NEW D \in SUBSET Sure(ids), NEW O,
         Parses(ids, heap, calls, W, D, O), NEW i \in DOMAIN heap,
         NEW h, h = prepared(heap, calls, i), NEW j \in DOMAIN calls,
         h[calls[j]].id = h[i].id, NEW d, d = calls[j],
         NEW e, e = [heap |-> [h EXCEPT ![d].name = h[i].name, ![d].input = h[i].input],
                     calls |-> calls]
  PROVE  Appended(ids, heap, calls, i, W, D, O, e)
<1>1. /\ HeapOK(ids, h) /\ Listed(h, calls) /\ WholeIn(h, W) /\ Covers(ids, h, calls, D)
      /\ DOMAIN h = DOMAIN heap /\ Len(h) = Len(heap)
      /\ \A k \in DOMAIN heap : h[k].name = heap[k].name /\ (k # i => h[k] = heap[k])
      /\ \A m \in DOMAIN calls : h[calls[m]].id = heap[calls[m]].id
  BY PrepareStep
<1>2. /\ h[i] \in ToolCalls /\ Own(ids, h[i]) /\ h[i].id # NoID
      /\ h[i].input \in {Whole(h[i].name), Braces}
      /\ heap[i].input = Whole(heap[i].name) => h[i].input = Whole(h[i].name)
      /\ h[i].name \in W => h[i].input = Whole(h[i].name)
  BY PrepareFacts
<1>3. /\ calls \in Seq(DOMAIN h) /\ \A m \in DOMAIN calls : calls[m] \in DOMAIN h
      /\ \A k \in DOMAIN heap : heap[k].id \in Int
  BY <1>1, ParsesFacts
<1>4. h \in Seq(ToolCalls) /\ \A k \in DOMAIN h : h[k] \in ToolCalls /\ Own(ids, h[k])
  BY <1>1 DEF HeapOK
<1>5. d \in DOMAIN h /\ h[d] \in ToolCalls /\ h[d].id = h[i].id
  BY <1>3, <1>4
<1>6. PICK g, p : g = e.heap /\ p = h[i]
  OBVIOUS
<1>7. g = [h EXCEPT ![d] = p] /\ e.calls = calls /\ e = [heap |-> e.heap, calls |-> e.calls]
  <2>1. g = [h EXCEPT ![d].name = p.name, ![d].input = p.input]
    BY <1>6
  <2>2. [[h[d] EXCEPT !.name = p.name] EXCEPT !.input = p.input] = p
    BY <1>2, <1>5, <1>6 DEF ToolCalls
  <2>3. g = [h EXCEPT ![d] = [[h[d] EXCEPT !.name = p.name] EXCEPT !.input = p.input]]
    BY <1>4, <1>5, <2>1
  <2> QED BY <2>2, <2>3
<1>8. /\ g \in Seq(ToolCalls) /\ DOMAIN g = DOMAIN h /\ g[d] = p /\ Len(g) = Len(h)
      /\ \A k \in DOMAIN h : k # d => g[k] = h[k]
  <2>1. h \in Seq(ToolCalls) /\ d \in DOMAIN h /\ p \in ToolCalls /\ g = [h EXCEPT ![d] = p]
    BY <1>2, <1>4, <1>5, <1>6, <1>7
  <2> QED BY ONLY <2>1, SeqEdit
<1>9. \A k \in DOMAIN h : g[k].id = h[k].id
  BY <1>5, <1>6, <1>8
<1>10. HeapOK(ids, g)
  BY <1>2, <1>4, <1>6, <1>8 DEF HeapOK
<1>11. Listed(g, calls)
  <2>1. \A m \in DOMAIN calls : g[calls[m]].id = h[calls[m]].id
    BY <1>3, <1>9
  <2>2. \A m \in DOMAIN calls : g[calls[m]].input \in {Whole(g[calls[m]].name), Braces}
    BY <1>1, <1>2, <1>3, <1>6, <1>8 DEF Listed
  <2> QED BY <1>1, <1>3, <1>8, <2>1, <2>2 DEF Listed
<1>12. WholeIn(g, W)
  BY <1>1, <1>2, <1>6, <1>8 DEF WholeIn
<1>13. Covers(ids, g, calls, D)
  <2> SUFFICES ASSUME NEW c \in D PROVE Shows(ids, g, calls, c)
    BY DEF Covers
  <2>1. PICK m \in DOMAIN calls : h[calls[m]].name = c /\ (ids[c] = NoID => h[calls[m]].input = Whole(c))
    BY <1>1 DEF Covers, Shows
  <2>2. CASE calls[m] # d
    BY <1>3, <1>8, <2>1, <2>2 DEF Shows
  <2>3. CASE calls[m] = d
    <3>1. CASE ids[c] # NoID
      <4>1. h[i].id = ids[c]
        BY <1>4, <1>5, <2>1, <2>3, <3>1 DEF Own
      <4>2. h[i].name = c
        BY <1>2, <3>1, <4>1, SureFacts
      <4> QED BY <1>6, <1>8, <2>3, <3>1, <4>2 DEF Shows
    <3>2. CASE ids[c] = NoID
      <4>1. Foreign(ids)
        BY <3>2, SureFacts
      <4>2. h[i].id >= 0 /\ h[i].id \in Int
        <5>1. h[d].id >= 0
          BY <1>4, <1>5, <2>1, <2>3, <3>2 DEF Own
        <5>2. h[i].id \in Int
          BY <1>2 DEF ToolCalls
        <5> QED BY <1>5, <5>1, <5>2
      <4>3. d = i
        <5>1. h[i].id > 0
          BY <1>2, <4>2 DEF NoID
        <5> QED BY <4>1, <5>1, SameId
      <4> QED BY <1>6, <1>8, <2>1, <2>3, <4>3 DEF Shows
    <3> QED BY <3>1, <3>2
  <2> QED BY <2>2, <2>3
<1>14. ASSUME Foreign(ids) PROVE MadeUp(g, calls) /\ Once(g, O)
  <2>1. MadeUp(heap, calls) /\ Once(heap, O)
    BY <1>14 DEF Parses
  <2>2. h[d].name = h[i].name /\ (h[i].id > 0 => d = i)
    BY <1>14, SameId
  <2>3. \A k \in DOMAIN heap : g[k].name = heap[k].name
    BY <1>1, <1>6, <1>8, <2>2
  <2>4. Once(g, O)
    BY <1>1, <1>8, <2>1, <2>3 DEF Once
  <2>5. \A m \in DOMAIN calls : g[calls[m]].id <= Len(calls)
    BY <1>1, <1>3, <1>9, <2>1 DEF MadeUp
  <2>6. \A k \in DOMAIN g : g[k].id > 0 => \E m \in DOMAIN calls : calls[m] = k
    <3> SUFFICES ASSUME NEW k \in DOMAIN g, g[k].id > 0 PROVE \E m \in DOMAIN calls : calls[m] = k
      OBVIOUS
    <3>1. CASE k = i
      BY <1>8, <1>9, <2>2, <3>1
    <3>2. CASE k # i
      BY <1>1, <1>8, <1>9, <2>1, <3>2 DEF MadeUp
    <3> QED BY <3>1, <3>2
  <2> QED BY <2>4, <2>5, <2>6 DEF MadeUp
<1>15. Parses(ids, e.heap, e.calls, W, D, O)
  BY <1>6, <1>7, <1>10, <1>11, <1>12, <1>13, <1>14 DEF Parses
<1>16. ids[heap[i].name] # NoID \/ heap[i].input = Whole(heap[i].name) =>
         Shows(ids, g, calls, heap[i].name)
  BY <1>1, <1>2, <1>6, <1>8 DEF Shows
<1>17. \A n \in DOMAIN heap : g[n].name \in {heap[n].name, heap[i].name}
  BY <1>1, <1>6, <1>8
<1>18. \A n \in DOMAIN heap : n # i /\ (\A m \in DOMAIN calls : calls[m] # n) => g[n] = heap[n]
  BY <1>1, <1>8
<1> QED BY <1>1, <1>6, <1>7, <1>8, <1>15, <1>16, <1>17, <1>18 DEF Appended

\* appendCodexToolCall lists a tool call that is not listed, and overwrites the
\* one that has its id.
LEMMA AppendCall ==
  ASSUME NEW ids \in CallIDs, NEW heap, NEW calls, NEW W, NEW D \in SUBSET Sure(ids), NEW O,
         NEW i \in DOMAIN heap, NEW e,
         Parses(ids, heap, calls, W, D, O), e = appendCodexToolCall(heap, calls, i)
  PROVE  Appended(ids, heap, calls, i, W, D, O, e)
<1>1. PICK h : h = prepared(heap, calls, i)
  OBVIOUS
<1>2. heap[i].name # ""
  <2>1. heap[i].name \in Calls
    BY ParsesFacts
  <2> QED BY <2>1, CallsAssumption
<1> DEFINE same == {j \in DOMAIN calls : h[calls[j]].id = h[i].id}
<1>3. e = IF same = {}
          THEN [heap |-> h, calls |-> Append(calls, i)]
          ELSE LET d == calls[CHOOSE j \in same : \A k \in same : j <= k]
               IN [heap |-> [h EXCEPT ![d].name = h[i].name, ![d].input = h[i].input],
                   calls |-> calls]
  BY <1>1, <1>2 DEF appendCodexToolCall
<1>4. CASE same = {}
  <2>1. e = [heap |-> h, calls |-> Append(calls, i)]
    BY <1>3, <1>4
  <2>2. \A j \in DOMAIN calls : h[calls[j]].id # h[i].id
    BY <1>4
  <2> QED BY <1>1, <2>1, <2>2, AppendNew
<1>5. CASE same # {}
  <2> DEFINE m == CHOOSE n \in same : \A k \in same : n <= k
  <2>1. m \in same
    <3>1. same \subseteq Nat
      BY ParsesFacts
    <3> HIDE DEF same
    <3>2. \E n \in same : \A k \in same : n <= k
      BY <1>5, <3>1, LeastNat
    <3> QED BY <3>2
  <2>2. PICK j, d : j = m /\ d = calls[j]
    OBVIOUS
  <2>3. e = [heap |-> [h EXCEPT ![d].name = h[i].name, ![d].input = h[i].input], calls |-> calls]
    BY <1>3, <1>5, <2>2
  <2>4. j \in DOMAIN calls /\ h[calls[j]].id = h[i].id
    BY <2>1, <2>2
  <2> HIDE DEF m
  <2> QED BY <1>1, <2>2, <2>3, <2>4, AppendSame
<1> QED BY <1>4, <1>5

LEMMA AppendEdit ==
  ASSUME NEW S, NEW s \in Seq(S), NEW a \in S, NEW x \in S
  PROVE  [Append(s, a) EXCEPT ![Len(s) + 1] = x] = Append(s, x)
<1>1. PICK i, b, g, h : i = Len(s) + 1 /\ b = Append(s, a) /\ g = [b EXCEPT ![i] = x] /\ h = Append(s, x)
  OBVIOUS
<1>2. /\ b \in Seq(S) /\ DOMAIN b = 1..i /\ i \in DOMAIN b /\ Len(s) \in Nat
      /\ \A k \in 1..Len(s) : b[k] = s[k]
  BY <1>1
<1>3. /\ h \in Seq(S) /\ DOMAIN h = 1..i /\ h[i] = x /\ \A k \in 1..Len(s) : h[k] = s[k]
  BY <1>1
<1>4. /\ g \in Seq(S) /\ DOMAIN g = DOMAIN b /\ g[i] = x /\ \A k \in DOMAIN b : k # i => g[k] = b[k]
  BY <1>1, <1>2, SeqEdit
<1>5. \A k \in 1..i : g[k] = h[k]
  <2> SUFFICES ASSUME NEW k \in 1..i PROVE g[k] = h[k]
    OBVIOUS
  <2>1. k = i \/ k \in 1..Len(s)
    BY <1>1, <1>2
  <2> QED BY <1>1, <1>2, <1>3, <1>4, <2>1
<1>6. g = h
  <2>1. g \in [1..i -> S] /\ h \in [1..i -> S]
    BY <1>2, <1>3, <1>4
  <2>2. g = [k \in 1..i |-> g[k]] /\ h = [k \in 1..i |-> h[k]]
    BY <2>1
  <2>3. [k \in 1..i |-> g[k]] = [k \in 1..i |-> h[k]]
    BY <1>5
  <2> QED BY <2>2, <2>3, Zenon
<1> QED BY <1>1, <1>6

\* What one emission after another may make of a heap.
EmissionsOf(ids, heap, W, D, O) ==
  {s \in [heap : Seq(ToolCalls), calls : Seq(Nat)] :
     Parses(ids, s.heap, s.calls, W, D, O) /\ DOMAIN s.heap = DOMAIN heap}

LEMMA EmissionStep ==
  ASSUME NEW ids \in CallIDs, NEW heap, NEW W, NEW D \in SUBSET Sure(ids), NEW O,
         NEW s \in EmissionsOf(ids, heap, W, D, O), NEW k \in DOMAIN heap
  PROVE  appendCodexToolCall(s.heap, s.calls, k) \in EmissionsOf(ids, heap, W, D, O)
<1>1. PICK h, cs, e : h = s.heap /\ cs = s.calls /\ e = appendCodexToolCall(h, cs, k)
  OBVIOUS
<1>2. Parses(ids, h, cs, W, D, O) /\ DOMAIN h = DOMAIN heap
  BY <1>1 DEF EmissionsOf
<1>3. Appended(ids, h, cs, k, W, D, O, e)
  BY <1>1, <1>2, AppendCall
<1>4. PICK g, es : g = e.heap /\ es = e.calls
  OBVIOUS
<1>5. Parses(ids, g, es, W, D, O) /\ DOMAIN g = DOMAIN heap /\ e = [heap |-> g, calls |-> es]
  BY <1>2, <1>3, <1>4 DEF Appended
<1>6. g \in Seq(ToolCalls) /\ es \in Seq(Nat)
  <2>1. g \in Seq(ToolCalls) /\ es \in Seq(DOMAIN g) /\ DOMAIN g = 1..Len(g) /\ Len(g) \in Nat
    BY <1>5, ParsesFacts
  <2>2. DOMAIN g \subseteq Nat
    BY <2>1
  <2> QED BY <2>1, <2>2
<1> QED BY <1>1, <1>5, <1>6 DEF EmissionsOf

\* The buffers emitted at the end of a stream.
LEMMA FlushStep ==
  ASSUME NEW ids \in CallIDs, NEW heap, NEW calls, NEW W, NEW D \in SUBSET Sure(ids), NEW O,
         Parses(ids, heap, calls, W, D, O), NEW e, e = flushed(heap, calls)
  PROVE  Parses(ids, e.heap, e.calls, W, D, O)
<1> DEFINE L == Len(heap)
           S == EmissionsOf(ids, heap, W, D, O)
           z == [heap |-> heap, calls |-> calls]
           G == [k \in 1..L |-> [s \in S |-> appendCodexToolCall(s.heap, s.calls, k)]]
<1>1. L \in Nat /\ DOMAIN heap = 1..L
  BY ParsesFacts
<1>2. z \in S
  <2>1. heap \in Seq(ToolCalls) /\ calls \in Seq(DOMAIN heap) /\ DOMAIN heap \subseteq Nat
    BY ParsesFacts
  <2>2. calls \in Seq(Nat)
    BY <2>1
  <2> QED BY <2>1, <2>2 DEF EmissionsOf
<1>3. \A k \in 1..L : \A s \in S : G[k][s] = appendCodexToolCall(s.heap, s.calls, k)
  OBVIOUS
<1>4. \A k \in 1..L : \A s \in S : appendCodexToolCall(s.heap, s.calls, k) \in S
  BY <1>1, EmissionStep
<1>41. \A k \in 1..L : \A s \in S : G[k][s] \in S
  BY <1>3, <1>4
<1> HIDE DEF G, S, z, L
<1>42. Steps(G, L, S)
  BY <1>41 DEF Steps
<1>43. PICK f : Iterates(f, L, S, z, G)
  BY <1>1, <1>2, <1>42, IterExists
<1>5. f \in [0..L -> S] /\ f[0] = z /\ \A k \in 1..L : f[k] = G[k][f[k - 1]]
  BY <1>43 DEF Iterates
<1> DEFINE Step(g, n) == IF n = 0 THEN z ELSE appendCodexToolCall(g[n - 1].heap, g[n - 1].calls, n)
           s == CHOOSE g : g = [n \in 0..L |-> Step(g, n)]
<1>6. f = [n \in 0..L |-> Step(f, n)]
  <2>1. ASSUME NEW n \in 0..L PROVE f[n] = Step(f, n)
    <3>1. CASE n = 0
      BY <1>5, <3>1
    <3>2. CASE n # 0
      <4>1. n \in 1..L /\ n - 1 \in 0..L
        BY <1>1, <3>2
      <4> QED BY <1>3, <1>5, <3>2, <4>1
    <3> QED BY <3>1, <3>2
  <2> HIDE DEF Step
  <2> QED BY <1>5, <2>1
<1>7. s = [n \in 0..L |-> Step(s, n)]
  <2> HIDE DEF Step
  <2> QED BY <1>6
<1>8. e = s[L]
  BY DEF flushed, z, L
<1> HIDE DEF s
<1>9. s[0] = z /\ \A n \in 1..L : s[n] = appendCodexToolCall(s[n - 1].heap, s[n - 1].calls, n)
  <2>1. \A n \in 0..L : s[n] = Step(s, n)
    <3> HIDE DEF Step
    <3> QED BY <1>7
  <2>2. 0 \in 0..L /\ \A n \in 1..L : n \in 0..L /\ n # 0
    BY <1>1
  <2> QED BY <2>1, <2>2
<1> DEFINE P == [k \in 0..L |-> S]
<1>10. \A k \in 0..L : s[k] \in P[k]
  <2>1. s[0] \in P[0]
    BY <1>1, <1>2, <1>9
  <2>2. ASSUME NEW k \in 1..L, s[k - 1] \in P[k - 1] PROVE s[k] \in P[k]
    <3>1. k \in 0..L /\ k - 1 \in 0..L
      BY <1>1
    <3>2. s[k - 1] \in S
      BY <2>2, <3>1
    <3> QED BY <1>4, <1>9, <3>1, <3>2
  <2> HIDE DEF P
  <2> QED BY <1>1, <2>1, <2>2, IterInvariant
<1>11. e \in S
  BY <1>1, <1>8, <1>10
<1> QED BY <1>11 DEF S, EmissionsOf

\* An order of a finite set has every element of it, once.
LEMMA OrderCovers ==
  ASSUME NEW T, IsFiniteSet(T), NEW r \in SetToSeqs(T)
  PROVE  /\ Cardinality(T) \in Nat /\ r \in [1..Cardinality(T) -> T]
         /\ Len(r) = Cardinality(T) /\ \A t \in T : \E n \in 1..Len(r) : r[n] = t
         /\ \A i, j \in 1..Len(r) : i # j => r[i] # r[j]
<1> DEFINE N == Cardinality(T)
<1>1. N \in Nat
  BY FS_CardinalityType
<1>2. r \in [1..N -> T] /\ \A i, j \in 1..N : i # j => r[i] # r[j]
  BY DEF SetToSeqs
<1>3. r \in Injection(1..N, T)
  BY <1>2 DEF Injection, IsInjective
<1>4. Cardinality(1..N) = N
  BY <1>1, FS_Interval
<1>5. r \in Surjection(1..N, T)
  <2> HIDE DEF N
  <2>1. Cardinality(1..N) = Cardinality(T)
    BY <1>4 DEF N
  <2> QED BY <1>3, <2>1, FS_Injection
<1>6. \A t \in T : \E n \in 1..N : r[n] = t
  BY <1>5 DEF Surjection
<1>7. Len(r) = N
  BY <1>1, <1>2
<1> QED BY <1>1, <1>2, <1>6, <1>7

\* A heap of the calls X, all finished, those of bare perhaps repeated bare.
Finished(ids, bare, X, O) ==
  {s \in [heap : Seq(ToolCalls), calls : Seq(Nat)] :
     /\ Parses(ids, s.heap, s.calls, X \ bare, X \cap Sure(ids), O)
     /\ \A i \in DOMAIN s.heap : s.heap[i].name \in X}

\* An item of response.completed is finished, whether it was before or not.
LEMMA RepeatItem ==
  ASSUME NEW ids \in CallIDs, vendor.id = ids, NEW bare, NEW X \in SUBSET Calls, bare \subseteq X,
         NEW O, NEW s \in Finished(ids, bare, X, O), NEW c \in Calls, c \notin X \cap O
  PROVE  repeatItem(s, c, bare) \in Finished(ids, bare, X \cup {c}, O)
<1> DEFINE tc == [id |-> ids[c], name |-> c, input |-> IF c \in bare THEN <<>> ELSE Whole(c)]
<1>1. PICK old, calls, h, i, e :
        /\ old = s.heap /\ calls = s.calls
        /\ h = Append(old, tc) /\ i = Len(old) + 1
        /\ e = appendCodexToolCall(h, calls, i)
  OBVIOUS
<1>2. e = repeatItem(s, c, bare)
  BY <1>1 DEF repeatItem
<1>3. PICK W, D, V : W = X \ bare /\ D = X \cap Sure(ids) /\ V = (X \cup {c}) \ bare
  OBVIOUS
<1>4. Parses(ids, old, calls, W, D, O) /\ \A k \in DOMAIN old : old[k].name \in X
  BY <1>1, <1>3 DEF Finished
<1>5. /\ old \in Seq(ToolCalls) /\ DOMAIN old = 1..Len(old) /\ Len(old) \in Nat
      /\ calls \in Seq(DOMAIN old) /\ \A j \in DOMAIN calls : calls[j] \in DOMAIN old
      /\ \A k \in DOMAIN old : Own(ids, old[k])
  BY <1>4, ParsesFacts
<1>6. /\ tc \in ToolCalls /\ tc.id = ids[c] /\ tc.name = c /\ (c \notin bare => tc.input = Whole(c))
      /\ Own(ids, tc)
  <2>1. Whole(c) \in Seq(Pieces) /\ \A n \in DOMAIN Whole(c) : Whole(c)[n].call = c
    BY PieceFacts
  <2>2. <<>> \in Seq(Pieces) /\ DOMAIN <<>> = {}
    BY EmptySeq
  <2>3. PICK x : x = IF c \in bare THEN <<>> ELSE Whole(c)
    OBVIOUS
  <2>4. x \in Seq(Pieces) /\ \A n \in DOMAIN x : x[n].call = c
    BY <2>1, <2>2, <2>3
  <2>5. tc = [id |-> ids[c], name |-> c, input |-> x]
    BY <2>3
  <2>6. ids[c] \in Int
    BY IdFacts
  <2> HIDE DEF tc
  <2>7. tc \in ToolCalls /\ tc.id = ids[c] /\ tc.name = c /\ tc.input = x
    BY <2>4, <2>5, <2>6 DEF ToolCalls
  <2>8. Own(ids, tc)
    BY <2>4, <2>7 DEF Own, NoID
  <2> QED BY <2>3, <2>7, <2>8
<1> HIDE DEF tc
<1>7. /\ h \in Seq(ToolCalls) /\ DOMAIN h = DOMAIN old \cup {i} /\ i \in DOMAIN h /\ i \notin DOMAIN old
      /\ h[i] = tc /\ \A k \in DOMAIN old : h[k] = old[k]
  BY <1>1, <1>5, <1>6
<1>8. \A j \in DOMAIN calls : h[calls[j]] = old[calls[j]]
  BY <1>5, <1>7
<1>9. HeapOK(ids, h)
  BY <1>5, <1>6, <1>7 DEF HeapOK
<1>10. Listed(h, calls)
  <2>1. calls \in Seq(DOMAIN h)
    BY <1>5, <1>7
  <2>2. Listed(old, calls)
    BY <1>4 DEF Parses
  <2> QED BY <1>8, <2>1, <2>2 DEF Listed
<1>11. WholeIn(h, V)
  <2>1. WholeIn(old, W)
    BY <1>4 DEF Parses
  <2>2. ASSUME NEW k \in DOMAIN h, h[k].name \in V PROVE h[k].input = Whole(h[k].name)
    <3>1. CASE k = i
      BY <1>3, <1>6, <1>7, <2>2, <3>1
    <3>2. CASE k # i
      BY <1>3, <1>4, <1>7, <2>1, <2>2, <3>2 DEF WholeIn
    <3> QED BY <3>1, <3>2
  <2> QED BY <2>2 DEF WholeIn
<1>12. Covers(ids, h, calls, D)
  <2>1. Covers(ids, old, calls, D)
    BY <1>4 DEF Parses
  <2> QED BY <1>8, <2>1 DEF Covers, Shows
<1>13. ASSUME Foreign(ids) PROVE MadeUp(h, calls) /\ Once(h, O)
  <2>1. MadeUp(old, calls) /\ Once(old, O)
    BY <1>4, <1>13 DEF Parses
  <2>2. ~(h[i].id > 0)
    BY <1>6, <1>7, <1>13, IdFacts DEF Foreign
  <2>3. MadeUp(h, calls)
    BY <1>7, <1>8, <2>1, <2>2 DEF MadeUp
  <2>4. c \in O => \A k \in DOMAIN old : old[k].name # c
    BY <1>4
  <2>5. Once(h, O)
    <3> SUFFICES ASSUME NEW m \in DOMAIN h, NEW k \in DOMAIN h, h[m].name = h[k].name, h[m].name \in O
                 PROVE  m = k
      BY DEF Once
    <3>1. CASE m \in DOMAIN old /\ k \in DOMAIN old
      BY <1>7, <2>1, <3>1 DEF Once
    <3>2. CASE m = i \/ k = i
      BY <1>6, <1>7, <2>4, <3>2
    <3> QED BY <1>7, <3>1, <3>2
  <2> QED BY <2>3, <2>5
<1>14. Parses(ids, h, calls, V, D, O)
  BY <1>9, <1>10, <1>11, <1>12, <1>13 DEF Parses
<1>15. Appended(ids, h, calls, i, V, D, O, e)
  <2>1. D \in SUBSET Sure(ids)
    BY <1>3
  <2> QED BY <1>1, <1>7, <1>14, <2>1, AppendCall
<1>16. PICK g, es : g = e.heap /\ es = e.calls
  OBVIOUS
<1>17. /\ Parses(ids, g, es, V, D, O) /\ DOMAIN g = DOMAIN h /\ e = [heap |-> g, calls |-> es]
       /\ \A n \in DOMAIN h : g[n].name \in {h[n].name, h[i].name}
       /\ ids[h[i].name] # NoID \/ h[i].input = Whole(h[i].name) => Shows(ids, g, es, h[i].name)
  BY <1>15, <1>16 DEF Appended
<1>18. Covers(ids, g, es, (X \cup {c}) \cap Sure(ids))
  <2> SUFFICES ASSUME NEW d \in (X \cup {c}) \cap Sure(ids) PROVE Shows(ids, g, es, d)
    BY DEF Covers
  <2>1. CASE d \in X
    <3>1. d \in D
      BY <1>3, <2>1
    <3> QED BY <1>17, <3>1 DEF Parses, Covers
  <2>2. CASE d = c /\ c \notin X
    <3>1. c \notin bare
      BY <2>2
    <3> QED BY <1>6, <1>7, <1>17, <2>2, <3>1
  <2> QED BY <2>1, <2>2
<1>19. Parses(ids, g, es, (X \cup {c}) \ bare, (X \cup {c}) \cap Sure(ids), O)
  BY <1>3, <1>17, <1>18 DEF Parses
<1>20. \A k \in DOMAIN g : g[k].name \in X \cup {c}
  BY <1>4, <1>6, <1>7, <1>17
<1>21. g \in Seq(ToolCalls) /\ es \in Seq(Nat)
  <2>1. g \in Seq(ToolCalls) /\ es \in Seq(DOMAIN g) /\ DOMAIN g = 1..Len(g) /\ Len(g) \in Nat
    BY <1>17, ParsesFacts
  <2>2. DOMAIN g \subseteq Nat
    BY <2>1
  <2> QED BY <2>1, <2>2
<1> QED BY <1>2, <1>17, <1>19, <1>20, <1>21 DEF Finished

\* response.completed: every call of the output is listed.
LEMMA RepeatStep ==
  ASSUME NEW ids \in CallIDs, vendor.id = ids, NEW heap, NEW calls, NEW D \in SUBSET Calls,
         NEW bare \in SUBSET D, NEW O, O \cap D = {},
         Parses(ids, heap, calls, D \ bare, D \cap Sure(ids), O),
         \A i \in DOMAIN heap : heap[i].name \in D,
         NEW output \in SetToSeqs(Calls), NEW e, e = repeated(heap, calls, output, bare)
  PROVE  e \in Finished(ids, bare, Calls, O)
<1> DEFINE L == Len(output)
           S == UNION {Finished(ids, bare, X, {}) : X \in {Y \in SUBSET Calls : bare \subseteq Y}}
           z == [heap |-> heap, calls |-> calls]
           G == [k \in 1..L |-> [s \in S |-> repeatItem(s, output[k], bare)]]
           Seen(k) == D \cup {output[n] : n \in 1..k}
<1>1. /\ L \in Nat /\ \A k \in 1..L : output[k] \in Calls
      /\ \A c \in Calls : \E n \in 1..L : output[n] = c
      /\ \A m, n \in 1..L : m # n => output[m] # output[n]
  <2>1. IsFiniteSet(Calls)
    BY CallsAssumption
  <2>2. /\ Cardinality(Calls) \in Nat /\ output \in [1..Cardinality(Calls) -> Calls]
        /\ Len(output) = Cardinality(Calls) /\ \A t \in Calls : \E n \in 1..Len(output) : output[n] = t
        /\ \A m, n \in 1..Len(output) : m # n => output[m] # output[n]
    BY <2>1, OrderCovers
  <2> QED BY <2>2
<1>2. z \in Finished(ids, bare, D, O)
  <2>1. heap \in Seq(ToolCalls) /\ calls \in Seq(DOMAIN heap) /\ DOMAIN heap \subseteq Nat
    BY ParsesFacts
  <2>2. calls \in Seq(Nat)
    BY <2>1
  <2> QED BY <2>1, <2>2 DEF Finished
<1>3. \A k \in 1..L : \A s \in S : G[k][s] = repeatItem(s, output[k], bare)
  OBVIOUS
<1>4. \A k \in 1..L : \A s \in S : repeatItem(s, output[k], bare) \in S
  <2> SUFFICES ASSUME NEW k \in 1..L, NEW X \in SUBSET Calls, bare \subseteq X,
                      NEW s \in Finished(ids, bare, X, {})
               PROVE  repeatItem(s, output[k], bare) \in S
    OBVIOUS
  <2>1. repeatItem(s, output[k], bare) \in Finished(ids, bare, X \cup {output[k]}, {})
    BY <1>1, RepeatItem
  <2>2. X \cup {output[k]} \in {Y \in SUBSET Calls : bare \subseteq Y}
    BY <1>1
  <2> QED BY <2>1, <2>2
<1>41. \A k \in 1..L : \A s \in S : G[k][s] \in S
  BY <1>3, <1>4
<1>42. z \in S
  <2>1. z \in Finished(ids, bare, D, {})
    BY <1>2 DEF Finished, Parses, Once
  <2>2. D \in {Y \in SUBSET Calls : bare \subseteq Y}
    OBVIOUS
  <2> HIDE DEF z
  <2> QED BY <2>1, <2>2
<1> HIDE DEF G, S, z, L
<1>43. Steps(G, L, S)
  BY <1>41 DEF Steps
<1>44. PICK f : Iterates(f, L, S, z, G)
  BY <1>1, <1>42, <1>43, IterExists
<1>5. f \in [0..L -> S] /\ f[0] = z /\ \A k \in 1..L : f[k] = G[k][f[k - 1]]
  BY <1>44 DEF Iterates
<1> DEFINE Step(g, n) == IF n = 0 THEN z ELSE repeatItem(g[n - 1], output[n], bare)
           s == CHOOSE g : g = [n \in 0..L |-> Step(g, n)]
<1>6. f = [n \in 0..L |-> Step(f, n)]
  <2>1. ASSUME NEW n \in 0..L PROVE f[n] = Step(f, n)
    <3>1. CASE n = 0
      BY <1>5, <3>1
    <3>2. CASE n # 0
      <4>1. n \in 1..L /\ n - 1 \in 0..L
        BY <1>1, <3>2
      <4> QED BY <1>3, <1>5, <3>2, <4>1
    <3> QED BY <3>1, <3>2
  <2> HIDE DEF Step
  <2> QED BY <1>5, <2>1
<1>7. s = [n \in 0..L |-> Step(s, n)]
  <2> HIDE DEF Step
  <2> QED BY <1>6
<1>8. e = s[L]
  BY DEF repeated, z, L
<1> HIDE DEF s
<1>9. s[0] = z /\ \A n \in 1..L : s[n] = repeatItem(s[n - 1], output[n], bare)
  <2>1. \A n \in 0..L : s[n] = Step(s, n)
    <3> HIDE DEF Step
    <3> QED BY <1>7
  <2>2. 0 \in 0..L /\ \A n \in 1..L : n \in 0..L /\ n # 0
    BY <1>1
  <2> QED BY <2>1, <2>2
<1> DEFINE P == [k \in 0..L |-> Finished(ids, bare, Seen(k), O)]
<1>10. \A k \in 0..L : s[k] \in P[k]
  <2>1. s[0] \in P[0]
    <3>1. Seen(0) = D
      OBVIOUS
    <3>2. P[0] = Finished(ids, bare, Seen(0), O)
      <4> HIDE DEF Seen
      <4> QED BY <1>1
    <3> HIDE DEF P, Seen
    <3> QED BY <1>2, <1>9, <3>1, <3>2
  <2>2. ASSUME NEW k \in 1..L, s[k - 1] \in P[k - 1] PROVE s[k] \in P[k]
    <3>1. k \in 0..L /\ k - 1 \in 0..L
      BY <1>1
    <3>2. P[k] = Finished(ids, bare, Seen(k), O) /\ P[k - 1] = Finished(ids, bare, Seen(k - 1), O)
      <4> HIDE DEF Seen
      <4> QED BY <3>1
    <3>3. Seen(k) = Seen(k - 1) \cup {output[k]}
      <4>1. 1..k = 1..(k - 1) \cup {k}
        BY <1>1
      <4> QED BY <4>1
    <3>31. /\ Seen(k - 1) \in SUBSET Calls /\ bare \subseteq Seen(k - 1) /\ output[k] \in Calls
           /\ output[k] \notin Seen(k - 1) \cap O
      <4>1. \A n \in 1..(k - 1) : n \in 1..L /\ n # k
        BY <1>1
      <4> QED BY <1>1, <4>1
    <3> HIDE DEF P, Seen
    <3>4. repeatItem(s[k - 1], output[k], bare)
            \in Finished(ids, bare, Seen(k - 1) \cup {output[k]}, O)
      BY <2>2, <3>2, <3>31, RepeatItem
    <3> QED BY <1>9, <3>2, <3>3, <3>4
  <2> HIDE DEF P
  <2> QED BY <1>1, <2>1, <2>2, IterInvariant
<1>11. Seen(L) = Calls
  BY <1>1
<1>12. P[L] = Finished(ids, bare, Seen(L), O)
  <2> HIDE DEF Seen
  <2> QED BY <1>1
<1> HIDE DEF P, Seen
<1> QED BY <1>1, <1>8, <1>10, <1>11, <1>12

\* The parts of the invariant of a stream.
LEMMA StreamFacts ==
  ASSUME StreamInv
  PROVE  /\ Parses(vendor.id, buf, out.calls, FullCalls, SureCalls, OnceCalls)
         /\ vendor.id \in CallIDs /\ SureCalls \in SUBSET Sure(vendor.id)
         /\ HeapOK(vendor.id, buf) /\ Listed(buf, out.calls)
         /\ WholeIn(buf, FullCalls) /\ Covers(vendor.id, buf, out.calls, SureCalls)
         /\ buf \in Seq(ToolCalls) /\ DOMAIN buf = 1..Len(buf) /\ Len(buf) \in Nat
         /\ out.calls \in Seq(DOMAIN buf)
         /\ \A j \in DOMAIN out.calls : out.calls[j] \in DOMAIN buf
         /\ \A k \in DOMAIN buf : buf[k] \in ToolCalls /\ Own(vendor.id, buf[k])
         /\ \A k \in DOMAIN buf : buf[k].id \in Int /\ buf[k].name \in Calls
<1>1. Parses(vendor.id, buf, out.calls, FullCalls, SureCalls, OnceCalls)
  BY DEF StreamInv, Parsed
<1>2. vendor.id \in CallIDs
  BY DEF StreamInv, VendorType
<1>3. /\ HeapOK(vendor.id, buf) /\ Listed(buf, out.calls)
      /\ WholeIn(buf, FullCalls) /\ Covers(vendor.id, buf, out.calls, SureCalls)
  BY <1>1 DEF Parses
<1>4. SureCalls \in SUBSET Sure(vendor.id)
  BY DEF SureCalls
<1> QED BY <1>1, <1>2, <1>3, <1>4, ParsesFacts

\* An event of an announced call finds its buffer.
LEMMA KnownBuffer ==
  ASSUME StreamInv, NEW c \in Calls, vendor.added[c] # "no", ~vendor.done[c]
  PROVE  /\ byItem[c] \in DOMAIN buf /\ buf[byItem[c]].name = c /\ c \notin DoneCalls
         /\ bufferOf(c, NoID) = byItem[c] /\ ensured(c, NoID, "") = buf
         /\ bufferOf(c, vendor.id[c]) = byItem[c] /\ ensured(c, vendor.id[c], c) = buf
<1>1. /\ byItem[c] # NoToolCall /\ (vendor.id[c] # NoID => byCall[c] = byItem[c])
      /\ byItem[c] \in DOMAIN buf /\ buf[byItem[c]].name = c
  BY DEF StreamInv, BufferInv, CallMap
<1>2. c # ""
  BY CallsAssumption
<1>3. bufferOf(c, NoID) = byItem[c] /\ bufferOf(c, vendor.id[c]) = byItem[c]
  BY <1>1 DEF bufferOf
<1>4. c \notin DoneCalls
  BY DEF DoneCalls
<1>5. PICK i, v : i = byItem[c] /\ v = vendor.id[c]
  OBVIOUS
<1>6. /\ i \in DOMAIN buf /\ i <= Len(buf) /\ buf[i] \in ToolCalls /\ buf[i].name = c
      /\ v # NoID => buf[i].id = v
  <2>1. i \in DOMAIN buf /\ i <= Len(buf) /\ buf[i] \in ToolCalls /\ buf[i].name = c /\ Own(vendor.id, buf[i])
    BY <1>1, <1>5, StreamFacts
  <2> QED BY <2>1, <1>5 DEF Own
<1>7. [buf EXCEPT ![i] = buf[i]] = buf
  BY StreamFacts
<1>8. ensured(c, NoID, "") = buf
  <2>1. bufferOf(c, NoID) = i
    BY <1>3, <1>5
  <2>2. [buf[i] EXCEPT !.id = IF NoID # NoID THEN NoID ELSE @, !.name = IF @ = "" THEN "" ELSE @] = buf[i]
    BY <1>6 DEF ToolCalls
  <2> QED BY <1>6, <1>7, <2>1, <2>2 DEF ensured
<1>9. ensured(c, v, c) = buf
  <2>1. bufferOf(c, v) = i
    BY <1>3, <1>5
  <2>2. [buf[i] EXCEPT !.id = IF v # NoID THEN v ELSE @, !.name = IF @ = "" THEN c ELSE @] = buf[i]
    BY <1>2, <1>6 DEF ToolCalls
  <2> QED BY <1>6, <1>7, <2>1, <2>2 DEF ensured
<1> QED BY <1>1, <1>3, <1>4, <1>5, <1>8, <1>9

\* An event of a call that was not announced makes it a buffer.
LEMMA NewBuffer ==
  ASSUME StreamInv, NEW c \in Calls, vendor.added[c] = "no", ~vendor.done[c]
  PROVE  /\ byItem[c] = NoToolCall /\ c \notin DoneCalls /\ ~vendor.argsDone[c]
         /\ bufferOf(c, vendor.id[c]) = Len(buf) + 1
         /\ ensured(c, vendor.id[c], c)
              = Append(buf, [id |-> vendor.id[c], name |-> c, input |-> <<>>])
         /\ \A k \in DOMAIN buf : buf[k].name # c
<1>1. /\ byItem[c] = NoToolCall /\ byCall[c] = NoToolCall /\ ~vendor.argsDone[c]
      /\ \A k \in DOMAIN buf : buf[k].name \in DoneCalls \/ byItem[buf[k].name] = k
  BY DEF StreamInv, BufferInv, CallMap
<1>2. c # ""
  BY CallsAssumption
<1>21. Len(buf) \in Nat /\ DOMAIN buf = 1..Len(buf)
  BY StreamFacts
<1>22. ~(Len(buf) + 1 <= Len(buf)) /\ \A k \in DOMAIN buf : k # 0
  BY <1>21
<1>3. c \notin DoneCalls
  BY DEF DoneCalls
<1>4. PICK v : v = vendor.id[c]
  OBVIOUS
<1>5. bufferOf(c, v) = Len(buf) + 1
  BY <1>1 DEF bufferOf
<1>6. ensured(c, v, c) = Append(buf, [id |-> v, name |-> c, input |-> <<>>])
  <2>1. PICK none, e, q : e = <<>> /\ q = "" /\ none = [id |-> NoID, name |-> q, input |-> e]
    OBVIOUS
  <2>2. none.id = NoID /\ none.name = q /\ none.input = e
    BY <2>1
  <2>3. [none EXCEPT !.id = v, !.name = c] = [id |-> v, name |-> c, input |-> e]
    <3>1. PICK r : r = [none EXCEPT !.id = v]
      OBVIOUS
    <3>2. r = [id |-> v, name |-> q, input |-> e]
      BY <2>1, <3>1
    <3>3. [r EXCEPT !.name = c] = [id |-> v, name |-> c, input |-> e]
      BY <3>2
    <3> QED BY <3>1, <3>3
  <2>4. [none EXCEPT !.id = IF v # NoID THEN v ELSE @, !.name = IF @ = "" THEN c ELSE @]
          = [none EXCEPT !.id = v, !.name = c]
    <3>1. (IF v # NoID THEN v ELSE none.id) = v /\ (IF none.name = "" THEN c ELSE none.name) = c
      BY <2>1, <2>2
    <3> QED BY <2>2, <3>1, Zenon
  <2>5. PICK i : i = Len(buf) + 1 /\ ~(i <= Len(buf))
    BY <1>22
  <2>6. ensured(c, v, c) =
          Append(buf, [none EXCEPT !.id = IF v # NoID THEN v ELSE @, !.name = IF @ = "" THEN c ELSE @])
    <3>1. bufferOf(c, v) = i
      BY <1>5, <2>5
    <3>2. none = [id |-> NoID, name |-> "", input |-> <<>>]
      BY <2>1
    <3> QED BY <3>2, <2>5, <3>1, Zenon DEF ensured
  <2> QED BY <2>1, <2>3, <2>4, <2>6
<1>7. \A k \in DOMAIN buf : buf[k].name # c
  BY <1>1, <1>22, <1>3 DEF NoToolCall
<1> QED BY <1>1, <1>3, <1>4, <1>5, <1>6, <1>7

\* h is the heap with the buffer of c new or changed.
Edit(h, i, c) ==
  /\ h \in Seq(ToolCalls) /\ i \in DOMAIN h /\ DOMAIN h = DOMAIN buf \cup {i}
  /\ h[i].name = c /\ Own(vendor.id, h[i])
  /\ h[i].id = IF i \in DOMAIN buf THEN buf[i].id ELSE vendor.id[c]
  /\ \A k \in DOMAIN buf : buf[k].name = c <=> k = i
  /\ \A k \in DOMAIN buf : k # i => h[k] = buf[k]

\* The buffer of a call that is not finished is not listed: editing it does not
\* disturb the calls that are.
LEMMA EditStep ==
  ASSUME StreamInv, NEW c \in Calls, c \notin DoneCalls, NEW h, NEW i, Edit(h, i, c)
  PROVE  /\ Parses(vendor.id, h, out.calls, FullCalls, SureCalls, OnceCalls)
         /\ h[i].input = Whole(c) =>
              Parses(vendor.id, h, out.calls, FullCalls \cup {c}, SureCalls, OnceCalls)
         /\ \A j \in DOMAIN out.calls : out.calls[j] # i /\ h[out.calls[j]].name \in DoneCalls
<1>1. \A j \in DOMAIN out.calls : buf[out.calls[j]].name \in DoneCalls
  BY DEF StreamInv, BufferInv
<1>2. \A j \in DOMAIN out.calls :
        out.calls[j] \in DOMAIN h /\ out.calls[j] # i /\ h[out.calls[j]] = buf[out.calls[j]]
  BY <1>1, StreamFacts DEF Edit
<1>3. HeapOK(vendor.id, h)
  BY StreamFacts DEF HeapOK, Edit
<1>4. Listed(h, out.calls)
  <2>1. out.calls \in Seq(DOMAIN h)
    <3>1. PICK calls, T, U : calls = out.calls /\ T = DOMAIN buf /\ U = DOMAIN h
      OBVIOUS
    <3>2. calls \in Seq(T) /\ T \subseteq U
      BY <3>1, StreamFacts DEF Edit
    <3>3. calls \in Seq(U)
      BY <3>2
    <3> QED BY <3>1, <3>3
  <2> QED BY <1>2, <2>1, StreamFacts DEF Listed
<1>5. c \notin FullCalls
  BY DEF FullCalls
<1>6. WholeIn(h, FullCalls)
  <2> SUFFICES ASSUME NEW k \in DOMAIN h, h[k].name \in FullCalls PROVE h[k].input = Whole(h[k].name)
    BY DEF WholeIn
  <2>1. k \in DOMAIN buf /\ h[k] = buf[k]
    BY <1>5 DEF Edit
  <2> QED BY <2>1, StreamFacts DEF WholeIn
<1>7. ASSUME h[i].input = Whole(c) PROVE WholeIn(h, FullCalls \cup {c})
  <2> SUFFICES ASSUME NEW k \in DOMAIN h, h[k].name \in FullCalls \cup {c}
               PROVE  h[k].input = Whole(h[k].name)
    BY DEF WholeIn
  <2>1. CASE k = i
    BY <1>7, <2>1 DEF Edit
  <2>2. CASE k # i
    <3>1. k \in DOMAIN buf /\ h[k] = buf[k] /\ buf[k].name # c
      BY <2>2 DEF Edit
    <3> QED BY <3>1, StreamFacts DEF WholeIn
  <2> QED BY <2>1, <2>2
<1>8. Covers(vendor.id, h, out.calls, SureCalls)
  BY <1>2, StreamFacts DEF Covers, Shows
<1>9. ASSUME Foreign(vendor.id) PROVE MadeUp(h, out.calls) /\ Once(h, OnceCalls)
  <2>1. MadeUp(buf, out.calls) /\ Once(buf, OnceCalls)
    BY <1>9, StreamFacts DEF Parses
  <2>2. vendor.id[c] \in Int /\ ~(vendor.id[c] > 0)
    BY <1>9, StreamFacts, IdFacts DEF Foreign
  <2>3. MadeUp(h, out.calls)
    <3>1. ASSUME NEW k \in DOMAIN h, h[k].id > 0 PROVE \E j \in DOMAIN out.calls : out.calls[j] = k
      <4>1. k \in DOMAIN buf /\ h[k].id = buf[k].id
        BY <2>2, <3>1 DEF Edit
      <4> QED BY <2>1, <3>1, <4>1 DEF MadeUp
    <3> QED BY <1>2, <2>1, <3>1 DEF MadeUp
  <2>4. Once(h, OnceCalls)
    BY <2>1 DEF Once, Edit
  <2> QED BY <2>3, <2>4
<1> QED BY <1>1, <1>2, <1>3, <1>4, <1>6, <1>7, <1>8, <1>9 DEF Parses

\* What a step makes of the parser's state is well parsed.
LEMMA ParsedNext ==
  ASSUME NEW ids, NEW heap, NEW calls, NEW W, NEW D, NEW O, Parses(ids, heap, calls, W, D, O),
         vendor'.id = ids, buf' = heap, out'.calls = calls,
         FullCalls' = W, SureCalls' = D, OnceCalls' = O
  PROVE  Parsed'
<1>1. /\ HeapOK(ids, heap) /\ Listed(heap, calls) /\ WholeIn(heap, W) /\ Covers(ids, heap, calls, D)
      /\ Foreign(ids) => MadeUp(heap, calls) /\ Once(heap, O)
  BY DEF Parses
<1>2. HeapOK(vendor.id, buf)'
  BY <1>1 DEF HeapOK, Own
<1>3. Listed(buf, out.calls)'
  BY <1>1 DEF Listed
<1>4. WholeIn(buf, FullCalls)'
  BY <1>1 DEF WholeIn
<1>5. Covers(vendor.id, buf, out.calls, SureCalls)'
  BY <1>1 DEF Covers, Shows
<1>6. (Foreign(vendor.id) => MadeUp(buf, out.calls) /\ Once(buf, OnceCalls))'
  BY <1>1 DEF Foreign, MadeUp, Once
<1> QED BY <1>2, <1>3, <1>4, <1>5, <1>6 DEF Parsed, Parses

\* A stream begins with nothing received.
LEMMA SendRequestStep ==
  ASSUME NEW id \in CallIDs, vendor' = Response(id), NewParser
  PROVE  StreamInv'
<1>1. /\ buf' = <<>> /\ byItem' = [c \in Calls |-> 0] /\ byCall' = [c \in Calls |-> 0]
      /\ out' = [text |-> 0, calls |-> <<>>]
  BY DEF NewParser, NoToolCall
<1>2. /\ vendor'.text = 0 /\ vendor'.textDone = FALSE /\ vendor'.id = id
      /\ vendor'.again = {} /\ vendor'.bare = {}
      /\ \A c \in Calls : vendor'.added[c] = "no" /\ vendor'.argsDone[c] = FALSE /\ vendor'.done[c] = FALSE
  BY DEF Response
<1>3. VendorType'
  <2>1. 0 \in 0..TextParts /\ 0 \in 0..ArgParts
    BY CodexAssumption
  <2> QED BY <2>1 DEF VendorType, Response
<1>4. OutInv'
  <2>1. <<>> \in Seq(Nat) /\ 0 \in Nat
    BY EmptySeq
  <2> QED BY <1>1, <1>2, <2>1 DEF OutInv
<1>5. FullCalls' = {} /\ SureCalls' = {}
  BY <1>2 DEF DoneCalls, FullCalls, SureCalls
<1>6. Parsed'
  <2>1. PICK e, O : e = <<>> /\ O = OnceCalls'
    OBVIOUS
  <2>2. DOMAIN e = {} /\ e \in Seq(ToolCalls) /\ e \in Seq(DOMAIN e)
    BY <2>1, EmptySeq
  <2>3. Parses(id, e, e, {}, {}, O)
    BY <2>2 DEF Parses, HeapOK, Listed, WholeIn, Covers, MadeUp, Once
  <2>4. buf' = e /\ out'.calls = e
    BY <1>1, <2>1
  <2> QED BY <1>2, <1>5, <2>1, <2>3, <2>4, ParsedNext
<1>7. BufferInv'
  <2>1. DOMAIN buf' = {} /\ DOMAIN out'.calls = {}
    BY <1>1
  <2>2. byItem' \in [Calls -> Nat]
    BY <1>1
  <2>3. CallMap(vendor.id, byItem)' = byCall'
    BY <1>1 DEF CallMap, NoToolCall
  <2> QED BY <1>1, <1>2, <2>1, <2>2, <2>3 DEF BufferInv, NoToolCall
<1> QED BY <1>3, <1>4, <1>6, <1>7 DEF StreamInv

\* What the vendor has finished, and how, stays as it is.
SameItems ==
  /\ vendor'.id = vendor.id /\ vendor'.again = vendor.again /\ vendor'.bare = vendor.bare
  /\ vendor'.done = vendor.done

LEMMA SameSets ==
  ASSUME SameItems
  PROVE  DoneCalls' = DoneCalls /\ FullCalls' = FullCalls /\ SureCalls' = SureCalls /\ OnceCalls' = OnceCalls
<1>1. DoneCalls' = DoneCalls
  BY DEF SameItems, DoneCalls
<1>2. Sure(vendor.id)' = Sure(vendor.id)
  BY DEF SameItems, Sure
<1> QED BY <1>1, <1>2 DEF SameItems, FullCalls, SureCalls, OnceCalls

\* Text says nothing of the calls.
LEMMA TextStep ==
  ASSUME StreamInv, TextDelta \/ TextDone
  PROVE  StreamInv'
<1>1. vendor.text \in 0..TextParts /\ vendor.textDone \in BOOLEAN /\ TextParts \in Nat /\ out.text \in Nat
  BY CodexAssumption DEF StreamInv, VendorType, OutInv
<1>2. /\ SameItems /\ vendor'.completed = vendor.completed
      /\ vendor'.added = vendor.added /\ vendor'.argsDone = vendor.argsDone /\ vendor'.parts = vendor.parts
      /\ out'.calls = out.calls /\ buf' = buf /\ byItem' = byItem /\ byCall' = byCall
  BY DEF TextDelta, TextDone, StreamInv, VendorType, OutInv, SameItems
<1>3. DoneCalls' = DoneCalls
  BY <1>2, SameSets
<1>4. VendorType'
  <2>1. CASE TextDelta
    <3>1. vendor.text + 1 \in 0..TextParts
      BY <1>1, <2>1 DEF TextDelta
    <3> QED BY <2>1, <3>1 DEF TextDelta, StreamInv, VendorType
  <2>2. CASE TextDone
    BY <2>2 DEF TextDone, StreamInv, VendorType
  <2> QED BY <2>1, <2>2
<1>5. OutInv'
  <2>1. /\ out \in [text : Nat, calls : Seq(Nat)]
        /\ out.text = IF vendor.textDone THEN TextParts ELSE vendor.text
    BY DEF StreamInv, OutInv
  <2>2. CASE TextDelta
    <3>1. out'.text = out.text + 1 /\ vendor'.text = vendor.text + 1 /\ vendor'.textDone = vendor.textDone
      BY <2>1, <2>2 DEF TextDelta, StreamInv, VendorType
    <3>2. ~vendor.textDone
      BY <2>2 DEF TextDelta
    <3>3. out' \in [text : Nat, calls : Seq(Nat)]
      BY <1>1, <2>1, <2>2 DEF TextDelta
    <3> QED BY <2>1, <3>1, <3>2, <3>3 DEF OutInv
  <2>3. CASE TextDone
    <3>1. vendor'.textDone = TRUE /\ (vendor.text = 0 \/ vendor.text = TextParts) /\ ~vendor.textDone
      BY <2>3 DEF TextDone, StreamInv, VendorType
    <3>2. out'.text = TextParts
      BY <1>1, <2>1, <2>3, <3>1 DEF TextDone
    <3>3. out' \in [text : Nat, calls : Seq(Nat)]
      BY <1>1, <2>1, <2>3 DEF TextDone
    <3> QED BY <3>1, <3>2, <3>3 DEF OutInv
  <2> QED BY <2>2, <2>3
<1>6. Parsed'
  BY <1>2, SameSets, StreamFacts, ParsedNext DEF SameItems
<1>7. BufferInv'
  <2>1. CallMap(vendor.id, byItem)' = CallMap(vendor.id, byItem)
    BY <1>2 DEF CallMap, SameItems
  <2> QED BY <1>2, <1>3, <2>1 DEF StreamInv, BufferInv, SameItems
<1> QED BY <1>4, <1>5, <1>6, <1>7 DEF StreamInv

\* What is received of the text stays as it is.
LEMMA OutFrame ==
  ASSUME StreamInv, vendor'.text = vendor.text, vendor'.textDone = vendor.textDone,
         out'.text = out.text, out' = [text |-> out'.text, calls |-> out'.calls],
         out'.calls \in Seq(Nat)
  PROVE  OutInv'
<1>1. out.text \in Nat /\ out.text = IF vendor.textDone THEN TextParts ELSE vendor.text
  BY DEF StreamInv, OutInv
<1>2. out' \in [text : Nat, calls : Seq(Nat)]
  BY <1>1
<1> QED BY <1>1, <1>2 DEF OutInv

\* The parser's state after an event edits the buffer of c, while what c listens
\* to is as the invariant says.
LEMMA EditedStream ==
  ASSUME StreamInv, VendorType', NEW c \in Calls, ~vendor.done[c], NEW i,
         out' = out, SameItems,
         vendor'.text = vendor.text, vendor'.textDone = vendor.textDone,
         Edit(buf', i, c),
         byItem' = [byItem EXCEPT ![c] = i], byCall' = CallMap(vendor.id, byItem'),
         vendor'.added[c] # "no",
         vendor'.argsDone[c] => buf'[i].input = Whole(c),
         vendor'.added[c] = "bare" /\ ~vendor'.argsDone[c] => buf'[i].input = First(c, vendor'.parts[c]),
         \A d \in Calls \ {c} : /\ vendor'.added[d] = vendor.added[d]
                                /\ vendor'.argsDone[d] = vendor.argsDone[d]
                                /\ vendor'.parts[d] = vendor.parts[d]
  PROVE  StreamInv'
<1>1. DoneCalls' = DoneCalls /\ c \notin DoneCalls
  BY SameSets DEF DoneCalls
<1>2. PICK h : h = buf'
  OBVIOUS
<1>3. Edit(h, i, c)
  BY <1>2
<1>4. /\ Parses(vendor.id, h, out.calls, FullCalls, SureCalls, OnceCalls)
      /\ \A j \in DOMAIN out.calls : h[out.calls[j]].name \in DoneCalls
  BY <1>1, <1>3, EditStep
<1>5. Parsed'
  BY <1>2, <1>4, SameSets, ParsedNext DEF SameItems
<1>6. /\ h \in Seq(ToolCalls) /\ i \in DOMAIN h /\ DOMAIN h = DOMAIN buf \cup {i} /\ h[i].name = c
      /\ \A k \in DOMAIN buf : buf[k].name = c <=> k = i
      /\ \A k \in DOMAIN buf : k # i => h[k] = buf[k]
  BY <1>3 DEF Edit
<1>7. i \in Nat /\ i # 0
  BY <1>6
<1>8. /\ byItem \in [Calls -> Nat]
      /\ \A d \in Calls : byItem[d] # NoToolCall <=> vendor.added[d] # "no" /\ ~vendor.done[d]
      /\ \A d \in Calls : byItem[d] # NoToolCall =>
           /\ byItem[d] \in DOMAIN buf /\ buf[byItem[d]].name = d
           /\ vendor.argsDone[d] => buf[byItem[d]].input = Whole(d)
           /\ vendor.added[d] = "bare" /\ ~vendor.argsDone[d] =>
                buf[byItem[d]].input = First(d, vendor.parts[d])
      /\ \A k \in DOMAIN buf : buf[k].name \in DoneCalls \/ byItem[buf[k].name] = k
      /\ \A d \in Calls : vendor.argsDone[d] => vendor.added[d] # "no"
  BY DEF StreamInv, BufferInv
<1>9. byItem' \in [Calls -> Nat] /\ byItem'[c] = i /\ \A d \in Calls \ {c} : byItem'[d] = byItem[d]
  BY <1>7, <1>8
<1>10. BufferInv'
  <2>1. \A d \in Calls : byItem'[d] # NoToolCall <=> vendor'.added[d] # "no" /\ ~vendor'.done[d]
    BY <1>7, <1>8, <1>9 DEF NoToolCall, SameItems
  <2>2. ASSUME NEW d \in Calls, byItem'[d] # NoToolCall
        PROVE  /\ byItem'[d] \in DOMAIN buf' /\ buf'[byItem'[d]].name = d
               /\ vendor'.argsDone[d] => buf'[byItem'[d]].input = Whole(d)
               /\ vendor'.added[d] = "bare" /\ ~vendor'.argsDone[d] =>
                    buf'[byItem'[d]].input = First(d, vendor'.parts[d])
    <3>1. CASE d = c
      BY <1>2, <1>6, <1>9, <3>1
    <3>2. CASE d # c
      <4>1. byItem'[d] = byItem[d] /\ byItem[d] \in DOMAIN buf /\ buf[byItem[d]].name = d
        BY <1>8, <1>9, <2>2, <3>2
      <4>2. h[byItem[d]] = buf[byItem[d]] /\ byItem[d] \in DOMAIN h
        BY <1>6, <3>2, <4>1
      <4>3. /\ vendor.argsDone[d] => buf[byItem[d]].input = Whole(d)
            /\ vendor.added[d] = "bare" /\ ~vendor.argsDone[d] =>
                 buf[byItem[d]].input = First(d, vendor.parts[d])
        BY <1>8, <2>2, <4>1
      <4> QED BY <1>2, <3>2, <4>1, <4>2, <4>3
    <3> QED BY <3>1, <3>2
  <2>3. \A k \in DOMAIN buf' : buf'[k].name \in DoneCalls' \/ byItem'[buf'[k].name] = k
    <3> SUFFICES ASSUME NEW k \in DOMAIN h PROVE h[k].name \in DoneCalls \/ byItem'[h[k].name] = k
      BY <1>1, <1>2
    <3>1. CASE k = i
      BY <1>6, <1>9, <3>1
    <3>2. CASE k # i
      <4>1. k \in DOMAIN buf /\ h[k] = buf[k] /\ buf[k].name # c
        BY <1>6, <3>2
      <4>2. buf[k].name \in Calls
        BY <4>1, StreamFacts
      <4> QED BY <1>8, <1>9, <4>1, <4>2
    <3> QED BY <3>1, <3>2
  <2>4. \A j \in DOMAIN out'.calls : buf'[out'.calls[j]].name \in DoneCalls'
    BY <1>1, <1>2, <1>4
  <2>5. \A d \in Calls : vendor'.argsDone[d] => vendor'.added[d] # "no"
    BY <1>8
  <2>6. byCall' = CallMap(vendor.id, byItem)'
    BY DEF CallMap, SameItems
  <2> QED BY <1>9, <2>1, <2>2, <2>3, <2>4, <2>5, <2>6 DEF BufferInv
<1>11. OutInv'
  BY DEF StreamInv, OutInv
<1> QED BY <1>5, <1>10, <1>11 DEF StreamInv

\* An item is announced.
LEMMA ItemAddedStep ==
  ASSUME StreamInv, NEW c \in Calls, NEW quoted \in BOOLEAN, ItemAdded(c, quoted)
  PROVE  StreamInv'
<1>1. vendor.added[c] = "no" /\ vendor.parts[c] = 0 /\ ~vendor.done[c]
  BY DEF ItemAdded
<1>2. PICK i, v : i = Len(buf) + 1 /\ v = vendor.id[c]
  OBVIOUS
<1>3. PICK t, tc : /\ t = [id |-> v, name |-> c, input |-> <<>>]
                   /\ tc = [id |-> v, name |-> c, input |-> IF quoted THEN <<Quotes>> ELSE <<>>]
  OBVIOUS
<1>4. /\ byItem[c] = NoToolCall /\ c \notin DoneCalls /\ ~vendor.argsDone[c]
      /\ bufferOf(c, v) = i /\ ensured(c, v, c) = Append(buf, t)
      /\ \A k \in DOMAIN buf : buf[k].name # c
  BY <1>1, <1>2, <1>3, NewBuffer
<1>5. buf \in Seq(ToolCalls) /\ DOMAIN buf = 1..Len(buf) /\ Len(buf) \in Nat
  BY StreamFacts
<1>6. <<Quotes>> \in Seq(Pieces) /\ <<>> \in Seq(Pieces) /\ Quotes.part = 0
  <2>1. Quotes \in Pieces /\ Quotes.part = 0
    BY DEF Quotes, Pieces
  <2>2. PICK q : q = Quotes /\ q \in Pieces
    BY <2>1
  <2>3. <<q>> \in Seq(Pieces) /\ <<>> \in Seq(Pieces)
    BY <2>2
  <2> QED BY <2>1, <2>2, <2>3
<1>7. tc \in ToolCalls /\ tc.id = v /\ tc.name = c /\ (~quoted => tc.input = <<>>) /\ t \in ToolCalls
  <2>1. v \in Int
    BY <1>2, StreamFacts, IdFacts
  <2> QED BY <2>1, <1>3, <1>6 DEF ToolCalls
<1>8. Own(vendor.id, tc)
  <2>1. PICK q : q = Quotes
    OBVIOUS
  <2>2. tc.input = <<q>> \/ tc.input = <<>>
    BY <1>3, <2>1
  <2>3. \A n \in DOMAIN tc.input : tc.input[n] = q
    BY <2>2
  <2>4. v = NoID => v >= 0
    BY DEF NoID
  <2> QED BY <1>2, <1>6, <1>7, <2>1, <2>3, <2>4 DEF Own
<1>9. buf' = Append(buf, tc)
  <2>1. CASE ~quoted
    BY <1>2, <1>3, <1>4, <2>1 DEF ItemAdded
  <2>2. CASE quoted
    <3>1. buf' = [Append(buf, t) EXCEPT ![i].input = <<Quotes>>]
      BY <1>2, <1>4, <2>2 DEF ItemAdded
    <3>2. tc = [t EXCEPT !.input = <<Quotes>>]
      BY <1>3, <2>2
    <3>3. PICK b : b = Append(buf, t)
      OBVIOUS
    <3>4. b[i] = t
      BY <1>2, <1>5, <3>3
    <3>5. [b EXCEPT ![i] = tc] = Append(buf, tc)
      BY <1>2, <1>5, <1>7, <3>3, AppendEdit
    <3> QED BY <3>1, <3>2, <3>3, <3>4, <3>5
  <2> QED BY <2>1, <2>2
<1>10. Edit(buf', i, c)
  <2>1. PICK h : h = buf' /\ h = Append(buf, tc)
    BY <1>9
  <2>2. /\ h \in Seq(ToolCalls) /\ i \in DOMAIN h /\ DOMAIN h = DOMAIN buf \cup {i}
        /\ h[i] = tc /\ i \notin DOMAIN buf /\ \A k \in DOMAIN buf : h[k] = buf[k]
    BY <1>2, <1>5, <1>7, <2>1
  <2>3. Edit(h, i, c)
    BY <1>2, <1>4, <1>7, <1>8, <2>2 DEF Edit
  <2> QED BY <2>1, <2>3
<1>11. /\ out' = out /\ byItem' = [byItem EXCEPT ![c] = i]
       /\ byCall' = IF v # NoID THEN [byCall EXCEPT ![c] = i] ELSE byCall
       /\ vendor' = [vendor EXCEPT !.added[c] = IF quoted THEN "quoted" ELSE "bare"]
  BY <1>2, <1>4 DEF ItemAdded
<1>12. byCall' = CallMap(vendor.id, byItem')
  <2>1. PICK ids, f, m : ids = vendor.id /\ f = byItem /\ m = byItem'
    OBVIOUS
  <2>2. byCall = [d \in Calls |-> IF ids[d] # NoID THEN f[d] ELSE NoToolCall] /\ f \in [Calls -> Nat]
    BY <2>1 DEF StreamInv, BufferInv, CallMap
  <2>3. m = [f EXCEPT ![c] = i] /\ v = ids[c]
    BY <1>2, <1>11, <2>1
  <2>4. byCall' = [d \in Calls |-> IF ids[d] # NoID THEN m[d] ELSE NoToolCall]
    <3>1. CASE v # NoID
      BY <1>11, <2>2, <2>3, <3>1
    <3>2. CASE v = NoID
      <4>1. byCall' = byCall
        BY <1>11, <3>2
      <4>2. \A d \in Calls : (IF ids[d] # NoID THEN f[d] ELSE NoToolCall) = (IF ids[d] # NoID THEN m[d] ELSE NoToolCall)
        BY <2>2, <2>3, <3>2
      <4> QED BY <2>2, <4>1, <4>2
    <3> QED BY <3>1, <3>2
  <2> QED BY <2>1, <2>4 DEF CallMap
<1>13. /\ VendorType' /\ SameItems /\ vendor'.argsDone = vendor.argsDone
       /\ vendor'.parts = vendor.parts /\ vendor'.text = vendor.text /\ vendor'.textDone = vendor.textDone
       /\ vendor'.added[c] # "no" /\ (vendor'.added[c] = "bare" => ~quoted)
       /\ \A d \in Calls \ {c} : vendor'.added[d] = vendor.added[d]
  BY <1>11 DEF StreamInv, VendorType, SameItems
<1>14. ~quoted => buf'[i].input = First(c, vendor'.parts[c])
  <2>1. buf'[i] = tc
    BY <1>2, <1>5, <1>9
  <2>2. First(c, 0) = <<>>
    BY DEF First
  <2> QED BY <1>1, <1>7, <1>13, <2>1, <2>2
<1> QED BY <1>1, <1>4, <1>10, <1>11, <1>12, <1>13, <1>14, EditedStream

\* New arguments in the buffer of an announced call.
LEMMA ArgsStep ==
  ASSUME StreamInv, VendorType', NEW c \in Calls, vendor.added[c] # "no", ~vendor.done[c],
         NEW x \in Seq(Pieces), \A n \in DOMAIN x : x[n].part # 0 => x[n].call = c,
         buf' = [buf EXCEPT ![byItem[c]].input = x],
         byItem' = [byItem EXCEPT ![c] = byItem[c]], byCall' = byCall, out' = out,
         SameItems, vendor'.added = vendor.added,
         vendor'.text = vendor.text, vendor'.textDone = vendor.textDone,
         vendor'.argsDone[c] => x = Whole(c),
         vendor.added[c] = "bare" /\ ~vendor'.argsDone[c] => x = First(c, vendor'.parts[c]),
         \A d \in Calls \ {c} : /\ vendor'.argsDone[d] = vendor.argsDone[d]
                                /\ vendor'.parts[d] = vendor.parts[d]
  PROVE  StreamInv'
<1>1. PICK i : i = byItem[c]
  OBVIOUS
<1>2. i \in DOMAIN buf /\ buf[i].name = c /\ c \notin DoneCalls
  BY <1>1, KnownBuffer
<1>3. /\ buf \in Seq(ToolCalls) /\ buf[i] \in ToolCalls /\ Own(vendor.id, buf[i])
      /\ \A k \in DOMAIN buf : buf[k].name \in Calls
  BY <1>2, StreamFacts
<1>4. PICK tc : tc = [buf[i] EXCEPT !.input = x]
  OBVIOUS
<1>5. tc \in ToolCalls /\ tc.id = buf[i].id /\ tc.name = c /\ tc.input = x
  BY <1>2, <1>3, <1>4 DEF ToolCalls
<1>6. Own(vendor.id, tc)
  BY <1>2, <1>3, <1>5 DEF Own
<1>7. PICK h : h = buf' /\ h = [buf EXCEPT ![i] = tc]
  BY <1>1, <1>4
<1>8. /\ h \in Seq(ToolCalls) /\ DOMAIN h = DOMAIN buf /\ h[i] = tc
      /\ \A k \in DOMAIN buf : k # i => h[k] = buf[k]
  <2>1. h = [buf EXCEPT ![i] = tc] /\ i \in DOMAIN buf /\ buf \in Seq(ToolCalls) /\ tc \in ToolCalls
    BY <1>2, <1>3, <1>5, <1>7
  <2> QED BY ONLY <2>1, SeqEdit
<1>9. \A k \in DOMAIN buf : buf[k].name = c <=> k = i
  <2>1. \A k \in DOMAIN buf : buf[k].name \in DoneCalls \/ byItem[buf[k].name] = k
    BY DEF StreamInv, BufferInv
  <2> QED BY <1>1, <1>2, <2>1
<1>10. Edit(h, i, c)
  BY <1>2, <1>5, <1>6, <1>8, <1>9 DEF Edit
<1>11. /\ Edit(buf', i, c) /\ byItem' = [byItem EXCEPT ![c] = i] /\ byCall' = CallMap(vendor.id, byItem')
       /\ buf'[i].input = x
  BY <1>1, <1>5, <1>7, <1>8, <1>10 DEF StreamInv, BufferInv, CallMap
<1> QED BY <1>11, EditedStream

\* A part of the arguments, or all of them again.
LEMMA ArgsDeltaStep ==
  ASSUME StreamInv, NEW c \in Calls, ArgsDelta(c)
  PROVE  StreamInv'
<1>1. vendor.added[c] # "no" /\ ~vendor.argsDone[c] /\ ~vendor.done[c] /\ vendor.parts[c] < ArgParts
  BY DEF ArgsDelta
<1>2. PICK i, n : i = byItem[c] /\ n = vendor.parts[c]
  OBVIOUS
<1>3. /\ i \in DOMAIN buf /\ buf[i].name = c /\ bufferOf(c, NoID) = i /\ ensured(c, NoID, "") = buf
  BY <1>1, <1>2, KnownBuffer
<1>4. n \in Nat /\ n < ArgParts /\ ArgParts \in Nat
  BY <1>1, <1>2, CodexAssumption DEF StreamInv, VendorType
<1>5. /\ vendor' = [vendor EXCEPT !.parts[c] = n + 1]
      /\ buf' = [buf EXCEPT ![i].input = Append(@, Part(c, n + 1))]
      /\ byItem' = [byItem EXCEPT ![c] = i] /\ byCall' = byCall /\ out' = out
  BY <1>2, <1>3 DEF ArgsDelta
<1>6. buf[i] \in ToolCalls /\ Own(vendor.id, buf[i]) /\ buf[i].input \in Seq(Pieces)
  <2>1. buf[i] \in ToolCalls /\ Own(vendor.id, buf[i])
    BY <1>3, StreamFacts
  <2> QED BY <2>1 DEF ToolCalls
<1>7. Part(c, n + 1) \in Pieces /\ Part(c, n + 1).call = c
  <2>1. n + 1 \in Nat
    BY <1>4
  <2> QED BY <2>1 DEF Part, Pieces
<1>8. PICK old, p, x : old = buf[i].input /\ p = Part(c, n + 1) /\ x = Append(old, p)
  OBVIOUS
<1>9. /\ x \in Seq(Pieces) /\ \A k \in DOMAIN x : (k \in DOMAIN old /\ x[k] = old[k]) \/ x[k] = p
  <2>1. old \in Seq(Pieces) /\ p \in Pieces /\ x = Append(old, p)
    BY <1>6, <1>7, <1>8
  <2> QED BY ONLY <2>1
<1>10. \A k \in DOMAIN x : x[k].part # 0 => x[k].call = c
  BY <1>3, <1>6, <1>7, <1>8, <1>9 DEF Own
<1>11. buf' = [buf EXCEPT ![byItem[c]].input = x]
  BY <1>2, <1>5, <1>8
<1>12. /\ VendorType' /\ SameItems /\ vendor'.argsDone = vendor.argsDone
       /\ vendor'.added = vendor.added /\ vendor'.text = vendor.text /\ vendor'.textDone = vendor.textDone
       /\ vendor'.parts[c] = n + 1
       /\ \A d \in Calls \ {c} : vendor'.parts[d] = vendor.parts[d]
  <2>1. n + 1 \in 0..ArgParts
    BY <1>4
  <2>2. vendor \in [id : CallIDs, text : 0..TextParts, textDone : BOOLEAN, completed : BOOLEAN,
                    again : SUBSET Calls, bare : SUBSET Calls,
                    added : [Calls -> {"no", "bare", "quoted"}], parts : [Calls -> 0..ArgParts],
                    argsDone : [Calls -> BOOLEAN], done : [Calls -> BOOLEAN]]
    BY DEF StreamInv, VendorType
  <2>3. ~vendor.completed => vendor.again = {} /\ vendor.bare = {}
    BY DEF StreamInv, VendorType
  <2> QED BY <1>5, <2>1, <2>2, <2>3 DEF VendorType, SameItems
<1>13. vendor.added[c] = "bare" => x = First(c, n + 1)
  <2> SUFFICES ASSUME vendor.added[c] = "bare" PROVE x = First(c, n + 1)
    OBVIOUS
  <2>1. old = First(c, n)
    <3>1. byItem[c] # NoToolCall
      BY <1>1 DEF StreamInv, BufferInv
    <3> QED BY <1>1, <1>2, <1>8, <3>1 DEF StreamInv, BufferInv
  <2>2. \A k \in 1..n : Part(c, k) \in Pieces
    <3>1. \A k \in 1..n : k \in Nat
      BY <1>4
    <3> QED BY <3>1 DEF Part, Pieces
  <2>3. old \in Seq(Pieces) /\ Len(old) = n
    BY <1>4, <1>6, <1>8, <2>1 DEF First
  <2>4. DOMAIN x = 1..(n + 1) /\ x[n + 1] = p /\ \A k \in 1..n : x[k] = old[k]
    BY <1>4, <1>7, <1>8, <2>3
  <2>5. \A k \in 1..n : old[k] = Part(c, k)
    BY <2>1 DEF First
  <2>6. \A k \in 1..(n + 1) : x[k] = Part(c, k)
    <3> SUFFICES ASSUME NEW k \in 1..(n + 1) PROVE x[k] = Part(c, k)
      OBVIOUS
    <3>1. k = n + 1 \/ k \in 1..n
      BY <1>4
    <3> QED BY <1>8, <2>4, <2>5, <3>1
  <2>7. x = [k \in 1..(n + 1) |-> x[k]]
    BY <1>9, <2>4
  <2>8. [k \in 1..(n + 1) |-> x[k]] = [k \in 1..(n + 1) |-> Part(c, k)]
    BY <2>6
  <2> QED BY <2>7, <2>8, Zenon DEF First
<1>14. byItem' = [byItem EXCEPT ![c] = byItem[c]] /\ byCall' = byCall /\ out' = out /\ x \in Seq(Pieces)
  BY <1>2, <1>5, <1>9
<1>15. ~vendor'.argsDone[c]
  BY <1>1, <1>12
<1>16. vendor.added[c] = "bare" => x = First(c, vendor'.parts[c])
  BY <1>12, <1>13
<1>17. \A d \in Calls \ {c} : vendor'.argsDone[d] = vendor.argsDone[d] /\ vendor'.parts[d] = vendor.parts[d]
  BY <1>12
<1> QED BY <1>1, <1>10, <1>11, <1>12, <1>14, <1>15, <1>16, <1>17, ArgsStep

LEMMA ArgsDoneStep ==
  ASSUME StreamInv, NEW c \in Calls, ArgsDone(c)
  PROVE  StreamInv'
<1>1. vendor.added[c] # "no" /\ ~vendor.argsDone[c] /\ ~vendor.done[c]
  BY DEF ArgsDone
<1>2. bufferOf(c, NoID) = byItem[c] /\ ensured(c, NoID, "") = buf
  BY <1>1, KnownBuffer
<1>3. PICK x : x = Whole(c)
  OBVIOUS
<1>4. x \in Seq(Pieces) /\ \A n \in DOMAIN x : x[n].part # 0 => x[n].call = c
  BY <1>3, PieceFacts
<1>5. /\ vendor' = [vendor EXCEPT !.argsDone[c] = TRUE]
      /\ buf' = [buf EXCEPT ![byItem[c]].input = x]
      /\ byItem' = [byItem EXCEPT ![c] = byItem[c]] /\ byCall' = byCall /\ out' = out
  BY <1>2, <1>3 DEF ArgsDone
<1>6. /\ VendorType' /\ SameItems /\ vendor'.parts = vendor.parts
      /\ vendor'.added = vendor.added /\ vendor'.text = vendor.text /\ vendor'.textDone = vendor.textDone
      /\ vendor'.argsDone[c] /\ \A d \in Calls \ {c} : vendor'.argsDone[d] = vendor.argsDone[d]
  BY <1>5 DEF StreamInv, VendorType, SameItems
<1> QED BY <1>1, <1>3, <1>4, <1>5, <1>6, ArgsStep


\* The heap an item is emitted from.
DoneHeap(c, whole) ==
  LET h == ensured(c, vendor.id[c], c)
  IN IF whole THEN [h EXCEPT ![bufferOf(c, vendor.id[c])].input = Whole(c)] ELSE h

\* When an item is done its buffer holds its arguments whole.
LEMMA DoneBuffer ==
  ASSUME StreamInv, NEW c \in Calls, NEW whole \in BOOLEAN, ~vendor.done[c], whole \/ Delivered(c),
         NEW i, i = bufferOf(c, vendor.id[c]), NEW h, h = DoneHeap(c, whole)
  PROVE  /\ Edit(h, i, c) /\ h[i].input = Whole(c)
         /\ \A d \in Calls : byItem[d] = i => d = c
<1>1. /\ buf \in Seq(ToolCalls) /\ DOMAIN buf = 1..Len(buf) /\ Len(buf) \in Nat
      /\ \A k \in DOMAIN buf : buf[k] \in ToolCalls /\ Own(vendor.id, buf[k])
  BY StreamFacts
<1>2. PICK w : w = Whole(c)
  OBVIOUS
<1>3. w \in Seq(Pieces) /\ \A n \in DOMAIN w : w[n].part # 0 => w[n].call = c
  BY <1>2, PieceFacts
<1>4. \A d \in Calls : byItem[d] # NoToolCall => byItem[d] \in DOMAIN buf /\ buf[byItem[d]].name = d
  BY DEF StreamInv, BufferInv
<1>5. CASE vendor.added[c] = "no"
  <2>1. whole
    <3>1. ~vendor.argsDone[c]
      BY <1>5, NewBuffer
    <3> QED BY <1>5, <3>1 DEF Delivered
  <2>2. PICK v, t, tc : /\ v = vendor.id[c] /\ t = [id |-> v, name |-> c, input |-> <<>>]
                        /\ tc = [id |-> v, name |-> c, input |-> w]
    OBVIOUS
  <2>21. v \in Int
    BY <2>2, StreamFacts, IdFacts
  <2>3. /\ i = Len(buf) + 1 /\ ensured(c, v, c) = Append(buf, t)
        /\ \A k \in DOMAIN buf : buf[k].name # c
    BY <1>5, <2>2, NewBuffer
  <2>4. t \in ToolCalls /\ tc \in ToolCalls /\ tc.id = v /\ tc.name = c /\ tc.input = w /\ tc = [t EXCEPT !.input = w]
    <3>1. <<>> \in Seq(Pieces)
      BY EmptySeq
    <3> QED BY <1>3, <2>2, <2>21, <3>1 DEF ToolCalls
  <2>5. Own(vendor.id, tc)
    BY <1>3, <2>2, <2>4 DEF Own, NoID
  <2>6. h = Append(buf, tc)
    <3>1. PICK b : b = Append(buf, t)
      OBVIOUS
    <3>2. b[i] = t
      BY <1>1, <2>3, <3>1
    <3>3. h = [b EXCEPT ![i].input = w]
      BY <1>2, <2>1, <2>2, <2>3, <3>1 DEF DoneHeap
    <3>4. [Append(buf, t) EXCEPT ![Len(buf) + 1] = tc] = Append(buf, tc)
      <4>1. buf \in Seq(ToolCalls) /\ t \in ToolCalls /\ tc \in ToolCalls
        BY <1>1, <2>4
      <4> QED BY ONLY <4>1, AppendEdit
    <3> QED BY <2>3, <2>4, <3>1, <3>2, <3>3, <3>4
  <2>7. /\ h \in Seq(ToolCalls) /\ i \in DOMAIN h /\ DOMAIN h = DOMAIN buf \cup {i}
        /\ h[i] = tc /\ i \notin DOMAIN buf /\ \A k \in DOMAIN buf : h[k] = buf[k]
    BY <1>1, <2>3, <2>4, <2>6
  <2>8. Edit(h, i, c)
    BY <2>2, <2>3, <2>4, <2>5, <2>7 DEF Edit
  <2>9. i # NoToolCall
    BY <1>1, <2>3 DEF NoToolCall
  <2> QED BY <1>2, <1>4, <2>4, <2>7, <2>8, <2>9
<1>6. CASE vendor.added[c] # "no"
  <2>1. /\ i \in DOMAIN buf /\ i = byItem[c] /\ buf[i].name = c /\ c \notin DoneCalls
        /\ ensured(c, vendor.id[c], c) = buf
    BY <1>6, KnownBuffer
  <2>2. PICK tc : tc = [buf[i] EXCEPT !.input = w]
    OBVIOUS
  <2>3. tc \in ToolCalls /\ tc.id = buf[i].id /\ tc.name = c /\ tc.input = w
    BY <1>1, <1>3, <2>1, <2>2 DEF ToolCalls
  <2>4. Own(vendor.id, tc)
    BY <1>1, <1>3, <2>1, <2>3 DEF Own
  <2>5. h = [buf EXCEPT ![i] = tc]
    <3>1. CASE whole
      BY <1>2, <2>1, <2>2, <3>1 DEF DoneHeap
    <3>2. CASE ~whole
      <4>1. i # NoToolCall
        BY <1>1, <2>1 DEF NoToolCall
      <4>2. buf[i].input = w
        <5>1. CASE vendor.argsDone[c]
          BY <1>2, <2>1, <4>1, <5>1 DEF StreamInv, BufferInv
        <5>2. CASE ~vendor.argsDone[c]
          <6>1. vendor.added[c] = "bare" /\ vendor.parts[c] = ArgParts
            BY <3>2, <5>2 DEF Delivered
          <6>2. buf[i].input = First(c, vendor.parts[c])
            BY <2>1, <4>1, <5>2, <6>1 DEF StreamInv, BufferInv
          <6> QED BY <1>2, <6>1, <6>2, PieceFacts
        <5> QED BY <5>1, <5>2
      <4>3. tc = buf[i]
        BY <1>1, <2>1, <2>2, <4>2 DEF ToolCalls
      <4>4. [buf EXCEPT ![i] = buf[i]] = buf
        BY <1>1
      <4> QED BY <2>1, <3>2, <4>3, <4>4 DEF DoneHeap
    <3> QED BY <3>1, <3>2
  <2>6. /\ h \in Seq(ToolCalls) /\ DOMAIN h = DOMAIN buf /\ h[i] = tc
        /\ \A k \in DOMAIN buf : k # i => h[k] = buf[k]
    <3>1. h = [buf EXCEPT ![i] = tc] /\ i \in DOMAIN buf /\ buf \in Seq(ToolCalls) /\ tc \in ToolCalls
      BY <1>1, <2>1, <2>3, <2>5
    <3> QED BY ONLY <3>1, SeqEdit
  <2>7. \A k \in DOMAIN buf : buf[k].name = c <=> k = i
    <3>1. \A k \in DOMAIN buf : buf[k].name \in DoneCalls \/ byItem[buf[k].name] = k
      BY DEF StreamInv, BufferInv
    <3> QED BY <2>1, <3>1
  <2>8. Edit(h, i, c)
    BY <2>1, <2>3, <2>4, <2>6, <2>7 DEF Edit
  <2>9. i # NoToolCall
    BY <1>1, <2>1 DEF NoToolCall
  <2> QED BY <1>2, <1>4, <2>1, <2>3, <2>6, <2>8, <2>9
<1> QED BY <1>5, <1>6

\* A finished item is listed, once, and forgotten.
LEMMA ItemDoneStep ==
  ASSUME StreamInv, NEW c \in Calls, NEW whole \in BOOLEAN, ItemDone(c, whole)
  PROVE  StreamInv'
<1>1. /\ ~vendor.done[c] /\ (whole \/ Delivered(c)) /\ ~vendor.completed
      /\ vendor' = [vendor EXCEPT !.done[c] = TRUE] /\ Emit(c, whole)
  BY DEF ItemDone, Streaming
<1>2. PICK ids, i, h, calls, e :
        /\ ids = vendor.id /\ i = bufferOf(c, vendor.id[c]) /\ calls = out.calls
        /\ h = DoneHeap(c, whole) /\ e = appendCodexToolCall(h, calls, i)
  OBVIOUS
<1>3. /\ buf' = e.heap /\ out' = [out EXCEPT !.calls = e.calls]
      /\ byItem' = forget([byItem EXCEPT ![c] = NoToolCall], i)
      /\ byCall' = forget([byCall EXCEPT ![c] = NoToolCall], i)
  BY <1>1, <1>2 DEF Emit, DoneHeap
<1>4. Edit(h, i, c) /\ h[i].input = Whole(c) /\ \A d \in Calls : byItem[d] = i => d = c
  BY <1>1, <1>2, DoneBuffer
<1>5. c \notin DoneCalls
  BY <1>1 DEF DoneCalls
<1>6. /\ VendorType' /\ DoneCalls' = DoneCalls \cup {c} /\ vendor'.id = ids
      /\ vendor'.again = vendor.again /\ vendor.bare = {} /\ vendor'.bare = {}
      /\ vendor'.added = vendor.added /\ vendor'.argsDone = vendor.argsDone /\ vendor'.parts = vendor.parts
      /\ vendor'.text = vendor.text /\ vendor'.textDone = vendor.textDone
      /\ vendor'.done[c] /\ \A d \in Calls \ {c} : vendor'.done[d] = vendor.done[d]
  <2>1. /\ VendorType' /\ vendor'.id = ids
        /\ vendor'.again = vendor.again /\ vendor.bare = {} /\ vendor'.bare = {}
        /\ vendor'.added = vendor.added /\ vendor'.argsDone = vendor.argsDone /\ vendor'.parts = vendor.parts
        /\ vendor'.text = vendor.text /\ vendor'.textDone = vendor.textDone
        /\ vendor'.done[c] /\ \A d \in Calls \ {c} : vendor'.done[d] = vendor.done[d]
    BY <1>1, <1>2 DEF StreamInv, VendorType
  <2> QED BY <2>1 DEF DoneCalls
<1>7. PICK N, W, D, O, S :
        /\ N = DoneCalls \cup {c} /\ W = FullCalls \cup {c} /\ D = SureCalls /\ O = OnceCalls
        /\ S = D \cup ({c} \cap Sure(ids))
  OBVIOUS
<1>8. FullCalls' = W /\ SureCalls' = S /\ OnceCalls' = O
  <2>1. Sure(vendor.id)' = Sure(ids)
    BY <1>6 DEF Sure
  <2> QED BY <1>2, <1>6, <1>7, <2>1 DEF FullCalls, SureCalls, OnceCalls
<1>9. /\ ids \in CallIDs /\ D \in SUBSET Sure(ids)
      /\ Parses(ids, h, calls, W, D, O)
      /\ \A j \in DOMAIN calls : calls[j] # i /\ h[calls[j]].name \in DoneCalls
  <2>1. /\ h[i].input = Whole(c) =>
              Parses(vendor.id, h, out.calls, FullCalls \cup {c}, SureCalls, OnceCalls)
        /\ \A j \in DOMAIN out.calls : out.calls[j] # i /\ h[out.calls[j]].name \in DoneCalls
    BY <1>4, <1>5, EditStep
  <2> QED BY <1>2, <1>4, <1>7, <2>1, StreamFacts
<1>10. i \in DOMAIN h /\ h[i].name = c
  BY <1>4 DEF Edit
<1>11. PICK g, es : g = e.heap /\ es = e.calls
  OBVIOUS
<1>12. /\ Parses(ids, g, es, W, D, O) /\ Shows(ids, g, es, c) /\ DOMAIN g = DOMAIN h
       /\ \A n \in DOMAIN h : g[n].name \in {h[n].name, c}
       /\ \A n \in DOMAIN h : n # i /\ (\A j \in DOMAIN calls : calls[j] # n) => g[n] = h[n]
       /\ \A n \in DOMAIN es : es[n] = i \/ (n \in DOMAIN calls /\ es[n] = calls[n])
  <2>1. Appended(ids, h, calls, i, W, D, O, e)
    BY <1>2, <1>9, <1>10, AppendCall
  <2> QED BY <1>4, <1>10, <1>11, <2>1 DEF Appended
<1>13. out' = [text |-> out.text, calls |-> es] /\ out'.calls = es /\ out'.text = out.text /\ buf' = g
  BY <1>3, <1>11 DEF StreamInv, OutInv
<1>14. Parsed'
  <2>1. Parses(ids, g, es, W, S, O)
    BY <1>7, <1>12 DEF Parses, Covers
  <2> QED BY <1>6, <1>8, <1>13, <2>1, ParsedNext
<1>15. OutInv'
  <2>1. g \in Seq(ToolCalls) /\ es \in Seq(DOMAIN g)
    BY <1>12, ParsesFacts
  <2>2. DOMAIN g \subseteq Nat
    BY <2>1
  <2>3. es \in Seq(Nat)
    BY <2>1, <2>2
  <2> QED BY <1>6, <1>13, <2>3, OutFrame
<1>16. /\ byItem \in [Calls -> Nat] /\ byCall = CallMap(ids, byItem)
       /\ \A d \in Calls : byItem[d] # NoToolCall <=> vendor.added[d] # "no" /\ ~vendor.done[d]
       /\ \A d \in Calls : byItem[d] # NoToolCall =>
            /\ byItem[d] \in DOMAIN buf /\ buf[byItem[d]].name = d
            /\ vendor.argsDone[d] => buf[byItem[d]].input = Whole(d)
            /\ vendor.added[d] = "bare" /\ ~vendor.argsDone[d] =>
                 buf[byItem[d]].input = First(d, vendor.parts[d])
       /\ \A k \in DOMAIN buf : buf[k].name \in DoneCalls \/ byItem[buf[k].name] = k
       /\ \A d \in Calls : vendor.argsDone[d] => vendor.added[d] # "no"
  BY <1>2 DEF StreamInv, BufferInv
<1>17. /\ byItem' \in [Calls -> Nat] /\ byItem'[c] = NoToolCall
       /\ \A d \in Calls \ {c} : byItem'[d] = byItem[d]
       /\ byCall' = CallMap(ids, byItem')
  <2>1. byItem' = [d \in Calls |-> IF d = c THEN NoToolCall ELSE byItem[d]]
    BY <1>3, <1>4, <1>16 DEF forget
  <2>2. PICK f, m : f = byItem /\ m = byItem'
    OBVIOUS
  <2>3. byCall = [d \in Calls |-> IF ids[d] # NoID THEN f[d] ELSE NoToolCall] /\ f \in [Calls -> Nat]
    BY <1>16, <2>2 DEF CallMap
  <2>4. m = [d \in Calls |-> IF d = c THEN NoToolCall ELSE f[d]]
    BY <2>1, <2>2
  <2>5. \A d \in Calls : f[d] = i => d = c
    BY <1>4, <2>2
  <2>6. byCall' = [d \in Calls |-> IF ids[d] # NoID THEN m[d] ELSE NoToolCall]
    <3>1. PICK b : b = [byCall EXCEPT ![c] = NoToolCall]
      OBVIOUS
    <3>2. byCall' = [d \in Calls |-> IF b[d] = i THEN NoToolCall ELSE b[d]]
      BY <1>3, <3>1 DEF forget
    <3>3. ASSUME NEW d \in Calls
          PROVE  (IF b[d] = i THEN NoToolCall ELSE b[d]) = (IF ids[d] # NoID THEN m[d] ELSE NoToolCall)
      <4>1. b[d] = IF d = c THEN NoToolCall ELSE IF ids[d] # NoID THEN f[d] ELSE NoToolCall
        BY <2>3, <3>1
      <4> QED BY <2>4, <2>5, <4>1
    <3> QED BY <3>2, <3>3
  <2>7. byItem \in [Calls -> Nat]
    BY <1>16
  <2>8. byCall' = CallMap(ids, byItem')
    BY <2>2, <2>6 DEF CallMap
  <2> QED BY <2>1, <2>7, <2>8 DEF NoToolCall
<1>18. BufferInv'
  <2>1. \A d \in Calls : byItem'[d] # NoToolCall <=> vendor'.added[d] # "no" /\ ~vendor'.done[d]
    BY <1>6, <1>16, <1>17
  <2>2. ASSUME NEW d \in Calls, byItem'[d] # NoToolCall
        PROVE  /\ byItem'[d] \in DOMAIN buf' /\ buf'[byItem'[d]].name = d
               /\ vendor'.argsDone[d] => buf'[byItem'[d]].input = Whole(d)
               /\ vendor'.added[d] = "bare" /\ ~vendor'.argsDone[d] =>
                    buf'[byItem'[d]].input = First(d, vendor'.parts[d])
    <3>1. d # c /\ byItem'[d] = byItem[d] /\ byItem[d] # NoToolCall
      BY <1>17, <2>2
    <3>2. PICK k : k = byItem[d]
      OBVIOUS
    <3>3. k \in DOMAIN buf /\ buf[k].name = d /\ d \notin DoneCalls
      BY <1>16, <3>1, <3>2 DEF DoneCalls
    <3>4. k \in DOMAIN h /\ h[k] = buf[k] /\ k # i
      BY <1>4, <3>1, <3>3 DEF Edit
    <3>5. \A j \in DOMAIN calls : calls[j] # k
      BY <1>9, <3>3, <3>4
    <3>6. k \in DOMAIN g /\ g[k] = buf[k]
      BY <1>12, <3>4, <3>5
    <3> QED BY <1>6, <1>13, <1>16, <3>1, <3>2, <3>3, <3>6
  <2>3. ASSUME NEW k \in DOMAIN g PROVE g[k].name \in N \/ byItem'[g[k].name] = k
    <3>1. k \in DOMAIN h /\ g[k].name \in {h[k].name, c}
      BY <1>12, <2>3
    <3>2. CASE k = i \/ g[k].name = c
      BY <1>7, <1>10, <3>1, <3>2
    <3>3. CASE k # i /\ g[k].name # c
      <4>1. k \in DOMAIN buf /\ h[k] = buf[k] /\ buf[k].name # c /\ g[k].name = buf[k].name
        BY <1>4, <3>1, <3>3 DEF Edit
      <4>2. buf[k].name \in Calls
        BY <4>1, StreamFacts
      <4> QED BY <1>7, <1>16, <1>17, <4>1, <4>2
    <3> QED BY <3>2, <3>3
  <2>4. \A j \in DOMAIN es : g[es[j]].name \in N
    <3> SUFFICES ASSUME NEW j \in DOMAIN es PROVE g[es[j]].name \in N
      OBVIOUS
    <3>1. CASE es[j] = i
      BY <1>7, <1>10, <1>12, <3>1
    <3>2. CASE j \in DOMAIN calls /\ es[j] = calls[j]
      <4>1. calls[j] \in DOMAIN h
        BY <1>9, <3>2, ParsesFacts
      <4> QED BY <1>7, <1>9, <1>12, <3>2, <4>1
    <3> QED BY <1>12, <3>1, <3>2
  <2>5. \A d \in Calls : vendor'.argsDone[d] => vendor'.added[d] # "no"
    BY <1>6, <1>16
  <2>6. byCall' = CallMap(vendor.id, byItem)'
    BY <1>6, <1>17 DEF CallMap
  <2> QED BY <1>6, <1>7, <1>13, <1>17, <2>1, <2>2, <2>3, <2>4, <2>5, <2>6 DEF BufferInv
<1> QED BY <1>6, <1>14, <1>15, <1>18 DEF StreamInv

\* response.completed: every call is finished.
LEMMA CompletedStep ==
  ASSUME StreamInv, Completed
  PROVE  StreamInv'
<1>1. /\ \A c \in Calls : vendor.done[c] \/ (vendor.added[c] = "no")
      /\ (vendor.text = 0 \/ vendor.text = TextParts) /\ ~vendor.completed
      /\ byItem' = byItem /\ byCall' = byCall
  BY DEF Completed, Streaming
<1>2. PICK output \in SetToSeqs(Calls), bare \in SUBSET DoneCalls :
        /\ vendor' = [vendor EXCEPT !.completed = TRUE, !.textDone = TRUE,
                          !.done = [c \in Calls |-> TRUE], !.again = DoneCalls, !.bare = bare]
        /\ buf' = repeated(buf, out.calls, output, bare).heap
        /\ out' = [text |-> IF out.text = 0 THEN TextParts ELSE out.text,
                   calls |-> repeated(buf, out.calls, output, bare).calls]
  BY DEF Completed
<1>3. PICK ids, heap, calls, D, O, e :
        /\ ids = vendor.id /\ heap = buf /\ calls = out.calls /\ D = DoneCalls
        /\ O = {c \in Calls : ids[c] = NoID /\ c \notin D}
        /\ e = repeated(heap, calls, output, bare)
  OBVIOUS
<1>4. /\ byItem \in [Calls -> Nat] /\ byCall = CallMap(ids, byItem)
      /\ \A d \in Calls : byItem[d] # NoToolCall <=> vendor.added[d] # "no" /\ ~vendor.done[d]
      /\ \A k \in DOMAIN buf : buf[k].name \in DoneCalls \/ byItem[buf[k].name] = k
      /\ \A d \in Calls : vendor.argsDone[d] => vendor.added[d] # "no"
  BY <1>3 DEF StreamInv, BufferInv
<1>5. \A d \in Calls : byItem[d] = NoToolCall
  BY <1>1, <1>4
<1>6. \A k \in DOMAIN buf : buf[k].name \in DoneCalls
  <2>1. \A k \in DOMAIN buf : k # 0 /\ buf[k].name \in Calls
    BY StreamFacts
  <2> QED BY <1>4, <1>5, <2>1 DEF NoToolCall
<1>7. /\ ids \in CallIDs /\ D \in SUBSET Calls /\ O \cap D = {}
      /\ Parses(ids, heap, calls, D \ bare, D \cap Sure(ids), O)
      /\ \A k \in DOMAIN heap : heap[k].name \in D
  <2>1. vendor.again = {} /\ vendor.bare = {}
    BY <1>1 DEF StreamInv, VendorType
  <2>2. FullCalls = D /\ SureCalls = D \cap Sure(ids) /\ O \subseteq OnceCalls
    BY <1>3, <2>1 DEF FullCalls, SureCalls, OnceCalls
  <2>3. Parses(ids, heap, calls, D, D \cap Sure(ids), OnceCalls)
    BY <1>3, <2>2, StreamFacts
  <2>4. WholeIn(heap, D \ bare) /\ (Foreign(ids) => Once(heap, O))
    BY <2>2, <2>3 DEF Parses, WholeIn, Once
  <2> QED BY <1>3, <1>6, <2>3, <2>4, StreamFacts DEF DoneCalls, Parses
<1>8. e \in Finished(ids, bare, Calls, O)
  <2>1. bare \in SUBSET D /\ vendor.id = ids /\ e = repeated(heap, calls, output, bare)
    BY <1>3
  <2> QED BY ONLY <1>7, <2>1, output \in SetToSeqs(Calls), RepeatStep
<1>9. PICK g, es : g = e.heap /\ es = e.calls
  OBVIOUS
<1>10. /\ Parses(ids, g, es, Calls \ bare, Calls \cap Sure(ids), O)
       /\ (\A k \in DOMAIN g : g[k].name \in Calls) /\ es \in Seq(Nat)
  BY <1>8, <1>9 DEF Finished
<1>11. buf' = g /\ out'.calls = es /\ out' = [text |-> IF out.text = 0 THEN TextParts ELSE out.text, calls |-> es]
  BY <1>2, <1>3, <1>9
<1>12. /\ VendorType' /\ vendor'.added = vendor.added /\ vendor'.argsDone = vendor.argsDone
       /\ vendor'.id = ids /\ vendor'.again = D /\ vendor'.bare = bare
       /\ vendor'.textDone = TRUE /\ \A d \in Calls : vendor'.done[d] = TRUE
  <2>1. DoneCalls \in SUBSET Calls /\ bare \in SUBSET Calls
    BY DEF DoneCalls
  <2> QED BY <1>2, <1>3, <2>1 DEF StreamInv, VendorType
<1>13. DoneCalls' = Calls
  BY <1>12 DEF DoneCalls
<1>14. Parsed'
  <2>1. Sure(vendor.id)' = Sure(ids)
    BY <1>12 DEF Sure
  <2>2. FullCalls' = Calls \ bare /\ SureCalls' = Calls \cap Sure(ids) /\ OnceCalls' = O
    BY <1>3, <1>12, <1>13, <2>1 DEF FullCalls, SureCalls, OnceCalls
  <2> QED BY <1>10, <1>11, <1>12, <2>2, ParsedNext
<1>15. OutInv'
  <2>1. out.text \in Nat /\ TextParts \in Nat /\ (out.text = TextParts \/ out.text = 0)
    BY <1>1, CodexAssumption DEF StreamInv, OutInv
  <2>2. out'.text = TextParts
    BY <1>11, <2>1
  <2>3. out' \in [text : Nat, calls : Seq(Nat)]
    BY <1>10, <1>11, <2>1
  <2> QED BY <1>12, <2>2, <2>3 DEF OutInv
<1>16. BufferInv'
  <2>1. \A j \in DOMAIN es : es[j] \in DOMAIN g
    BY <1>10, ParsesFacts
  <2>2. \A k \in DOMAIN buf' : buf'[k].name \in DoneCalls'
    BY <1>10, <1>11, <1>13
  <2>3. \A j \in DOMAIN out'.calls : buf'[out'.calls[j]].name \in DoneCalls'
    BY <1>10, <1>11, <1>13, <2>1
  <2>4. byCall' = CallMap(vendor.id, byItem)'
    BY <1>1, <1>4, <1>12 DEF CallMap
  <2> QED BY <1>1, <1>4, <1>5, <1>12, <2>2, <2>3, <2>4 DEF BufferInv
<1> QED BY <1>12, <1>14, <1>15, <1>16 DEF StreamInv

\* The end of a stream: what was parsed is what the vendor said.
LEMMA StreamEndsStep ==
  ASSUME StreamInv, StreamEnds
  PROVE  ResponseIsFaithful'
<1>1. PICK ids, heap, calls, W, D, O, e :
        /\ ids = vendor.id /\ heap = buf /\ calls = out.calls
        /\ W = FullCalls /\ D = SureCalls /\ O = OnceCalls /\ e = flushed(heap, calls)
  OBVIOUS
<1>2. buf' = e.heap /\ out' = [out EXCEPT !.calls = e.calls] /\ vendor' = vendor
  BY <1>1 DEF StreamEnds
<1>3. ids \in CallIDs /\ D \in SUBSET Sure(ids) /\ Parses(ids, heap, calls, W, D, O)
  BY <1>1, StreamFacts
<1>4. PICK g, es : g = e.heap /\ es = e.calls
  OBVIOUS
<1>5. Parses(ids, g, es, W, D, O)
  BY <1>1, <1>3, <1>4, FlushStep
<1>6. /\ \A j \in DOMAIN es : es[j] \in DOMAIN g
      /\ \A k \in DOMAIN g : ids[g[k].name] # NoID => g[k].id = ids[g[k].name]
  BY <1>5, ParsesFacts DEF Own
<1>7. /\ \A j \in DOMAIN es : g[es[j]].id # NoID
      /\ \A i, j \in DOMAIN es : g[es[i]].id = g[es[j]].id => i = j
      /\ \A j \in DOMAIN es : g[es[j]].input \in {Whole(g[es[j]].name), Braces}
      /\ \A k \in DOMAIN g : g[k].name \in W => g[k].input = Whole(g[k].name)
      /\ \A c \in D : Shows(ids, g, es, c)
      /\ Foreign(ids) => Once(g, O)
  BY <1>5 DEF Parses, Listed, WholeIn, Covers
<1>8. out'.calls = es /\ out'.text = out.text /\ buf' = g
  BY <1>2, <1>4 DEF StreamInv, OutInv
<1>9. /\ \A c : Entries(c)' = {j \in DOMAIN es : g[es[j]].name = c}
      /\ \A c \in Calls : Distinct(c)' => c \in Sure(ids)
  BY <1>1, <1>2, <1>8 DEF Entries, Distinct, Sure
<1>10. ASSUME NEW c \in Calls, c \in Sure(ids)
       PROVE  /\ vendor.done[c] =>
                   \E j \in Entries(c)' :
                     g[es[j]].input = Whole(c) \/ (ids[c] # NoID /\ c \in vendor.bare)
              /\ ids[c] # NoID => \A j \in Entries(c)' : g[es[j]].id = ids[c]
              /\ ids[c] # NoID \/ c \notin vendor.again => \A i, j \in Entries(c)' : i = j
  <2>1. ASSUME vendor.done[c]
        PROVE  \E j \in Entries(c)' :
                 g[es[j]].input = Whole(c) \/ (ids[c] # NoID /\ c \in vendor.bare)
    <3>1. c \in D /\ (c \in W \/ c \in vendor.bare)
      BY <1>1, <1>10, <2>1 DEF DoneCalls, FullCalls, SureCalls
    <3>2. PICK j \in DOMAIN es : g[es[j]].name = c /\ (ids[c] = NoID => g[es[j]].input = Whole(c))
      BY <1>7, <3>1 DEF Shows
    <3>3. c \in W => g[es[j]].input = Whole(c)
      BY <1>6, <1>7, <3>2
    <3> QED BY <1>9, <3>1, <3>2, <3>3
  <2>2. ids[c] # NoID => \A j \in Entries(c)' : g[es[j]].id = ids[c]
    BY <1>6, <1>9
  <2>3. ASSUME ids[c] # NoID \/ c \notin vendor.again, NEW i \in Entries(c)', NEW j \in Entries(c)'
        PROVE  i = j
    <3>1. i \in DOMAIN es /\ j \in DOMAIN es /\ g[es[i]].name = c /\ g[es[j]].name = c
      BY <1>9
    <3>2. CASE ids[c] # NoID
      BY <1>7, <2>2, <3>1, <3>2
    <3>3. CASE ids[c] = NoID
      <4>1. c \in O
        BY <1>1, <2>3, <3>3 DEF OnceCalls
      <4>2. Once(g, O)
        BY <1>3, <1>7, <1>10, <3>3, SureFacts
      <4>3. es[i] = es[j]
        BY <1>6, <3>1, <4>1, <4>2 DEF Once
      <4> QED BY <1>7, <3>1, <4>3
    <3> QED BY <3>2, <3>3
  <2> QED BY <2>1, <2>2, <2>3
<1>11. out'.text = IF vendor'.textDone THEN TextParts ELSE vendor'.text
  BY <1>2, <1>8 DEF StreamInv, OutInv
<1> QED BY <1>1, <1>2, <1>7, <1>8, <1>9, <1>10, <1>11 DEF ResponseIsFaithful

\* Every step of the stream keeps the invariant and ends in a faithful response.
LEMMA ParserStep ==
  ASSUME ParserInv, Stream
  PROVE  ParserInv' /\ ResponseIsFaithful'
<1> USE DEF ParserInv
<1>1. CASE SendRequest
  <2>1. gen' # "ok"
    BY <1>1 DEF SendRequest
  <2>2. gen' = "streaming" => (\E id \in CallIDs : vendor' = Response(id)) /\ NewParser
    BY <1>1 DEF SendRequest
  <2> QED BY <2>1, <2>2, SendRequestStep DEF ResponseIsFaithful
<1>2. CASE TextDelta \/ TextDone
  <2>1. gen = "streaming" /\ gen' = "streaming"
    BY <1>2 DEF TextDelta, TextDone, Streaming
  <2> QED BY <1>2, <2>1, TextStep DEF ResponseIsFaithful
<1>3. ASSUME NEW c \in Calls, NEW b \in BOOLEAN, ItemAdded(c, b) \/ ItemDone(c, b)
      PROVE  ParserInv' /\ ResponseIsFaithful'
  <2>1. gen = "streaming" /\ gen' = "streaming"
    BY <1>3 DEF ItemAdded, ItemDone, Streaming
  <2> QED BY <1>3, <2>1, ItemAddedStep, ItemDoneStep DEF ResponseIsFaithful
<1>4. ASSUME NEW c \in Calls, ArgsDelta(c) \/ ArgsDone(c)
      PROVE  ParserInv' /\ ResponseIsFaithful'
  <2>1. gen = "streaming" /\ gen' = "streaming"
    BY <1>4 DEF ArgsDelta, ArgsDone, Streaming
  <2> QED BY <1>4, <2>1, ArgsDeltaStep, ArgsDoneStep DEF ResponseIsFaithful
<1>5. CASE Completed
  <2>1. gen = "streaming" /\ gen' = "streaming"
    BY <1>5 DEF Completed, Streaming
  <2> QED BY <1>5, <2>1, CompletedStep DEF ResponseIsFaithful
<1>6. CASE StreamFails
  BY <1>6 DEF StreamFails, ResponseIsFaithful
<1>7. CASE StreamEnds
  <2>1. gen = "streaming" /\ gen' = "ok"
    BY <1>7 DEF StreamEnds
  <2> QED BY <1>7, <2>1, StreamEndsStep
<1> HIDE DEF ParserInv
<1> QED BY <1>1, <1>2, <1>3, <1>4, <1>5, <1>6, <1>7 DEF Stream

\* The stream's state is Generate's own: nothing else changes it.
LEMMA ParserFrame ==
  ASSUME ParserInv, ResponseIsFaithful, UNCHANGED streamVars \/ gen' \in {"idle", "token", "failed"}
  PROVE  ParserInv' /\ ResponseIsFaithful'
<1>1. CASE gen' \in {"idle", "token", "failed"}
  BY <1>1 DEF ParserInv, ResponseIsFaithful
<1>2. CASE UNCHANGED streamVars
  <2>1. gen' = gen /\ vendor' = vendor /\ buf' = buf /\ byItem' = byItem /\ byCall' = byCall /\ out' = out
    BY <1>2 DEF streamVars
  <2>2. DoneCalls' = DoneCalls /\ FullCalls' = FullCalls /\ SureCalls' = SureCalls /\ OnceCalls' = OnceCalls
    BY <2>1, SameSets DEF SameItems
  <2>3. ASSUME StreamInv PROVE StreamInv'
    <3>1. Parsed'
      BY <2>1, <2>2, <2>3, StreamFacts, ParsedNext
    <3>2. CallMap(vendor.id, byItem)' = CallMap(vendor.id, byItem)
      BY <2>1 DEF CallMap
    <3> QED BY <2>1, <2>2, <2>3, <3>1, <3>2 DEF StreamInv, VendorType, BufferInv, OutInv
  <2>4. (\A c : Entries(c)' = Entries(c)) /\ (\A c : Distinct(c)' = Distinct(c))
    BY <2>1 DEF Entries, Distinct
  <2>5. ResponseIsFaithful'
    BY <2>1, <2>4 DEF ResponseIsFaithful
  <2> QED BY <2>1, <2>3, <2>5 DEF ParserInv
<1> QED BY <1>1, <1>2

-----------------------------------------------------------------------------
(* The theorems                                                            *)

\* The inductive invariant holds in every state of the router and the provider.
THEOREM Inductive == Spec => []IInv
<1>1. Init => IInv
  <2> SUFFICES ASSUME Init PROVE IInv
    OBVIOUS
  <2>1. LoginInv
    BY DEF Init, CodexInit, LoginInv, TokenFromOwnLogin, Absent, NoCode
  <2>2. <<>> \in Seq(Models) /\ request.op = "none" /\ request = Idle /\ gen = "idle" /\ asked = <<>> /\ cfg \in Configs
    BY EmptySeq DEF Init, CodexInit, Idle
  <2>3. RequestInv
    BY <2>2 DEF RequestInv
  <2>4. RouteInv /\ EmbedInv /\ GivesUpOnlyWhenExhausted
    BY <2>2 DEF RouteInv, EmbedInv, Attempting, Trying, GivesUpOnlyWhenExhausted, Answered
  <2>5. ParserInv /\ ResponseIsFaithful
    BY <2>2 DEF ParserInv, ResponseIsFaithful
  <2> QED BY <2>1, <2>3, <2>4, <2>5 DEF IInv
<1>2. IInv /\ [Next]_vars => IInv'
  <2> SUFFICES ASSUME LoginInv, RouterInv, ParserInv, ResponseIsFaithful, [Next]_vars
               PROVE  LoginInv' /\ RouterInv' /\ ParserInv' /\ ResponseIsFaithful'
    BY DEF IInv, RouterInv
  <2>1. CASE Login /\ UNCHANGED routerVars
    <3>1. gen' = gen
      BY <2>1 DEF Login, StartLogin, Callback, ExchangeCode, LoginFails, TruncateToken, EncodeToken, KillLogin, streamVars
    <3>2. UNCHANGED streamVars
      BY <2>1 DEF Login, StartLogin, Callback, ExchangeCode, LoginFails, TruncateToken, EncodeToken, KillLogin
    <3> QED BY <2>1, <3>1, <3>2, LoginStep, RouterFrame, ParserFrame DEF routerVars
  <2>2. CASE Stream /\ UNCHANGED routerVars
    BY <2>2, StreamStep, LoginStep, RouterFrame, ParserStep DEF routerVars
  <2>3. CASE Cancel \/ UNCHANGED vars
    BY <2>3, LoginStep, RouterFrame, ParserFrame DEF Cancel, vars, routerVars, codexVars, streamVars
  <2>4. CASE (\E model \in Range(Names) : StartRoute(model) \/ StartEmbedding(model))
    <3>1. PICK model \in Models : StartRoute(model) \/ StartEmbedding(model)
      BY <2>4 DEF Models
    <3>2. UNCHANGED <<loginVars, streamVars>>
      BY <3>1 DEF StartRoute, StartEmbedding, codexVars
    <3> QED BY <3>1, <3>2, LoginStep, StartRouteStep, StartEmbeddingStep, ParserFrame
  <2>5. CASE Generate \/ GenerateCodex
    <3>1. UNCHANGED loginVars
      BY <2>5 DEF Generate, GenerateCodex, LoadToken, codexVars
    <3>2. UNCHANGED streamVars \/ gen' \in {"idle", "token", "failed"}
      BY <2>5 DEF Generate, GenerateCodex, LoadToken, codexVars
    <3> QED BY <2>5, <3>1, <3>2, LoginStep, GenerateStep, GenerateCodexStep, ParserFrame
  <2>6. CASE CodexOK \/ CodexFailed \/ AbandonRoute
    <3>1. UNCHANGED loginVars
      BY <2>6 DEF CodexOK, CodexFailed, AbandonRoute, TakeResult, codexVars
    <3>2. UNCHANGED streamVars \/ gen' \in {"idle", "token", "failed"}
      BY <2>6 DEF CodexOK, CodexFailed, AbandonRoute, TakeResult, codexVars
    <3> QED BY <2>6, <3>1, <3>2, LoginStep, CodexEndStep, ParserFrame
  <2>7. CASE SkipUnregistered \/ TryEmbed
    <3>1. UNCHANGED <<loginVars, streamVars>>
      BY <2>7 DEF SkipUnregistered, TryEmbed, codexVars
    <3> QED BY <2>7, <3>1, LoginStep, TryStep, ParserFrame
  <2>8. CASE EndEmbedding \/ NextRequest
    <3>1. UNCHANGED <<loginVars, streamVars>>
      BY <2>8 DEF EndEmbedding, NextRequest, codexVars
    <3> QED BY <2>8, <3>1, LoginStep, EndEmbeddingStep, NextRequestStep, ParserFrame
  <2> QED BY <2>1, <2>2, <2>3, <2>4, <2>5, <2>6, <2>7, <2>8 DEF Next
<1> QED BY <1>1, <1>2, PTL DEF Spec

\* startLocalServer: the token on disk was obtained with a code issued for the
\* login command that wrote it, however many logins were begun and abandoned.
THEOREM OwnToken == Spec => []TokenFromOwnLogin
<1>1. IInv => TokenFromOwnLogin
  BY DEF IInv, LoginInv
<1> QED BY <1>1, Inductive, PTL

\* consumeCodexSSE: the response Generate returns says what the vendor said, for
\* any number of calls, with any ids or none, of parts of their arguments and of the
\* text, whatever events repeat it and wherever the stream ends.
THEOREM FaithfulResponse == Spec => []ResponseIsFaithful
<1>1. IInv => ResponseIsFaithful
  BY DEF IInv
<1> QED BY <1>1, Inductive, PTL

\* executeWithFallback and RouteEmbedding: a request is given up, other than on a
\* cancelled context, only when every provider it should go to was asked.
THEOREM EveryProviderAsked == Spec => []GivesUpOnlyWhenExhausted
<1>1. IInv => GivesUpOnlyWhenExhausted
  BY DEF IInv
<1> QED BY <1>1, Inductive, PTL

=============================================================================
