------------------------- MODULE StoreWorkerProofs -------------------------
(***************************************************************************)
(* What the store worker promises, for every number of callers, sessions,  *)
(* keys, restarts and failing writes, every inbox size and every           *)
(* assignment of operations: acknowledged transcript lines survive in      *)
(* order, the index on disk is the one in memory, an acknowledged /model   *)
(* stays in force, and an event passes twice within its TTL only after a   *)
(* lost save.                                                              *)
(***************************************************************************)
EXTENDS StoreWorker, TLAPS

\* The caller of a queued request is blocked on it (the key save's has gone on),
\* and has no other request in the inbox or in service.
QueuedOnce ==
    /\ \A i \in DOMAIN inbox :
          LET r == inbox[i] IN
          IF r.op = "saveKeys" THEN next[r.client] = "done"
          ELSE r.client \in waiting /\ next[r.client] = r.op
    /\ \A i, j \in DOMAIN inbox : i # j => inbox[i].client # inbox[j].client

ServedOnce ==
    serving # None =>
        /\ serving.op \in {"reset", "write"}
        /\ serving.client \in waiting
        /\ next[serving.client] = serving.op
        /\ \A i \in DOMAIN inbox : inbox[i].client # serving.client

\* Who makes which request.
KindsFit ==
    \A c \in Clients :
        /\ next[c] \in {"get", "got"} => role[c].kind \in {"ensure", "model", "clear"}
        /\ next[c] = "reset" => role[c].kind = "clear"

\* A map belongs to one session, in the index and in a caller's hands.
MapOf(m, s) ==
    /\ m \in Clients => Session(m) = s
    /\ m \in Sessions => m = s

MapsOwned ==
    /\ \A s \in Sessions : MapOf(index[s], s)
    /\ \A c \in Clients : MapOf(got[c], Session(c))

\* The lock of a session is held by one command.
SessionLocked ==
    \A c, d \in Clients :
        HoldsSession(c) /\ HoldsSession(d) /\ Session(c) = Session(d) => c = d

\* The model a /model command is about to save is still the one it wrote.
ModelWritten ==
    \A c \in Clients :
        role[c].kind = "model" /\ next[c] = "save" => model[SavedMap(c)] = c

\* ModelPersists of the index on disk.
DiskPersists ==
    failures = 0 =>
      \A s \in Sessions :
        chosen[s] # "plain" => diskIndex[s] \in {chosen[s]} \cup unsaved[s]

\* A mark within its TTL is in memory unless it was lost with the process.
MarkKept ==
    \A k \in Keys :
        marked[k] # None /\ now < marked[k] + TTL => keys[k] = marked[k] + TTL \/ k \in lost

\* The files of a session, oldest first: backups by second, then the transcript.
Times == 0..(MaxTime + 1)

Lines(s, t) == IF t = MaxTime + 1 THEN file[s] ELSE backup[s][t]

Written == {"done", "failed", "dead"}

\* A line is in the files of its session only, and its write has ended.
LinesWritten ==
    \A s \in Sessions, t \in Times : \A i \in DOMAIN Lines(s, t) :
        Session(Lines(s, t)[i]) = s /\ next[Lines(s, t)[i]] \in Written

\* No transcript was rotated in the future.
BackupsPast ==
    \A s \in Sessions, t \in 0..MaxTime : t > now => backup[s][t] = <<>>

\* A write is acknowledged once.
AckedOnce ==
    /\ \A a \in DOMAIN acked : next[acked[a]] = "done"
    /\ \A a, b \in DOMAIN acked : a # b => acked[a] # acked[b]

Present(s, c) == \E t \in Times : \E i \in DOMAIN Lines(s, t) : Lines(s, t)[i] = c

\* An acknowledged line is in a file, or it is known what became of it.
AckedPresent ==
    \A a \in DOMAIN acked :
        Present(Session(acked[a]), acked[a]) \/ acked[a] \in wiped \cup clobbered \cup garbled

\* Acknowledged lines are in their files once and in order.
AckedOrdered ==
    \A s \in Sessions, t, u \in Times :
      \A i \in DOMAIN Lines(s, t), j \in DOMAIN Lines(s, u), a, b \in DOMAIN acked :
        Lines(s, t)[i] = acked[a] /\ Lines(s, u)[j] = acked[b] =>
            /\ a = b => t = u /\ i = j
            /\ a < b => t < u \/ (t = u /\ i < j)

LinesInv == LinesWritten /\ BackupsPast /\ AckedOnce /\ AckedPresent /\ AckedOrdered

\* The state of the callers and their requests.
RequestInv == TypeOK /\ QueuedOnce /\ ServedOnce /\ KindsFit

IInv ==
    /\ RequestInv
    /\ MarkKept /\ RemarkedOnlyIfLost
    /\ MapsOwned /\ SessionLocked
    /\ ModelWritten /\ DiskMatchesMemory /\ DiskPersists /\ ModelPersists
    /\ LinesInv

-----------------------------------------------------------------------------
(* Types                                                                   *)

USE ScenariosType, InboxSizeType, TTLType, BoundsType, NoneType, MapsDistinct

LEMMA StepNames ==
    /\ {"get", "save", "reset", "write", "saveKeys", "done", "failed", "duplicate", "dead",
        "mark", "got"} \subseteq Steps
    /\ Ops \subseteq Steps
BY DEF Steps, Ops, Ended

LEMMA ExceptType ==
    ASSUME NEW S, NEW T, NEW f \in [S -> T], NEW x, NEW y \in T
    PROVE  [f EXCEPT ![x] = y] \in [S -> T]
OBVIOUS

LEMMA NextType ==
    ASSUME TypeOK, NEW c \in Clients, NEW op \in Steps
    PROVE  [next EXCEPT ![c] = op] \in [Clients -> Steps]
BY DEF TypeOK

LEMMA HeadRequest ==
    ASSUME TypeOK, NEW op, Ready(op)
    PROVE  /\ Head(inbox) \in Request
           /\ Head(inbox).op = op
           /\ Head(inbox).client \in Clients
           /\ Tail(inbox) \in Seq(Request)
<1>1. inbox \in Seq(Request) /\ inbox # <<>> /\ Head(inbox).op = op
  BY DEF TypeOK, Ready
<1>2. Head(inbox) \in Request /\ Tail(inbox) \in Seq(Request)
  BY <1>1
<1> QED BY <1>1, <1>2 DEF Request

LEMMA RoleType ==
    ASSUME TypeOK, NEW c \in Clients
    PROVE  role[c].kind \in Kinds /\ Session(c) \in Sessions /\ role[c].key \in Keys
BY DEF TypeOK, Role, Session

LEMMA ReplyType ==
    ASSUME TypeOK, NEW c \in Clients, NEW op \in Steps,
           Reply(c, op)
    PROVE  /\ next' \in [Clients -> Steps]
           /\ waiting' \subseteq Clients
           /\ waiting' = waiting \ {c}
           /\ next'[c] = op
           /\ \A d \in Clients : d # c => next'[d] = next[d]
BY DEF TypeOK, Reply

LEMMA WriteIndexType ==
    ASSUME TypeOK, NEW c \in Clients, NEW op \in {"done", "save"},
           NEW ix \in [Sessions -> Maps \cup {None}], WriteIndex(c, ix, op)
    PROVE  /\ next' \in [Clients -> Steps]
           /\ waiting' \subseteq Clients
           /\ index' = ix
           /\ diskIndex' \in [Sessions -> Clients \cup {"plain", None}]
           /\ failures' \in Nat
<1>1. \A s \in Sessions : Content(ix, s) \in Clients \cup {"plain", None}
  BY DEF TypeOK, Content
<1>2. diskIndex' \in [Sessions -> Clients \cup {"plain", None}]
  BY <1>1 DEF TypeOK, WriteIndex
<1>3. next' = [next EXCEPT ![c] = op] \/ next' = [next EXCEPT ![c] = "failed"]
  BY DEF WriteIndex, Reply
<1>4. next' \in [Clients -> Steps]
  BY <1>3, NextType, StepNames
<1> QED BY <1>2, <1>4 DEF TypeOK, WriteIndex, Reply

LEMMA TypeInit == Init => TypeOK
<1> SUFFICES ASSUME Init PROVE TypeOK
  OBVIOUS
<1>1. role \in [Clients -> Role]
  BY DEF Init
<1>2. \A c \in Clients : FirstOp(role[c].kind) \in Ops \cup {"mark"}
  BY <1>1 DEF FirstOp, Role, Kinds, Ops
<1>3. next \in [Clients -> Steps]
  BY <1>2, StepNames DEF Init
<1> QED BY <1>1, <1>3 DEF Init, TypeOK, Maps

LEMMA TypeStep == TypeOK /\ KindsFit /\ [Next]_vars => TypeOK'
<1> SUFFICES ASSUME TypeOK, KindsFit, [Next]_vars PROVE TypeOK'
  OBVIOUS
<1>1. ASSUME NEW c \in Clients, Send(c) PROVE TypeOK'
  <2>1. [client |-> c, op |-> next[c]] \in Request
    BY <1>1 DEF Send, Request
  <2>2. inbox' \in Seq(Request)
    BY <1>1, <2>1 DEF Send, TypeOK
  <2>3. next' \in [Clients -> Steps]
    <3>1. next' = [next EXCEPT ![c] = "done"] \/ next' = next
      BY <1>1 DEF Send
    <3>2. next \in [Clients -> Steps]
      BY DEF TypeOK
    <3> QED BY <3>1, <3>2, NextType, StepNames
  <2>4. waiting' \subseteq Clients
    BY <1>1 DEF Send, TypeOK
  <2> QED BY <1>1, <2>2, <2>3, <2>4 DEF Send, TypeOK, diskVars, clockVars, histVars
<1>2. ASSUME NEW c \in Clients, CheckAndMarkKey(c) PROVE TypeOK'
  <2>1. role[c].key \in Keys
    BY RoleType
  <2>2. next' \in [Clients -> Steps]
    <3>1. next' = [next EXCEPT ![c] = "duplicate"] \/ next' = [next EXCEPT ![c] = "saveKeys"]
      BY <1>2 DEF CheckAndMarkKey
    <3> QED BY <3>1, NextType, StepNames
  <2>3. keys' \in [Keys -> Nat] /\ marked' \in [Keys -> Nat \cup {None}] /\ remarked' \subseteq Keys
    <3>1. keys \in [Keys -> Nat] /\ marked \in [Keys -> Nat \cup {None}] /\ remarked \subseteq Keys
          /\ now \in Nat /\ now + TTL \in Nat
      BY DEF TypeOK
    <3> QED BY <1>2, <2>1, <3>1 DEF CheckAndMarkKey
  <2> QED BY <1>2, <2>2, <2>3 DEF CheckAndMarkKey, TypeOK, diskVars, clockVars
<1>3. ASSUME NEW c \in Clients, Continue(c) PROVE TypeOK'
  <2>0. Session(c) \in Sessions
    BY RoleType
  <2>1. next' \in [Clients -> Steps]
    <3>1. role[c].kind \in {"ensure", "model", "clear"}
      BY <1>3 DEF Continue, KindsFit
    <3>2. \E op \in {"save", "done", "reset"} : next' = [next EXCEPT ![c] = op]
      BY <1>3, <3>1 DEF Continue
    <3> QED BY <3>2, NextType, StepNames
  <2>2. model' \in [Maps -> Clients \cup {"plain"}] /\ unsaved' \in [Sessions -> SUBSET Clients]
    <3>1. /\ model \in [Maps -> Clients \cup {"plain"}] /\ unsaved \in [Sessions -> SUBSET Clients]
          /\ got[c] \in Maps \cup {None} /\ c \in Maps
      BY DEF TypeOK, Maps
    <3> QED BY <1>3, <2>0, <3>1 DEF Continue
  <2> QED BY <1>3, <2>1, <2>2 DEF Continue, TypeOK, diskVars, clockVars
<1>4. ASSUME Get PROVE TypeOK'
  <2> PICK c \in Clients : c = Head(inbox).client /\ Tail(inbox) \in Seq(Request)
    BY <1>4, HeadRequest DEF Get
  <2>1. Session(c) \in Sessions
    BY RoleType
  <2>2. Reply(c, "got") /\ got' = [got EXCEPT ![c] = index[Session(c)]]
    BY <1>4 DEF Get
  <2>3. next' \in [Clients -> Steps] /\ waiting' \subseteq Clients
    BY <2>2, ReplyType, StepNames
  <2>4. got' \in [Clients -> Maps \cup {None}]
    BY <2>1, <2>2 DEF TypeOK
  <2> QED BY <1>4, <2>3, <2>4 DEF Get, TypeOK, diskVars, clockVars, histVars
<1>5. ASSUME Save PROVE TypeOK'
  <2> PICK c \in Clients : c = Head(inbox).client /\ Tail(inbox) \in Seq(Request)
    BY <1>5, HeadRequest DEF Save
  <2> PICK ix : ix = [index EXCEPT ![Session(c)] = SavedMap(c)]
    OBVIOUS
  <2>1. Session(c) \in Sessions
    BY RoleType
  <2>2. ix \in [Sessions -> Maps \cup {None}]
    BY <2>1 DEF TypeOK, SavedMap, Maps
  <2>3. WriteIndex(c, ix, "done")
    BY <1>5 DEF Save
  <2>4. /\ next' \in [Clients -> Steps]
        /\ waiting' \subseteq Clients
        /\ index' = ix
        /\ diskIndex' \in [Sessions -> Clients \cup {"plain", None}]
        /\ failures' \in Nat
    BY <2>2, <2>3, WriteIndexType
  <2>5. chosen' \in [Sessions -> Clients \cup {"plain"}] /\ unsaved' \in [Sessions -> SUBSET Clients]
    <3>1. \/ chosen' = chosen /\ unsaved' = unsaved
          \/ chosen' = Chosen(c) /\ unsaved' = [unsaved EXCEPT ![Session(c)] = {}]
      BY <1>5 DEF Save
    <3>2. chosen \in [Sessions -> Clients \cup {"plain"}] /\ unsaved \in [Sessions -> SUBSET Clients]
      BY DEF TypeOK
    <3>3. Chosen(c) \in [Sessions -> Clients \cup {"plain"}]
      BY <3>2 DEF Chosen
    <3> QED BY <3>1, <3>2, <3>3
  <2> QED BY <1>5, <2>2, <2>4, <2>5 DEF Save, TypeOK
<1>6. ASSUME ResetFile PROVE TypeOK'
  <2> PICK c \in Clients : /\ c = Head(inbox).client /\ Tail(inbox) \in Seq(Request)
                           /\ Head(inbox) \in Request
    BY <1>6, HeadRequest DEF ResetFile
  <2>1. Session(c) \in Sessions
    BY RoleType
  <2>2. next' \in [Clients -> Steps] /\ waiting' \subseteq Clients
    <3>1. \/ next' = next /\ waiting' = waiting
          \/ next' = [next EXCEPT ![c] = "failed"] /\ waiting' = waiting \ {c}
      BY <1>6 DEF ResetFile, Reply
    <3>2. next \in [Clients -> Steps] /\ waiting \subseteq Clients
      BY DEF TypeOK
    <3> QED BY <3>1, <3>2, NextType, StepNames
  <2>3. Range(file[Session(c)]) \subseteq Clients
    BY <2>1 DEF Range, TypeOK
  <2>4. file' \in [Sessions -> Seq(Clients)] /\ wiped' \subseteq Clients /\ ragged' \subseteq Sessions
        /\ failures' \in Nat /\ serving' \in Request \cup {None}
    <3>1. \/ /\ file' = [file EXCEPT ![Session(c)] = <<>>]
             /\ ragged' = ragged \ {Session(c)}
             /\ wiped' = wiped \cup Range(file[Session(c)])
             /\ serving' = Head(inbox)
             /\ failures' = failures
          \/ failures' = failures + 1 /\ UNCHANGED <<file, ragged, wiped, serving>>
      BY <1>6 DEF ResetFile
    <3>2. /\ file \in [Sessions -> Seq(Clients)] /\ wiped \subseteq Clients /\ ragged \subseteq Sessions
          /\ failures \in Nat /\ serving \in Request \cup {None}
      BY DEF TypeOK
    <3>3. [file EXCEPT ![Session(c)] = <<>>] \in [Sessions -> Seq(Clients)]
      <4>1. <<>> \in Seq(Clients)
        OBVIOUS
      <4> QED BY <4>1, <3>2, ExceptType
    <3>4. file' \in [Sessions -> Seq(Clients)]
      BY <3>1, <3>2, <3>3 DEF Session
    <3> QED BY <2>3, <3>1, <3>2, <3>4
  <2> QED BY <1>6, <2>2, <2>4 DEF ResetFile, TypeOK
<1>7. ASSUME ResetIndex PROVE TypeOK'
  <2> PICK c \in Clients : c = serving.client
    BY <1>7 DEF ResetIndex, TypeOK, Request
  <2> PICK ix : ix = [index EXCEPT ![Session(c)] = None]
    OBVIOUS
  <2>2. ix \in [Sessions -> Maps \cup {None}]
    BY DEF TypeOK
  <2>3. WriteIndex(c, ix, "save")
    BY <1>7 DEF ResetIndex
  <2>4. /\ next' \in [Clients -> Steps]
        /\ waiting' \subseteq Clients
        /\ index' = ix
        /\ diskIndex' \in [Sessions -> Clients \cup {"plain", None}]
        /\ failures' \in Nat
    BY <2>2, <2>3, WriteIndexType
  <2> QED BY <1>7, <2>2, <2>4 DEF ResetIndex, TypeOK, histVars
<1>8. ASSUME Rotate PROVE TypeOK'
  <2> PICK c \in Clients : /\ c = Head(inbox).client /\ Tail(inbox) \in Seq(Request)
                           /\ Head(inbox) \in Request
    BY <1>8, HeadRequest DEF Rotate
  <2>1. Session(c) \in Sessions
    BY RoleType
  <2>2. Range(backup[Session(c)][now]) \subseteq Clients
    BY <2>1 DEF Range, TypeOK
  <2>3. backup' \in [Sessions -> [0..MaxTime -> Seq(Clients)]]
    <3>1. \/ backup' = [backup EXCEPT ![Session(c)][now] = file[Session(c)]]
          \/ backup' = backup
      BY <1>8 DEF Rotate
    <3>2. /\ backup \in [Sessions -> [0..MaxTime -> Seq(Clients)]]
          /\ backup[Session(c)] \in [0..MaxTime -> Seq(Clients)]
          /\ file[Session(c)] \in Seq(Clients)
      BY <2>1 DEF TypeOK
    <3>3. [backup[Session(c)] EXCEPT ![now] = file[Session(c)]] \in [0..MaxTime -> Seq(Clients)]
      BY <3>2, ExceptType
    <3>4. [backup EXCEPT ![Session(c)] = [backup[Session(c)] EXCEPT ![now] = file[Session(c)]]]
             \in [Sessions -> [0..MaxTime -> Seq(Clients)]]
      BY <3>2, <3>3, ExceptType
    <3> QED BY <3>1, <3>2, <3>4
  <2>4. file' \in [Sessions -> Seq(Clients)] /\ clobbered' \subseteq Clients /\ ragged' \subseteq Sessions
        /\ failures' \in Nat
    <3>1. \/ /\ file' = [file EXCEPT ![Session(c)] = <<>>]
             /\ ragged' = ragged \ {Session(c)}
             /\ clobbered' = clobbered \cup Range(backup[Session(c)][now])
             /\ failures' = failures
          \/ failures' \in {failures, failures + 1} /\ UNCHANGED <<file, ragged, clobbered>>
      BY <1>8 DEF Rotate
    <3>2. /\ file \in [Sessions -> Seq(Clients)] /\ clobbered \subseteq Clients /\ ragged \subseteq Sessions
          /\ failures \in Nat
      BY DEF TypeOK
    <3>3. [file EXCEPT ![Session(c)] = <<>>] \in [Sessions -> Seq(Clients)]
      <4>1. <<>> \in Seq(Clients)
        OBVIOUS
      <4> QED BY <4>1, <3>2, ExceptType
    <3>4. file' \in [Sessions -> Seq(Clients)]
      BY <3>1, <3>2, <3>3 DEF Session
    <3> QED BY <2>2, <3>1, <3>2, <3>4
  <2> QED BY <1>8, <2>3, <2>4 DEF Rotate, TypeOK, clientVars
<1>9. ASSUME AppendLine PROVE TypeOK'
  <2> PICK c \in Clients : c = serving.client
    BY <1>9 DEF AppendLine, TypeOK, Request
  <2>1. Session(c) \in Sessions
    BY RoleType
  <2>2. next' \in [Clients -> Steps] /\ waiting' \subseteq Clients
    <3>1. /\ next' = [next EXCEPT ![c] = "done"] \/ next' = [next EXCEPT ![c] = "failed"]
          /\ waiting' = waiting \ {c}
      BY <1>9 DEF AppendLine, Reply
    <3>2. waiting \subseteq Clients
      BY DEF TypeOK
    <3> QED BY <3>1, <3>2, NextType, StepNames
  <2>3. file' \in [Sessions -> Seq(Clients)] /\ garbled' \subseteq Clients /\ ragged' \subseteq Sessions
    <3>1. /\ \/ file' = file
             \/ file' = [file EXCEPT ![Session(c)] = Append(file[Session(c)], c)]
          /\ garbled' \in {garbled, garbled \cup {c}}
          /\ ragged' \in {ragged, ragged \ {Session(c)}, ragged \cup {Session(c)}}
      BY <1>9 DEF AppendLine, PutLine
    <3>2. file \in [Sessions -> Seq(Clients)] /\ garbled \subseteq Clients /\ ragged \subseteq Sessions
      BY DEF TypeOK
    <3>3. Append(file[Session(c)], c) \in Seq(Clients)
      BY <2>1, <3>2
    <3>4. [file EXCEPT ![Session(c)] = Append(file[Session(c)], c)] \in [Sessions -> Seq(Clients)]
      BY <3>2, <3>3, ExceptType
    <3> QED BY <2>1, <3>1, <3>2, <3>4
  <2>4. acked' \in Seq(Clients) /\ failures' \in Nat /\ serving' = None
    <3>1. acked' \in {acked, Append(acked, c)} /\ failures' \in {failures, failures + 1}
          /\ serving' = None
      BY <1>9 DEF AppendLine
    <3>2. acked \in Seq(Clients) /\ failures \in Nat
      BY DEF TypeOK
    <3> QED BY <3>1, <3>2
  <2> QED BY <1>9, <2>2, <2>3, <2>4 DEF AppendLine, TypeOK
<1>10. ASSUME SaveKeys PROVE TypeOK'
  <2>1. Tail(inbox) \in Seq(Request)
    BY <1>10, HeadRequest DEF SaveKeys
  <2> QED BY <1>10, <2>1 DEF SaveKeys, TypeOK, clientVars, histVars
<1>11. ASSUME Stop \/ LoopExit \/ Tick PROVE TypeOK'
  BY <1>11 DEF Stop, LoopExit, Tick, TypeOK, clientVars, diskVars, clockVars, histVars
<1>12. ASSUME Restart PROVE TypeOK'
  <2>1. next' \in [Clients -> Steps]
    <3>1. next \in [Clients -> Steps]
      BY DEF TypeOK
    <3> QED BY <1>12, <3>1, StepNames DEF Restart
  <2>2. index' \in [Sessions -> Maps \cup {None}]
    BY <1>12 DEF Restart, Maps
  <2>3. model' \in [Maps -> Clients \cup {"plain"}]
    BY <1>12 DEF Restart, TypeOK
  <2>4. keys' \in [Keys -> Nat] /\ diskKeys' \in [Keys -> Nat]
    BY <1>12 DEF Restart, Prune, TypeOK
  <2> QED BY <1>12, <2>1, <2>2, <2>3, <2>4 DEF Restart, TypeOK
<1>13. CASE UNCHANGED vars
  BY <1>13 DEF TypeOK, vars, clientVars, diskVars, clockVars, histVars
<1> QED
  BY <1>1, <1>2, <1>3, <1>4, <1>5, <1>6, <1>7, <1>8, <1>9, <1>10, <1>11, <1>12, <1>13
  DEF Next, Handle

-----------------------------------------------------------------------------
(* Requests: every caller waits for one request                            *)

LEMMA TailIs ==
    ASSUME NEW q \in Seq(Request), q # <<>>
    PROVE  /\ Len(q) \in Nat \ {0} /\ DOMAIN q = 1..Len(q)
           /\ 1 \in DOMAIN q /\ Head(q) = q[1]
           /\ DOMAIN Tail(q) = 1..(Len(q) - 1)
           /\ \A i \in DOMAIN Tail(q) : i + 1 \in DOMAIN q /\ Tail(q)[i] = q[i + 1]
           /\ \A i \in DOMAIN q : q[i] \in Request
<1>1. Len(q) \in Nat \ {0} /\ DOMAIN q = 1..Len(q) /\ Head(q) = q[1]
  OBVIOUS
<1>2. /\ DOMAIN Tail(q) = 1..(Len(q) - 1)
      /\ \A i \in 1..(Len(q) - 1) : Tail(q)[i] = q[i + 1]
  BY <1>1
<1>3. \A i \in 1..(Len(q) - 1) : i + 1 \in 1..Len(q)
  BY <1>1
<1> QED BY <1>1, <1>2, <1>3

\* The request taken from the inbox is the only one of its caller.
LEMMA HeadCaller ==
    ASSUME TypeOK, QueuedOnce, NEW op, Ready(op)
    PROVE  /\ op # "saveKeys" => Head(inbox).client \in waiting /\ next[Head(inbox).client] = op
           /\ op = "saveKeys" => next[Head(inbox).client] = "done"
           /\ \A i \in DOMAIN Tail(inbox) : Tail(inbox)[i].client # Head(inbox).client
<1>1. inbox \in Seq(Request) /\ inbox # <<>> /\ Head(inbox).op = op
  BY DEF TypeOK, Ready
<1>2. /\ 1 \in DOMAIN inbox /\ Head(inbox) = inbox[1] /\ DOMAIN inbox = 1..Len(inbox)
      /\ Len(inbox) \in Nat
      /\ DOMAIN Tail(inbox) = 1..(Len(inbox) - 1)
      /\ \A i \in DOMAIN Tail(inbox) : i + 1 \in DOMAIN inbox /\ Tail(inbox)[i] = inbox[i + 1]
  BY <1>1, TailIs
<1>3. \A i \in DOMAIN Tail(inbox) : i + 1 # 1
  BY <1>2
<1> QED BY <1>1, <1>2, <1>3 DEF QueuedOnce

LEMMA QueueKept ==
    ASSUME TypeOK, QueuedOnce, NEW c,
           \/ inbox' = inbox
           \/ inbox' = Tail(inbox) /\ inbox # <<>>,
           \A d \in Clients \ {c} : next'[d] = next[d] /\ (d \in waiting => d \in waiting'),
           \A i \in DOMAIN inbox' : inbox'[i].client # c
    PROVE  QueuedOnce'
<1>1. inbox \in Seq(Request)
  BY DEF TypeOK
<1>2. \A i \in DOMAIN inbox : inbox[i].client \in Clients
  <2>1. \A i \in DOMAIN inbox : inbox[i] \in Request
    BY <1>1
  <2> QED BY <2>1 DEF Request
<1>3. CASE inbox' = inbox
  BY <1>2, <1>3 DEF QueuedOnce
<1>4. CASE inbox' = Tail(inbox) /\ inbox # <<>>
  <2>1. /\ DOMAIN inbox' = 1..(Len(inbox) - 1) /\ Len(inbox) \in Nat
        /\ \A i \in DOMAIN inbox' : i + 1 \in DOMAIN inbox /\ inbox'[i] = inbox[i + 1]
    BY <1>1, <1>4, TailIs
  <2>2. \A i, j \in DOMAIN inbox' : i # j => i + 1 # j + 1
    BY <2>1
  <2> QED BY <1>2, <2>1, <2>2 DEF QueuedOnce
<1> QED BY <1>3, <1>4

LEMMA RequestInit == Init => RequestInv
<1> SUFFICES ASSUME Init PROVE RequestInv
  OBVIOUS
<1>1. TypeOK
  BY TypeInit
<1>2. KindsFit
  <2> SUFFICES ASSUME NEW c \in Clients PROVE KindsFit!(c)
    BY DEF KindsFit
  <2>1. role[c].kind \in Kinds /\ next[c] = FirstOp(role[c].kind)
    BY <1>1, RoleType DEF Init
  <2> QED BY <2>1 DEF FirstOp, Kinds
<1>3. DOMAIN inbox = {} /\ serving = None
  BY DEF Init
<1> QED BY <1>1, <1>2, <1>3 DEF RequestInv, QueuedOnce, ServedOnce

LEMMA RequestStep == RequestInv /\ [Next]_vars => RequestInv'
<1> SUFFICES ASSUME RequestInv, [Next]_vars PROVE QueuedOnce' /\ ServedOnce' /\ KindsFit'
  BY TypeStep DEF RequestInv
<1> USE DEF RequestInv
<1>0. TypeOK' /\ next \in [Clients -> Steps] /\ waiting \subseteq Clients
  BY TypeStep DEF TypeOK
<1>1. ASSUME NEW c \in Clients, Send(c) PROVE QueuedOnce' /\ ServedOnce' /\ KindsFit'
  <2>1. inbox \in Seq(Request) /\ [client |-> c, op |-> next[c]] \in Request
    BY <1>1 DEF TypeOK, Send, Request
  <2>2. /\ DOMAIN inbox' = 1..(Len(inbox) + 1) /\ DOMAIN inbox = 1..Len(inbox) /\ Len(inbox) \in Nat
        /\ \A i \in DOMAIN inbox : inbox'[i] = inbox[i]
        /\ inbox'[Len(inbox) + 1] = [client |-> c, op |-> next[c]]
    BY <1>1, <2>1 DEF Send
  <2>3. \A i \in DOMAIN inbox : inbox[i].client \in Clients
    <3>1. \A i \in DOMAIN inbox : inbox[i] \in Request
      BY <2>1
    <3> QED BY <3>1 DEF Request
  <2>4. c \notin waiting /\ next[c] \in Ops
    BY <1>1 DEF Send
  <2>5. \A i \in DOMAIN inbox : inbox[i].client # c
    BY <2>4 DEF QueuedOnce, Ops
  <2>6. /\ \A d \in Clients : d # c => next'[d] = next[d]
        /\ waiting \subseteq waiting' 
        /\ next[c] = "saveKeys" => next'[c] = "done"
        /\ next[c] # "saveKeys" => next'[c] = next[c] /\ c \in waiting'
    BY <1>0, <1>1 DEF Send
  <2>7. QueuedOnce'
    <3>1. ASSUME NEW i \in DOMAIN inbox'
          PROVE  IF inbox'[i].op = "saveKeys" THEN next'[inbox'[i].client] = "done"
                 ELSE inbox'[i].client \in waiting' /\ next'[inbox'[i].client] = inbox'[i].op
      <4>1. CASE i = Len(inbox) + 1
        BY <2>2, <2>6, <4>1
      <4>2. CASE i \in DOMAIN inbox
        BY <2>2, <2>3, <2>5, <2>6, <4>2 DEF QueuedOnce
      <4> QED BY <2>2, <4>1, <4>2
    <3>2. ASSUME NEW i \in DOMAIN inbox', NEW j \in DOMAIN inbox', i # j
          PROVE  inbox'[i].client # inbox'[j].client
      BY <2>2, <2>5, <3>2 DEF QueuedOnce
    <3> QED BY <3>1, <3>2 DEF QueuedOnce
  <2>8. ServedOnce'
    <3>1. serving' = serving
      BY <1>1 DEF Send
    <3> SUFFICES ASSUME serving # None PROVE ServedOnce!2'
      BY <3>1 DEF ServedOnce
    <3>2. /\ serving.op \in {"reset", "write"} /\ serving.client \in waiting
          /\ next[serving.client] = serving.op
          /\ \A i \in DOMAIN inbox : inbox[i].client # serving.client
      BY DEF ServedOnce
    <3>3. serving.client # c /\ serving.client \in Clients
      BY <1>0, <2>4, <3>2
    <3>4. \A i \in DOMAIN inbox' : inbox'[i].client # serving.client
      BY <2>2, <3>2, <3>3
    <3> QED BY <2>6, <3>1, <3>2, <3>3, <3>4
  <2>9. KindsFit'
    BY <1>1, <2>6 DEF KindsFit, Send
  <2> QED BY <2>7, <2>8, <2>9
<1>2. ASSUME NEW c \in Clients, CheckAndMarkKey(c) \/ Continue(c)
      PROVE  QueuedOnce' /\ ServedOnce' /\ KindsFit'
  <2>1. /\ inbox' = inbox /\ serving' = serving /\ waiting' = waiting /\ role' = role
        /\ \A d \in Clients : d # c => next'[d] = next[d]
        /\ next[c] \in {"mark", "got"}
    BY <1>0, <1>2 DEF CheckAndMarkKey, Continue
  <2>2. \A i \in DOMAIN inbox : inbox[i].client # c
    <3>1. inbox \in Seq(Request)
      BY DEF TypeOK
    <3>2. \A i \in DOMAIN inbox : inbox[i].op \in Ops
      <4>1. \A i \in DOMAIN inbox : inbox[i] \in Request
        BY <3>1
      <4> QED BY <4>1 DEF Request
    <3> QED BY <2>1, <3>2 DEF QueuedOnce, Ops
  <2>3. QueuedOnce'
    BY <2>1, <2>2, QueueKept
  <2>4. ServedOnce'
    <3>1. serving # None => serving.client \in Clients /\ serving.client # c
      BY <1>0, <2>1 DEF ServedOnce
    <3> QED BY <2>1, <3>1 DEF ServedOnce
  <2>5. KindsFit'
    <3>1. CASE CheckAndMarkKey(c)
      <4>1. next'[c] \in {"duplicate", "saveKeys"}
        BY <1>0, <3>1 DEF CheckAndMarkKey
      <4> QED BY <2>1, <4>1 DEF KindsFit
    <3>2. CASE Continue(c)
      <4>1. role[c].kind \in {"ensure", "model", "clear"}
        BY <2>1, <3>2 DEF KindsFit, Continue
      <4>2. next'[c] \in {"done", "save", "reset"} /\ (next'[c] = "reset" => role[c].kind = "clear")
        BY <1>0, <3>2, <4>1 DEF Continue
      <4> QED BY <2>1, <4>2 DEF KindsFit
    <3> QED BY <1>2, <3>1, <3>2
  <2> QED BY <2>3, <2>4, <2>5
\* A request that is answered.
<1>3. ASSUME Get \/ Save \/ (ResetFile /\ serving' = None)
      PROVE  QueuedOnce' /\ ServedOnce' /\ KindsFit'
  <2>1. PICK op \in {"get", "save", "reset"} : Ready(op) /\ (op = "get" <=> Get)
    BY <1>3 DEF Get, Save, ResetFile, Ready
  <2> PICK c \in Clients : c = Head(inbox).client
    BY <2>1, HeadRequest
  <2>2. /\ c \in waiting /\ next[c] = op
        /\ \A i \in DOMAIN Tail(inbox) : Tail(inbox)[i].client # c
    BY <2>1, HeadCaller
  <2>3. inbox' = Tail(inbox) /\ inbox # <<>> /\ role' = role /\ serving = None
    BY <1>3 DEF Get, Save, ResetFile, Ready
  <2>4. \E a \in {"got", "done", "failed"} : Reply(c, a) /\ (a = "got" => op = "get")
    <3>1. CASE Get
      BY <2>1, <3>1 DEF Get
    <3>2. CASE Save
      BY <3>2 DEF Save, WriteIndex
    <3>3. CASE ResetFile /\ serving' = None
      <4>1. Head(inbox) # None
        <5>1. Head(inbox) \in Request
          BY <2>1, HeadRequest
        <5> QED BY <5>1, NoneType
      <4> QED BY <3>3, <4>1 DEF ResetFile
    <3> QED BY <1>3, <3>1, <3>2, <3>3
  <2> PICK a \in {"got", "done", "failed"} : Reply(c, a) /\ (a = "got" => op = "get")
    BY <2>4
  <2>5. /\ next'[c] = a /\ waiting' = waiting \ {c}
        /\ \A d \in Clients : d # c => next'[d] = next[d]
    BY ReplyType, StepNames
  <2>6. QueuedOnce'
    BY <2>2, <2>3, <2>5, QueueKept
  <2>7. ServedOnce'
    BY <1>3, <2>3 DEF ServedOnce, Get, Save
  <2>8. KindsFit'
    BY <2>2, <2>3, <2>5 DEF KindsFit
  <2> QED BY <2>6, <2>7, <2>8
\* A request whose second half is still to come.
<1>4. ASSUME Rotate \/ (ResetFile /\ serving' # None)
      PROVE  QueuedOnce' /\ ServedOnce' /\ KindsFit'
  <2>1. PICK op \in {"write", "reset"} : Ready(op)
    BY <1>4 DEF Rotate, ResetFile
  <2> PICK c \in Clients : c = Head(inbox).client /\ Head(inbox).op = op
    BY <2>1, HeadRequest
  <2>2. /\ c \in waiting /\ next[c] = op
        /\ \A i \in DOMAIN Tail(inbox) : Tail(inbox)[i].client # c
    BY <2>1, HeadCaller
  <2>3. /\ inbox' = Tail(inbox) /\ inbox # <<>> /\ role' = role /\ serving' = Head(inbox)
        /\ next' = next /\ waiting' = waiting
    BY <1>4 DEF Rotate, ResetFile, Ready, clientVars
  <2>4. QueuedOnce'
    BY <2>2, <2>3, QueueKept
  <2>5. ServedOnce'
    BY <2>2, <2>3 DEF ServedOnce
  <2> QED BY <2>3, <2>4, <2>5 DEF KindsFit
<1>5. ASSUME ResetIndex \/ AppendLine PROVE QueuedOnce' /\ ServedOnce' /\ KindsFit'
  <2>1. serving # None /\ serving' = None /\ inbox' = inbox /\ role' = role
    BY <1>5 DEF ResetIndex, AppendLine
  <2> PICK c \in Clients : c = serving.client
    BY <2>1 DEF TypeOK, Request
  <2>2. \E a \in {"save", "done", "failed"} : Reply(c, a)
    BY <1>5 DEF ResetIndex, AppendLine, WriteIndex
  <2>3. /\ next'[c] \in {"save", "done", "failed"} /\ waiting' = waiting \ {c}
        /\ \A d \in Clients : d # c => next'[d] = next[d]
    BY <2>2, ReplyType, StepNames
  <2>4. \A i \in DOMAIN inbox : inbox[i].client # c
    BY <2>1 DEF ServedOnce
  <2>5. QueuedOnce'
    BY <2>1, <2>3, <2>4, QueueKept
  <2>6. KindsFit'
    BY <2>1, <2>3 DEF KindsFit
  <2> QED BY <2>1, <2>5, <2>6 DEF ServedOnce
<1>6. ASSUME SaveKeys PROVE QueuedOnce' /\ ServedOnce' /\ KindsFit'
  <2>1. /\ Ready("saveKeys") /\ inbox' = Tail(inbox) /\ inbox # <<>> /\ serving' = None
        /\ next' = next /\ waiting' = waiting /\ role' = role
    BY <1>6 DEF SaveKeys, Ready, clientVars
  <2>2. \A i \in DOMAIN Tail(inbox) : Tail(inbox)[i].client # Head(inbox).client
    BY <2>1, HeadCaller
  <2>3. QueuedOnce'
    BY <2>1, <2>2, QueueKept
  <2> QED BY <2>1, <2>3 DEF ServedOnce, KindsFit
<1>7. ASSUME Restart PROVE QueuedOnce' /\ ServedOnce' /\ KindsFit'
  <2>1. DOMAIN inbox' = {} /\ serving' = None /\ role' = role
    BY <1>7 DEF Restart
  <2>2. \A c \in Clients : next'[c] \in {next[c], "dead"}
    BY <1>7 DEF Restart
  <2> QED BY <2>1, <2>2 DEF QueuedOnce, ServedOnce, KindsFit
<1>8. ASSUME Stop \/ LoopExit \/ Tick \/ UNCHANGED vars
      PROVE  QueuedOnce' /\ ServedOnce' /\ KindsFit'
  <2>1. UNCHANGED <<role, next, waiting, inbox, serving>>
    BY <1>8 DEF Stop, LoopExit, Tick, vars, clientVars
  <2> QED BY <2>1 DEF QueuedOnce, ServedOnce, KindsFit
<1> QED
  BY <1>1, <1>2, <1>3, <1>4, <1>5, <1>6, <1>7, <1>8 DEF Next, Handle

-----------------------------------------------------------------------------
(* Idempotency keys                                                        *)

KeysInv == MarkKept /\ RemarkedOnlyIfLost

LEMMA KeysInit == Init => KeysInv
BY DEF Init, KeysInv, MarkKept, RemarkedOnlyIfLost

LEMMA KeysStep == TypeOK /\ KeysInv /\ [Next]_vars => KeysInv'
<1> SUFFICES ASSUME TypeOK, KeysInv, [Next]_vars PROVE KeysInv'
  OBVIOUS
<1>0. /\ keys \in [Keys -> Nat] /\ diskKeys \in [Keys -> Nat]
      /\ marked \in [Keys -> Nat \cup {None}] /\ now \in Nat
  BY DEF TypeOK
<1>1. ASSUME NEW c \in Clients, CheckAndMarkKey(c) PROVE KeysInv'
  <2> PICK k \in Keys : k = role[c].key
    BY RoleType
  <2>1. now' = now /\ lost' = lost
    BY <1>1 DEF CheckAndMarkKey, clockVars
  <2>2. CASE keys[k] > now
    BY <1>1, <2>1, <2>2 DEF CheckAndMarkKey, KeysInv, MarkKept, RemarkedOnlyIfLost
  <2>3. CASE ~(keys[k] > now)
    <3>1. /\ keys' = [keys EXCEPT ![k] = now + TTL]
          /\ marked' = [marked EXCEPT ![k] = now]
          /\ remarked' = IF marked[k] # None /\ now < marked[k] + TTL
                         THEN remarked \cup {k} ELSE remarked
      BY <1>1, <2>3 DEF CheckAndMarkKey
    <3>2. MarkKept'
      BY <1>0, <2>1, <3>1 DEF KeysInv, MarkKept
    <3>3. marked[k] # None /\ now < marked[k] + TTL => k \in lost
      BY <1>0, <2>3 DEF KeysInv, MarkKept
    <3>4. RemarkedOnlyIfLost'
      BY <2>1, <3>1, <3>3 DEF KeysInv, RemarkedOnlyIfLost
    <3> QED BY <3>2, <3>4 DEF KeysInv
  <2> QED BY <2>2, <2>3
<1>2. ASSUME Restart PROVE KeysInv'
  <2>1. /\ now' = now /\ marked' = marked /\ remarked' = remarked
        /\ lost' = lost \cup {k \in Keys : keys[k] > now /\ keys[k] # diskKeys[k]}
        /\ \A k \in Keys : keys'[k] = IF diskKeys[k] < now THEN 0 ELSE diskKeys[k]
    BY <1>2 DEF Restart, Prune
  <2>2. RemarkedOnlyIfLost'
    BY <2>1 DEF KeysInv, RemarkedOnlyIfLost
  <2>3. MarkKept'
    <3> SUFFICES ASSUME NEW k \in Keys, marked[k] # None, now < marked[k] + TTL
                 PROVE  keys'[k] = marked[k] + TTL \/ k \in lost'
      BY <2>1 DEF MarkKept
    <3>1. keys[k] = marked[k] + TTL \/ k \in lost
      BY DEF KeysInv, MarkKept
    <3>2. marked[k] \in Nat
      BY <1>0
    <3> QED BY <1>0, <2>1, <3>1, <3>2
  <2> QED BY <2>2, <2>3 DEF KeysInv
<1>3. ASSUME Tick PROVE KeysInv'
  <2>1. now' = now + 1 /\ UNCHANGED <<keys, marked, lost, remarked>>
    BY <1>3 DEF Tick, histVars
  <2> QED BY <1>0, <2>1 DEF KeysInv, MarkKept, RemarkedOnlyIfLost
<1>4. ASSUME UNCHANGED <<keys, marked, lost, remarked, now>> PROVE KeysInv'
  BY <1>4 DEF KeysInv, MarkKept, RemarkedOnlyIfLost
<1>5. ASSUME NEW c \in Clients, Send(c) \/ Continue(c) PROVE KeysInv'
  BY <1>4, <1>5 DEF Send, Continue, clockVars, histVars
<1>6. ASSUME Handle \/ Stop \/ LoopExit \/ UNCHANGED vars PROVE KeysInv'
  BY <1>4, <1>6 DEF Handle, Get, Save, ResetFile, ResetIndex, Rotate, AppendLine, SaveKeys,
     Stop, LoopExit, vars, clockVars, histVars
<1> QED BY <1>1, <1>2, <1>3, <1>5, <1>6 DEF Next

-----------------------------------------------------------------------------
(* Maps, the session lock and the index                                    *)

LEMMA MapsOwnedInit == Init => MapsOwned
BY DEF Init, MapsOwned, MapOf, Maps

LEMMA MapsOwnedStep == RequestInv /\ MapsOwned /\ [Next]_vars => MapsOwned'
<1> SUFFICES ASSUME RequestInv, MapsOwned, [Next]_vars PROVE MapsOwned'
  OBVIOUS
<1>0. /\ TypeOK /\ index \in [Sessions -> Maps \cup {None}]
      /\ got \in [Clients -> Maps \cup {None}]
  BY DEF RequestInv, TypeOK
<1>1. ASSUME Get PROVE MapsOwned'
  <2> PICK c \in Clients : c = Head(inbox).client
    BY <1>0, <1>1, HeadRequest DEF Get
  <2>1. Session(c) \in Sessions
    BY <1>0, RoleType
  <2>2. index' = index /\ role' = role /\ got' = [got EXCEPT ![c] = index[Session(c)]]
    BY <1>1 DEF Get
  <2> QED BY <1>0, <2>1, <2>2 DEF MapsOwned, MapOf, Session
<1>2. ASSUME Save PROVE MapsOwned'
  <2> PICK c \in Clients : c = Head(inbox).client
    BY <1>0, <1>2, HeadRequest DEF Save
  <2>1. Session(c) \in Sessions
    BY <1>0, RoleType
  <2>2. /\ got' = got /\ role' = role
        /\ index' = [index EXCEPT ![Session(c)] = SavedMap(c)]
    BY <1>2 DEF Save, WriteIndex
  <2>3. MapOf(SavedMap(c), Session(c))
    BY MapsDistinct DEF SavedMap, MapsOwned, MapOf
  <2> QED BY <1>0, <2>1, <2>2, <2>3 DEF MapsOwned, MapOf, Session
<1>3. ASSUME ResetIndex PROVE MapsOwned'
  <2>1. /\ got' = got /\ role' = role
        /\ index' = [index EXCEPT ![Session(serving.client)] = None]
    BY <1>3 DEF ResetIndex, WriteIndex
  <2> QED BY <1>0, <2>1, NoneType DEF MapsOwned, MapOf, Session, Maps
<1>4. ASSUME Restart PROVE MapsOwned'
  <2>1. /\ got' = got /\ role' = role
        /\ \A s \in Sessions : index'[s] \in {None, s}
    BY <1>4 DEF Restart
  <2> QED BY <2>1, NoneType, MapsDistinct DEF MapsOwned, MapOf, Session, Maps
<1>5. ASSUME UNCHANGED <<index, got, role>> PROVE MapsOwned'
  BY <1>5 DEF MapsOwned, MapOf, Session
<1>6. ASSUME NEW c \in Clients, Send(c) \/ CheckAndMarkKey(c) \/ Continue(c) PROVE MapsOwned'
  BY <1>5, <1>6 DEF Send, CheckAndMarkKey, Continue
<1>7. ASSUME ResetFile \/ Rotate \/ AppendLine \/ SaveKeys \/ Stop \/ LoopExit \/ Tick \/ UNCHANGED vars
      PROVE  MapsOwned'
  BY <1>5, <1>7 DEF ResetFile, Rotate, AppendLine, SaveKeys, Stop, LoopExit, Tick, vars, clientVars
<1> QED BY <1>1, <1>2, <1>3, <1>4, <1>6, <1>7 DEF Next, Handle

LEMMA SessionLockedStep == RequestInv /\ SessionLocked /\ [Next]_vars => SessionLocked'
<1> SUFFICES ASSUME RequestInv, SessionLocked, [Next]_vars PROVE SessionLocked'
  OBVIOUS
<1> USE DEF RequestInv
<1>0. role' = role /\ next \in [Clients -> Steps] /\ waiting \subseteq Clients
  BY DEF TypeOK, Next, Handle, Send, CheckAndMarkKey, Continue, Get, Save, ResetFile, ResetIndex,
     Rotate, AppendLine, SaveKeys, Stop, LoopExit, Restart, Tick, vars, clientVars
\* Nobody takes a lock: whoever holds one after the step held it before.
<1>1. ASSUME \A c \in Clients : HoldsSession(c)' => HoldsSession(c) PROVE SessionLocked'
  BY <1>0, <1>1 DEF SessionLocked, Session
<1>2. ASSUME NEW c \in Clients, Send(c) PROVE SessionLocked'
  <2>1. /\ \A d \in Clients \ {c} : next'[d] = next[d] /\ (d \in waiting' => d \in waiting)
        /\ role[c].kind \in Commands =>
              \A d \in Clients \ {c} : HoldsSession(d) => Session(d) # Session(c)
    BY <1>0, <1>2 DEF Send
  <2>2. \A d \in Clients \ {c} : HoldsSession(d)' => HoldsSession(d)
    BY <1>0, <2>1 DEF HoldsSession
  <2>3. HoldsSession(c)' => role[c].kind \in Commands
    BY <1>0 DEF HoldsSession
  <2> QED BY <1>0, <2>1, <2>2, <2>3 DEF SessionLocked, Session
\* A caller that goes on, is answered or dies.
<1>3. ASSUME NEW c \in Clients,
             \A d \in Clients \ {c} : next'[d] = next[d],
             waiting' \subseteq waiting,
             next[c] \notin Ended, next[c] = "get" => c \in waiting
      PROVE  SessionLocked'
  <2>1. \A d \in Clients \ {c} : HoldsSession(d)' => HoldsSession(d)
    BY <1>0, <1>3 DEF HoldsSession
  <2>2. HoldsSession(c)' => HoldsSession(c)
    BY <1>0, <1>3 DEF HoldsSession
  <2> QED BY <1>1, <2>1, <2>2
<1>4. ASSUME NEW c \in Clients, CheckAndMarkKey(c) \/ Continue(c) PROVE SessionLocked'
  <2>1. /\ \A d \in Clients \ {c} : next'[d] = next[d]
        /\ waiting' = waiting /\ next[c] \in {"mark", "got"}
    BY <1>0, <1>4 DEF CheckAndMarkKey, Continue
  <2> QED BY <1>3, <2>1 DEF Ended
<1>5. ASSUME NEW c \in Clients, c \in waiting, next[c] \in Ops, NEW a, Reply(c, a) PROVE SessionLocked'
  <2>1. /\ \A d \in Clients \ {c} : next'[d] = next[d]
        /\ waiting' \subseteq waiting
    BY <1>0, <1>5 DEF Reply
  <2>2. next[c] \notin Ended
    BY <1>5 DEF Ops, Ended
  <2> QED BY <1>3, <1>5, <2>1, <2>2
<1>6. ASSUME Get \/ Save \/ ResetFile PROVE SessionLocked'
  <2>1. PICK op \in {"get", "save", "reset"} : Ready(op)
    BY <1>6 DEF Get, Save, ResetFile
  <2> PICK c \in Clients : c = Head(inbox).client
    BY <2>1, HeadRequest
  <2>2. c \in waiting /\ next[c] = op /\ op \in Ops
    BY <2>1, HeadCaller DEF Ops
  <2>3. (\E a : Reply(c, a)) \/ (next' = next /\ waiting' = waiting)
    BY <1>6 DEF Get, Save, WriteIndex, ResetFile
  <2>4. CASE next' = next /\ waiting' = waiting
    BY <1>0, <1>1, <2>4 DEF HoldsSession
  <2> QED BY <1>5, <2>2, <2>3, <2>4
<1>7. ASSUME ResetIndex \/ AppendLine PROVE SessionLocked'
  <2>1. serving # None
    BY <1>7 DEF ResetIndex, AppendLine
  <2> PICK c \in Clients : c = serving.client
    BY <2>1 DEF TypeOK, Request
  <2>2. c \in waiting /\ next[c] \in Ops
    BY <2>1 DEF ServedOnce, Ops
  <2>3. \E a : Reply(c, a)
    BY <1>7 DEF ResetIndex, AppendLine, WriteIndex
  <2> QED BY <1>5, <2>2, <2>3
<1>8. ASSUME Restart PROVE SessionLocked'
  <2>1. waiting' = {}
    BY <1>8 DEF Restart
  <2>2. \A d \in Clients : role[d].kind \in Commands => FirstOp(role[d].kind) = "get"
    BY DEF Commands, FirstOp
  <2>3. \A d \in Clients : role[d].kind \in Commands => next'[d] \in Ended \cup {"get"}
    BY <1>8, <2>2 DEF Restart, Ended
  <2>4. \A d \in Clients : ~HoldsSession(d)'
    BY <1>0, <2>1, <2>3 DEF HoldsSession
  <2> QED BY <2>4 DEF SessionLocked
<1>9. ASSUME Rotate \/ SaveKeys \/ Stop \/ LoopExit \/ Tick \/ UNCHANGED vars PROVE SessionLocked'
  <2>1. UNCHANGED <<next, waiting>>
    BY <1>9 DEF Rotate, SaveKeys, Stop, LoopExit, Tick, vars, clientVars
  <2> QED BY <1>0, <1>1, <2>1 DEF HoldsSession
<1> QED BY <1>2, <1>4, <1>6, <1>7, <1>8, <1>9 DEF Next, Handle

PersistInv == ModelWritten /\ DiskMatchesMemory /\ DiskPersists /\ ModelPersists

LEMMA PersistInit == Init => PersistInv
<1> SUFFICES ASSUME Init PROVE PersistInv
  OBVIOUS
<1>1. TypeOK
  BY TypeInit
<1>2. \A c \in Clients : next[c] # "save"
  BY <1>1, RoleType DEF Init, FirstOp, Kinds
<1> QED
  BY <1>2 DEF Init, PersistInv, ModelWritten, DiskMatchesMemory, DiskPersists, ModelPersists, Content

\* A step that leaves the index, the maps and the /model commands about to save alone.
LEMMA QuietStep ==
    ASSUME PersistInv,
           UNCHANGED <<role, index, model, diskIndex, chosen, unsaved>>,
           failures' = 0 => failures = 0,
           \A d \in Clients : role[d].kind = "model" =>
               /\ next'[d] = "save" <=> next[d] = "save"
               /\ next[d] = "save" => got'[d] = got[d]
    PROVE  PersistInv'
<1>1. \A s \in Sessions : Content(index, s)' = Content(index, s)
  BY DEF Content
<1>2. \A s \in Sessions : Unsaved(s) => Unsaved(s)'
  BY DEF Unsaved, Session
<1>3. ModelWritten'
  BY DEF PersistInv, ModelWritten, SavedMap
<1>4. DiskMatchesMemory'
  BY <1>1, <1>2 DEF PersistInv, DiskMatchesMemory
<1> QED BY <1>1, <1>3, <1>4 DEF PersistInv, DiskPersists, ModelPersists

LEMMA PersistStep ==
    RequestInv /\ MapsOwned /\ SessionLocked /\ PersistInv /\ [Next]_vars => PersistInv'
<1> SUFFICES ASSUME RequestInv, MapsOwned, SessionLocked, PersistInv, [Next]_vars PROVE PersistInv'
  OBVIOUS
<1> USE DEF RequestInv
<1>0. /\ TypeOK' /\ next \in [Clients -> Steps] /\ failures \in Nat
      /\ model \in [Maps -> Clients \cup {"plain"}] /\ index \in [Sessions -> Maps \cup {None}]
      /\ got \in [Clients -> Maps \cup {None}]
      /\ unsaved \in [Sessions -> SUBSET Clients] /\ chosen \in [Sessions -> Clients \cup {"plain"}]
  BY TypeStep DEF TypeOK
<1>1. ASSUME NEW c \in Clients, Send(c) PROVE PersistInv'
  <2>1. \A d \in Clients : next'[d] = "save" <=> next[d] = "save"
    BY <1>0, <1>1 DEF Send
  <2>2. UNCHANGED <<role, index, model, diskIndex, chosen, unsaved, failures, got>>
    BY <1>1 DEF Send, diskVars, clockVars, histVars
  <2> QED BY <2>1, <2>2, QuietStep
<1>2. ASSUME NEW c \in Clients, CheckAndMarkKey(c) PROVE PersistInv'
  <2>1. \A d \in Clients : next'[d] = "save" <=> next[d] = "save"
    BY <1>0, <1>2 DEF CheckAndMarkKey
  <2>2. UNCHANGED <<role, index, model, diskIndex, chosen, unsaved, failures, got>>
    BY <1>2 DEF CheckAndMarkKey, diskVars, clockVars
  <2> QED BY <2>1, <2>2, QuietStep
<1>3. ASSUME NEW c \in Clients, Continue(c) PROVE PersistInv'
  <2>1. /\ next[c] = "got" /\ \A d \in Clients : d # c => next'[d] = next[d]
        /\ UNCHANGED <<role, index, diskIndex, chosen, failures, got>>
    BY <1>0, <1>3 DEF Continue, diskVars, clockVars
  <2>2. CASE role[c].kind # "model"
    <3>1. UNCHANGED <<model, unsaved>>
      BY <1>3, <2>2 DEF Continue
    <3> QED BY <2>1, <2>2, <3>1, QuietStep
  <2>3. CASE role[c].kind = "model"
    <3> PICK m \in Maps : m = SavedMap(c)
      BY <1>0 DEF SavedMap, Maps
    <3> PICK s0 \in Sessions : s0 = Session(c)
      BY RoleType
    <3>1. /\ model' = [model EXCEPT ![m] = c]
          /\ unsaved' = [unsaved EXCEPT ![s0] = @ \cup {c}]
          /\ next'[c] = "save"
      BY <1>0, <1>3, <2>3 DEF Continue, SavedMap
    <3>2. MapOf(m, s0)
      BY MapsDistinct DEF SavedMap, MapsOwned, MapOf
    <3>3. ASSUME NEW s \in Sessions, index[s] = m PROVE s = s0
      BY <3>2, <3>3 DEF MapsOwned, MapOf, Maps
    <3>4. \A s \in Sessions : Content(index, s)' = Content(index, s) \/ (s = s0 /\ Content(index, s)' = c)
      BY <1>0, <2>1, <3>1, <3>3 DEF Content
    <3>5. \A s \in Sessions : Unsaved(s) => Unsaved(s)'
      BY <2>1 DEF Unsaved, Session
    <3>6. Unsaved(s0)'
      BY <2>1, <2>3, <3>1 DEF Unsaved, Session
    <3>7. DiskMatchesMemory'
      BY <2>1, <3>4, <3>5, <3>6 DEF PersistInv, DiskMatchesMemory
    <3>8. \A s \in Sessions : unsaved[s] \subseteq unsaved'[s] /\ (s = s0 => c \in unsaved'[s])
      BY <1>0, <3>1
    <3>9. DiskPersists' /\ ModelPersists'
      BY <2>1, <3>4, <3>8 DEF PersistInv, DiskPersists, ModelPersists
    <3>10. ModelWritten'
      <4> SUFFICES ASSUME NEW d \in Clients, role[d].kind = "model", next'[d] = "save"
                   PROVE  model'[SavedMap(d)] = d
        BY <2>1 DEF ModelWritten, SavedMap
      <4>1. CASE d = c
        BY <1>0, <3>1, <4>1
      <4>2. CASE d # c
        <5>1. next[d] = "save" /\ model[SavedMap(d)] = d
          BY <2>1, <4>2 DEF PersistInv, ModelWritten
        <5>2. HoldsSession(c) /\ HoldsSession(d)
          BY <2>1, <2>3, <5>1 DEF HoldsSession, Commands, Ended
        <5>3. Session(d) # s0
          BY <4>2, <5>2 DEF SessionLocked
        <5>4. MapOf(SavedMap(d), Session(d)) /\ SavedMap(d) \in Maps
          BY <1>0, MapsDistinct DEF SavedMap, MapsOwned, MapOf, Maps
        <5>5. SavedMap(d) # m
          BY <3>2, <5>3, <5>4 DEF MapOf, Maps
        <5> QED BY <1>0, <3>1, <5>1, <5>4, <5>5
      <4> QED BY <4>1, <4>2
    <3> QED BY <3>7, <3>9, <3>10 DEF PersistInv
  <2> QED BY <2>2, <2>3
<1>4. ASSUME Get PROVE PersistInv'
  <2> PICK c \in Clients : c = Head(inbox).client
    BY <1>4, HeadRequest DEF Get
  <2>1. next[c] = "get"
    BY <1>4, HeadCaller DEF Get
  <2>2. /\ UNCHANGED <<role, index, model, diskIndex, chosen, unsaved, failures>>
        /\ got' = [got EXCEPT ![c] = index[Session(c)]] /\ next' = [next EXCEPT ![c] = "got"]
    BY <1>4 DEF Get, Reply, diskVars, clockVars, histVars
  <2>3. \A d \in Clients : (next'[d] = "save" <=> next[d] = "save")
                           /\ (next[d] = "save" => got'[d] = got[d])
    BY <1>0, <2>1, <2>2
  <2> QED BY <2>2, <2>3, QuietStep
<1>5. ASSUME Save PROVE PersistInv'
  <2> PICK c \in Clients : c = Head(inbox).client
    BY <1>5, HeadRequest DEF Save
  <2> PICK s0 \in Sessions : s0 = Session(c)
    BY RoleType
  <2>1. next[c] = "save"
    BY <1>5, HeadCaller DEF Save
  <2>2. UNCHANGED <<role, model, got>> /\ index' = [index EXCEPT ![s0] = SavedMap(c)]
    BY <1>5 DEF Save, WriteIndex
  <2>3. \E a \in {"done", "failed"} : next' = [next EXCEPT ![c] = a]
    BY <1>5 DEF Save, WriteIndex, Reply
  <2>4. next'[c] \in {"done", "failed"} /\ \A d \in Clients : d # c => next'[d] = next[d]
    BY <1>0, <2>3
  <2>5. ModelWritten'
    BY <2>2, <2>4 DEF PersistInv, ModelWritten, SavedMap
  <2>6. CASE failures' # 0
    BY <2>5, <2>6 DEF PersistInv, DiskMatchesMemory, DiskPersists, ModelPersists
  <2>7. CASE failures' = 0
    <3>1. /\ failures = 0 /\ next'[c] = "done"
          /\ diskIndex' = [s \in Sessions |-> Content([index EXCEPT ![s0] = SavedMap(c)], s)]
      <4>1. WriteIndex(c, [index EXCEPT ![s0] = SavedMap(c)], "done")
        BY <1>5 DEF Save
      <4>2. failures' # failures + 1
        BY <1>0, <2>7
      <4>3. /\ diskIndex' = [s \in Sessions |-> Content([index EXCEPT ![s0] = SavedMap(c)], s)]
            /\ failures' = failures /\ next' = [next EXCEPT ![c] = "done"]
        BY <4>1, <4>2 DEF WriteIndex, Reply
      <4> QED BY <1>0, <2>7, <4>3
    <3>2. \A s \in Sessions : diskIndex'[s] = Content(index, s)'
      BY <2>2, <3>1 DEF Content
    <3>3. chosen' = Chosen(c) /\ unsaved' = [unsaved EXCEPT ![s0] = {}]
      BY <1>5, <3>1 DEF Save
    <3>4. \A s \in Sessions : s # s0 => Content(index, s)' = Content(index, s)
                                        /\ chosen'[s] = chosen[s] /\ unsaved'[s] = unsaved[s]
      BY <1>0, <2>2, <3>3 DEF Content, Chosen
    <3>5. chosen'[s0] # "plain" => Content(index, s0)' = chosen'[s0]
      <4>1. chosen'[s0] = IF role[c].kind = "model" THEN c ELSE "plain"
        BY <1>0, <3>3 DEF Chosen
      <4>2. role[c].kind = "model" => model[SavedMap(c)] = c /\ SavedMap(c) # None
        BY <2>1, NoneType DEF PersistInv, ModelWritten, SavedMap, Maps
      <4>3. index'[s0] = SavedMap(c)
        BY <1>0, <2>2
      <4> QED BY <2>2, <4>1, <4>2, <4>3 DEF Content
    <3>6. ModelPersists'
      BY <3>1, <3>4, <3>5 DEF PersistInv, ModelPersists
    <3>7. DiskPersists' /\ DiskMatchesMemory'
      BY <3>2, <3>6 DEF ModelPersists, DiskPersists, DiskMatchesMemory
    <3> QED BY <2>5, <3>6, <3>7 DEF PersistInv
  <2> QED BY <2>6, <2>7
<1>6. ASSUME ResetIndex PROVE PersistInv'
  <2> PICK c \in Clients : c = serving.client
    BY <1>6 DEF ResetIndex, TypeOK, Request
  <2> PICK s0 \in Sessions : s0 = Session(c)
    BY RoleType
  <2>1. next[c] = "reset" /\ role[c].kind = "clear"
    BY <1>6 DEF ResetIndex, ServedOnce, KindsFit
  <2>2. /\ UNCHANGED <<role, model, got, unsaved>> /\ index' = [index EXCEPT ![s0] = None]
        /\ chosen' = [chosen EXCEPT ![s0] = "plain"]
    BY <1>6 DEF ResetIndex, WriteIndex
  <2>3. \A d \in Clients : d # c => next'[d] = next[d]
    BY <1>0, <1>6 DEF ResetIndex, WriteIndex, Reply
  <2>4. ModelWritten'
    BY <2>1, <2>2, <2>3 DEF PersistInv, ModelWritten, SavedMap
  <2>5. CASE failures' # 0
    BY <2>4, <2>5 DEF PersistInv, DiskMatchesMemory, DiskPersists, ModelPersists
  <2>6. CASE failures' = 0
    <3>1. /\ failures = 0
          /\ diskIndex' = [s \in Sessions |-> Content([index EXCEPT ![s0] = None], s)]
      <4>1. WriteIndex(c, [index EXCEPT ![s0] = None], "save")
        BY <1>6 DEF ResetIndex
      <4>2. failures' # failures + 1
        BY <1>0, <2>6
      <4> QED BY <2>6, <4>1, <4>2 DEF WriteIndex
    <3>2. \A s \in Sessions : diskIndex'[s] = Content(index, s)'
      BY <2>2, <3>1 DEF Content
    <3>3. \A s \in Sessions : Content(index, s)' = IF s = s0 THEN None ELSE Content(index, s)
      BY <1>0, <2>2 DEF Content
    <3>4. ModelPersists'
      <4>1. chosen'[s0] = "plain" /\ \A s \in Sessions : s # s0 => chosen'[s] = chosen[s]
        BY <1>0, <2>2
      <4>2. \A s \in Sessions :
              chosen'[s] # "plain" => Content(index, s)' \in {chosen'[s]} \cup unsaved'[s]
        BY <2>2, <3>1, <3>3, <4>1 DEF PersistInv, ModelPersists
      <4> QED BY <4>2 DEF ModelPersists
    <3>5. DiskPersists' /\ DiskMatchesMemory'
      BY <3>2, <3>4 DEF ModelPersists, DiskPersists, DiskMatchesMemory
    <3> QED BY <2>4, <3>4, <3>5 DEF PersistInv
  <2> QED BY <2>5, <2>6
<1>7. ASSUME Restart PROVE PersistInv'
  <2>1. /\ UNCHANGED <<role, got, diskIndex, failures, chosen, unsaved>>
        /\ index' = [s \in Sessions |-> IF diskIndex[s] = None THEN None ELSE s]
        /\ model' = [m \in Maps |->
                        IF m \in Sessions /\ diskIndex[m] # None THEN diskIndex[m] ELSE "plain"]
    BY <1>7 DEF Restart
  <2>2. \A s \in Sessions : Content(index, s)' = diskIndex[s]
    <3> SUFFICES ASSUME NEW s \in Sessions PROVE Content(index, s)' = diskIndex[s]
      OBVIOUS
    <3>1. s \in Maps /\ s # None
      BY NoneType DEF Maps
    <3> QED BY <2>1, <3>1 DEF Content
  <2>3. \A c \in Clients : next'[c] # "save"
    <3> SUFFICES ASSUME NEW c \in Clients PROVE next'[c] # "save"
      OBVIOUS
    <3>1. FirstOp(role[c].kind) # "save"
      BY RoleType DEF FirstOp, Kinds
    <3> QED BY <1>7, <3>1 DEF Restart, Ended
  <2>4. ModelWritten' /\ DiskMatchesMemory'
    BY <2>1, <2>2, <2>3 DEF ModelWritten, DiskMatchesMemory
  <2>5. DiskPersists' /\ ModelPersists'
    BY <2>1, <2>2 DEF PersistInv, DiskPersists, ModelPersists
  <2> QED BY <2>4, <2>5 DEF PersistInv
<1>8. ASSUME ResetFile PROVE PersistInv'
  <2> PICK c \in Clients : c = Head(inbox).client
    BY <1>8, HeadRequest DEF ResetFile
  <2>1. next[c] = "reset"
    BY <1>8, HeadCaller DEF ResetFile
  <2>2. /\ UNCHANGED <<role, index, model, diskIndex, chosen, unsaved, got>>
        /\ next' = next \/ next' = [next EXCEPT ![c] = "failed"]
        /\ failures' \in {failures, failures + 1}
    BY <1>8 DEF ResetFile, Reply
  <2>3. \A d \in Clients : next'[d] = "save" <=> next[d] = "save"
    BY <1>0, <2>1, <2>2
  <2> QED BY <1>0, <2>2, <2>3, QuietStep
<1>9. ASSUME AppendLine PROVE PersistInv'
  <2> PICK c \in Clients : c = serving.client
    BY <1>9 DEF AppendLine, TypeOK, Request
  <2>1. next[c] = "write"
    BY <1>9 DEF AppendLine, ServedOnce
  <2>2. /\ UNCHANGED <<role, index, model, diskIndex, chosen, unsaved, got>>
        /\ next' = [next EXCEPT ![c] = "done"] \/ next' = [next EXCEPT ![c] = "failed"]
        /\ failures' \in {failures, failures + 1}
    BY <1>9 DEF AppendLine, Reply
  <2>3. \A d \in Clients : next'[d] = "save" <=> next[d] = "save"
    BY <1>0, <2>1, <2>2
  <2> QED BY <1>0, <2>2, <2>3, QuietStep
<1>10. ASSUME Rotate \/ SaveKeys \/ Stop \/ LoopExit \/ Tick \/ UNCHANGED vars PROVE PersistInv'
  <2>1. /\ UNCHANGED <<role, index, model, diskIndex, chosen, unsaved, got, next>>
        /\ failures' \in {failures, failures + 1}
    BY <1>10 DEF Rotate, SaveKeys, Stop, LoopExit, Tick, vars, clientVars, diskVars, clockVars, histVars
  <2> QED BY <1>0, <2>1, QuietStep
<1> QED
  BY <1>1, <1>2, <1>3, <1>4, <1>5, <1>6, <1>7, <1>8, <1>9, <1>10 DEF Next, Handle

-----------------------------------------------------------------------------
(* Transcripts                                                             *)

LEMMA LinesType ==
    ASSUME TypeOK, NEW s \in Sessions, NEW t \in Times
    PROVE  Lines(s, t) \in Seq(Clients)
<1>1. t # MaxTime + 1 => t \in 0..MaxTime
  BY BoundsType DEF Times
<1> QED BY <1>1 DEF TypeOK, Lines

LEMMA LinesInit == Init => LinesInv
<1> SUFFICES ASSUME Init PROVE LinesInv
  OBVIOUS
<1>1. \A s \in Sessions, t \in 0..MaxTime : backup[s][t] = <<>>
  BY DEF Init
<1>2. \A s \in Sessions, t \in Times : Lines(s, t) = <<>>
  BY <1>1, BoundsType DEF Init, Lines, Times
<1>3. acked = <<>>
  BY DEF Init
<1> QED
  BY <1>1, <1>2, <1>3 DEF LinesInv, LinesWritten, BackupsPast, AckedOnce, AckedPresent, AckedOrdered

\* A write that has ended stays so, and a line that is gone stays gone.
LEMMA EndedKept ==
    ASSUME RequestInv, [Next]_vars
    PROVE  /\ \A d \in Clients : next[d] \in Written => next'[d] = next[d]
           /\ role' = role
           /\ wiped \subseteq wiped' /\ clobbered \subseteq clobbered' /\ garbled \subseteq garbled'
           /\ now <= now'
<1> USE DEF RequestInv
<1>0. next \in [Clients -> Steps] /\ now \in Nat
  BY DEF TypeOK
<1>1. role' = role
  BY DEF Next, Handle, Send, CheckAndMarkKey, Continue, Get, Save, ResetFile, ResetIndex,
     Rotate, AppendLine, SaveKeys, Stop, LoopExit, Restart, Tick, vars, clientVars
<1>2. wiped \subseteq wiped' /\ clobbered \subseteq clobbered'
  BY DEF Next, Handle, Send, CheckAndMarkKey, Continue, Get, Save, ResetFile, ResetIndex,
     Rotate, AppendLine, SaveKeys, Stop, LoopExit, Restart, Tick, vars, histVars
<1>3. garbled \subseteq garbled'
  BY DEF Next, Handle, Send, CheckAndMarkKey, Continue, Get, Save, ResetFile, ResetIndex,
     Rotate, AppendLine, PutLine, SaveKeys, Stop, LoopExit, Restart, Tick, vars, histVars
<1>4. now <= now'
  <2>1. now' = now \/ now' = now + 1
    BY DEF Next, Handle, Send, CheckAndMarkKey, Continue, Get, Save, ResetFile, ResetIndex,
       Rotate, AppendLine, SaveKeys, Stop, LoopExit, Restart, Tick, vars, clockVars
  <2> QED BY <1>0, <2>1
<1> DEFINE Stays == \A d \in Clients : next[d] \in Written => next'[d] = next[d]
<1>5. Stays
  <2>1. ASSUME NEW c \in Clients, Send(c) \/ CheckAndMarkKey(c) \/ Continue(c) PROVE Stays
    <3>1. next[c] \notin Written /\ \A d \in Clients : d # c => next'[d] = next[d]
      BY <1>0, <2>1 DEF Send, CheckAndMarkKey, Continue, Written, Ops
    <3> QED BY <3>1
  <2>2. ASSUME Get \/ Save \/ ResetFile PROVE Stays
    <3>1. PICK op \in {"get", "save", "reset"} : Ready(op)
      BY <2>2 DEF Get, Save, ResetFile
    <3> PICK c \in Clients : c = Head(inbox).client
      BY <3>1, HeadRequest
    <3>2. next[c] = op
      BY <3>1, HeadCaller
    <3>3. (\E a : next' = [next EXCEPT ![c] = a]) \/ next' = next
      BY <2>2 DEF Get, Save, WriteIndex, ResetFile, Reply
    <3> QED BY <1>0, <3>2, <3>3 DEF Written
  <2>3. ASSUME ResetIndex \/ AppendLine PROVE Stays
    <3>1. serving # None
      BY <2>3 DEF ResetIndex, AppendLine
    <3> PICK c \in Clients : c = serving.client
      BY <3>1 DEF TypeOK, Request
    <3>2. next[c] \in {"reset", "write"}
      BY <3>1 DEF ServedOnce
    <3>3. \E a : next' = [next EXCEPT ![c] = a]
      BY <2>3 DEF ResetIndex, AppendLine, WriteIndex, Reply
    <3> QED BY <1>0, <3>2, <3>3 DEF Written
  <2>4. ASSUME Restart PROVE Stays
    BY <2>4 DEF Restart, Written, Ended
  <2>5. ASSUME Rotate \/ SaveKeys \/ Stop \/ LoopExit \/ Tick \/ UNCHANGED vars PROVE Stays
    BY <2>5 DEF Rotate, SaveKeys, Stop, LoopExit, Tick, vars, clientVars
  <2> QED BY <2>1, <2>2, <2>3, <2>4, <2>5 DEF Next, Handle
<1> QED BY <1>1, <1>2, <1>3, <1>4, <1>5

LEMMA LinesStep == RequestInv /\ LinesInv /\ [Next]_vars => LinesInv'
<1> SUFFICES ASSUME RequestInv, LinesInv, [Next]_vars PROVE LinesInv'
  OBVIOUS
<1> USE DEF LinesInv
<1>0. /\ TypeOK /\ TypeOK' /\ acked \in Seq(Clients) /\ now \in 0..MaxTime
      /\ \A s \in Sessions, t \in Times : Lines(s, t) \in Seq(Clients)
  BY TypeStep, LinesType DEF RequestInv, TypeOK
<1>1. /\ \A d \in Clients : next[d] \in Written => next'[d] = next[d]
      /\ role' = role
      /\ wiped \subseteq wiped' /\ clobbered \subseteq clobbered' /\ garbled \subseteq garbled'
      /\ now <= now'
  BY EndedKept
<1>2. \A a \in DOMAIN acked : acked[a] \in Clients
  BY <1>0
<1>3. \A s \in Sessions, t \in Times : \A i \in DOMAIN Lines(s, t) : Lines(s, t)[i] \in Clients
  BY <1>0
<1>4. ASSUME acked' = acked PROVE AckedOnce'
  BY <1>1, <1>2, <1>4 DEF AckedOnce, Written
<1>5. ASSUME file' = file, backup' = backup PROVE LinesWritten' /\ BackupsPast'
  <2>1. \A s, t : Lines(s, t)' = Lines(s, t)
    BY <1>5 DEF Lines
  <2>2. LinesWritten'
    BY <1>1, <1>3, <2>1 DEF LinesWritten, Session
  <2>3. now' \in Nat
    BY <1>0 DEF TypeOK
  <2> QED BY <1>0, <1>1, <1>5, <2>2, <2>3 DEF BackupsPast
<1>6. ASSUME UNCHANGED <<file, backup, acked>> PROVE LinesInv'
  <2>1. \A s, t : Lines(s, t)' = Lines(s, t)
    BY <1>6 DEF Lines
  <2>2. AckedPresent'
    BY <1>1, <1>2, <1>6, <2>1 DEF AckedPresent, Present, Session
  <2>3. AckedOrdered'
    BY <1>6, <2>1 DEF AckedOrdered
  <2> QED BY <1>4, <1>5, <1>6, <2>2, <2>3
\* The transcript is removed.
<1>7. ASSUME ResetFile PROVE LinesInv'
  <2> PICK c \in Clients : c = Head(inbox).client
    BY <1>0, <1>7, HeadRequest DEF ResetFile
  <2> PICK s0 \in Sessions : s0 = Session(c)
    BY <1>0, RoleType
  <2>1. CASE file' = file
    BY <1>6, <1>7, <2>1 DEF ResetFile
  <2>2. CASE file' # file
    <3>1. /\ file' = [file EXCEPT ![s0] = <<>>] /\ wiped' = wiped \cup Range(file[s0])
          /\ UNCHANGED <<backup, acked, now, clobbered, garbled>>
      BY <1>7, <2>2 DEF ResetFile
    <3>2. file \in [Sessions -> Seq(Clients)]
      BY <1>0 DEF TypeOK
    <3>3. \A s \in Sessions, t \in Times :
             Lines(s, t)' = IF s = s0 /\ t = MaxTime + 1 THEN <<>> ELSE Lines(s, t)
      BY <3>1, <3>2 DEF Lines
    <3>4. \A s \in Sessions, t \in Times : \A i \in DOMAIN Lines(s, t)' :
             i \in DOMAIN Lines(s, t) /\ Lines(s, t)'[i] = Lines(s, t)[i]
      BY <3>3
    <3>5. LinesWritten'
      BY <1>1, <1>3, <3>4 DEF LinesWritten, Session
    <3>6. BackupsPast'
      BY <3>1 DEF BackupsPast
    <3>7. AckedOrdered'
      BY <3>1, <3>4 DEF AckedOrdered
    <3>8. ASSUME NEW d \in Clients, Present(Session(d), d)
          PROVE  Present(Session(d), d)' \/ d \in wiped'
      <4>0. Session(d) \in Sessions /\ Session(d)' = Session(d)
        BY <1>0, <1>1, RoleType DEF Session
      <4> PICK t \in Times : \E i \in DOMAIN Lines(Session(d), t) : Lines(Session(d), t)[i] = d
        BY <3>8 DEF Present
      <4>1. CASE Session(d) = s0 /\ t = MaxTime + 1
        BY <3>1, <4>1 DEF Lines, Range
      <4>2. CASE ~(Session(d) = s0 /\ t = MaxTime + 1)
        BY <3>3, <4>0, <4>2 DEF Present
      <4> QED BY <4>1, <4>2
    <3>9. AckedPresent'
      BY <1>1, <1>2, <3>1, <3>8 DEF AckedPresent
    <3> QED BY <1>4, <3>1, <3>5, <3>6, <3>7, <3>9
  <2> QED BY <2>1, <2>2
\* The transcript becomes the backup of this second.
<1>8. ASSUME Rotate PROVE LinesInv'
  <2> PICK c \in Clients : c = Head(inbox).client
    BY <1>0, <1>8, HeadRequest DEF Rotate
  <2> PICK s0 \in Sessions : s0 = Session(c)
    BY <1>0, RoleType
  <2>1. CASE file' = file /\ backup' = backup
    BY <1>6, <1>8, <2>1 DEF Rotate
  <2>2. CASE ~(file' = file /\ backup' = backup)
    <3>1. /\ file' = [file EXCEPT ![s0] = <<>>] /\ backup' = [backup EXCEPT ![s0][now] = file[s0]]
          /\ clobbered' = clobbered \cup Range(backup[s0][now])
          /\ UNCHANGED <<acked, now, wiped, garbled>>
      BY <1>8, <2>2 DEF Rotate
    <3>2. /\ file \in [Sessions -> Seq(Clients)] /\ backup \in [Sessions -> [0..MaxTime -> Seq(Clients)]]
          /\ now # MaxTime + 1 /\ now \in Times /\ MaxTime + 1 \in Times
      <4>1. now # MaxTime + 1 /\ now \in Times /\ MaxTime + 1 \in Times
        BY <1>0, BoundsType DEF Times
      <4> QED BY <1>0, <4>1 DEF TypeOK
    <3>3. \A s \in Sessions, t \in 0..MaxTime :
             backup'[s][t] = IF s = s0 /\ t = now THEN file[s0] ELSE backup[s][t]
      BY <3>1, <3>2
    <3>4. \A t \in Times : t # MaxTime + 1 => t \in 0..MaxTime
      BY BoundsType DEF Times
    <3>5. \A s \in Sessions, t \in Times :
             Lines(s, t)' = IF s = s0 /\ t = MaxTime + 1 THEN <<>>
                            ELSE IF s = s0 /\ t = now THEN Lines(s, MaxTime + 1)
                            ELSE Lines(s, t)
      BY <3>1, <3>2, <3>3, <3>4 DEF Lines
    <3>6. LinesWritten'
      <4>1. ASSUME NEW s \in Sessions, NEW t \in Times, NEW i \in DOMAIN Lines(s, t)'
            PROVE  \E u \in Times : i \in DOMAIN Lines(s, u) /\ Lines(s, t)'[i] = Lines(s, u)[i]
        <5> PICK u \in Times : u = IF s = s0 /\ t = now THEN MaxTime + 1 ELSE t
          BY <3>2
        <5>1. i \in DOMAIN Lines(s, u) /\ Lines(s, t)'[i] = Lines(s, u)[i]
          BY <3>2, <3>5, <4>1
        <5> QED BY <5>1
      <4> QED BY <1>1, <1>3, <4>1 DEF LinesWritten, Session
    <3>7. BackupsPast'
      BY <1>0, <3>1, <3>3 DEF BackupsPast
    <3>8. \A s \in Sessions, t \in Times : t > now /\ t # MaxTime + 1 => Lines(s, t) = <<>>
      BY <3>4 DEF BackupsPast, Lines
    <3>9. AckedOrdered'
      <4> SUFFICES ASSUME NEW s \in Sessions, NEW t \in Times, NEW u \in Times,
                          NEW i \in DOMAIN Lines(s, t)', NEW j \in DOMAIN Lines(s, u)',
                          NEW a \in DOMAIN acked, NEW b \in DOMAIN acked,
                          Lines(s, t)'[i] = acked[a], Lines(s, u)'[j] = acked[b]
                   PROVE  /\ a = b => t = u /\ i = j
                          /\ a < b => t < u \/ (t = u /\ i < j)
        BY <3>1 DEF AckedOrdered
      <4> PICK t0 \in Times : t0 = IF s = s0 /\ t = now THEN MaxTime + 1 ELSE t
        BY <3>2
      <4> PICK u0 \in Times : u0 = IF s = s0 /\ u = now THEN MaxTime + 1 ELSE u
        BY <3>2
      <4>1. /\ i \in DOMAIN Lines(s, t0) /\ Lines(s, t0)[i] = acked[a]
            /\ j \in DOMAIN Lines(s, u0) /\ Lines(s, u0)[j] = acked[b]
        BY <3>2, <3>5
      <4>2. /\ a = b => t0 = u0 /\ i = j
            /\ a < b => t0 < u0 \/ (t0 = u0 /\ i < j)
        BY <4>1 DEF AckedOrdered
      <4>3. s = s0 => t # MaxTime + 1 /\ u # MaxTime + 1
        BY <3>5
      <4>4. s = s0 => t <= now /\ u <= now
        BY <3>5, <3>8, <4>3, BoundsType, <1>0 DEF Times
      <4>5. t \in Nat /\ u \in Nat /\ now \in Nat /\ now <= MaxTime /\ MaxTime \in Nat
        BY <1>0, BoundsType DEF Times
      <4> QED BY <4>2, <4>3, <4>4, <4>5
    <3>10. ASSUME NEW d \in Clients, Present(Session(d), d)
           PROVE  Present(Session(d), d)' \/ d \in clobbered'
      <4>0. Session(d) \in Sessions /\ Session(d)' = Session(d)
        BY <1>0, <1>1, RoleType DEF Session
      <4> PICK t \in Times : \E i \in DOMAIN Lines(Session(d), t) : Lines(Session(d), t)[i] = d
        BY <3>10 DEF Present
      <4>1. CASE Session(d) = s0 /\ t = MaxTime + 1
        <5> PICK t1 \in Times : t1 = now
          BY <3>2
        <5>1. Lines(s0, t1)' = Lines(s0, t)
          BY <3>2, <3>5, <4>1
        <5> QED BY <4>0, <4>1, <5>1 DEF Present
      <4>2. CASE Session(d) = s0 /\ t = now
        BY <3>1, <3>2, <4>2 DEF Lines, Range
      <4>3. CASE ~(Session(d) = s0 /\ t \in {now, MaxTime + 1})
        <5>1. Lines(Session(d), t)' = Lines(Session(d), t)
          BY <3>5, <4>0, <4>3
        <5> QED BY <4>0, <5>1 DEF Present
      <4> QED BY <4>1, <4>2, <4>3
    <3>11. AckedPresent'
      BY <1>1, <1>2, <3>1, <3>10 DEF AckedPresent
    <3> QED BY <1>4, <3>1, <3>6, <3>7, <3>9, <3>11
  <2> QED BY <2>1, <2>2
\* A line is written, perhaps acknowledged.
<1>9. ASSUME AppendLine PROVE LinesInv'
  <2>1. serving # None /\ serving.op = "write"
    BY <1>9 DEF AppendLine
  <2> PICK c \in Clients : c = serving.client
    BY <1>0, <2>1 DEF TypeOK, Request
  <2> PICK s0 \in Sessions : s0 = Session(c)
    BY <1>0, RoleType
  <2>2. next[c] = "write" /\ next \in [Clients -> Steps]
    BY <1>0, <2>1 DEF RequestInv, ServedOnce, TypeOK
  \* The line is new.
  <2>3. /\ \A s \in Sessions, t \in Times : \A i \in DOMAIN Lines(s, t) : Lines(s, t)[i] # c
        /\ \A a \in DOMAIN acked : acked[a] # c
    BY <2>2 DEF LinesWritten, AckedOnce, Written
  <2>4. /\ backup' = backup /\ now' = now
        /\ file' \in {file, [file EXCEPT ![s0] = Append(file[s0], c)]}
        /\ \/ acked' = acked /\ next'[c] \in {"done", "failed"}
           \/ /\ acked' = Append(acked, c) /\ next'[c] = "done"
              /\ file' = file => c \in garbled'
    <3>1. file[s0] \in Seq(Clients) /\ file \in [Sessions -> Seq(Clients)]
      BY <1>0 DEF TypeOK
    <3>2. file' \in {file, [file EXCEPT ![s0] = Append(file[s0], c)]} /\ backup' = backup /\ now' = now
      BY <1>9 DEF AppendLine, PutLine
    <3>3. \/ acked' = acked /\ next' = [next EXCEPT ![c] = "failed"]
          \/ acked' = Append(acked, c) /\ next' = [next EXCEPT ![c] = "done"] /\ PutLine(c)
      BY <1>9 DEF AppendLine, Reply
    <3>4. PutLine(c) /\ file' = file => c \in garbled'
      <4>1. [file EXCEPT ![s0] = Append(file[s0], c)] # file
        <5>1. Append(file[s0], c) # file[s0]
          <6>1. Len(Append(file[s0], c)) = Len(file[s0]) + 1 /\ Len(file[s0]) \in Nat
            BY <3>1
          <6> QED BY <6>1
        <5>2. [file EXCEPT ![s0] = Append(file[s0], c)][s0] = Append(file[s0], c)
          BY <3>1
        <5> QED BY <5>1, <5>2
      <4> QED BY <4>1 DEF PutLine
    <3> QED BY <2>2, <3>2, <3>3, <3>4
  <2>5. /\ \A s \in Sessions, t \in Times : ~(s = s0 /\ t = MaxTime + 1) => Lines(s, t)' = Lines(s, t)
        /\ \/ Lines(s0, MaxTime + 1)' = Lines(s0, MaxTime + 1) /\ file' = file
           \/ Lines(s0, MaxTime + 1)' = Append(Lines(s0, MaxTime + 1), c)
    <3>1. file \in [Sessions -> Seq(Clients)]
      BY <1>0 DEF TypeOK
    <3> QED BY <2>4, <3>1 DEF Lines
  <2> PICK n \in Nat : n = Len(Lines(s0, MaxTime + 1)) /\ MaxTime + 1 \in Times
    BY <1>0, BoundsType DEF Times
  \* A line after the step was there before, or it is the new one at the end.
  <2>6. ASSUME NEW s \in Sessions, NEW t \in Times, NEW i \in DOMAIN Lines(s, t)'
        PROVE  \/ i \in DOMAIN Lines(s, t) /\ Lines(s, t)'[i] = Lines(s, t)[i]
               \/ s = s0 /\ t = MaxTime + 1 /\ i = n + 1 /\ Lines(s, t)'[i] = c
    <3>1. Lines(s0, MaxTime + 1) \in Seq(Clients)
      BY <1>0
    <3>2. \A k \in DOMAIN Append(Lines(s0, MaxTime + 1), c) :
             \/ k \in DOMAIN Lines(s0, MaxTime + 1)
                /\ Append(Lines(s0, MaxTime + 1), c)[k] = Lines(s0, MaxTime + 1)[k]
             \/ k = n + 1 /\ Append(Lines(s0, MaxTime + 1), c)[k] = c
      BY <3>1
    <3> QED BY <2>5, <2>6, <3>2
  <2>7. \A s \in Sessions, t \in Times : \A i \in DOMAIN Lines(s, t) :
           i \in DOMAIN Lines(s, t)' /\ Lines(s, t)'[i] = Lines(s, t)[i]
    <3>1. Lines(s0, MaxTime + 1) \in Seq(Clients)
      BY <1>0
    <3>2. \A k \in DOMAIN Lines(s0, MaxTime + 1) :
             /\ k \in DOMAIN Append(Lines(s0, MaxTime + 1), c)
             /\ Append(Lines(s0, MaxTime + 1), c)[k] = Lines(s0, MaxTime + 1)[k]
      BY <3>1
    <3> QED BY <2>5, <3>2
  <2>8. LinesWritten'
    BY <1>1, <1>3, <2>4, <2>6 DEF LinesWritten, Session, Written
  <2>9. BackupsPast'
    BY <2>4 DEF BackupsPast
  <2>10. /\ \A a \in DOMAIN acked : a \in DOMAIN acked' /\ acked'[a] = acked[a]
         /\ \A a \in DOMAIN acked' :
               \/ a \in DOMAIN acked /\ acked'[a] = acked[a]
               \/ /\ a = Len(acked) + 1 /\ acked'[a] = c /\ next'[c] = "done"
                  /\ file' = file => c \in garbled'
    <3>1. CASE acked' = acked
      BY <3>1
    <3>2. CASE acked' # acked
      <4>1. /\ acked' = Append(acked, c) /\ next'[c] = "done"
            /\ file' = file => c \in garbled'
        BY <2>4, <3>2
      <4>2. /\ DOMAIN acked' = 1..(Len(acked) + 1) /\ DOMAIN acked = 1..Len(acked) /\ Len(acked) \in Nat
            /\ \A a \in 1..Len(acked) : acked'[a] = acked[a]
            /\ acked'[Len(acked) + 1] = c
        BY <1>0, <4>1
      <4> QED BY <4>1, <4>2
    <3> QED BY <3>1, <3>2
  <2>11. DOMAIN acked = 1..Len(acked) /\ Len(acked) \in Nat
    BY <1>0
  <2>12. AckedOnce'
    BY <1>1, <1>2, <2>3, <2>10, <2>11 DEF AckedOnce, Written
  <2>13. \A d \in Clients : Present(Session(d), d) => Present(Session(d), d)'
    <3> SUFFICES ASSUME NEW d \in Clients, Present(Session(d), d) PROVE Present(Session(d), d)'
      OBVIOUS
    <3>1. Session(d) \in Sessions /\ Session(d)' = Session(d)
      BY <1>0, <1>1, RoleType DEF Session
    <3> QED BY <2>7, <3>1 DEF Present
  <2>14. file' # file => Present(s0, c)'
    <3> SUFFICES ASSUME file' # file PROVE Present(s0, c)'
      OBVIOUS
    <3>1. Lines(s0, MaxTime + 1)' = Append(Lines(s0, MaxTime + 1), c)
      BY <2>5
    <3>2. Lines(s0, MaxTime + 1) \in Seq(Clients)
      BY <1>0
    <3>3. n + 1 \in DOMAIN Append(Lines(s0, MaxTime + 1), c)
          /\ Append(Lines(s0, MaxTime + 1), c)[n + 1] = c
      BY <3>2
    <3> QED BY <3>1, <3>3 DEF Present
  <2>15. AckedPresent'
    <3>1. Session(c)' = s0
      BY <1>1 DEF Session
    <3> QED BY <1>1, <1>2, <2>10, <2>13, <2>14, <3>1 DEF AckedPresent
  <2>16. AckedOrdered'
    <3> SUFFICES ASSUME NEW s \in Sessions, NEW t \in Times, NEW u \in Times,
                        NEW i \in DOMAIN Lines(s, t)', NEW j \in DOMAIN Lines(s, u)',
                        NEW a \in DOMAIN acked', NEW b \in DOMAIN acked',
                        Lines(s, t)'[i] = acked'[a], Lines(s, u)'[j] = acked'[b]
                 PROVE  /\ a = b => t = u /\ i = j
                        /\ a < b => t < u \/ (t = u /\ i < j)
      BY DEF AckedOrdered
    <3>1. CASE a \in DOMAIN acked /\ acked'[a] = acked[a] /\ b \in DOMAIN acked /\ acked'[b] = acked[b]
      <4>1. acked[a] # c /\ acked[b] # c
        BY <2>3, <3>1
      <4>2. /\ i \in DOMAIN Lines(s, t) /\ Lines(s, t)'[i] = Lines(s, t)[i]
            /\ j \in DOMAIN Lines(s, u) /\ Lines(s, u)'[j] = Lines(s, u)[j]
        BY <2>6, <3>1, <4>1
      <4>3. Lines(s, t)[i] = acked[a] /\ Lines(s, u)[j] = acked[b]
        BY <3>1, <4>2
      <4> QED BY <3>1, <4>2, <4>3 DEF AckedOrdered
    <3>2. CASE b = Len(acked) + 1 /\ acked'[b] = c
      <4>1. s = s0 /\ u = MaxTime + 1 /\ j = n + 1
        BY <2>3, <2>6, <3>2
      <4>2. a = b => t = u /\ i = j
        BY <2>3, <2>6, <3>2, <4>1
      <4>3. ASSUME a < b PROVE t < u \/ (t = u /\ i < j)
        <5>1. i \in DOMAIN Lines(s, t)
          <6>1. a # Len(acked) + 1
            BY <2>10, <2>11, <3>2, <4>3
          <6>2. acked'[a] # c
            BY <2>3, <2>10, <6>1
          <6> QED BY <2>6, <6>2
        <5>2. t = MaxTime + 1 => i \in 1..n
          BY <1>0, <4>1, <5>1
        <5>3. t \in Nat /\ t <= MaxTime + 1 /\ MaxTime \in Nat
          BY BoundsType DEF Times
        <5> QED BY <4>1, <5>2, <5>3
      <4> QED BY <4>2, <4>3
    <3>3. CASE b \in DOMAIN acked /\ acked'[b] = acked[b] /\ a = Len(acked) + 1 /\ acked'[a] = c
      <4>1. b < a /\ a # b /\ ~(a < b)
        BY <2>11, <3>3
      <4> QED BY <4>1
    <3> QED BY <2>10, <3>1, <3>2, <3>3
  <2> QED BY <2>8, <2>9, <2>12, <2>15, <2>16
<1>10. ASSUME NEW c \in Clients, Send(c) \/ CheckAndMarkKey(c) \/ Continue(c) PROVE LinesInv'
  BY <1>6, <1>10 DEF Send, CheckAndMarkKey, Continue, diskVars, histVars
<1>11. ASSUME Get \/ Save \/ ResetIndex \/ SaveKeys \/ Stop \/ LoopExit \/ Restart \/ Tick \/ UNCHANGED vars
       PROVE  LinesInv'
  BY <1>6, <1>11 DEF Get, Save, ResetIndex, SaveKeys, Stop, LoopExit, Restart, Tick, vars,
     diskVars, histVars
<1> QED BY <1>7, <1>8, <1>9, <1>10, <1>11 DEF Next, Handle

LEMMA LinesKept ==
    ASSUME TypeOK, AckedOnce, AckedPresent, AckedOrdered
    PROVE  AckedLinesKept
<1>0. /\ acked \in Seq(Clients) /\ MaxTime \in Nat
      /\ \A a \in DOMAIN acked : acked[a] \in Clients /\ Session(acked[a]) \in Sessions
  <2>1. acked \in Seq(Clients)
    BY DEF TypeOK
  <2> QED BY <2>1, RoleType, BoundsType
\* A place is a position in one of the files.
<1>1. ASSUME NEW s \in Sessions, NEW c, NEW p \in Place(s, c)
      PROVE  \E t \in Times : \E i \in DOMAIN Lines(s, t) : p = <<t, i>> /\ Lines(s, t)[i] = c
  <2>1. CASE \E i \in DOMAIN file[s] : file[s][i] = c /\ p = <<MaxTime + 1, i>>
    <3>1. MaxTime + 1 \in Times
      BY <1>0 DEF Times
    <3> QED BY <2>1, <3>1 DEF Lines
  <2>2. CASE \E t \in 0..MaxTime : \E i \in DOMAIN backup[s][t] : backup[s][t][i] = c /\ p = <<t, i>>
    <3> PICK t \in 0..MaxTime : \E i \in DOMAIN backup[s][t] : backup[s][t][i] = c /\ p = <<t, i>>
      BY <2>2
    <3>1. t \in Times /\ t # MaxTime + 1
      BY <1>0 DEF Times
    <3> QED BY <3>1 DEF Lines
  <2> QED BY <1>1, <2>1, <2>2 DEF Place
<1>2. ASSUME NEW s \in Sessions, NEW c, Present(s, c) PROVE Place(s, c) # {}
  <2> PICK t \in Times : \E i \in DOMAIN Lines(s, t) : Lines(s, t)[i] = c
    BY <1>2 DEF Present
  <2> PICK i \in DOMAIN Lines(s, t) : Lines(s, t)[i] = c
    OBVIOUS
  <2>1. CASE t = MaxTime + 1
    <3>1. <<MaxTime + 1, i>> \in {<<MaxTime + 1, k>> : k \in {j \in DOMAIN file[s] : file[s][j] = c}}
      BY <2>1 DEF Lines
    <3> QED BY <3>1 DEF Place
  <2>2. CASE t # MaxTime + 1
    <3>1. t \in 0..MaxTime
      BY <1>0, <2>2 DEF Times
    <3> DEFINE In(x) == {<<x, k>> : k \in {j \in DOMAIN backup[s][x] : backup[s][x][j] = c}}
    <3>2. <<t, i>> \in In(t)
      BY <2>2 DEF Lines
    <3>3. <<t, i>> \in UNION {In(x) : x \in 0..MaxTime}
      <4> HIDE DEF In
      <4> QED BY <3>1, <3>2
    <3>4. UNION {In(x) : x \in 0..MaxTime} \subseteq Place(s, c)
      BY DEF Place
    <3> QED BY <3>3, <3>4
  <2> QED BY <2>1, <2>2
<1>3. \A c \in Range(acked) : Place(Session(c), c) # {} \/ c \in wiped \cup clobbered \cup garbled
  BY <1>0, <1>2 DEF AckedPresent, Range
<1>4. ASSUME NEW a \in DOMAIN acked, NEW b \in DOMAIN acked,
             Session(acked[b]) = Session(acked[a]), a <= b,
             NEW p \in Place(Session(acked[a]), acked[a]),
             NEW q \in Place(Session(acked[a]), acked[b])
      PROVE  IF a = b THEN p = q ELSE Earlier(p, q)
  <2> PICK s \in Sessions : s = Session(acked[a])
    BY <1>0
  <2> PICK t \in Times : \E i \in DOMAIN Lines(s, t) : p = <<t, i>> /\ Lines(s, t)[i] = acked[a]
    BY <1>1
  <2>1. PICK i \in DOMAIN Lines(s, t) : p = <<t, i>> /\ Lines(s, t)[i] = acked[a]
    OBVIOUS
  <2> PICK u \in Times : \E j \in DOMAIN Lines(s, u) : q = <<u, j>> /\ Lines(s, u)[j] = acked[b]
    BY <1>1
  <2>2. PICK j \in DOMAIN Lines(s, u) : q = <<u, j>> /\ Lines(s, u)[j] = acked[b]
    OBVIOUS
  <2>3. /\ a = b => t = u /\ i = j
        /\ a < b => t < u \/ (t = u /\ i < j)
    BY <2>1, <2>2 DEF AckedOrdered
  <2>4. a # b => a < b
    BY <1>0, <1>4
  <2> QED BY <2>1, <2>2, <2>3, <2>4 DEF Earlier
<1> QED BY <1>3, <1>4 DEF AckedLinesKept

-----------------------------------------------------------------------------
(* Theorems                                                                *)

LEMMA SessionLockedInit == Init => SessionLocked
<1> SUFFICES ASSUME Init PROVE \A c \in Clients : ~HoldsSession(c)
  BY DEF SessionLocked
<1>1. \A c \in Clients : role[c].kind \in Commands => next[c] = "get"
  BY DEF Init, FirstOp, Commands
<1>2. waiting = {}
  BY DEF Init
<1> QED BY <1>1, <1>2 DEF HoldsSession

\* The requests, the marks, the maps and the files keep their shape in every step
\* of the callers, of the loop and of a restart.
THEOREM Inductive == Spec => []IInv
<1>1. Init => IInv
  BY RequestInit, KeysInit, MapsOwnedInit, SessionLockedInit, PersistInit, LinesInit
  DEF IInv, KeysInv, PersistInv
<1>2. IInv /\ [Next]_vars => IInv'
  BY RequestStep, KeysStep, MapsOwnedStep, SessionLockedStep, PersistStep, LinesStep
  DEF IInv, KeysInv, PersistInv, RequestInv
<1> QED BY <1>1, <1>2, PTL DEF Spec

\* Every variable keeps its type.
THEOREM TypeCorrect == Spec => []TypeOK
<1>1. IInv => TypeOK
  BY DEF IInv, RequestInv
<1> QED BY <1>1, Inductive, PTL

\* Whatever is reset, rotated, torn by a failing write or cut off by a crash, a
\* transcript line that appendTranscript acknowledged is in a file of its session, in
\* the order of the acknowledgements and once, unless the session was reset, its
\* backup was replaced within the second, or it went behind a torn line.
THEOREM LinesSurvive == Spec => []AckedLinesKept
<1>1. IInv => AckedLinesKept
  BY LinesKept DEF IInv, RequestInv, LinesInv
<1> QED BY <1>1, Inductive, PTL

\* As long as no write of the index failed, index.json has what the SessionIndex has,
\* but for a model that a /model command has still to save: a crash between any two
\* requests loses no acknowledged save.
THEOREM DiskFollowsMemory == Spec => []DiskMatchesMemory
<1>1. IInv => DiskMatchesMemory
  BY DEF IInv
<1> QED BY <1>1, Inductive, PTL

\* However stops, crashes and lost saves fall, CheckAndMarkKey lets a key through
\* twice within its TTL only if its mark was not on disk when the process ended.
THEOREM DuplicateOnlyAfterLoss == Spec => []RemarkedOnlyIfLost
<1>1. IInv => RemarkedOnlyIfLost
  BY DEF IInv
<1> QED BY <1>1, Inductive, PTL

\* The model of an acknowledged /model stays in force across requests of any session
\* and across restarts; the session lock of the lane workers is what makes the
\* map that handleModel shares with the index safe to write.
THEOREM ModelStays == Spec => []ModelPersists
<1>1. IInv => ModelPersists
  BY DEF IInv
<1> QED BY <1>1, Inductive, PTL

=============================================================================
