------------------------- MODULE PolicyEngineProofs -------------------------
(***************************************************************************)
(* Proofs about PolicyEngine, for every set of calls, approval ids, tools  *)
(* and hosts, every quota and every number of failures and restarts.       *)
(*                                                                         *)
(* None of the properties is inductive by itself.  IInv adds what ties the *)
(* engine's memory to its two files and to a grant in progress.            *)
(***************************************************************************)
EXTENDS PolicyEngine, FiniteSetTheorems, TLAPS

\* The grant in progress is of an approval that is still pending: Resolve keeps
\* the engine's mutex from its check to its save.
ResolvingIsPending == resolving # None => status[resolving] = "PENDING"

\* A known approval has its request, and a file entry is an entry in memory, with
\* the same resolution if it has one.
DiskBehindMemory ==
    \A i \in Ids :
        /\ status[i] # "absent" => request[i] # None
        /\ diskStatus[i] # "absent" => status[i] # "absent"
        /\ diskStatus[i] \in Resolution => status[i] = diskStatus[i]

\* An approval a caller knows of is on disk.
AskedOnDisk ==
    \A c \in Calls :
        pc[c] = "approval_required" =>
            /\ asked[c] \in Ids
            /\ diskStatus[asked[c]] # "absent"
            /\ request[asked[c]] = RequestOf[c]

\* The grant behind an allowed host, as approvals.json has it.
Vouches(i, h) ==
    /\ request[i] # None
    /\ HostOf[request[i]] = h
    /\ diskStatus[i] = "GRANTED" \/ i = resolving \/ i \in torn

HostsVouched == \A h \in domains \cup diskDomains : \E i \in Ids : Vouches(i, h)

Runs(t) == {c \in Calls : pc[c] \in {"running", "ran"} /\ Tool(c) = t}

IInv ==
    /\ TypeOK
    /\ ResolvingIsPending
    /\ DiskBehindMemory
    /\ ResolutionIsFinal
    /\ AskedOnDisk
    /\ HostsVouched
    /\ QuotaRespected

USE RequestOfType, ToolOfType, HostOfType, SetsType, LimitType, NoneType DEF Tool, Host, Perm

-----------------------------------------------------------------------------
(* What every step does to the fields that several actions share.          *)

\* A call ends, or moves on, in one of the places Pcs lists.
LEMMA EndType ==
    ASSUME TypeOK, NEW c \in Calls, NEW how \in Pcs, End(c, how)
    PROVE  pc' \in [Calls -> Pcs]
  BY DEF TypeOK, End

\* The runs counted against a tool are a finite set.
LEMMA RunsFinite ==
    ASSUME NEW t \in Tools
    PROVE  IsFiniteSet(Runs(t)) /\ IsFiniteSet(Runs(t)')
  <1>1. Runs(t) \subseteq Calls /\ Runs(t)' \subseteq Calls
    BY DEF Runs
  <1> QED
    BY <1>1, CallsFinite, FS_Subset

\* Consuming quota below the limit keeps the account: the run that starts is the
\* one that is counted.
LEMMA ConsumeKeepsQuota ==
    ASSUME TypeOK, QuotaRespected, NEW c \in Calls,
           pc[c] \notin {"running", "ran"}, ~OverQuota(Tool(c)), ConsumeAndRun(c)
    PROVE  QuotaRespected'
  <1> SUFFICES ASSUME NEW t \in Tools
               PROVE  Cardinality(Runs(t)') <= usage'[t] /\ usage'[t] <= DailyLimit
    BY DEF QuotaRespected, Runs
  <1>1. usage[t] \in Nat /\ Cardinality(Runs(t)) <= usage[t] /\ usage[t] <= DailyLimit
    BY DEF QuotaRespected, Runs, TypeOK
  <1>2. Tool(c) \in Tools
    OBVIOUS
  <1>3. CASE t = Tool(c)
    <2>1. usage'[t] = usage[t] + 1
      BY <1>2, <1>3 DEF ConsumeAndRun, TypeOK
    <2>2. usage[t] < DailyLimit
      BY <1>1, <1>3 DEF OverQuota
    <2>3. Runs(t)' = Runs(t) \cup {c} /\ c \notin Runs(t)
      BY <1>3 DEF Runs, ConsumeAndRun, End, TypeOK
    <2>4. Cardinality(Runs(t)') = Cardinality(Runs(t)) + 1
      BY <2>3, RunsFinite, FS_AddElement
    <2>5. Cardinality(Runs(t)) \in Nat
      BY RunsFinite, FS_CardinalityType
    <2> QED
      BY <1>1, <2>1, <2>2, <2>4, <2>5
  <1>4. CASE t # Tool(c)
    <2>1. usage'[t] = usage[t]
      BY <1>2, <1>4 DEF ConsumeAndRun, TypeOK
    <2>2. Runs(t)' = Runs(t)
      BY <1>4 DEF Runs, ConsumeAndRun, End, TypeOK
    <2> QED
      BY <1>1, <2>1, <2>2
  <1> QED
    BY <1>3, <1>4

\* A step that starts no run and counts none keeps the account.
LEMMA OtherStepsKeepQuota ==
    ASSUME QuotaRespected, UNCHANGED usage,
           \A c \in Calls : pc'[c] \in {"running", "ran"} <=> pc[c] \in {"running", "ran"}
    PROVE  QuotaRespected'
  <1> SUFFICES ASSUME NEW t \in Tools
               PROVE  Cardinality(Runs(t)') <= usage'[t] /\ usage'[t] <= DailyLimit
    BY DEF QuotaRespected, Runs
  <1>1. Runs(t)' = Runs(t)
    BY DEF Runs
  <1> QED
    BY <1>1 DEF QuotaRespected, Runs

-----------------------------------------------------------------------------
(* Steps of Runner.Execute that leave the engine's approvals alone.        *)

\* A call that moves on without being asked for an approval disturbs nothing but
\* the account of runs.
LEMMA CallStep ==
    ASSUME IInv, NEW c \in Calls, NEW how \in Pcs \ {"approval_required"}, End(c, how),
           UNCHANGED <<apVars, domVars, resolving, boundVars, acked, torn>>,
           asked' \in [Calls -> Ids \cup {None}],
           \A d \in Calls \ {c} : asked'[d] = asked[d],
           usage' \in [Tools -> Nat],
           QuotaRespected'
    PROVE  IInv'
  <1>1. pc' \in [Calls -> Pcs]
    BY EndType DEF IInv
  <1>2. TypeOK'
    BY <1>1 DEF IInv, TypeOK, apVars, domVars, boundVars
  <1>3. ResolvingIsPending' /\ DiskBehindMemory' /\ ResolutionIsFinal'
    BY DEF IInv, ResolvingIsPending, DiskBehindMemory, ResolutionIsFinal, apVars
  <1>4. AskedOnDisk'
    <2> SUFFICES ASSUME NEW d \in Calls, pc'[d] = "approval_required"
                 PROVE  /\ asked'[d] \in Ids
                        /\ diskStatus'[asked'[d]] # "absent"
                        /\ request'[asked'[d]] = RequestOf[d]
      BY DEF AskedOnDisk
    <2>1. d # c /\ pc[d] = "approval_required"
      BY DEF End, IInv, TypeOK
    <2> QED
      BY <2>1 DEF IInv, AskedOnDisk, apVars
  <1>5. HostsVouched'
    BY DEF IInv, HostsVouched, Vouches, apVars, domVars
  <1> QED
    BY <1>2, <1>3, <1>4, <1>5 DEF IInv

\* The steps of a call other than createApproval.
LEMMA ExecuteKeepsIInv ==
    ASSUME IInv, NEW c \in Calls,
           \/ RejectInput(c) \/ CheckDenied(c) \/ CheckAllows(c)
           \/ CheckGranted(c) \/ ConsumeQuota(c) \/ ToolReturns(c)
    PROVE  IInv'
  <1> USE DEF IInv
  <1>1. TypeOK /\ QuotaRespected /\ usage \in [Tools -> Nat]
        /\ asked \in [Calls -> Ids \cup {None}] /\ pc \in [Calls -> Pcs]
    BY DEF TypeOK
  <1>2. ASSUME NEW how \in Pcs \ {"running", "ran", "approval_required"}, End(c, how),
               pc[c] \notin {"running", "ran"}, UNCHANGED usage
        PROVE  QuotaRespected'
    <2>1. \A d \in Calls : pc'[d] \in {"running", "ran"} <=> pc[d] \in {"running", "ran"}
      BY <1>1, <1>2 DEF End
    <2> QED
      BY <1>1, <1>2, <2>1, OtherStepsKeepQuota
  <1>3. CASE RejectInput(c)
    <2>1. pc[c] = "new" /\ End(c, "invalid") /\ UNCHANGED <<usage, asked>>
      BY <1>3 DEF RejectInput
    <2>2. QuotaRespected'
      BY <1>2, <2>1 DEF Pcs
    <2> QED
      BY <1>1, <1>3, <2>1, <2>2, CallStep DEF RejectInput, Pcs
  <1>4. CASE CheckDenied(c)
    <2>1. pc[c] = "new" /\ End(c, "denied") /\ UNCHANGED <<usage, asked>>
      BY <1>4 DEF CheckDenied, Checking
    <2>2. QuotaRespected'
      BY <1>2, <2>1 DEF Pcs
    <2> QED
      BY <1>1, <1>4, <2>1, <2>2, CallStep DEF CheckDenied, Pcs
  <1>5. CASE CheckAllows(c)
    <2>1. pc[c] = "new" /\ ~OverQuota(Tool(c)) /\ ConsumeAndRun(c) /\ UNCHANGED asked
      BY <1>5 DEF CheckAllows, Checking, Allowed
    <2>2. QuotaRespected'
      BY <1>1, <2>1, ConsumeKeepsQuota
    <2>3. usage' \in [Tools -> Nat] /\ End(c, "running")
      BY <1>1, <2>1 DEF ConsumeAndRun
    <2> QED
      BY <1>1, <1>5, <2>1, <2>2, <2>3, CallStep DEF CheckAllows, Pcs
  <1>6. CASE CheckGranted(c)
    <2>1. PICK i \in Ids :
             /\ asked' = [asked EXCEPT ![c] = i]
             /\ End(c, IF status[i] = "GRANTED" THEN "granted" ELSE "denied")
      BY <1>6 DEF CheckGranted
    <2>2. PICK how \in {"granted", "denied"} : End(c, how)
      BY <2>1
    <2>3. pc[c] = "new" /\ UNCHANGED usage
      BY <1>6 DEF CheckGranted
    <2>4. QuotaRespected'
      BY <1>2, <2>2, <2>3 DEF Pcs
    <2>5. asked' \in [Calls -> Ids \cup {None}] /\ \A d \in Calls \ {c} : asked'[d] = asked[d]
      BY <1>1, <2>1
    <2> QED
      BY <1>1, <1>6, <2>2, <2>3, <2>4, <2>5, CallStep DEF CheckGranted, Pcs
  <1>7. CASE ConsumeQuota(c)
    <2>1. pc[c] = "granted" /\ UNCHANGED asked
      BY <1>7 DEF ConsumeQuota
    <2>2. CASE OverQuota(Tool(c))
      <3>1. End(c, "denied") /\ UNCHANGED usage
        BY <1>7, <2>2 DEF ConsumeQuota
      <3>2. QuotaRespected'
        BY <1>2, <2>1, <3>1 DEF Pcs
      <3> QED
        BY <1>1, <1>7, <2>1, <3>1, <3>2, CallStep DEF ConsumeQuota, Pcs
    <2>3. CASE ~OverQuota(Tool(c))
      <3>1. ConsumeAndRun(c)
        BY <1>7, <2>3 DEF ConsumeQuota
      <3>2. QuotaRespected'
        BY <1>1, <2>1, <2>3, <3>1, ConsumeKeepsQuota
      <3>3. usage' \in [Tools -> Nat] /\ End(c, "running")
        BY <1>1, <3>1 DEF ConsumeAndRun
      <3> QED
        BY <1>1, <1>7, <2>1, <3>2, <3>3, CallStep DEF ConsumeQuota, Pcs
    <2> QED
      BY <2>2, <2>3
  <1>8. CASE ToolReturns(c)
    <2>1. pc[c] = "running" /\ End(c, "ran") /\ UNCHANGED <<usage, asked>>
      BY <1>8 DEF ToolReturns
    <2>2. \A d \in Calls : pc'[d] \in {"running", "ran"} <=> pc[d] \in {"running", "ran"}
      BY <1>1, <2>1 DEF End
    <2>3. QuotaRespected'
      BY <1>1, <2>1, <2>2, OtherStepsKeepQuota
    <2> QED
      BY <1>1, <1>8, <2>1, <2>3, CallStep DEF ToolReturns, Pcs
  <1> QED
    BY <1>3, <1>4, <1>5, <1>6, <1>7, <1>8

-----------------------------------------------------------------------------
(* Steps that change the approvals.                                        *)

\* createApproval hands out an id only after the entry is on disk.
LEMMA AsksKeepsIInv ==
    ASSUME IInv, NEW c \in Calls, CheckAsks(c)
    PROVE  IInv'
  <1> USE DEF IInv
  <1>1. PICK i \in Ids :
           /\ status[i] = "absent"
           /\ request[i] = None
           /\ status' = [status EXCEPT ![i] = "PENDING"]
           /\ request' = [request EXCEPT ![i] = RequestOf[c]]
           /\ \/ /\ diskStatus' = status'
                 /\ End(c, "approval_required")
                 /\ asked' = [asked EXCEPT ![c] = i]
                 /\ UNCHANGED failures
              \/ /\ Fail
                 /\ End(c, "error")
                 /\ UNCHANGED <<diskStatus, asked>>
    BY DEF CheckAsks
  <1>2. /\ pc[c] = "new"
        /\ UNCHANGED <<domains, diskDomains, usage, resolving, restarts, acked, torn>>
    BY DEF CheckAsks, Checking, domVars
  <1>3. TypeOK'
    <2>1. status' \in [Ids -> Status] /\ diskStatus' \in [Ids -> Status]
      BY <1>1 DEF TypeOK, Status
    <2>2. request' \in [Ids -> Requests \cup {None}]
      BY <1>1 DEF TypeOK
    <2>3. pc' \in [Calls -> Pcs]
      BY <1>1, EndType DEF Pcs
    <2>4. asked' \in [Calls -> Ids \cup {None}]
      BY <1>1 DEF TypeOK
    <2>5. failures' \in Nat
      BY <1>1 DEF TypeOK, Fail
    <2> QED
      BY <1>2, <2>1, <2>2, <2>3, <2>4, <2>5 DEF TypeOK
  <1>4. ResolvingIsPending'
    BY <1>1, <1>2 DEF ResolvingIsPending, TypeOK
  <1>5. diskStatus[i] = "absent" /\ acked[i] = "none"
    BY <1>1 DEF DiskBehindMemory, ResolutionIsFinal, TypeOK, Resolution, Status
  <1>6. \A j \in Ids : j # i => /\ status'[j] = status[j]
                                /\ request'[j] = request[j]
                                /\ diskStatus'[j] \in {diskStatus[j], status[j]}
    BY <1>1 DEF TypeOK
  <1>7. /\ status'[i] = "PENDING" /\ request'[i] = RequestOf[c]
        /\ diskStatus'[i] \in {"absent", "PENDING"}
    BY <1>1, <1>5 DEF TypeOK
  <1>8. DiskBehindMemory'
    BY <1>6, <1>7 DEF DiskBehindMemory, Resolution
  <1>9. ResolutionIsFinal'
    BY <1>2, <1>5, <1>6 DEF ResolutionIsFinal
  <1>10. \A j \in Ids : diskStatus[j] # "absent" => diskStatus'[j] # "absent" /\ j # i
    BY <1>5, <1>6 DEF DiskBehindMemory
  <1>11. AskedOnDisk'
    <2> SUFFICES ASSUME NEW d \in Calls, pc'[d] = "approval_required"
                 PROVE  /\ asked'[d] \in Ids
                        /\ diskStatus'[asked'[d]] # "absent"
                        /\ request'[asked'[d]] = RequestOf[d]
      BY DEF AskedOnDisk
    <2>1. CASE d = c
      <3>1. asked'[c] = i /\ diskStatus' = status'
        BY <1>1, <2>1 DEF End, TypeOK
      <3> QED
        BY <1>7, <2>1, <3>1
    <2>2. CASE d # c
      <3>1. pc[d] = "approval_required" /\ asked'[d] = asked[d]
        BY <1>1, <2>2 DEF End, TypeOK
      <3>2. asked[d] \in Ids /\ diskStatus[asked[d]] # "absent" /\ request[asked[d]] = RequestOf[d]
        BY <3>1 DEF AskedOnDisk
      <3> QED
        BY <1>6, <1>10, <3>1, <3>2
    <2> QED
      BY <2>1, <2>2
  <1>12. HostsVouched'
    <2>1. \A j \in Ids : \A h \in Hosts : Vouches(j, h) => Vouches(j, h)'
      <3> SUFFICES ASSUME NEW j \in Ids, NEW h \in Hosts, Vouches(j, h) PROVE Vouches(j, h)'
        OBVIOUS
      <3>1. j # i /\ request'[j] = request[j]
        BY <1>1, <1>6 DEF Vouches
      <3>2. diskStatus[j] = "GRANTED" => diskStatus'[j] = "GRANTED"
        BY <1>6, <3>1 DEF DiskBehindMemory, Resolution
      <3> QED
        BY <1>2, <3>1, <3>2 DEF Vouches
    <2> QED
      BY <1>2, <2>1 DEF HostsVouched, TypeOK
  <1>13. QuotaRespected'
    <2>1. \A d \in Calls : pc'[d] \in {"running", "ran"} <=> pc[d] \in {"running", "ran"}
      BY <1>1, <1>2 DEF End, TypeOK
    <2> QED
      BY <1>2, <2>1, OtherStepsKeepQuota
  <1> QED
    BY <1>3, <1>4, <1>8, <1>9, <1>11, <1>12, <1>13

\* Saving the resolution of a pending approval: memory always has it, the file and
\* the user have it together or not at all, and no other approval changes.
LEMMA ResolutionSaved ==
    ASSUME IInv, NEW i \in Ids, NEW r \in Resolution, status[i] = "PENDING",
           SaveResolution(i, [status EXCEPT ![i] = r]), UNCHANGED request
    PROVE  /\ status' \in [Ids -> Status] /\ diskStatus' \in [Ids -> Status]
           /\ failures' \in Nat
           /\ acked' \in [Ids -> Resolution \cup {"none"}]
           /\ DiskBehindMemory'
           /\ ResolutionIsFinal'
           /\ status'[i] = r
           /\ acked'[i] = "GRANTED" => diskStatus'[i] = "GRANTED"
           /\ \A j \in Ids : j # i => status'[j] = status[j]
           /\ \A j \in Ids : diskStatus[j] # "absent" => diskStatus'[j] # "absent"
           /\ \A j \in Ids : diskStatus[j] = "GRANTED" => diskStatus'[j] = "GRANTED"
  <1> USE DEF IInv
  <1>1. /\ status \in [Ids -> Status] /\ diskStatus \in [Ids -> Status]
        /\ acked \in [Ids -> Resolution \cup {"none"}] /\ failures \in Nat
    BY DEF TypeOK
  <1>2. acked[i] = "none"
    BY <1>1 DEF ResolutionIsFinal, Resolution
  <1>3. diskStatus[i] \notin Resolution
    BY <1>1 DEF DiskBehindMemory, Resolution
  <1>4. /\ status' = [status EXCEPT ![i] = r]
        /\ \/ /\ diskStatus' = [status EXCEPT ![i] = r]
              /\ acked' = [acked EXCEPT ![i] = r]
              /\ failures' = failures
           \/ /\ diskStatus' = diskStatus
              /\ acked' = acked
              /\ failures' = failures + 1
    BY <1>1 DEF SaveResolution, Fail
  <1>5. status' \in [Ids -> Status] /\ diskStatus' \in [Ids -> Status]
    BY <1>1, <1>4 DEF Status
  <1>6. acked' \in [Ids -> Resolution \cup {"none"}] /\ failures' \in Nat
    BY <1>1, <1>4
  <1>7. status'[i] = r /\ \A j \in Ids : j # i => status'[j] = status[j]
    BY <1>1, <1>4
  <1>8. CASE diskStatus' = diskStatus /\ acked' = acked
    <2>1. DiskBehindMemory'
      BY <1>1, <1>3, <1>7, <1>8 DEF DiskBehindMemory, Resolution
    <2>2. ResolutionIsFinal'
      BY <1>2, <1>7, <1>8 DEF ResolutionIsFinal
    <2> QED
      BY <1>2, <1>5, <1>6, <1>7, <1>8, <2>1, <2>2
  <1>9. CASE diskStatus' = status' /\ acked' = [acked EXCEPT ![i] = r]
    <2>1. DiskBehindMemory'
      BY <1>1, <1>7, <1>9 DEF DiskBehindMemory, Resolution
    <2>2. ResolutionIsFinal'
      BY <1>1, <1>7, <1>9 DEF ResolutionIsFinal
    <2>3. \A j \in Ids : /\ diskStatus[j] # "absent" => diskStatus'[j] # "absent"
                         /\ diskStatus[j] = "GRANTED" => diskStatus'[j] = "GRANTED"
      BY <1>1, <1>3, <1>7, <1>9 DEF DiskBehindMemory, Resolution
    <2> QED
      BY <1>1, <1>5, <1>6, <1>7, <1>9, <2>1, <2>2, <2>3
  <1> QED
    BY <1>4, <1>8, <1>9

\* The parts of IInv that survive a save whatever else the step did, as long as it
\* left the calls alone and the hosts are still vouched for.
LEMMA SavedKeepsCalls ==
    ASSUME IInv, UNCHANGED <<request, pc, asked, usage>>,
           \A j \in Ids : diskStatus[j] # "absent" => diskStatus'[j] # "absent"
    PROVE  AskedOnDisk' /\ QuotaRespected'
  <1>1. AskedOnDisk'
    BY DEF IInv, AskedOnDisk
  <1>2. QuotaRespected'
    BY OtherStepsKeepQuota DEF IInv
  <1> QED
    BY <1>1, <1>2

\* Resolve when it touches approvals.json only.
LEMMA ResolveKeepsIInv ==
    ASSUME IInv, NEW i \in Ids, Deny(i) \/ Grant(i)
    PROVE  IInv'
  <1> USE DEF IInv
  <1>1. PICK r \in Resolution : SaveResolution(i, [status EXCEPT ![i] = r])
    BY DEF Deny, Grant, Resolution
  <1>2. /\ status[i] = "PENDING" /\ resolving = None
        /\ UNCHANGED <<request, domains, diskDomains, usage, pc, asked, resolving, restarts, torn>>
    BY DEF Deny, Grant, Unlocked, domVars
  <1>3. /\ status' \in [Ids -> Status] /\ diskStatus' \in [Ids -> Status]
        /\ failures' \in Nat
        /\ acked' \in [Ids -> Resolution \cup {"none"}]
        /\ DiskBehindMemory' /\ ResolutionIsFinal'
        /\ \A j \in Ids : diskStatus[j] # "absent" => diskStatus'[j] # "absent"
        /\ \A j \in Ids : diskStatus[j] = "GRANTED" => diskStatus'[j] = "GRANTED"
    BY <1>1, <1>2, ResolutionSaved
  <1>4. TypeOK'
    BY <1>2, <1>3 DEF TypeOK
  <1>5. ResolvingIsPending'
    BY <1>2 DEF ResolvingIsPending
  <1>6. AskedOnDisk' /\ QuotaRespected'
    BY <1>2, <1>3, SavedKeepsCalls
  <1>7. HostsVouched'
    BY <1>2, <1>3 DEF HostsVouched, Vouches
  <1> QED
    BY <1>3, <1>4, <1>5, <1>6, <1>7

\* The first half of a grant for a new host: the approval vouches for it.
LEMMA GrantHostKeepsIInv ==
    ASSUME IInv, NEW i \in Ids, GrantHost(i)
    PROVE  IInv'
  <1> USE DEF IInv
  <1>1. /\ status[i] = "PENDING" /\ resolving = None /\ resolving' = i
        /\ HostOf[request[i]] # None
        /\ domains' = domains \cup {HostOf[request[i]]}
        /\ diskDomains' \in {domains', diskDomains}
        /\ failures' \in {failures, failures + 1}
        /\ UNCHANGED <<status, request, diskStatus, usage, pc, asked, restarts, acked, torn>>
    BY DEF GrantHost, Unlocked, NewHost, Fail, apVars
  <1>2. request[i] \in Requests /\ request[i] # None
    BY <1>1 DEF DiskBehindMemory, TypeOK
  <1>3. HostOf[request[i]] \in Hosts
    BY <1>1, <1>2
  <1>4. TypeOK'
    BY <1>1, <1>3 DEF TypeOK
  <1>5. ResolvingIsPending' /\ DiskBehindMemory' /\ ResolutionIsFinal'
    BY <1>1 DEF ResolvingIsPending, DiskBehindMemory, ResolutionIsFinal
  <1>6. AskedOnDisk' /\ QuotaRespected'
    BY <1>1, SavedKeepsCalls
  <1>7. HostsVouched'
    <2>1. \A j \in Ids, h \in Hosts : Vouches(j, h) => Vouches(j, h)'
      BY <1>1, NoneType DEF Vouches
    <2>2. Vouches(i, HostOf[request[i]])'
      BY <1>1, <1>2 DEF Vouches
    <2>3. ASSUME NEW h \in domains' \cup diskDomains' PROVE \E j \in Ids : Vouches(j, h)'
      <3>1. CASE h = HostOf[request[i]]
        BY <2>2, <3>1, <1>1
      <3>2. CASE h # HostOf[request[i]]
        <4>1. h \in domains \cup diskDomains /\ h \in Hosts
          BY <1>1, <2>3, <3>2 DEF TypeOK
        <4> QED
          BY <2>1, <4>1 DEF HostsVouched
      <3> QED
        BY <3>1, <3>2
    <2> QED
      BY <2>3 DEF HostsVouched
  <1> QED
    BY <1>4, <1>5, <1>6, <1>7

\* The second half: saved, or remembered as torn.
LEMMA GrantSaveKeepsIInv ==
    ASSUME IInv, GrantSave
    PROVE  IInv'
  <1> USE DEF IInv
  <1> DEFINE i == resolving
  <1>1. /\ i \in Ids /\ status[i] = "PENDING"
        /\ SaveResolution(i, [status EXCEPT ![i] = "GRANTED"])
        /\ torn' = (IF acked'[i] = "GRANTED" THEN torn ELSE torn \cup {i})
        /\ resolving' = None
        /\ UNCHANGED <<request, domains, diskDomains, usage, pc, asked, restarts>>
    BY DEF GrantSave, ResolvingIsPending, TypeOK, domVars
  <1>2. /\ status' \in [Ids -> Status] /\ diskStatus' \in [Ids -> Status]
        /\ failures' \in Nat
        /\ acked' \in [Ids -> Resolution \cup {"none"}]
        /\ DiskBehindMemory' /\ ResolutionIsFinal'
        /\ acked'[i] = "GRANTED" => diskStatus'[i] = "GRANTED"
        /\ \A j \in Ids : diskStatus[j] # "absent" => diskStatus'[j] # "absent"
        /\ \A j \in Ids : diskStatus[j] = "GRANTED" => diskStatus'[j] = "GRANTED"
    <2>1. "GRANTED" \in Resolution
      BY DEF Resolution
    <2> HIDE DEF i
    <2> QED
      BY <1>1, <2>1, ResolutionSaved
  <1>3. TypeOK'
    BY <1>1, <1>2 DEF TypeOK
  <1>4. ResolvingIsPending'
    BY <1>1 DEF ResolvingIsPending
  <1>5. AskedOnDisk' /\ QuotaRespected'
    BY <1>1, <1>2, SavedKeepsCalls
  <1>6. HostsVouched'
    <2>1. ASSUME NEW j \in Ids, NEW h \in Hosts, Vouches(j, h) PROVE Vouches(j, h)'
      <3>1. diskStatus'[j] = "GRANTED" \/ j \in torn'
        BY <1>1, <1>2, <2>1 DEF Vouches
      <3> QED
        BY <1>1, <2>1, <3>1 DEF Vouches
    <2> QED
      BY <1>1, <2>1 DEF HostsVouched, TypeOK
  <1> QED
    BY <1>2, <1>3, <1>4, <1>5, <1>6

\* A restart: memory becomes what the files hold, nothing runs.
LEMMA RestartKeepsIInv ==
    ASSUME IInv, Restart
    PROVE  IInv'
  <1> USE DEF IInv
  <1>1. /\ status' = diskStatus /\ domains' = diskDomains /\ resolving' = None
        /\ torn' = (IF resolving = None THEN torn ELSE torn \cup {resolving})
        /\ restarts' = restarts + 1
        /\ usage' = [t \in Tools |-> 0]
        /\ UNCHANGED <<request, diskStatus, diskDomains, asked, failures, acked>>
    BY DEF Restart
  <1>2. \A c \in Calls : /\ pc'[c] \in Pcs \ {"running", "ran"}
                         /\ pc'[c] = "approval_required" => pc[c] = "approval_required"
    BY DEF Restart, TypeOK, Pcs
  <1>3. TypeOK'
    <2>1. pc' \in [Calls -> Pcs]
      BY DEF Restart, TypeOK, Pcs
    <2>2. usage' \in [Tools -> Nat]
      BY <1>1
    <2> QED
      BY <1>1, <2>1, <2>2 DEF TypeOK
  <1>4. ResolvingIsPending' /\ ResolutionIsFinal'
    BY <1>1 DEF ResolvingIsPending, ResolutionIsFinal
  <1>5. DiskBehindMemory'
    BY <1>1 DEF DiskBehindMemory
  <1>6. AskedOnDisk'
    BY <1>1, <1>2 DEF AskedOnDisk
  <1>7. HostsVouched'
    <2>1. \A j \in Ids, h \in Hosts : Vouches(j, h) => Vouches(j, h)'
      BY <1>1, NoneType DEF Vouches
    <2> QED
      BY <1>1, <2>1 DEF HostsVouched, TypeOK
  <1>8. QuotaRespected'
    <2> SUFFICES ASSUME NEW t \in Tools
                 PROVE  Cardinality(Runs(t)') <= usage'[t] /\ usage'[t] <= DailyLimit
      BY DEF QuotaRespected, Runs
    <2>1. Runs(t)' = {}
      BY <1>2 DEF Runs
    <2>2. usage'[t] = 0
      BY <1>1
    <2> QED
      BY <2>1, <2>2, FS_EmptySet
  <1> QED
    BY <1>3, <1>4, <1>5, <1>6, <1>7, <1>8

-----------------------------------------------------------------------------
(* The theorems.                                                           *)

\* The engine starts in IInv.
LEMMA InitIInv == Init => IInv
  <1> SUFFICES ASSUME Init PROVE IInv
    OBVIOUS
  <1>1. TypeOK
    BY DEF Init, TypeOK, Status, Pcs
  <1>2. ResolvingIsPending /\ DiskBehindMemory /\ ResolutionIsFinal /\ AskedOnDisk
    BY DEF Init, ResolvingIsPending, DiskBehindMemory, ResolutionIsFinal, AskedOnDisk, Resolution
  <1>3. HostsVouched
    BY DEF Init, HostsVouched
  <1>4. QuotaRespected
    <2> SUFFICES ASSUME NEW t \in Tools
                 PROVE  Cardinality(Runs(t)) <= usage[t] /\ usage[t] <= DailyLimit
      BY DEF QuotaRespected, Runs
    <2>1. Runs(t) = {} /\ usage[t] = 0
      BY DEF Init, Runs
    <2> QED
      BY <2>1, FS_EmptySet
  <1> QED
    BY <1>1, <1>2, <1>3, <1>4 DEF IInv

\* Every step of the engine, its callers and the process keeps IInv.
THEOREM Invariance == Spec => []IInv
  <1>1. Init => IInv
    BY InitIInv
  <1>2. IInv /\ [Next]_vars => IInv'
    <2> SUFFICES ASSUME IInv, [Next]_vars PROVE IInv'
      OBVIOUS
    <2>1. ASSUME NEW c \in Calls, Execute(c) PROVE IInv'
      BY <2>1, AsksKeepsIInv, ExecuteKeepsIInv DEF Execute
    <2>2. ASSUME NEW i \in Ids, Deny(i) \/ Grant(i) PROVE IInv'
      BY <2>2, ResolveKeepsIInv
    <2>3. ASSUME NEW i \in Ids, GrantHost(i) PROVE IInv'
      BY <2>3, GrantHostKeepsIInv
    <2>4. CASE GrantSave
      BY <2>4, GrantSaveKeepsIInv
    <2>5. CASE Restart
      BY <2>5, RestartKeepsIInv
    <2>6. CASE UNCHANGED vars
      <3>1. TypeOK' /\ ResolvingIsPending' /\ DiskBehindMemory' /\ ResolutionIsFinal' /\ AskedOnDisk'
        BY <2>6 DEF vars, apVars, domVars, boundVars, IInv, TypeOK, ResolvingIsPending,
                    DiskBehindMemory, ResolutionIsFinal, AskedOnDisk
      <3>2. HostsVouched'
        BY <2>6 DEF vars, apVars, domVars, IInv, HostsVouched, Vouches
      <3>3. QuotaRespected'
        BY <2>6, OtherStepsKeepQuota DEF vars, IInv
      <3> QED
        BY <3>1, <3>2, <3>3 DEF IInv
    <2> QED
      BY <2>1, <2>2, <2>3, <2>4, <2>5, <2>6 DEF Next
  <1> QED
    BY <1>1, <1>2, PTL DEF Spec

\* Types of the engine's state (policy.Engine and the calls of Runner.Execute).
THEOREM TypeCorrect == Spec => []TypeOK
  BY Invariance, PTL DEF IInv

\* No interleaving of calls, with or without an approval id, runs a tool more often
\* in the life of an engine than the configured limit (Check, ConsumeQuota).
THEOREM QuotaHolds == Spec => []QuotaRespected
  BY Invariance, PTL DEF IInv

\* A resolution the user was told of is never undone, in memory or on disk
\* (Engine.Resolve, load).
THEOREM ResolutionsFinal == Spec => []ResolutionIsFinal
  BY Invariance, PTL DEF IInv

\* An approval id that was handed out names a known approval of that request, also
\* after a restart (createApproval, load).
THEOREM AskedApprovalsKnown == Spec => []AskedIsKnown
  <1>1. IInv => AskedIsKnown
    BY DEF IInv, AskedOnDisk, AskedIsKnown, DiskBehindMemory
  <1> QED
    BY <1>1, Invariance, PTL

\* The allowlist grows by grants only: every allowed host has a granted approval, or
\* one whose grant ended between its two files (Resolve, saveDomains).
THEOREM AllowlistGranted == Spec => []HostsAreGranted
  <1>1. IInv => HostsAreGranted
    BY DEF IInv, HostsVouched, Vouches, HostsAreGranted, DiskBehindMemory, Resolution
  <1> QED
    BY <1>1, Invariance, PTL

=============================================================================
