---------------------------- MODULE PolicyEngine ----------------------------
(***************************************************************************)
(* Tool governance: tool.Runner.Execute asking policy.Engine, approvals    *)
(* with their resolution by /approve and /deny, the domain allowlist, the  *)
(* per-tool quota, and what of it survives failing writes and restarts.    *)
(*                                                                         *)
(* A request is a tool together with its input; a call is one attempt to   *)
(* run a request.  Calls run concurrently (two lanes, parallel sub-tasks). *)
(***************************************************************************)
EXTENDS Naturals, FiniteSets

CONSTANTS Calls,           \* calls of Runner.Execute
          Requests,        \* tool and input of a call
          RequestOf,       \* [Calls -> Requests]
          Tools, ToolOf,   \* the tool of a request (normalized name)
          Hosts, HostOf,   \* the host of the input's url, or None
          PermOf,          \* the input's sandbox_permissions
          Invalid,         \* requests with an unknown tool or invalid input
          AutoAllow, RequireApproval,  \* the configured tool lists
          DailyLimit,      \* config.DailyToolLimit
          Ids,             \* approval ids still unused
          PassesId,        \* calls that carry an approval id
          MaxFailures,     \* bound: failing writes
          MaxRestarts,     \* bound: process restarts
          None

Perms == {"unset", "use_default", "require_escalated", "other"}

ASSUME CallsFinite   == IsFiniteSet(Calls)
ASSUME RequestOfType == RequestOf \in [Calls -> Requests]
ASSUME ToolOfType    == ToolOf \in [Requests -> Tools]
ASSUME HostOfType    == HostOf \in [Requests -> Hosts \cup {None}]
ASSUME PermOfType    == PermOf \in [Requests -> Perms]
ASSUME SetsType      == /\ Invalid \subseteq Requests
                        /\ AutoAllow \subseteq Tools
                        /\ RequireApproval \subseteq Tools
                        /\ PassesId \subseteq Calls
ASSUME LimitType     == DailyLimit \in Nat \ {0}
ASSUME BoundsType    == MaxFailures \in Nat /\ MaxRestarts \in Nat
ASSUME NoneType      == None \notin Requests \cup Hosts \cup Ids

VARIABLES
    status,       \* approvals in memory: status of each id, "absent" if none
    request,      \* Approval.Tool and Approval.Input of each id: fixed when the id
                  \* is drawn, and an id is drawn once
    diskStatus,   \* approvals.json (the input is written once, with the entry)
    domains,      \* allowedDomains
    diskDomains,  \* domains.json
    usage,        \* runs per tool since the engine was created
    pc,           \* where each call is, or how it ended
    asked,        \* the approval id a call was answered with
    resolving,    \* the grant whose domains are saved and whose approvals are not
    failures, restarts,
    acked,        \* history: how the caller of Resolve was told it ended
    torn          \* history: grants that ended between their two files

apVars   == <<status, request, diskStatus>>
domVars  == <<domains, diskDomains>>
boundVars == <<failures, restarts>>
vars == <<apVars, domVars, usage, pc, asked, resolving, boundVars, acked, torn>>

Resolution == {"GRANTED", "DENIED"}
Status == {"absent", "PENDING"} \cup Resolution

Init ==
    /\ status = [i \in Ids |-> "absent"]
    /\ request = [i \in Ids |-> None]
    /\ diskStatus = [i \in Ids |-> "absent"]
    /\ domains = {}
    /\ diskDomains = {}
    /\ usage = [t \in Tools |-> 0]
    /\ pc = [c \in Calls |-> "new"]
    /\ asked = [c \in Calls |-> None]
    /\ resolving = None
    /\ failures = 0
    /\ restarts = 0
    /\ acked = [i \in Ids |-> "none"]
    /\ torn = {}

Tool(c) == ToolOf[RequestOf[c]]
Host(c) == HostOf[RequestOf[c]]
Perm(c) == PermOf[RequestOf[c]]

Fail == failures < MaxFailures /\ failures' = failures + 1

\* Engine.mu: the grant in progress holds it.
Unlocked == resolving = None

End(c, how) == pc' = [pc EXCEPT ![c] = how]

-----------------------------------------------------------------------------
(* Runner.Execute and Engine.Check                                         *)

\* The registry does not know the tool, or ValidateInput refuses the input.
RejectInput(c) ==
    /\ pc[c] = "new"
    /\ RequestOf[c] \in Invalid
    /\ End(c, "invalid")
    /\ UNCHANGED <<apVars, domVars, usage, asked, resolving, boundVars, acked, torn>>

\* Check is entered: no approval id, the engine's mutex is free.
Checking(c) ==
    /\ pc[c] = "new"
    /\ RequestOf[c] \notin Invalid
    /\ c \notin PassesId
    /\ Unlocked

Escalated(c) == Perm(c) = "require_escalated"
Forbidden(c) == Perm(c) = "other"
OverQuota(t) == usage[t] >= DailyLimit

\* Needs an approval: escalation before anything else; then an unknown host;
\* a tool on the list, unless the input carries a host or it is auto-allowed.
NeedsApproval(c) ==
    \/ Escalated(c)
    \/ /\ ~Forbidden(c)
       /\ ~OverQuota(Tool(c))
       /\ IF Host(c) # None
          THEN Host(c) \notin domains
          ELSE Tool(c) \in RequireApproval \ AutoAllow

Allowed(c) == ~Escalated(c) /\ ~Forbidden(c) /\ ~OverQuota(Tool(c)) /\ ~NeedsApproval(c)

CheckDenied(c) ==
    /\ Checking(c)
    /\ ~Escalated(c)
    /\ Forbidden(c) \/ OverQuota(Tool(c))
    /\ End(c, "denied")
    /\ UNCHANGED <<apVars, domVars, usage, asked, resolving, boundVars, acked, torn>>

\* Mutant of CheckAsks: the id is handed out and the entry not written.
AskUnsaved(c) ==
    /\ Checking(c)
    /\ NeedsApproval(c)
    /\ \E i \in Ids :
          /\ status[i] = "absent"
          /\ request[i] = None
          /\ status' = [status EXCEPT ![i] = "PENDING"]
          /\ request' = [request EXCEPT ![i] = RequestOf[c]]
          /\ asked' = [asked EXCEPT ![c] = i]
    /\ End(c, "approval_required")
    /\ UNCHANGED <<diskStatus, domVars, usage, resolving, boundVars, acked, torn>>

\* createApproval: the entry stays in memory when it cannot be written, and
\* the caller is not told its id.
CheckAsks(c) ==
    /\ Checking(c)
    /\ NeedsApproval(c)
    /\ \E i \in Ids :
          /\ status[i] = "absent"
          /\ request[i] = None
          /\ status' = [status EXCEPT ![i] = "PENDING"]
          /\ request' = [request EXCEPT ![i] = RequestOf[c]]
          /\ \/ /\ diskStatus' = status'
                /\ End(c, "approval_required")
                /\ asked' = [asked EXCEPT ![c] = i]
                /\ UNCHANGED failures
             \/ /\ Fail
                /\ End(c, "error")
                /\ UNCHANGED <<diskStatus, asked>>
    /\ UNCHANGED <<domVars, usage, resolving, restarts, acked, torn>>

ConsumeAndRun(c) ==
    /\ usage' = [usage EXCEPT ![Tool(c)] = @ + 1]
    /\ End(c, "running")

CheckAllows(c) ==
    /\ Checking(c)
    /\ Allowed(c)
    /\ ConsumeAndRun(c)
    /\ UNCHANGED <<apVars, domVars, asked, resolving, boundVars, acked, torn>>

\* A call with an approval id: IsGranted ...
CheckGranted(c) ==
    /\ pc[c] = "new"
    /\ RequestOf[c] \notin Invalid
    /\ c \in PassesId
    /\ Unlocked
    /\ \E i \in Ids :
          /\ asked' = [asked EXCEPT ![c] = i]
          /\ End(c, IF status[i] = "GRANTED" THEN "granted" ELSE "denied")
    /\ UNCHANGED <<apVars, domVars, usage, resolving, boundVars, acked, torn>>

\* Mutant of ConsumeQuota: counts without looking at the limit again.
ConsumeUnchecked(c) ==
    /\ pc[c] = "granted"
    /\ Unlocked
    /\ ConsumeAndRun(c)
    /\ UNCHANGED <<apVars, domVars, asked, resolving, boundVars, acked, torn>>

\* ... then, under a second acquisition of the mutex, ConsumeQuota.
ConsumeQuota(c) ==
    /\ pc[c] = "granted"
    /\ Unlocked
    /\ IF OverQuota(Tool(c))
       THEN End(c, "denied") /\ UNCHANGED usage
       ELSE ConsumeAndRun(c)
    /\ UNCHANGED <<apVars, domVars, asked, resolving, boundVars, acked, torn>>

\* The tool ran, with a result or an error.
ToolReturns(c) ==
    /\ pc[c] = "running"
    /\ End(c, "ran")
    /\ UNCHANGED <<apVars, domVars, usage, asked, resolving, boundVars, acked, torn>>

-----------------------------------------------------------------------------
(* Engine.Resolve                                                          *)

\* save of the approvals, with the answer Resolve returns.
SaveResolution(i, st) ==
    /\ status' = st
    /\ \/ /\ diskStatus' = st
          /\ acked' = [acked EXCEPT ![i] = st[i]]
          /\ UNCHANGED failures
       \/ /\ Fail
          /\ UNCHANGED <<diskStatus, acked>>

\* Mutant of Deny: the approval need not be pending.
DenyResolved(i) ==
    /\ Unlocked
    /\ status[i] # "absent"
    /\ SaveResolution(i, [status EXCEPT ![i] = "DENIED"])
    /\ UNCHANGED <<request, domVars, usage, pc, asked, resolving, restarts, torn>>

\* Mutant of Deny: the host goes to the allowlist whatever the answer.
DenyAllowsHost(i) ==
    /\ Unlocked
    /\ status[i] = "PENDING"
    /\ SaveResolution(i, [status EXCEPT ![i] = "DENIED"])
    /\ domains' = domains \cup ({HostOf[request[i]]} \ {None})
    /\ UNCHANGED <<request, diskDomains, usage, pc, asked, resolving, restarts, torn>>

Deny(i) ==
    /\ Unlocked
    /\ status[i] = "PENDING"
    /\ SaveResolution(i, [status EXCEPT ![i] = "DENIED"])
    /\ UNCHANGED <<request, domVars, usage, pc, asked, resolving, restarts, torn>>

\* Mutant of NewHost: does not ask whether the input has a host.
AnyHost(i) == HostOf[request[i]] \notin domains

NewHost(i) == HostOf[request[i]] # None /\ HostOf[request[i]] \notin domains

Grant(i) ==
    /\ Unlocked
    /\ status[i] = "PENDING"
    /\ ~NewHost(i)
    /\ SaveResolution(i, [status EXCEPT ![i] = "GRANTED"])
    /\ UNCHANGED <<request, domVars, usage, pc, asked, resolving, restarts, torn>>

\* A grant for a url first allows its host and saves that (the error, if any,
\* is dropped) ...
GrantHost(i) ==
    /\ Unlocked
    /\ status[i] = "PENDING"
    /\ NewHost(i)
    /\ domains' = domains \cup {HostOf[request[i]]}
    /\ \/ diskDomains' = domains' /\ UNCHANGED failures
       \/ Fail /\ UNCHANGED diskDomains
    /\ resolving' = i
    /\ UNCHANGED <<apVars, usage, pc, asked, restarts, acked, torn>>

\* ... and then saves the approvals.
GrantSave ==
    /\ resolving # None
    /\ SaveResolution(resolving, [status EXCEPT ![resolving] = "GRANTED"])
    /\ torn' = IF acked'[resolving] = "GRANTED" THEN torn ELSE torn \cup {resolving}
    /\ resolving' = None
    /\ UNCHANGED <<request, domVars, usage, pc, asked, restarts>>

\* The process ends at any point; NewEngine loads the two files, the usage
\* counters start from zero.
Restart ==
    /\ restarts < MaxRestarts
    /\ restarts' = restarts + 1
    /\ status' = diskStatus
    /\ domains' = diskDomains
    /\ usage' = [t \in Tools |-> 0]
    /\ pc' = [c \in Calls |-> IF pc[c] \in {"running", "granted"} THEN "gone"
                              ELSE IF pc[c] = "ran" THEN "past" ELSE pc[c]]
    /\ resolving' = None
    /\ torn' = IF resolving = None THEN torn ELSE torn \cup {resolving}
    /\ UNCHANGED <<request, diskStatus, diskDomains, asked, failures, acked>>

-----------------------------------------------------------------------------

Execute(c) ==
    \/ RejectInput(c) \/ CheckDenied(c) \/ CheckAsks(c) \/ CheckAllows(c)
    \/ CheckGranted(c) \/ ConsumeQuota(c) \/ ToolReturns(c)

Next ==
    \/ \E c \in Calls : Execute(c)
    \/ \E i \in Ids : Deny(i) \/ Grant(i) \/ GrantHost(i)
    \/ GrantSave
    \/ Restart

Spec == Init /\ [][Next]_vars

-----------------------------------------------------------------------------
(* Properties                                                              *)

Pcs == {"new", "invalid", "denied", "approval_required", "error", "granted",
        "running", "ran", "gone", "past"}

TypeOK ==
    /\ status \in [Ids -> Status]
    /\ request \in [Ids -> Requests \cup {None}]
    /\ diskStatus \in [Ids -> Status]
    /\ domains \subseteq Hosts
    /\ diskDomains \subseteq Hosts
    /\ usage \in [Tools -> Nat]
    /\ pc \in [Calls -> Pcs]
    /\ asked \in [Calls -> Ids \cup {None}]
    /\ resolving \in Ids \cup {None}
    /\ failures \in Nat
    /\ restarts \in Nat
    /\ acked \in [Ids -> Resolution \cup {"none"}]
    /\ torn \subseteq Ids

\* The runs of a tool in the life of one engine, allowed by Check or by a
\* granted approval, never exceed the configured limit, however many calls
\* race between IsGranted and ConsumeQuota.
QuotaRespected ==
    \A t \in Tools :
        /\ Cardinality({c \in Calls : pc[c] \in {"running", "ran"} /\ Tool(c) = t}) <= usage[t]
        /\ usage[t] <= DailyLimit

\* A resolution the user was told about is final: no failing write, restart or
\* concurrent command makes it pending again or turns a denial into a grant
\* (Engine.Resolve).
ResolutionIsFinal ==
    \A i \in Ids : acked[i] # "none" => status[i] = acked[i] /\ diskStatus[i] = acked[i]

\* An approval a caller was asked for can be resolved: its id is known, with
\* that caller's request, before and after any restart (createApproval).
AskedIsKnown ==
    \A c \in Calls :
        pc[c] = "approval_required" =>
            status[asked[c]] # "absent" /\ request[asked[c]] = RequestOf[c]

\* A host is allowed only by a granted approval for it; the exception is a
\* grant whose approval could not be written after its host was (Resolve saves
\* two files).
HostsAreGranted ==
    \A h \in domains \cup diskDomains :
        \E i \in Ids :
            /\ request[i] # None
            /\ HostOf[request[i]] = h
            /\ status[i] = "GRANTED" \/ i = resolving \/ i \in torn

\* Retry execution proceeds with granted approval: a call that repeats a request
\* with a granted approval is not sent for approval again.
GrantedRetryProceeds ==
    [][\A c \in Calls :
          (pc[c] = "new" /\ pc'[c] = "approval_required") =>
              ~\E i \in Ids : status[i] = "GRANTED" /\ request[i] = RequestOf[c]]_vars

=============================================================================
