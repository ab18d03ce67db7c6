---------------------------- MODULE StoreWorker ----------------------------
(***************************************************************************)
(* The store worker of a workspace: one goroutine that serves requests     *)
(* from a bounded inbox and owns the session index, the transcripts and    *)
(* the persisted idempotency keys, together with the operations that are   *)
(* several requests long (ensureSession, /model, /clear) and with stops,   *)
(* crashes, failing writes and restarts.                                   *)
(*                                                                         *)
(* A session's Metadata map is shared by reference: GetSession hands out   *)
(* the map the index holds, and /model writes into it before it saves.     *)
(* Maps are named by who made them: a client, or the load of a session.    *)
(***************************************************************************)
EXTENDS Naturals, Sequences

CONSTANTS Clients,      \* callers, each runs one operation
          Sessions, Keys,
          Scenarios,    \* the assignments of operations to clients to explore
          InboxSize,    \* capacity of the inbox
          TTL,          \* idempotency TTL, in seconds of the clock
          MaxTime,      \* bound: the clock stops there
          MaxFailures,  \* bound: failing disk writes
          MaxRestarts,  \* bound: process restarts
          None

Maps == Clients \cup Sessions

Kinds == {"ensure", "model", "clear", "write", "mark"}

\* A command runs after the Submit that carried it ensured its session.
Role == [kind : Kinds, session : Sessions, key : Keys, after : Clients \cup {None}]

Ops == {"get", "save", "reset", "write", "saveKeys"}

Request == [client : Clients, op : Ops]

ASSUME ScenariosType   == Scenarios \subseteq [Clients -> Role]
ASSUME InboxSizeType   == InboxSize \in Nat \ {0}
ASSUME TTLType         == TTL \in Nat
ASSUME BoundsType      == MaxTime \in Nat \ {0} /\ MaxFailures \in Nat /\ MaxRestarts \in Nat
ASSUME NoneType        == None \notin Maps \cup Request \cup {"plain"}
ASSUME MapsDistinct    == Clients \cap Sessions = {} /\ "plain" \notin Clients

VARIABLES
    role,       \* what each client does (chosen once)
    next,       \* the request a client makes next, or how its operation ended
    waiting,    \* clients blocked on a reply
    got,        \* the map GetSession answered with
    inbox,      \* queued requests: [client, op]
    serving,    \* the second half of a request being handled, or None
    state,      \* "up", "stopping" (quit closed), "down" (loop gone)
    index,      \* SessionIndex in memory: each session's map, or None
    model,      \* content of each map: the model it names, or "plain"
    diskIndex,  \* sessions/index.json: content per session, or None
    file,       \* transcript of each session (lines are named by their writer)
    ragged,     \* sessions whose transcript ends in a line without its newline
    backup,     \* rotated transcripts, by session and second of rotation
    keys,       \* idempotency marks in memory: expiry, 0 when absent
    diskKeys,   \* processed_keys.json
    now, failures, restarts,
    acked,      \* history: lines whose WriteTranscript returned nil, in that order
    wiped,      \* history: lines removed by ResetSession
    clobbered,  \* history: lines whose backup was overwritten by a rename
    garbled,    \* history: lines written behind one without its newline
    chosen,     \* history: the model the last acknowledged /model set, per session
    unsaved,    \* history: models written into a map of a session since then
    marked,     \* history: second of the last mark of a key, None before
    lost,       \* history: keys whose mark was not on disk when the process ended
    remarked    \* history: keys marked again within the TTL of their last mark

clientVars == <<role, next, waiting, got>>
diskVars   == <<diskIndex, file, ragged, backup, diskKeys>>
clockVars  == <<now, failures, restarts>>
histVars   == <<acked, wiped, clobbered, garbled, chosen, unsaved, marked, lost, remarked>>
vars == <<clientVars, inbox, serving, state, index, model, keys, diskVars, clockVars, histVars>>

Ended == {"done", "failed", "duplicate", "dead"}

FirstOp(kind) ==
    CASE kind \in {"ensure", "model", "clear"} -> "get"
      [] kind = "write" -> "write"
      [] kind = "mark" -> "mark"

Init ==
    /\ role \in Scenarios
    /\ next = [c \in Clients |-> FirstOp(role[c].kind)]
    /\ waiting = {}
    /\ got = [c \in Clients |-> None]
    /\ inbox = <<>>
    /\ serving = None
    /\ state = "up"
    /\ index = [s \in Sessions |-> None]
    /\ model = [m \in Maps |-> "plain"]
    /\ diskIndex = [s \in Sessions |-> None]
    /\ file = [s \in Sessions |-> <<>>]
    /\ ragged = {}
    /\ backup = [s \in Sessions |-> [t \in 0..MaxTime |-> <<>>]]
    /\ keys = [k \in Keys |-> 0]
    /\ diskKeys = [k \in Keys |-> 0]
    /\ now = 1
    /\ failures = 0
    /\ restarts = 0
    /\ acked = <<>>
    /\ wiped = {}
    /\ clobbered = {}
    /\ garbled = {}
    /\ chosen = [s \in Sessions |-> "plain"]
    /\ unsaved = [s \in Sessions |-> {}]
    /\ marked = [k \in Keys |-> None]
    /\ lost = {}
    /\ remarked = {}

Session(c) == role[c].session

Range(s) == {s[i] : i \in DOMAIN s}

-----------------------------------------------------------------------------
(* Callers                                                                 *)

Commands == {"model", "clear"}

\* A lane worker handles a command under the lock of its session.
HoldsSession(c) ==
    /\ role[c].kind \in Commands
    /\ next[c] \notin Ended
    /\ next[c] = "get" => c \in waiting

\* w.inbox <- Request{...}: blocks while the inbox is full.  The key save has
\* no result channel, so its caller goes on at once.  A command takes the
\* session lock before its first request.
Send(c) ==
    /\ next[c] \in Ops
    /\ c \notin waiting
    /\ role[c].after # None => next[role[c].after] = "done"
    /\ role[c].kind \in Commands =>
          \A d \in Clients \ {c} : HoldsSession(d) => Session(d) # Session(c)
    /\ Len(inbox) < InboxSize
    /\ inbox' = Append(inbox, [client |-> c, op |-> next[c]])
    /\ IF next[c] = "saveKeys"
       THEN next' = [next EXCEPT ![c] = "done"] /\ UNCHANGED waiting
       ELSE waiting' = waiting \cup {c} /\ UNCHANGED next
    /\ UNCHANGED <<role, got, serving, state, index, model, keys, diskVars, clockVars, histVars>>

\* idempotency.Store.CheckAndMark under its own mutex, in the caller's goroutine.
CheckAndMarkKey(c) ==
    LET k == role[c].key IN
    /\ next[c] = "mark"
    /\ IF keys[k] > now
       THEN /\ next' = [next EXCEPT ![c] = "duplicate"]
            /\ UNCHANGED <<keys, marked, remarked>>
       ELSE /\ next' = [next EXCEPT ![c] = "saveKeys"]
            /\ keys' = [keys EXCEPT ![k] = now + TTL]
            /\ marked' = [marked EXCEPT ![k] = now]
            /\ remarked' = IF marked[k] # None /\ now < marked[k] + TTL
                           THEN remarked \cup {k} ELSE remarked
    /\ UNCHANGED <<role, waiting, got, inbox, serving, state, index, model, diskVars,
                   clockVars, acked, wiped, clobbered, garbled, chosen, unsaved, lost>>

\* Mutant of SavedMap: /model saves a new map, too.
SavedFresh(c) == c

\* The map a SaveSession carries: /model re-saves the map it was given, every
\* other save carries a new one.
SavedMap(c) == IF role[c].kind = "model" /\ got[c] # None THEN got[c] ELSE c

\* What a multi-request operation does with the answer to its GetSession.
\*   ensureSession saves a new session only if there is none;
\*   handleModel writes the model into the map it was given (or a new one);
\*   handleClear resets whatever it found.
Continue(c) ==
    /\ next[c] = "got"
    /\ next' = [next EXCEPT ![c] =
                   CASE role[c].kind = "ensure" -> IF got[c] = None THEN "save" ELSE "done"
                     [] role[c].kind = "model"  -> "save"
                     [] role[c].kind = "clear"  -> "reset"]
    /\ IF role[c].kind = "model"
       THEN /\ model' = [model EXCEPT ![IF got[c] = None THEN c ELSE got[c]] = c]
            /\ unsaved' = [unsaved EXCEPT ![Session(c)] = @ \cup {c}]
       ELSE UNCHANGED <<model, unsaved>>
    /\ UNCHANGED <<role, waiting, got, inbox, serving, state, index, keys, diskVars, clockVars,
                   acked, wiped, clobbered, garbled, chosen, marked, lost, remarked>>

-----------------------------------------------------------------------------
(* The loop of the store worker                                            *)

Content(ix, s) == IF ix[s] = None THEN None ELSE model[ix[s]]

Reply(c, op) ==
    /\ waiting' = waiting \ {c}
    /\ next' = [next EXCEPT ![c] = op]

\* saveSessionIndex: atomic.WriteFile of the whole index, or an error that
\* leaves the file alone while the index in memory has already changed.
WriteIndex(c, ix, ok) ==
    /\ index' = ix
    /\ \/ /\ diskIndex' = [s \in Sessions |-> Content(ix, s)]
          /\ Reply(c, ok)
          /\ UNCHANGED failures
       \/ /\ failures < MaxFailures
          /\ failures' = failures + 1
          /\ Reply(c, "failed")
          /\ UNCHANGED diskIndex

Ready(op) ==
    /\ state # "down"
    /\ serving = None
    /\ inbox # <<>>
    /\ Head(inbox).op = op

\* Mutant of Get: a session that is not in the index gets no answer.
GetKnownOnly ==
    /\ Ready("get")
    /\ inbox' = Tail(inbox)
    /\ LET c == Head(inbox).client IN
          IF index[Session(c)] = None
          THEN UNCHANGED <<got, next, waiting>>
          ELSE got' = [got EXCEPT ![c] = index[Session(c)]] /\ Reply(c, "got")
    /\ UNCHANGED <<role, serving, state, index, model, keys, diskVars, clockVars, histVars>>

Get ==
    /\ Ready("get")
    /\ inbox' = Tail(inbox)
    /\ LET c == Head(inbox).client IN
          /\ got' = [got EXCEPT ![c] = index[Session(c)]]
          /\ Reply(c, "got")
    /\ UNCHANGED <<role, serving, state, index, model, keys, diskVars, clockVars, histVars>>

\* The model an acknowledged save leaves the session with: /clear has none, and
\* ensureSession, which saves because it found no session some requests ago,
\* puts one without a model in the place of what was saved meanwhile.
Chosen(c) == [chosen EXCEPT ![Session(c)] = IF role[c].kind = "model" THEN c ELSE "plain"]

Save ==
    /\ Ready("save")
    /\ inbox' = Tail(inbox)
    /\ LET c == Head(inbox).client IN
          /\ WriteIndex(c, [index EXCEPT ![Session(c)] = SavedMap(c)], "done")
          /\ IF next'[c] = "done"
             THEN chosen' = Chosen(c) /\ unsaved' = [unsaved EXCEPT ![Session(c)] = {}]
             ELSE UNCHANGED <<chosen, unsaved>>
    /\ UNCHANGED <<role, got, serving, state, model, keys, file, ragged, backup, diskKeys,
                   now, restarts, acked, wiped, clobbered, garbled, marked, lost, remarked>>

\* resetSession: the transcript goes first ...
ResetFile ==
    /\ Ready("reset")
    /\ LET c == Head(inbox).client s == Session(c) IN
          \/ /\ file' = [file EXCEPT ![s] = <<>>]
             /\ ragged' = ragged \ {s}
             /\ wiped' = wiped \cup Range(file[s])
             /\ serving' = Head(inbox)
             /\ UNCHANGED <<next, waiting, failures>>
          \/ /\ failures < MaxFailures
             /\ failures' = failures + 1
             /\ Reply(c, "failed")
             /\ UNCHANGED <<file, ragged, wiped, serving>>
    /\ inbox' = Tail(inbox)
    /\ UNCHANGED <<role, got, state, index, model, keys, diskIndex, backup, diskKeys,
                   now, restarts, acked, clobbered, garbled, chosen, unsaved, marked, lost, remarked>>

\* Mutant of ResetIndex: the entry is deleted and the index not saved.
ResetInMemory ==
    /\ serving # None
    /\ serving.op = "reset"
    /\ index' = [index EXCEPT ![Session(serving.client)] = None]
    /\ Reply(serving.client, "save")
    /\ serving' = None
    /\ UNCHANGED <<role, got, inbox, state, model, keys, diskVars, clockVars, histVars>>

\* ... then the index entry; /clear goes on to save a new one.
ResetIndex ==
    /\ serving # None
    /\ serving.op = "reset"
    /\ WriteIndex(serving.client, [index EXCEPT ![Session(serving.client)] = None], "save")
    /\ serving' = None
    /\ chosen' = [chosen EXCEPT ![Session(serving.client)] = "plain"]
    /\ UNCHANGED <<role, got, inbox, state, model, keys, file, ragged, backup, diskKeys,
                   now, restarts, acked, wiped, clobbered, garbled, unsaved, marked, lost, remarked>>

\* Mutant of Rotate: the transcript is truncated and not renamed.
RotateTruncates ==
    /\ Ready("write")
    /\ file' = [file EXCEPT ![Session(Head(inbox).client)] = <<>>]
    /\ serving' = Head(inbox)
    /\ inbox' = Tail(inbox)
    /\ UNCHANGED <<clientVars, state, index, model, keys, diskIndex, ragged, backup, diskKeys,
                   clockVars, histVars>>

\* checkAndRotate: lines have any length, so any transcript with a line may have
\* reached the size limit.  The rename goes to a name made of the current second,
\* so a second rotation in one second replaces the first backup; a failing rename
\* is only logged.
Rotate ==
    /\ Ready("write")
    /\ LET s == Session(Head(inbox).client) IN
          \/ /\ file[s] # <<>>
             /\ backup' = [backup EXCEPT ![s][now] = file[s]]
             /\ clobbered' = clobbered \cup Range(backup[s][now])
             /\ file' = [file EXCEPT ![s] = <<>>]
             /\ ragged' = ragged \ {s}
             /\ UNCHANGED failures
          \/ /\ file[s] # <<>>
             /\ failures < MaxFailures
             /\ failures' = failures + 1
             /\ UNCHANGED <<file, ragged, backup, clobbered>>
          \/ UNCHANGED <<file, ragged, backup, clobbered, failures>>
    /\ serving' = Head(inbox)
    /\ inbox' = Tail(inbox)
    /\ UNCHANGED <<clientVars, state, index, model, keys, diskIndex, diskKeys,
                   now, restarts, acked, wiped, garbled, chosen, unsaved, marked, lost, remarked>>

\* The bytes of c reach the transcript: a line of its own, or more bytes of a
\* line that lacks its newline, which no reader can parse.
PutLine(c) ==
    IF Session(c) \in ragged
    THEN garbled' = garbled \cup {c} /\ UNCHANGED file
    ELSE file' = [file EXCEPT ![Session(c)] = Append(@, c)] /\ UNCHANGED garbled

\* appendTranscript: the line, its newline and a sync, each of which may fail:
\* nothing was written, the newline is missing, or all is there unsynced.
AppendLine ==
    /\ serving # None
    /\ serving.op = "write"
    /\ LET c == serving.client IN
          \/ /\ PutLine(c)
             /\ ragged' = ragged \ {Session(c)}
             /\ acked' = Append(acked, c)
             /\ Reply(c, "done")
             /\ UNCHANGED failures
          \/ /\ failures < MaxFailures
             /\ failures' = failures + 1
             /\ Reply(c, "failed")
             /\ \/ UNCHANGED <<file, garbled, ragged>>
                \/ PutLine(c) /\ ragged' = ragged \cup {Session(c)}
                \/ PutLine(c) /\ ragged' = ragged \ {Session(c)}
             /\ UNCHANGED acked
    /\ serving' = None
    /\ UNCHANGED <<role, got, inbox, state, index, model, keys, diskIndex, backup, diskKeys,
                   now, restarts, wiped, clobbered, chosen, unsaved, marked, lost, remarked>>

\* OpSaveIdempotency: the whole key table as it is when the request is served.
SaveKeys ==
    /\ Ready("saveKeys")
    /\ inbox' = Tail(inbox)
    /\ \/ diskKeys' = keys /\ UNCHANGED failures
       \/ /\ failures < MaxFailures
          /\ failures' = failures + 1
          /\ UNCHANGED diskKeys
    /\ UNCHANGED <<clientVars, serving, state, index, model, keys, diskIndex, file, ragged, backup,
                   now, restarts, histVars>>

\* Stop closes quit; the loop leaves its select at the next turn, whatever is
\* still queued.
Stop ==
    /\ state = "up"
    /\ state' = "stopping"
    /\ UNCHANGED <<clientVars, inbox, serving, index, model, keys, diskVars, clockVars, histVars>>

LoopExit ==
    /\ state = "stopping"
    /\ serving = None
    /\ state' = "down"
    /\ UNCHANGED <<clientVars, inbox, serving, index, model, keys, diskVars, clockVars, histVars>>

\* Mutant of Prune: drops the keys that have not expired.
PruneLive(ks) == [k \in Keys |-> IF ks[k] > now THEN 0 ELSE ks[k]]

\* The process ends (after a stop, or by a crash at any point) and a new one
\* loads what is on disk; callers of the old process are gone.  loop prunes the
\* expired keys first and saves the table if it pruned any.
Prune(ks) == [k \in Keys |-> IF ks[k] < now THEN 0 ELSE ks[k]]

Restart ==
    /\ restarts < MaxRestarts
    /\ restarts' = restarts + 1
    /\ next' = [c \in Clients |->
                   IF next[c] \in Ended \/ (c \notin waiting /\ next[c] = FirstOp(role[c].kind))
                   THEN next[c] ELSE "dead"]
    /\ waiting' = {}
    /\ inbox' = <<>>
    /\ serving' = None
    /\ state' = "up"
    /\ index' = [s \in Sessions |-> IF diskIndex[s] = None THEN None ELSE s]
    /\ model' = [m \in Maps |->
                    IF m \in Sessions /\ diskIndex[m] # None THEN diskIndex[m] ELSE "plain"]
    /\ keys' = Prune(diskKeys)
    /\ diskKeys' = Prune(diskKeys)
    /\ lost' = lost \cup {k \in Keys : keys[k] > now /\ keys[k] # diskKeys[k]}
    /\ UNCHANGED <<role, got, diskIndex, file, ragged, backup, now, failures,
                   acked, wiped, clobbered, garbled, chosen, unsaved, marked, remarked>>

Tick ==
    /\ now < MaxTime
    /\ now' = now + 1
    /\ UNCHANGED <<clientVars, inbox, serving, state, index, model, keys, diskVars,
                   failures, restarts, histVars>>

-----------------------------------------------------------------------------

Handle == Get \/ Save \/ ResetFile \/ ResetIndex \/ Rotate \/ AppendLine \/ SaveKeys

Next ==
    \/ \E c \in Clients : Send(c) \/ CheckAndMarkKey(c) \/ Continue(c)
    \/ Handle
    \/ Stop \/ LoopExit
    \/ Restart
    \/ Tick

Spec == Init /\ [][Next]_vars

\* The loop serves as long as it runs and a caller that can go on does.
FairSpec ==
    /\ Spec
    /\ WF_vars(Handle)
    /\ WF_vars(LoopExit)
    /\ \A c \in Clients : WF_vars(Send(c)) /\ WF_vars(Continue(c))

-----------------------------------------------------------------------------
(* Properties                                                              *)

Steps == Ops \cup Ended \cup {"mark", "got"}

TypeOK ==
    /\ role \in [Clients -> Role]
    /\ next \in [Clients -> Steps]
    /\ waiting \subseteq Clients
    /\ got \in [Clients -> Maps \cup {None}]
    /\ inbox \in Seq(Request)
    /\ serving \in Request \cup {None}
    /\ state \in {"up", "stopping", "down"}
    /\ index \in [Sessions -> Maps \cup {None}]
    /\ model \in [Maps -> Clients \cup {"plain"}]
    /\ diskIndex \in [Sessions -> Clients \cup {"plain", None}]
    /\ file \in [Sessions -> Seq(Clients)]
    /\ ragged \subseteq Sessions
    /\ keys \in [Keys -> Nat]
    /\ diskKeys \in [Keys -> Nat]
    /\ now \in 0..MaxTime
    /\ failures \in Nat
    /\ restarts \in Nat
    /\ backup \in [Sessions -> [0..MaxTime -> Seq(Clients)]]
    /\ acked \in Seq(Clients)
    /\ wiped \subseteq Clients /\ clobbered \subseteq Clients /\ garbled \subseteq Clients
    /\ chosen \in [Sessions -> Clients \cup {"plain"}]
    /\ unsaved \in [Sessions -> SUBSET Clients]
    /\ marked \in [Keys -> Nat \cup {None}]
    /\ lost \subseteq Keys /\ remarked \subseteq Keys

\* Oldest first: the backups by second of rotation, then the transcript.
Place(s, c) ==
    {<<MaxTime + 1, i>> : i \in {j \in DOMAIN file[s] : file[s][j] = c}}
    \cup UNION {{<<t, i>> : i \in {j \in DOMAIN backup[s][t] : backup[s][t][j] = c}} :
                    t \in 0..MaxTime}

Earlier(p, q) == p[1] < q[1] \/ (p[1] = q[1] /\ p[2] < q[2])

\* A transcript line whose write was acknowledged survives rotations, failed
\* writes, stops and crashes: it is a line of the transcript or of a backup
\* unless the session was reset, a rotation in the same second replaced the
\* backup, or it went behind a line whose newline could not be written
\* (appendTranscript, checkAndRotate, resetSession).  Read oldest file first,
\* the lines kept are in the order in which they were acknowledged, each once.
AckedLinesKept ==
    /\ \A c \in Range(acked) :
          \/ Place(Session(c), c) # {}
          \/ c \in wiped \cup clobbered \cup garbled
    /\ \A i, j \in DOMAIN acked :
          LET s == Session(acked[i]) IN
          Session(acked[j]) = s /\ i <= j =>
              \A p \in Place(s, acked[i]), q \in Place(s, acked[j]) :
                  IF i = j THEN p = q ELSE Earlier(p, q)

\* A Metadata map that /model changed and has not saved yet.
Unsaved(s) == \E c \in Clients :
    role[c].kind = "model" /\ Session(c) = s /\ next[c] = "save"

\* The index on disk is the index in memory at every moment no save has
\* failed, except for a model a /model command still has to save
\* (handle, saveSessionIndex): a stop or crash at any point loses nothing that
\* was acknowledged.
DiskMatchesMemory ==
    failures = 0 => \A s \in Sessions : diskIndex[s] = Content(index, s) \/ Unsaved(s)

\* An event key is let through twice within its TTL only if the process ended
\* before the queued save of the key table was served (CheckAndMarkKey queues
\* the save, Stop does not drain the queue).
RemarkedOnlyIfLost == remarked \subseteq lost

\* As long as the loop runs, every caller gets its answer.
CallersAnswered ==
    \A c \in Clients : c \in waiting ~> c \notin waiting \/ state # "up"

\* An acknowledged /model stays in force, through stops, crashes and restarts,
\* until the next /model or /clear of the session or the late save of an
\* ensureSession that had found no session, as long as no write fails: the index
\* holds that model, or one that a later /model has written into the shared map
\* and not saved (handleModel, handle).  The save of any other session puts such a
\* model on disk, so it may be in force after a restart, too.
ModelPersists ==
    failures = 0 =>
      \A s \in Sessions :
        chosen[s] # "plain" => Content(index, s) \in {chosen[s]} \cup unsaved[s]

=============================================================================
