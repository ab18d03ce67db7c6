------------------------------- MODULE Kernel -------------------------------
(***************************************************************************)
(* The orchestrator on one session: Kernel.Execute, the task manager, the  *)
(* session manager, the command handler and egress (internal/orchestrator, *)
(* internal/egress), over the cognitive engine.  The session lock of the   *)
(* workers makes the events of a session run one after the other; Submit's *)
(* ensureSession and the storing of facts are concurrent with them.        *)
(*                                                                         *)
(* A line of the transcript has a role, the number of its request and      *)
(* whether it is the reply to it.  The sub-tasks of a complex request run  *)
(* here one after the other: they share nothing but the fact store, and    *)
(* TaskCoordinator has their parallelism.  Each call of the store may      *)
(* fail; StoreWorker has what a failed call leaves behind.                 *)
(***************************************************************************)
EXTENDS CognitiveEngine, CapabilitySelection

CONSTANTS
  Goals,         \* the goals of user messages considered
  Registries,    \* the tool registries considered, in any order of the map
  HistoryLimit,  \* orchestrator.session_history_limit
  MaxEvents,     \* bound: events submitted
  MaxSubTasks    \* orchestrator.max_sub_tasks

ASSUME KernelAssumption ==
  /\ HistoryLimit \in Nat \ {0}
  /\ MaxEvents \in Nat
  /\ MaxSubTasks \in Nat \ {0}

\* A goal has finitely many tokens and a list of mentions; a registry is a map,
\* so a list of it has no tool twice.
ASSUME OfferAssumption ==
  /\ \A g \in Goals : IsFiniteSet(g.tokens) /\ g.mentions \in Seq(Range(g.mentions))
  /\ \A tools \in Registries : tools \in Seq(Range(tools)) /\ IsInjective(tools)

VARIABLES
  inbox,       \* events of the session that wait for its lock
  submitted,   \* number of events submitted
  session,     \* its entry in the index: none, sourced, or bare (no source)
  transcript,  \* its transcript
  req,         \* the request in execution
  sent         \* requests whose reply the adapter took since the last reset

kernelVars == <<inbox, submitted, session, transcript, req, sent>>
vars == <<engineVars, kernelVars>>

Line(role, reply) == [role |-> role, req |-> req.n, reply |-> reply]

Idle == [phase |-> "idle", n |-> 0]

Kinds == {"message", "clear", "model", "command", "cron"}

-----------------------------------------------------------------------------
Init ==
  /\ EngineInit
  /\ inbox = <<>>
  /\ submitted = 0
  /\ session = "none"
  /\ transcript = <<>>
  /\ req = Idle
  /\ sent = {}

\* Submit makes sure the session exists, with the metadata of the event.  It
\* commutes with the steps that do not read the session, so it is taken before
\* one that does, or when nothing waits.
Submit(kind, meta) ==
  /\ submitted < MaxEvents
  /\ \/ req = Idle /\ inbox = <<>>
     \/ req.phase \in {"clear", "model", "send"}
  /\ submitted' = submitted + 1
  /\ session' = IF session = "none" THEN meta ELSE session
  /\ inbox' = Append(inbox, [kind |-> kind, n |-> submitted + 1])
  /\ UNCHANGED <<engineVars, transcript, req, sent>>

Return(outcome) == req' = [phase |-> "returned", n |-> req.n, outcome |-> outcome]

\* Execute: cron and system events end at once, slash commands go to the
\* handler, and a user message is recorded, as far as the store permits.
Execute ==
  /\ req = Idle
  /\ inbox # <<>>
  /\ inbox' = Tail(inbox)
  /\ LET e == Head(inbox)
     IN \/ /\ e.kind = "cron"
           /\ UNCHANGED <<req, transcript>>
        \/ /\ e.kind \in {"clear", "model", "command"}
           /\ req' = [phase |-> e.kind, n |-> e.n]
           /\ UNCHANGED transcript
        \/ /\ e.kind = "message"
           /\ req' = [phase |-> "context", n |-> e.n]
           /\ \E saved \in BOOLEAN :
                transcript' = IF saved
                              THEN Append(transcript, [role |-> "user", req |-> e.n, reply |-> FALSE])
                              ELSE transcript
  /\ UNCHANGED <<engineVars, submitted, session, sent>>

\* GetContext: the last lines of the transcript, none if it cannot be read, and
\* the facts found for the last of them; a message costs 1.
readTranscript(limit) == LastN(transcript, Min({limit, Len(transcript)}))

SessionHistory ==
  LET lines == readTranscript(HistoryLimit)
  IN [i \in DOMAIN lines |-> Message(lines[i].role, 1)]

SessionContexts ==
  {EmptyContext, [EmptyContext EXCEPT !.history = SessionHistory]} \cup
  {[EmptyContext EXCEPT !.history = h, !.memories = Retrieve] :
     h \in {SessionHistory} \ {<<>>}}

\* HandleRequest loads the context and chooses tools and skills for the goal.
HandleRequest(goal, tools) ==
  /\ req.phase = "context"
  /\ \E offered \in SelectTools(goal, tools), skills \in SkillChoices(goal) :
       req' = [phase |-> "offer", n |-> req.n, goal |-> goal, registry |-> tools,
               tools |-> offered, skills |-> skills]
  /\ \E c \in SessionContexts : ctx' = c
  /\ UNCHANGED <<eng, facts, inbox, submitted, session, transcript, sent>>

\* executeSimpleTask: a short goal runs in the engine with the session's context
\* in place of the engine's, which leaves it without a token budget.
ExecuteSimpleTask ==
  /\ req.phase = "offer" /\ ~req.goal.long
  /\ req' = [phase |-> "run", n |-> req.n]
  /\ StartRun([ctx EXCEPT !.budget = 0])
  /\ UNCHANGED <<facts, inbox, submitted, session, transcript, sent>>

\* executeComplexTask: the note about the sub-tasks is recorded if it can be.
Decompose ==
  /\ req.phase = "offer" /\ req.goal.long
  /\ \/ Return("error") /\ UNCHANGED transcript
     \/ /\ req' = [phase |-> "subtasks", n |-> req.n, left |-> MaxSubTasks]
        /\ \E saved \in BOOLEAN :
             transcript' = IF saved THEN Append(transcript, Line("system", FALSE)) ELSE transcript
  /\ ctx' = EmptyContext
  /\ UNCHANGED <<eng, facts, inbox, submitted, session, sent>>

Reply(role) == req' = [phase |-> "persist", n |-> req.n, role |-> role]

\* ExecuteDAG: an engine per sub-task, with the budget of the engine and the
\* results of its dependencies in the scratchpad; a refused list is an error.
StartSubTask ==
  /\ req.phase = "subtasks"
  /\ eng = NoRun
  /\ req.left > 0
  /\ \E pad \in {<<>>, <<1>>} : StartRun([EmptyContext EXCEPT !.pad = pad])
  /\ req' = [req EXCEPT !.left = @ - 1]
  /\ UNCHANGED <<facts, inbox, submitted, session, transcript, sent>>

EndSubTask ==
  /\ req.phase = "subtasks"
  /\ eng.phase = "done"
  /\ eng' = NoRun
  /\ UNCHANGED <<ctx, facts, kernelVars>>

EndSubTasks ==
  /\ req.phase = "subtasks"
  /\ eng = NoRun
  /\ \/ req.left = MaxSubTasks /\ Return("error")
     \/ req.left < MaxSubTasks /\ Reply("assistant")
  /\ UNCHANGED <<engineVars, inbox, submitted, session, transcript, sent>>

\* executeSimpleTask: the answer, or the error as a system line.
EndRun ==
  /\ req.phase = "run"
  /\ eng.phase = "done"
  /\ Reply(IF eng.result \in {"answer", "stopped"} THEN "assistant" ELSE "system")
  /\ eng' = NoRun
  /\ UNCHANGED <<ctx, facts, inbox, submitted, session, transcript, sent>>

\* /clear resets the session and saves it anew with its source; it stops at the
\* first call that fails: the read, the removal of the file, the save of the
\* index without the session, the save with it (which is kept in memory).
HandleClear ==
  /\ req.phase = "clear"
  /\ \E done \in {"none", "reset", "all"} :
       /\ transcript' = IF done = "none" THEN transcript ELSE <<>>
       /\ sent' = IF done = "none" THEN sent ELSE {}
       /\ session' = CASE done = "none" -> session
                       [] done = "reset" -> "none"
                       [] done = "all" -> "sourced"
  /\ Reply("system")
  /\ UNCHANGED <<engineVars, inbox, submitted>>

\* /model gives the session a source if it has none; a failing save is kept in
\* memory, a failing read changes nothing.
HandleModel ==
  /\ req.phase = "model"
  /\ session' \in {session, "sourced"}
  /\ Reply("system")
  /\ UNCHANGED <<engineVars, inbox, submitted, transcript, sent>>

\* /approve, /deny, /help and unknown commands leave the session alone.
HandleCommand ==
  /\ req.phase = "command"
  /\ Reply("system")
  /\ UNCHANGED <<engineVars, inbox, submitted, session, transcript, sent>>

\* Mutant of Persist: the reply is sent when it could not be recorded, too.
PersistOrNot ==
  /\ req.phase = "persist"
  /\ req' = [phase |-> "send", n |-> req.n]
  /\ \E saved \in BOOLEAN :
       transcript' = IF saved THEN Append(transcript, Line(req.role, TRUE)) ELSE transcript
  /\ UNCHANGED <<engineVars, inbox, submitted, session, sent>>

\* persistAndSend, and the end of the command handler: first the transcript.
Persist ==
  /\ req.phase = "persist"
  /\ \/ Return("error") /\ UNCHANGED transcript
     \/ /\ req' = [phase |-> "send", n |-> req.n]
        /\ transcript' = Append(transcript, Line(req.role, TRUE))
  /\ UNCHANGED <<engineVars, inbox, submitted, session, sent>>

\* Egress.Send needs the session and its source; the adapter may be missing.
Routable == session = "sourced"

Send ==
  /\ req.phase = "send"
  /\ \/ Return("error") /\ UNCHANGED sent
     \/ Routable /\ Return("ok") /\ sent' = sent \cup {req.n}
  /\ UNCHANGED <<engineVars, inbox, submitted, session, transcript>>

\* The worker logs an error and releases the session.
Finish ==
  /\ req.phase = "returned"
  /\ req' = Idle
  /\ UNCHANGED <<engineVars, inbox, submitted, session, transcript, sent>>

Next ==
  \/ \E kind \in Kinds, meta \in {"sourced", "bare"} : Submit(kind, meta)
  \/ Execute
  \/ \E goal \in Goals, tools \in Registries : HandleRequest(goal, tools)
  \/ ExecuteSimpleTask
  \/ Decompose
  \/ StartSubTask
  \/ EndSubTask
  \/ EndSubTasks
  \/ EndRun
  \/ HandleClear
  \/ HandleModel
  \/ HandleCommand
  \/ Persist
  \/ Send
  \/ Finish
  \/ RunStep /\ UNCHANGED kernelVars
  \/ Remember /\ UNCHANGED kernelVars

Spec == Init /\ [][Next]_vars

-----------------------------------------------------------------------------
(* Properties *)

Replies(r) == {i \in DOMAIN transcript : transcript[i].req = r /\ transcript[i].reply}

\* What the user was told is on record: since the last reset of the session
\* every reply the adapter took is in the transcript, a request has at most one
\* reply there, behind its own message, and a request that ended without an
\* error was recorded and sent (persistAndSend, the command handler).
RepliesAreRecorded ==
  /\ \A r \in sent : Replies(r) # {}
  /\ \A i, j \in DOMAIN transcript :
       transcript[i].reply /\ transcript[i].req = transcript[j].req => j <= i
  /\ req.phase = "returned" /\ req.outcome = "ok" => req.n \in sent

\* For a goal that asks for no change, a tool is offered in place of a less
\* risky one only if the goal matches it better, wherever the penalty and the
\* baseline of built-in tools (scoreCapability) put their scores; and the skills
\* offered are distinct, the mentioned ones first.
OfferIsSound ==
  req.phase = "offer" =>
    /\ req.goal.tokens \cap Mutating = {} =>
         \A i \in DOMAIN req.tools, u \in Range(req.registry) :
           LET t == req.tools[i]
           IN ~Contains(req.tools, u) /\ RiskPenalty(u.risk) < RiskPenalty(t.risk) =>
                Match(t, req.goal) > Match(u, req.goal)
    /\ IsInjective(req.skills)
    /\ \A i, j \in DOMAIN req.skills :
         Contains(req.goal.mentions, req.skills[j]) /\ i < j =>
           \E m \in Range(req.goal.mentions) : req.skills[i] \in Resolutions(m)

=============================================================================
