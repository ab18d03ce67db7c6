------------------------ MODULE CapabilitySelection ------------------------
(***************************************************************************)
(* What a request is offered to work with: the tools the broker chooses    *)
(* from the registry and the skills chosen for the prompt                  *)
(* (orchestrator/task/tool_broker.go, capability_catalog.go, manager.go,   *)
(* skill/registry.go).                                                     *)
(*                                                                         *)
(* A tool is a record of its name, the tokens of its name, of the longer   *)
(* words of its description and of its capabilities, its risk and where it *)
(* is from.  A goal is a record of its tokens, the tool names it contains, *)
(* whether it contains a slash, and the skills it mentions with a dollar.  *)
(***************************************************************************)
EXTENDS Integers, SequencesExt

CONSTANTS
  MaxToolsPerTurn,     \* orchestrator.max_tools_per_turn; none if not positive
  SkillLimit,          \* defaultSkillSelectionLimit
  SkillRegistry,       \* the skills, each with its score for every query
  NoSkill              \* no skill was found

ASSUME SelectionAssumption ==
  /\ MaxToolsPerTurn \in Int
  /\ SkillLimit \in Nat \ {0}
  /\ NoSkill \notin DOMAIN SkillRegistry
  /\ IsFiniteSet(DOMAIN SkillRegistry)

-----------------------------------------------------------------------------
(* The tool broker *)

\* deriveTags: the tokens of the name, the description and the capabilities.
Tags(t) == t.nameTokens \cup t.descTokens \cup t.capTokens

\* inferSource: the metadata's source, else what the name's prefix says.
SourceOf(t) == IF t.source # "" THEN t.source ELSE t.prefix

Mutating == {"write", "create", "update", "edit", "modify", "patch", "save", "delete",
             "exec", "run", "command", "shell"}

RiskPenalty(risk) == CASE risk = "high" -> 6 [] risk = "medium" -> 2 [] OTHER -> 0

\* How well the goal matches a tool, before risk is considered.
Match(t, goal) ==
    4 * Cardinality(Tags(t) \cap goal.tokens)
  + 6 * Cardinality(t.capTokens \cap goal.tokens)
  + (IF t.name \in goal.names THEN 10 ELSE 0)
  + (IF goal.path /\ "file" \in t.capTokens THEN 6 ELSE 0)

\* Mutant of scoreCapability: a goal that only reads is not protected from risk.
scoreUnweighted(t, goal) == Match(t, goal)

scoreCapability(t, goal) ==
  LET score == Match(t, goal)
               - IF goal.tokens \cap Mutating = {} THEN RiskPenalty(t.risk) ELSE 0
  IN IF score = 0 /\ SourceOf(t) \in {"builtin", "runtime"} THEN 1 ELSE score

\* The orders sort.Slice may leave the tools in: the best first, ties by name.
ToolRankings(goal, tools) ==
  LET better(t, u) ==
        \/ scoreCapability(t, goal) > scoreCapability(u, goal)
        \/ scoreCapability(t, goal) = scoreCapability(u, goal) /\ t.rank < u.rank
  IN {r \in SetToSeqs(Range(tools)) : \A i, j \in DOMAIN r : i < j => ~better(r[j], r[i])}

\* SelectWithMetadata: all tools if they are few, else the best.
SelectTools(goal, tools) ==
  IF MaxToolsPerTurn <= 0 \/ Len(tools) <= MaxToolsPerTurn
  THEN {tools}
  ELSE {SubSeq(r, 1, MaxToolsPerTurn) : r \in ToolRankings(goal, tools)}

-----------------------------------------------------------------------------
(* The skills *)

\* calculateRelevanceScore: how much of a skill contains the whole query.
Relevance(s, query) == SkillRegistry[s][query]

\* GetRelevant: the skills with a positive score, the best first; the order of
\* equal scores is the map's and sort.Slice's, so any.
Rankings(query) ==
  {r \in SetToSeqs({s \in DOMAIN SkillRegistry : Relevance(s, query) > 0}) :
     \A i, j \in DOMAIN r : i < j => Relevance(r[i], query) >= Relevance(r[j], query)}

\* resolveSkillMention: the skill of that name, else the most relevant one.
Resolutions(mention) ==
  IF mention \in DOMAIN SkillRegistry
  THEN {mention}
  ELSE {IF r = <<>> THEN NoSkill ELSE Head(r) : r \in Rankings(mention)}

\* selectSkills adds the skills it is given, each once, up to the limit.
add(chosen, s) ==
  IF s = NoSkill \/ Contains(chosen, s) \/ Len(chosen) >= SkillLimit
  THEN chosen ELSE Append(chosen, s)

Chosen(skills) ==
  LET c[n \in 0..Len(skills)] == IF n = 0 THEN <<>> ELSE add(c[n - 1], skills[n])
  IN c[Len(skills)]

\* The skills the mentions of a goal may be resolved to.
Named(goal) ==
  {f \in [DOMAIN goal.mentions -> DOMAIN SkillRegistry \cup {NoSkill}] :
     \A i \in DOMAIN f : f[i] \in Resolutions(goal.mentions[i])}

\* selectSkills: the mentioned skills, then relevant ones (of the 2 * SkillLimit
\* asked for at most SkillLimit are chosen already).
SkillChoices(goal) == {Chosen(f \o r) : f \in Named(goal), r \in Rankings(goal.text)}

=============================================================================
