CONSTANTS
  MaxTurns = 2
  MaxRetriesPerTurn = 1
  StructuredRetryMax = 1
  TokenBudget = 4
  PlanCosts = {1, 5}
  Thoughts <- SmallThoughts
  OutputCosts = {1}
  TopMemories = 1
  MaxToolsPerTurn = 2
  SkillLimit = 2
  SkillRegistry <- Skills
  NoSkill = "none"
  Goals <- SmallGoals
  Registries <- SmallRegistries
  HistoryLimit = 2
  MaxEvents = 2
  MaxSubTasks = 1
SPECIFICATION Spec
INVARIANTS ThinksBounded ContextFits WireIsWellFormed RepliesAreRecorded OfferIsSound
CHECK_DEADLOCK FALSE
