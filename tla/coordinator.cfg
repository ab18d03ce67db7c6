CONSTANTS
  MaxId = 3
  Plans <- MCPlans
  Limits = {2, 3}
  MaxParallel = 2
  RetryMax = 2
SPECIFICATION FairSpec
INVARIANTS BatchesAreTopological RunsAfterDependencies BoundedParallelism AnswerIsComplete
PROPERTIES RequestEnds
CHECK_DEADLOCK FALSE
