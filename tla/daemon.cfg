CONSTANTS
  p1 = p1
  p2 = p2
  Procs = {p1, p2}
  LockMaxRetry = 2
  Slots = {1, 2}
  Registries <- SmallRegistries
SPECIFICATION Spec
INVARIANTS OneWriter ShutdownIsOrderly
PROPERTIES ExitsWhenTold
CHECK_DEADLOCK FALSE
