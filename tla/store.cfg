CONSTANTS
  u = u
  v = v
  w = w
  s1 = s1
  s2 = s2
  k1 = k1
  None = None
  Clients = {u, v, w}
  Sessions = {s1, s2}
  Keys = {k1}
  Scenarios <- MCScenarios
  InboxSize = 2
  TTL = 2
  MaxTime = 3
  MaxFailures = 1
  MaxRestarts = 1
SPECIFICATION FairSpec
INVARIANTS AckedLinesKept DiskMatchesMemory RemarkedOnlyIfLost ModelPersists
PROPERTIES CallersAnswered
CHECK_DEADLOCK FALSE
