CONSTANTS
  c1 = c1
  c2 = c2
  c3 = c3
  k1 = k1
  k2 = k2
  k3 = k3
  s1 = s1
  s2 = s2
  None = None
  Calls = {c1, c2, c3}
  QueueSize <- OneSlot
  Keys = {k1, k2}
  Sessions = {s1}
  KeyOf <- DupKeyOf
  SessionOf <- DupSessionOf
  TypeOf <- FullTypeOf
  Slash = {}
  Malformed = {}
  MaxExpiries = 0
SPECIFICATION Spec
PROPERTIES RetryAfterTransientIsTaken
CHECK_DEADLOCK FALSE
