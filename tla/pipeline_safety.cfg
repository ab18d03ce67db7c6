CONSTANTS
  c1 = c1
  c2 = c2
  c3 = c3
  k1 = k1
  k2 = k2
  k3 = k3
  s1 = s1
  s2 = s2
  None = None
  Calls = {c1, c2, c3}
  QueueSize <- OneSlot
  Keys = {k1, k2}
  Sessions = {s1}
  KeyOf <- DupKeyOf
  SessionOf <- DupSessionOf
  TypeOf <- DupTypeOf
  Slash = {}
  Malformed = {}
  MaxExpiries = 1
SPECIFICATION Spec
INVARIANTS TypeOK SessionExclusive LockMatchesExecution OncePerMark Accounted
PROPERTIES ImplementsDelivery
CHECK_DEADLOCK FALSE
