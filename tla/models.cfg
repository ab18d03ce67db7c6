CONSTANTS
  c1 = c1
  c2 = c2
  alpha = alpha
  beta = beta
  omega = omega
  NoModel = NoModel
  Calls = {c1, c2}
  CallIDs <- TwoCallIDs
  ArgParts = 2
  TextParts = 2
  MaxLogins = 2
  MaxStreams = 1
  Names <- ModelNames
  Configs <- SmallConfigs
SPECIFICATION Spec
INVARIANTS ResponseIsFaithful TokenFromOwnLogin GivesUpOnlyWhenExhausted
CONSTRAINT LoginsApart
CHECK_DEADLOCK FALSE
