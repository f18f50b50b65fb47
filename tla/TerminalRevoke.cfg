SPECIFICATION Spec
CONSTANTS
  Sessions = {s1}
  NoSession = NoSession
  Channels = {c1}
  MaxChecks = 1
  MaxFaults = 0
INVARIANT RevokedIsGone
CHECK_DEADLOCK FALSE
