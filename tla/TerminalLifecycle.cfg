SPECIFICATION FairSpec
CONSTANTS
  Sessions = {s1, s2}
  NoSession = NoSession
  Channels = {c1, c2}
  MaxChecks = 1
  MaxFaults = 1
INVARIANTS
  TerminalNeedsAck
  EndedIsRevoked
PROPERTY WaitEnds
CHECK_DEADLOCK FALSE
