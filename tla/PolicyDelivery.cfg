SPECIFICATION FairSpec
CONSTANTS
  Operators = {o1, o2}
  Policies = {p1, p2}
  Local = Local
  MaxAssigned = 2
  MaxQueued = 3
  MaxFaults = 1
  MaxLate = 1
INVARIANTS
  AcknowledgedIsDurable
PROPERTIES
  PolicyMovesForward
  CommandsAreAnswered
CHECK_DEADLOCK FALSE
