SPECIFICATION FairSpec
CONSTANTS
  Hosts = {h1, h2}
  MaxToken = 8
  MaxTries = 2
  MaxRuns = 1
  MaxFaults = 1
  MaxLate = 1
INVARIANTS NeverLockedOut
PROPERTIES EnrollmentStaysWithHost SecretsOnlyMoveForward EnrollmentCompletes
CHECK_DEADLOCK FALSE
