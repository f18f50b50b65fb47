SPECIFICATION FairSpec
CONSTANTS
  Attempts = {d1, d2}
  Artifacts = {a1}
  MaxRetries = 1
  MaxPolls = 1
  MaxCrashes = 2
INVARIANTS
  OneJobPerAttempt
  OneLiveDelivery
  WithdrawnIsDead
PROPERTIES
  ResultsStay
  LeasedDeliveriesEnd
CHECK_DEADLOCK FALSE
