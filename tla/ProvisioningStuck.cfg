SPECIFICATION FairSpec
CONSTANTS
  Attempts = {d1}
  Artifacts = {a1}
  MaxRetries = 1
  MaxPolls = 1
  MaxCrashes = 1
PROPERTY DeliveriesEnd
CHECK_DEADLOCK FALSE
