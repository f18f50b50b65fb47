SPECIFICATION FairRunSpec
CONSTANTS
  asks = asks
  tells = tells
  plain = plain
  Scripts = {asks, tells, plain}
  NoScript = NoScript
  Calls <- MCCalls
  Values <- MCValues
  MaxConcurrent = 2
  MaxAttempts = 1
  MaxStray = 1
  MaxDepth = 1
  MaxNodes = 5
  MaxString = 4
  MaxBytes = 11
INVARIANTS
  EveryScriptAnswers
  BreakerHolds
  SomebodyGoesOn
  OutputWithinBudgets
PROPERTIES
  RefusalIsDue
  SuccessIsWhole
  SubscriptionIsKept
  PollEnds
