SPECIFICATION FairSpec
CONSTANTS
  Names = {"a"}
  Versions = {"", "1", "v1", "2"}
  Ids = {"x", "y", "z"}
  PollCap = 3
  MaxParallel = 2
  Deliveries <- MCDeliveries
  Layouts <- MCLayouts
  CliScripts <- MCCliScripts
INVARIANTS
  AllAnswered
  ExecutedOnce
PROPERTIES
  RefusedChangesNothing
  InstalledIsSelected
  TakesEffectInOrder
  BatchEnds
