SPECIFICATION FairManagerSpec
CONSTANTS
  Devices = {d1}
  Leases <- MCLeases
  Kinds = {"session", "provisioning"}
  Deliveries = {x1}
  Profiles = {base, boot}
  BaseProfile = base
  Views = {v1}
  MaxTime = 2
  MaxTtl = 1
  MaxCrashes = 1
INVARIANTS
  ProjectionMirrorsLease
  AlarmForEveryLease
  CachedIsHeld
PROPERTIES
  ImplementsRemoteAccess
  ExpiredIsRevoked
CHECK_DEADLOCK FALSE
