SPECIFICATION FairManagerSpec
CONSTANTS
  Devices = {d1}
  Leases <- MCLeases
  Kinds = {"session", "provisioning"}
  Deliveries = {x1}
  Profiles = {base}
  BaseProfile = base
  Views = {v1}
  MaxTime = 2
  MaxTtl = 2
  MaxCrashes = 1
PROPERTIES
  ProjectionSettles
CHECK_DEADLOCK FALSE
