SPECIFICATION FairSpec
CONSTANTS
  Grants = {"web", "setup", "long", "twice"}
  NoGrant = NoGrant
  Known = {"web", "setup", "long"}
  Renderable = {"web", "setup"}
  MaxChanges = 4
  MaxFaults = 3
  MaxRoutes = 3
  MaxLabel = 63
  DeviceWidth = 37
  Width <- RouteNames
  DeviceConfig <- MCDeviceConfig
  Selection <- MCSelection
INVARIANTS
  WithdrawnIsDown
  RoutesStayLocal
PROPERTY TunnelComesUp
