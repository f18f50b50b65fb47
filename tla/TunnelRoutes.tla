---------------------------- MODULE TunnelRoutes ----------------------------
(***************************************************************************)
(* FrpSession on a device with a configuration: a grant is a lease with    *)
(* the profile it names, and RouteProfile says which grants the device     *)
(* accepts and renders, and what a session then serves.                    *)
(***************************************************************************)
EXTENDS FrpSession, RouteProfile

CONSTANTS
  DeviceConfig, \* FRPConfig, as the device's file has it
  Selection     \* the profile each grant names

\* The configuration's routes are lists, and the loop and the renderer agree with
\* RouteProfile.
ASSUME ConfigAssumption ==
  \A n \in DOMAIN Normalized(DeviceConfig).profiles :
    LET routes == Normalized(DeviceConfig).profiles[n].routes
    IN  DOMAIN routes = 1..Len(routes)
ASSUME DeviceAssumption ==
  /\ Known = {g \in Grants : Accepts(DeviceConfig, Selection[g])}
  /\ Renderable = {g \in Grants : Renders(DeviceConfig, Selection[g])}

Served(g) == Rendered(DeviceConfig, Selection[g])

\* What frpc may serve: at least one route, only on the device's loopback,
\* through no plugin the device has not allowed, no two proxies of one name.
StaysLocal(proxies) ==
  /\ DOMAIN proxies # {}
  /\ IsInjective([i \in DOMAIN proxies |-> proxies[i].name])
  /\ \A i \in DOMAIN proxies :
       /\ proxies[i].target.host = "loopback" /\ proxies[i].target.port \in 1..MaxPort
       /\ proxies[i].plugin \subseteq Normalized(DeviceConfig).plugins

\* Whatever profile the server names, a session that runs serves the device's own
\* services, each under a name of its own.
RoutesStayLocal == session.phase = "running" => StaysLocal(Served(session.routes))
=============================================================================
