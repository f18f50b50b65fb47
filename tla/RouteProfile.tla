---------------------------- MODULE RouteProfile ----------------------------
(***************************************************************************)
(* Route profiles (internal/config/route_profile.go, internal/frp/         *)
(* render.go): the server names a profile, the device's own configuration  *)
(* says which local services that is, and the renderer turns it into the   *)
(* proxies of frpc.toml. A profile is resolved twice, when the poll loop   *)
(* decides and again in Manager.Start, and validated once more when it is  *)
(* rendered.                                                               *)
(***************************************************************************)
EXTENDS Integers, Sequences, TLC, Functions

CONSTANTS
  MaxRoutes,   \* 16 in the code
  MaxLabel,    \* 63, the length of a hostname label
  DeviceWidth, \* length of "atom-" and the device's UUID
  Width        \* length of each route name that matches routeNamePattern

ASSUME RouteAssumption ==
  /\ MaxRoutes \in Nat \ {0} /\ MaxLabel \in Nat \ {0} /\ DeviceWidth \in Nat
  /\ {"web", "ssh", "pcp", "provisioning"} \subseteq DOMAIN Width

\* A selection the server did not make, and a profile that is refused.
NoSelection == [name |-> "none", version |-> 0]
Refused == [version |-> 0, routes |-> <<>>]

Local(port) == [host |-> "loopback", port |-> port]
Route(name, kind, target, rewrite) ==
  [name |-> name, kind |-> kind, target |-> target, rewrite |-> rewrite]

-----------------------------------------------------------------------------
(* NormalizeFRPConfig *)

\* An address or a port that the configuration leaves out has a default.
DefaultProfile(c) ==
  [version |-> 1,
   routes  |-> <<Route("web", "http2https", IF c.web = <<>> THEN Local(443) ELSE c.web[1], "none"),
                 Route("ssh", "tcpmux", Local(IF c.ssh = 0 THEN 22 ELSE c.ssh), "none"),
                 Route("pcp", "tcpmux", Local(44321), "none")>>]

BootstrapProfile ==
  [version |-> 1,
   routes  |-> <<Route("provisioning", "http", Local(8080), "loopback")>>]

BuiltIn(c) == ("default" :> DefaultProfile(c)) @@ ("atomixos-bootstrap" :> BootstrapProfile)

\* What the device configures itself is never replaced.
Normalized(c) ==
  [c EXCEPT !.plugins = IF @ = {} THEN {"http2https"} ELSE @,
            !.profiles = @ @@ BuiltIn(c)]

-----------------------------------------------------------------------------
(* Validation *)

MaxPort == 65535
ValidPort(port) == port \in 1..MaxPort
ValidTarget(t) == t.host = "loopback" /\ ValidPort(t.port)

ValidRoute(r, plugins) ==
  /\ r.name \in DOMAIN Width
  /\ r.rewrite # "none" => r.kind = "http"
  /\ \/ r.kind = "http2https" /\ "http2https" \in plugins /\ ValidTarget(r.target)
     \/ r.kind = "http" /\ ValidTarget(r.target) /\ r.rewrite \in {"none", "loopback"}
     \/ r.kind = "tcpmux" /\ ValidPort(r.target.port)

ValidProfile(profile, plugins) ==
  /\ plugins \subseteq {"http2https"}
  /\ profile.version > 0
  /\ Len(profile.routes) \in 1..MaxRoutes
  /\ \A i, j \in DOMAIN profile.routes :
       profile.routes[i].name = profile.routes[j].name => i = j
  /\ \A i \in DOMAIN profile.routes : ValidRoute(profile.routes[i], plugins)

\* ResolveRouteProfile.
Resolved(config, selection) ==
  LET c == Normalized(config)
      s == IF selection = NoSelection THEN [name |-> "default", version |-> 1] ELSE selection
  IN  IF /\ s.version > 0
         /\ s.name \in DOMAIN c.profiles
         /\ c.profiles[s.name].version = s.version
         /\ ValidProfile(c.profiles[s.name], c.plugins)
      THEN c.profiles[s.name]
      ELSE Refused

\* remoteAccessProfileKey: a grant must name its profile.
Accepts(config, selection) == selection # NoSelection /\ Resolved(config, selection) # Refused

-----------------------------------------------------------------------------
(* Rendering *)

\* Fault: the route's name is left out.
OneName(route) == <<"device">>

\* routeProxyName, as the subdomain or the custom domain of the proxy.
ProxyName(route) == IF route.name = "web" THEN <<"device">> ELSE <<"device", route.name>>
NameWidth(route) == IF route.name = "web" THEN DeviceWidth ELSE DeviceWidth + 1 + Width[route.name]

Proxy(route) ==
  [name   |-> ProxyName(route),
   type   |-> IF route.kind = "tcpmux" THEN "tcpmux" ELSE "http",
   plugin |-> IF route.kind = "http2https" THEN {"http2https"} ELSE {},
   target |-> IF route.kind = "tcpmux" THEN Local(route.target.port) ELSE route.target]

\* validateRenderConfig: a profile that resolves may still have names that are
\* too long for this device.
Renders(config, selection) ==
  /\ Accepts(config, selection)
  /\ \A i \in DOMAIN Resolved(config, selection).routes :
       NameWidth(Resolved(config, selection).routes[i]) <= MaxLabel

\* The proxies of the rendered file, in the order of the routes.
Rendered(config, selection) ==
  LET routes == Resolved(config, selection).routes
  IN  [i \in DOMAIN routes |-> Proxy(routes[i])]
=============================================================================
