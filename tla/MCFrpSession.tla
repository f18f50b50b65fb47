---------------------------- MODULE MCFrpSession ----------------------------
(***************************************************************************)
(* TunnelRoutes on a device with a small configuration, and what           *)
(* RouteProfile makes of all small configurations.                         *)
(***************************************************************************)
EXTENDS TunnelRoutes

\* Route names by the length of the proxy name they make on a device.
RouteNames == "web" :> 3 @@ "ssh" :> 3 @@ "pcp" :> 3 @@ "provisioning" :> 12 @@ "long" :> 26

\* The device has two profiles of its own: one with a name its renderer refuses,
\* and one that would put a second service behind the web interface's name.
MCDeviceConfig ==
  [profiles |->
     "lab" :> [version |-> 1, routes |-> <<Route("long", "tcpmux", Local(9000), "none")>>]
     @@ "twice" :> [version |-> 1,
                    routes |-> <<Route("web", "http2https", Local(443), "none"),
                                 Route("web", "tcpmux", Local(9000), "none")>>],
   plugins |-> {}, web |-> <<>>, ssh |-> 0]

\* The profile each grant of the instance names.
MCSelection ==
  "web" :> [name |-> "default", version |-> 1]
  @@ "setup" :> [name |-> "atomixos-bootstrap", version |-> 1]
  @@ "long" :> [name |-> "lab", version |-> 1]
  @@ "twice" :> [name |-> "twice", version |-> 1]

-----------------------------------------------------------------------------
(* Small configurations: one profile with one or two routes. *)

Targets == {Local(80), Local(0), Local(65536), [host |-> "remote", port |-> 80]}
OwnRoutes ==
  {Route(n, k, t, r) : n \in {"web", "Bad name"}, k \in {"http2https", "http", "tcpmux", "udp"},
                       t \in Targets, r \in {"none", "loopback", "remote"}}
OwnProfiles ==
  {[version |-> v, routes |-> rs] :
     v \in {0, 1}, rs \in {<<>>} \cup {<<r>> : r \in OwnRoutes}
                         \cup {<<r, Route("web", "http", Local(80), "none")>> : r \in OwnRoutes}}
SmallConfigs ==
  {[profiles |-> n :> p, plugins |-> k, web |-> w, ssh |-> 0] :
     n \in {"lab", "default"}, p \in OwnProfiles, k \in {{}, {"udp"}},
     w \in {<<>>, <<[host |-> "remote", port |-> 80]>>}}
Selections ==
  {NoSelection} \cup {[name |-> n, version |-> v] : n \in {"lab", "default"}, v \in 0..1}

\* The loop resolves a selection on the normalised configuration and Start
\* resolves it again: the answers agree, and no profile that is accepted has a
\* target off the device (except a tcpmux route's host, which is not rendered).
ASSUME SmallConfigsAgree ==
  \A c \in SmallConfigs, s \in Selections :
    /\ Resolved(Normalized(c), s) = Resolved(c, s)
    /\ Accepts(c, s) =>
         \A i \in DOMAIN Rendered(c, s) :
           LET t == Rendered(c, s)[i].target IN t.host = "loopback" /\ t.port \in 1..MaxPort
=============================================================================
