-------------------------- MODULE FrpSessionProofs ---------------------------
(***************************************************************************)
(* Theorems about FrpSession: its types, that what the server withdraws is *)
(* down once the loop has acted on it, and that a session serves nothing   *)
(* but the device's own services (TunnelRoutes).                           *)
(***************************************************************************)
EXTENDS TunnelRoutes, TLAPS

-----------------------------------------------------------------------------
(* The inductive invariant *)

\* The loop acts on what the server wanted when it was asked.
ToldIsTrue == told # "no" => resp = want

\* Only a grant of the configuration is started, with its own credential.
StartsKnown ==
  /\ pc \in {"check", "render", "env", "run"} => resp \in Known
  /\ pc = "run" => env = resp

\* A child is never restarted, and while it lives its goroutine waits for it.
ChildIsWatched ==
  direct =>
    /\ session.phase # "restarting"
    /\ session.phase \in {"starting", "running"} => waiter = "watching"

\* Once Stop has ended a session, nothing lets one in before Cleanup.
StoppedIsDown ==
  want = NoGrant /\ told # "no" /\ (pc = "cleanup" \/ (pc = "halt" /\ direct)) =>
    session.phase # "running"

IInv ==
  /\ TypeOK
  /\ ToldIsTrue
  /\ StartsKnown
  /\ ChildIsWatched
  /\ StoppedIsDown
  /\ WithdrawnIsDown

-----------------------------------------------------------------------------
\* The session values of TypeOK, without their sets of records.
LEMMA SessionValues ==
  /\ Down \in Sessions /\ Down.phase = "none"
  /\ \A g \in Grants : Starting(g) \in Sessions /\ Starting(g).phase = "starting"
  /\ Restarting \in Sessions /\ Restarting.phase = "restarting"
  /\ \A g, c \in Grants :
       [phase |-> "running", token |-> g, routes |-> c] \in Sessions
  /\ \A s \in Sessions : s.phase \in {"starting", "running"} => s.token \in Grants
BY DEF Down, Restarting, Starting, Sessions

LEMMA InitInv == Init => IInv
<1> SUFFICES ASSUME Init PROVE IInv
  OBVIOUS
<1>1. TypeOK
  BY SessionValues, FrpBounds DEF Init, TypeOK, Some
<1>2. ToldIsTrue /\ StartsKnown /\ ChildIsWatched /\ StoppedIsDown /\ WithdrawnIsDown
  BY SessionValues DEF Init, ToldIsTrue, StartsKnown, ChildIsWatched, StoppedIsDown, WithdrawnIsDown
<1> QED BY <1>1, <1>2 DEF IInv

\* A change of mind clears the history of what the loop was told.
LEMMA ServerInv ==
  ASSUME IInv, NEW g \in Some, ServerChanges(g)
  PROVE  IInv'
<1>1. TypeOK'
  BY FrpBounds DEF IInv, TypeOK, ServerChanges, files, proc
<1>2. (ToldIsTrue /\ StartsKnown /\ ChildIsWatched /\ StoppedIsDown /\ WithdrawnIsDown)'
  BY DEF IInv, TypeOK, ServerChanges, files, proc, ToldIsTrue, StartsKnown,
    ChildIsWatched, StoppedIsDown, WithdrawnIsDown
<1> QED BY <1>1, <1>2 DEF IInv

LEMMA HeartbeatInv ==
  ASSUME IInv, Heartbeat
  PROVE  IInv'
<1>1. TypeOK'
  BY DEF IInv, TypeOK, Heartbeat, Goto, files, proc, server
<1>2. (ToldIsTrue /\ StartsKnown /\ ChildIsWatched /\ StoppedIsDown /\ WithdrawnIsDown)'
  BY DEF IInv, TypeOK, Heartbeat, Goto, files, proc, server, ToldIsTrue, StartsKnown,
    ChildIsWatched, StoppedIsDown, WithdrawnIsDown
<1> QED BY <1>1, <1>2 DEF IInv

\* A poll that decides to leave things as they are saw a grant, or nothing that
\* is active.
LEMMA DecideInv ==
  ASSUME IInv, Decide
  PROVE  IInv'
<1> USE GrantAssumption DEF IInv, TypeOK, Some, Goto, Finish, files, proc, server
<1>1. CASE KeepTunnel
  <2>1. TypeOK'
    BY <1>1 DEF KeepTunnel
  <2>2. (ToldIsTrue /\ StartsKnown /\ ChildIsWatched /\ StoppedIsDown /\ WithdrawnIsDown)'
    BY <1>1 DEF KeepTunnel, ToldIsTrue, StartsKnown, ChildIsWatched, StoppedIsDown, WithdrawnIsDown
  <2> QED BY <2>1, <2>2
<1>2. CASE RenewCredential
  <2>1. TypeOK'
    BY <1>2, FrpBounds DEF RenewCredential, Fault
  <2>2. (ToldIsTrue /\ StartsKnown /\ ChildIsWatched /\ StoppedIsDown /\ WithdrawnIsDown)'
    BY <1>2 DEF RenewCredential, Fault, ToldIsTrue, StartsKnown, ChildIsWatched,
      StoppedIsDown, WithdrawnIsDown
  <2> QED BY <2>1, <2>2
<1>3. CASE NeedsStart \/ NeedsStop
  <2>1. TypeOK'
    BY <1>3 DEF NeedsStart, NeedsStop
  <2>2. (ToldIsTrue /\ StartsKnown /\ ChildIsWatched /\ StoppedIsDown /\ WithdrawnIsDown)'
    BY <1>3 DEF NeedsStart, NeedsStop, ToldIsTrue, StartsKnown, ChildIsWatched,
      StoppedIsDown, WithdrawnIsDown
  <2> QED BY <2>1, <2>2
<1>4. CASE NothingToStop
  <2>1. TypeOK'
    BY <1>4 DEF NothingToStop
  <2>2. session.phase # "running"
    BY <1>4 DEF NothingToStop, IsActive, ChildIsWatched
  <2>3. (ToldIsTrue /\ StartsKnown /\ ChildIsWatched /\ StoppedIsDown /\ WithdrawnIsDown)'
    BY <1>4, <2>2 DEF NothingToStop, ToldIsTrue, StartsKnown, ChildIsWatched, StoppedIsDown,
      WithdrawnIsDown
  <2> QED BY <2>1, <2>3
<1> QED BY <1>1, <1>2, <1>3, <1>4 DEF Decide

-----------------------------------------------------------------------------
(* Stop and Start *)

\* Cleanup is reached with no session running, unless the server wants one.
LEMMA StopInv ==
  ASSUME IInv, Stop
  PROVE  IInv'
<1> USE GrantAssumption, FrpBounds
    DEF IInv, TypeOK, Some, Goto, Finish, Fail, Fault, files, proc, server
<1> DEFINE Rest == ToldIsTrue /\ StartsKnown /\ ChildIsWatched /\ StoppedIsDown /\ WithdrawnIsDown
<1>1. CASE StopChild
  <2>1. TypeOK'
    BY <1>1, SessionValues DEF StopChild
  <2>2. Rest'
    BY <1>1, SessionValues DEF StopChild, ToldIsTrue, StartsKnown, ChildIsWatched,
      StoppedIsDown, WithdrawnIsDown
  <2> QED BY <2>1, <2>2
<1>2. CASE ChildIsDone
  <2>1. TypeOK'
    BY <1>2 DEF ChildIsDone
  <2>2. Rest'
    BY <1>2 DEF ChildIsDone, ToldIsTrue, StartsKnown, ChildIsWatched, StoppedIsDown, WithdrawnIsDown
  <2> QED BY <2>1, <2>2
<1>3. CASE NotActive
  <2>1. TypeOK'
    BY <1>3 DEF NotActive
  <2>2. session.phase # "running"
    BY <1>3 DEF NotActive, IsActive, ChildIsWatched
  <2>3. Rest'
    BY <1>3, <2>2 DEF NotActive, ToldIsTrue, StartsKnown, ChildIsWatched, StoppedIsDown, WithdrawnIsDown
  <2> QED BY <2>1, <2>3
<1>4. CASE UnitActive
  <2>1. TypeOK'
    BY <1>4 DEF UnitActive
  <2>2. Rest'
    BY <1>4 DEF UnitActive, ToldIsTrue, StartsKnown, ChildIsWatched, StoppedIsDown, WithdrawnIsDown
  <2> QED BY <2>1, <2>2
<1>5. CASE StopUnit
  <2>1. TypeOK'
    BY <1>5, SessionValues DEF StopUnit
  <2>2. Rest'
    BY <1>5, SessionValues DEF StopUnit, ToldIsTrue, StartsKnown, ChildIsWatched,
      StoppedIsDown, WithdrawnIsDown
  <2> QED BY <2>1, <2>2
<1>6. CASE StopFails
  <2>1. TypeOK'
    BY <1>6 DEF StopFails
  <2>2. Rest'
    BY <1>6 DEF StopFails, ToldIsTrue, StartsKnown, ChildIsWatched, StoppedIsDown, WithdrawnIsDown
  <2> QED BY <2>1, <2>2
<1>7. CASE Cleanup
  <2>1. TypeOK'
    BY <1>7 DEF Cleanup
  <2>2. CASE resp \in Known
    <3>1. ToldIsTrue' /\ StartsKnown' /\ ChildIsWatched' /\ StoppedIsDown'
      BY <1>7, <2>2 DEF Cleanup, ToldIsTrue, StartsKnown, ChildIsWatched, StoppedIsDown
    <3>2. WithdrawnIsDown'
      BY <1>7, <2>2 DEF Cleanup, ToldIsTrue, WithdrawnIsDown
    <3> QED BY <2>1, <3>1, <3>2
  <2>3. CASE resp \notin Known
    <3>1. ToldIsTrue' /\ StartsKnown' /\ ChildIsWatched' /\ StoppedIsDown'
      BY <1>7, <2>3 DEF Cleanup, ToldIsTrue, StartsKnown, ChildIsWatched, StoppedIsDown
    <3>2. WithdrawnIsDown'
      BY <1>7, <2>3 DEF Cleanup, StoppedIsDown, WithdrawnIsDown
    <3> QED BY <2>1, <3>1, <3>2
  <2> QED BY <2>2, <2>3
<1> QED BY <1>1, <1>2, <1>3, <1>4, <1>5, <1>6, <1>7 DEF Stop

\* Every step of Start works for a known grant, so none ends a withdrawal.
LEMMA StartInv ==
  ASSUME IInv, Start
  PROVE  IInv'
<1> USE GrantAssumption, FrpBounds
    DEF IInv, TypeOK, Some, Goto, Finish, Fail, Fault, files, proc, server
<1> DEFINE Rest == ToldIsTrue /\ StartsKnown /\ ChildIsWatched /\ StoppedIsDown /\ WithdrawnIsDown
<1>1. CASE AlreadyActive \/ NotRunning
  <2>1. TypeOK'
    BY <1>1 DEF AlreadyActive, NotRunning, StartsKnown
  <2>2. Rest'
    BY <1>1 DEF AlreadyActive, NotRunning, ToldIsTrue, StartsKnown, ChildIsWatched,
      StoppedIsDown, WithdrawnIsDown
  <2> QED BY <2>1, <2>2
<1>2. CASE Render
  <2>1. TypeOK'
    BY <1>2 DEF Render, StartsKnown
  <2>2. Rest'
    BY <1>2 DEF Render, ToldIsTrue, StartsKnown, ChildIsWatched, StoppedIsDown, WithdrawnIsDown
  <2> QED BY <2>1, <2>2
<1>3. CASE WriteEnvironment
  <2>1. TypeOK'
    BY <1>3 DEF WriteEnvironment, StartsKnown
  <2>2. Rest'
    BY <1>3 DEF WriteEnvironment, ToldIsTrue, StartsKnown, ChildIsWatched, StoppedIsDown, WithdrawnIsDown
  <2> QED BY <2>1, <2>2
<1>4. CASE WriteFails
  <2>1. TypeOK'
    BY <1>4 DEF WriteFails
  <2>2. Rest'
    BY <1>4 DEF WriteFails, ToldIsTrue, StartsKnown, ChildIsWatched, StoppedIsDown, WithdrawnIsDown
  <2> QED BY <2>1, <2>2
<1>5. CASE RunUnit
  <2>1. TypeOK'
    BY <1>5, SessionValues DEF RunUnit, StartsKnown
  <2>2. (env \in Grants /\ want # NoGrant) \/ told = "no"
    BY <1>5 DEF RunUnit, StartsKnown, ToldIsTrue
  <2>3. session'.phase = "starting"
    BY <1>5, SessionValues DEF RunUnit, StartsKnown
  <2>4. Rest'
    BY <1>5, <2>2, <2>3 DEF RunUnit, ToldIsTrue, StartsKnown, ChildIsWatched,
      StoppedIsDown, WithdrawnIsDown
  <2> QED BY <2>1, <2>4
<1>6. CASE RunFails
  <2>1. TypeOK'
    BY <1>6 DEF RunFails
  <2>2. Rest'
    BY <1>6 DEF RunFails, ToldIsTrue, StartsKnown, ChildIsWatched, StoppedIsDown, WithdrawnIsDown
  <2> QED BY <2>1, <2>2
<1>7. CASE StartDirect
  <2>1. TypeOK'
    BY <1>7, SessionValues DEF StartDirect, StartsKnown
  <2>2. session'.phase = "starting"
    BY <1>7, SessionValues DEF StartDirect, StartsKnown
  <2>3. Rest'
    BY <1>7, <2>2 DEF StartDirect, ToldIsTrue, StartsKnown, ChildIsWatched, StoppedIsDown, WithdrawnIsDown
  <2> QED BY <2>1, <2>3
<1>8. CASE RenderFails
  <2>1. TypeOK'
    BY <1>8 DEF RenderFails
  <2>2. Rest'
    BY <1>8 DEF RenderFails, ToldIsTrue, StartsKnown, ChildIsWatched, StoppedIsDown, WithdrawnIsDown
  <2> QED BY <2>1, <2>2
<1> QED BY <1>1, <1>2, <1>3, <1>4, <1>5, <1>6, <1>7, <1>8 DEF Start

-----------------------------------------------------------------------------
(* The processes *)

\* A session that is refused or ends is down, restarting, or reaped.
LEMMA ExitsFacts ==
  ASSUME TypeOK, Exits
  PROVE  /\ session' \in Sessions /\ session'.phase \in {"none", "restarting"}
         /\ waiter' \in {"none", "watching", "exited"}
         /\ direct => session'.phase = "none"
BY SessionValues DEF TypeOK, Exits

\* Nobody is let in while the server grants nothing.
LEMMA LogsInInv ==
  ASSUME IInv, LogsIn
  PROVE  IInv'
<1> USE GrantAssumption DEF IInv, TypeOK, Some, LogsIn, files, proc, server, loop
<1>1. session.token \in Grants /\ config \in Grants
  BY SessionValues
<1>2. want # NoGrant
  BY <1>1
<1>3. session' \in Sessions
  BY <1>1, SessionValues
<1>4. TypeOK'
  BY <1>3
<1>5. (ToldIsTrue /\ StartsKnown /\ ChildIsWatched /\ StoppedIsDown /\ WithdrawnIsDown)'
  BY <1>2 DEF ToldIsTrue, StartsKnown, ChildIsWatched, StoppedIsDown, WithdrawnIsDown
<1> QED BY <1>4, <1>5

LEMMA EndsInv ==
  ASSUME IInv, IsRefused \/ SessionEnds
  PROVE  IInv'
<1> USE FrpBounds DEF IInv, TypeOK, Some, IsRefused, SessionEnds, Fault, files, proc, server, loop
<1>1. /\ session' \in Sessions /\ session'.phase \in {"none", "restarting"}
      /\ waiter' \in {"none", "watching", "exited"}
      /\ direct => session'.phase = "none"
  BY ExitsFacts
<1>2. TypeOK'
  BY <1>1
<1>3. (ToldIsTrue /\ StartsKnown /\ ChildIsWatched /\ StoppedIsDown /\ WithdrawnIsDown)'
  BY <1>1 DEF ToldIsTrue, StartsKnown, ChildIsWatched, StoppedIsDown, WithdrawnIsDown
<1> QED BY <1>2, <1>3

\* A unit is restarted in systemd mode only, where no goroutine watches it.
LEMMA UnitInv ==
  ASSUME IInv, UnitRestarts \/ UnitGivesUp
  PROVE  IInv'
<1> USE DEF IInv, TypeOK, Some, UnitRestarts, UnitGivesUp, files, proc, server, loop
<1>1. session' \in Sessions /\ session'.phase \in {"none", "starting"}
  BY SessionValues
<1>2. TypeOK'
  BY <1>1
<1>3. ~direct
  BY DEF ChildIsWatched
<1>4. (ToldIsTrue /\ StartsKnown /\ ChildIsWatched /\ StoppedIsDown /\ WithdrawnIsDown)'
  BY <1>1, <1>3 DEF ToldIsTrue, StartsKnown, ChildIsWatched, StoppedIsDown, WithdrawnIsDown
<1> QED BY <1>2, <1>4

\* The goroutine of a child touches files only, and a restarted poll process
\* has been told nothing.
LEMMA RestInv ==
  ASSUME IInv, ForgetChild \/ RemoveConfig \/ ClientRestarts
  PROVE  IInv'
<1> USE FrpBounds DEF IInv, TypeOK, Some, files, proc, server, loop
<1> DEFINE Rest == ToldIsTrue /\ StartsKnown /\ ChildIsWatched /\ StoppedIsDown /\ WithdrawnIsDown
<1>1. CASE ForgetChild
  <2>1. TypeOK'
    BY <1>1 DEF ForgetChild
  <2>2. Rest'
    BY <1>1 DEF ForgetChild, ToldIsTrue, StartsKnown, ChildIsWatched, StoppedIsDown, WithdrawnIsDown
  <2> QED BY <2>1, <2>2
<1>2. CASE RemoveConfig
  <2>1. TypeOK'
    BY <1>2 DEF RemoveConfig
  <2>2. Rest'
    BY <1>2 DEF RemoveConfig, ToldIsTrue, StartsKnown, ChildIsWatched, StoppedIsDown, WithdrawnIsDown
  <2> QED BY <2>1, <2>2
<1>3. CASE ClientRestarts
  <2>1. TypeOK'
    BY <1>3, SessionValues DEF ClientRestarts, Fault
  <2>2. Rest'
    BY <1>3, SessionValues DEF ClientRestarts, Fault, ToldIsTrue, StartsKnown, ChildIsWatched,
      StoppedIsDown, WithdrawnIsDown
  <2> QED BY <2>1, <2>2
<1> QED BY <1>1, <1>2, <1>3

-----------------------------------------------------------------------------
LEMMA Inductive == Spec => []IInv
<1>1. IInv /\ [Next]_vars => IInv'
  <2> SUFFICES ASSUME IInv, [Next]_vars PROVE IInv'
    OBVIOUS
  <2>1. CASE UNCHANGED vars
    BY <2>1 DEF vars, IInv, TypeOK, ToldIsTrue, StartsKnown, ChildIsWatched, StoppedIsDown,
      WithdrawnIsDown
  <2>2. CASE Next
    BY <2>2, ServerInv, HeartbeatInv, DecideInv, StopInv, StartInv, LogsInInv, EndsInv, UnitInv,
      RestInv DEF Next, PollStep
  <2> QED BY <2>1, <2>2
<1> QED BY <1>1, InitInv, PTL DEF Spec

\* Every reachable state of the device's side is well typed: in particular a
\* unit is never started from an environment file without a credential.
THEOREM FrpTypeCorrect == Spec => []TypeOK
<1>1. IInv => TypeOK
  BY DEF IInv
<1> QED BY <1>1, Inductive, PTL

\* What the server withdraws is down once the loop has acted on it, whatever
\* restarted, failed or died meanwhile (pollOnce, Manager.Stop, FrpsToken.verify).
THEOREM WithdrawalEndsTheTunnel == Spec => []WithdrawnIsDown
<1>1. IInv => WithdrawnIsDown
  BY DEF IInv
<1> QED BY <1>1, Inductive, PTL

-----------------------------------------------------------------------------
(* What a session serves *)

\* Names that differ make proxies whose names differ.
LEMMA ProxyNamesDiffer ==
  ASSUME NEW r, NEW q, ProxyName(r) = ProxyName(q)
  PROVE  r.name = q.name
<1>1. CASE r.name = "web" /\ q.name = "web"
  BY <1>1
<1>2. CASE r.name # "web" /\ q.name # "web"
  <2>1. ProxyName(r) = <<"device", r.name>> /\ ProxyName(q) = <<"device", q.name>>
    BY <1>2 DEF ProxyName
  <2>2. <<"device", r.name>>[2] = r.name /\ <<"device", q.name>>[2] = q.name
    OBVIOUS
  <2> QED BY <2>1, <2>2
<1>3. <<"device">> # <<"device", r.name>> /\ <<"device">> # <<"device", q.name>>
  OBVIOUS
<1> QED BY <1>1, <1>2, <1>3 DEF ProxyName

\* A valid route is rendered as a proxy to the device itself.
LEMMA ProxyIsLocal ==
  ASSUME NEW r, NEW plugins, ValidRoute(r, plugins)
  PROVE  /\ Proxy(r).target.host = "loopback" /\ Proxy(r).target.port \in 1..MaxPort
         /\ Proxy(r).plugin \subseteq plugins /\ Proxy(r).name = ProxyName(r)
<1>1. /\ Proxy(r).name = ProxyName(r)
      /\ Proxy(r).plugin = IF r.kind = "http2https" THEN {"http2https"} ELSE {}
      /\ Proxy(r).target = IF r.kind = "tcpmux" THEN Local(r.target.port) ELSE r.target
  BY DEF Proxy
<1>2. /\ r.kind = "http2https" => "http2https" \in plugins
      /\ r.kind # "tcpmux" => ValidTarget(r.target)
      /\ r.kind = "tcpmux" => ValidPort(r.target.port)
  BY DEF ValidRoute
<1>3. CASE r.kind = "tcpmux"
  <2>1. Proxy(r).target.host = "loopback" /\ Proxy(r).target.port = r.target.port
    BY <1>1, <1>3 DEF Local
  <2> QED BY <2>1, <1>1, <1>2, <1>3 DEF ValidPort
<1>4. CASE r.kind # "tcpmux"
  BY <1>1, <1>2, <1>4 DEF ValidTarget, ValidPort
<1> QED BY <1>3, <1>4

\* A profile that is accepted is one of the device's, and valid.
LEMMA AcceptedIsValid ==
  ASSUME NEW s, Accepts(DeviceConfig, s)
  PROVE  /\ \E n \in DOMAIN Normalized(DeviceConfig).profiles :
              Resolved(DeviceConfig, s) = Normalized(DeviceConfig).profiles[n]
         /\ ValidProfile(Resolved(DeviceConfig, s), Normalized(DeviceConfig).plugins)
<1> DEFINE c == Normalized(DeviceConfig)
<1> DEFINE t == IF s = NoSelection THEN [name |-> "default", version |-> 1] ELSE s
<1>1. Resolved(DeviceConfig, s) # Refused
  BY DEF Accepts
<1>2. Resolved(DeviceConfig, s) =
        IF /\ t.version > 0
           /\ t.name \in DOMAIN c.profiles
           /\ c.profiles[t.name].version = t.version
           /\ ValidProfile(c.profiles[t.name], c.plugins)
        THEN c.profiles[t.name] ELSE Refused
  BY DEF Resolved
<1> HIDE DEF c, t
<1>3. /\ t.name \in DOMAIN c.profiles /\ ValidProfile(c.profiles[t.name], c.plugins)
      /\ Resolved(DeviceConfig, s) = c.profiles[t.name]
  BY <1>1, <1>2
<1> QED BY <1>3 DEF c

LEMMA AcceptedStaysLocal ==
  ASSUME NEW s, Accepts(DeviceConfig, s)
  PROVE  StaysLocal(Rendered(DeviceConfig, s))
<1> DEFINE routes == Resolved(DeviceConfig, s).routes
<1> DEFINE plugins == Normalized(DeviceConfig).plugins
<1> DEFINE proxies == Rendered(DeviceConfig, s)
<1>1. proxies = [i \in DOMAIN routes |-> Proxy(routes[i])]
  BY DEF Rendered
<1>2. DOMAIN routes = 1..Len(routes)
  BY AcceptedIsValid, ConfigAssumption
<1>3. /\ Len(routes) \in 1..MaxRoutes
      /\ \A i, j \in DOMAIN routes : routes[i].name = routes[j].name => i = j
      /\ \A i \in DOMAIN routes : ValidRoute(routes[i], plugins)
  BY AcceptedIsValid DEF ValidProfile
<1> HIDE DEF routes, plugins, proxies
<1>4. \A i \in DOMAIN routes :
        /\ proxies[i].target.host = "loopback" /\ proxies[i].target.port \in 1..MaxPort
        /\ proxies[i].plugin \subseteq plugins /\ proxies[i].name = ProxyName(routes[i])
  BY <1>1, <1>3, ProxyIsLocal
<1>5. DOMAIN proxies = DOMAIN routes
  BY <1>1
<1>6. DOMAIN proxies # {}
  BY <1>2, <1>3, <1>5, RouteAssumption
<1>7. IsInjective([i \in DOMAIN proxies |-> proxies[i].name])
  <2>1. ASSUME NEW i \in DOMAIN proxies, NEW j \in DOMAIN proxies,
               proxies[i].name = proxies[j].name
        PROVE  i = j
    BY <2>1, <1>3, <1>4, <1>5, ProxyNamesDiffer
  <2> QED BY <2>1 DEF IsInjective
<1>8. StaysLocal(proxies)
  BY <1>4, <1>5, <1>6, <1>7 DEF StaysLocal, plugins
<1> QED BY <1>8 DEF proxies

\* Whatever is written to frpc.toml has been rendered, and only from it a session
\* takes its routes.
ConfigIsRendered ==
  /\ config \in Renderable \cup {NoGrant}
  /\ session.phase = "running" => session.routes \in Renderable

LEMMA RenderedInv == Spec => []ConfigIsRendered
<1>1. Init => ConfigIsRendered
  BY SessionValues DEF Init, ConfigIsRendered
<1>2. IInv /\ ConfigIsRendered /\ [Next]_vars => ConfigIsRendered'
  <2> SUFFICES ASSUME IInv, ConfigIsRendered, [Next]_vars PROVE ConfigIsRendered'
    OBVIOUS
  <2>1. CASE UNCHANGED <<config, session>>
    BY <2>1 DEF ConfigIsRendered
  <2>2. ASSUME session'.phase # "running" \/ session' = session,
               config' \in {config, NoGrant} \/ (config' = resp /\ resp \in Renderable)
        PROVE  ConfigIsRendered'
    BY <2>2 DEF ConfigIsRendered
  <2>3. CASE LogsIn
    BY <2>3 DEF LogsIn, ConfigIsRendered, files
  <2>4. CASE (\E g \in Some : ServerChanges(g)) \/ Heartbeat \/ Decide
    BY <2>4, <2>1 DEF ServerChanges, Heartbeat, Decide, KeepTunnel, RenewCredential, NeedsStart,
      NeedsStop, NothingToStop, files, proc
  <2>5. CASE Stop
    BY <2>5, <2>2, SessionValues DEF Stop, StopChild, ChildIsDone, NotActive, UnitActive, StopUnit,
      StopFails, Cleanup, files, proc
  <2>6. CASE Start
    <3>1. env \in Some /\ resp \in Some
      BY DEF IInv, TypeOK
    <3>2. session' = session \/ session' = Starting(env) \/ session' = Starting(resp)
      BY <2>6 DEF Start, AlreadyActive, NotRunning, Render, RenderFails, WriteEnvironment,
        WriteFails, RunUnit, RunFails, StartDirect, proc
    <3>3. config' \in {config, NoGrant} \/ (config' = resp /\ resp \in Renderable)
      BY <2>6 DEF Start, AlreadyActive, NotRunning, Render, RenderFails, WriteEnvironment,
        WriteFails, RunUnit, RunFails, StartDirect, files
    <3> QED BY <3>2, <3>3, <2>2 DEF Starting
  <2>7. CASE IsRefused \/ SessionEnds
    BY <2>7, <2>2, ExitsFacts DEF IInv, IsRefused, SessionEnds, files
  <2>8. CASE UnitRestarts \/ UnitGivesUp
    BY <2>8, <2>2 DEF UnitRestarts, UnitGivesUp, Starting, Down, files
  <2>9. CASE ForgetChild \/ RemoveConfig \/ ClientRestarts
    BY <2>9, <2>2, SessionValues DEF ForgetChild, RemoveConfig, ClientRestarts, files, proc
  <2> QED BY <2>1, <2>3, <2>4, <2>5, <2>6, <2>7, <2>8, <2>9 DEF Next, PollStep, vars, proc, files
<1> QED BY <1>1, <1>2, Inductive, PTL DEF Spec

\* Whatever the configuration says and whatever profile the server names, frpc
\* serves only the device's loopback services through allowed plugins, each under
\* a name of its own (ResolveRouteProfile, validateRouteProfile, Manager.Start).
THEOREM SessionsServeLocally == Spec => []RoutesStayLocal
<1>1. ConfigIsRendered => RoutesStayLocal
  <2> SUFFICES ASSUME ConfigIsRendered, session.phase = "running"
               PROVE  StaysLocal(Served(session.routes))
    BY DEF RoutesStayLocal
  <2>1. Accepts(DeviceConfig, Selection[session.routes])
    BY DeviceAssumption DEF ConfigIsRendered, Renders
  <2> QED BY <2>1, AcceptedStaysLocal DEF Served
<1> QED BY <1>1, RenderedInv, PTL
=============================================================================
