----------------------------- MODULE FrpSession -----------------------------
(***************************************************************************)
(* The device's side of remote access: what the poll loop (poll.go) does   *)
(* with the grant a heartbeat brings, the FRP manager (frp/manager.go) it  *)
(* drives, and the frp-session process (frp_session.go) that runs frpc,    *)
(* either as a systemd unit that restarts on failure or, when systemd      *)
(* refuses, as a child of the poll process. Unit, child and the goroutine  *)
(* that waits for the child run on while the loop is between two looks.    *)
(***************************************************************************)
EXTENDS Naturals

CONSTANTS
  Grants,     \* lease and profile the server names: what the loop compares
  NoGrant,
  Known,      \* grants whose profile the device's configuration has
  Renderable, \* those frpc.toml can be rendered for
  MaxChanges, \* bound on the server's changes of mind
  MaxFaults   \* bound on failures, ended sessions, renewals and restarts

ASSUME GrantAssumption == NoGrant \notin Grants /\ Renderable \subseteq Known /\ Known \subseteq Grants
ASSUME FrpBounds == MaxChanges \in Nat /\ MaxFaults \in Nat

VARIABLES
  want,     \* what the server's selected lease grants now
  direct,   \* systemd refuses transient units: directFallbackAllowed
  pc,       \* where pollOnce is
  resp,     \* the grant in the heartbeat's response
  believed, \* remoteAccessPollState: the grant the loop thinks it started
  config,   \* the grant frpc.toml was rendered for
  env,      \* the grant whose credential the environment file holds
  session,  \* the frp-session process
  waiter,   \* m.directProcess and its goroutine in cmd.Wait
  removers, \* goroutines past that, about to remove frpc.toml
  told,     \* history: has the loop acted on what the server wants now
  changes, faults

server == <<want, changes>>
files == <<config, env>>
proc == <<session, waiter, removers>>
loop == <<pc, resp, believed, told>>
vars == <<want, direct, pc, resp, believed, config, env, session, waiter, removers, told, changes, faults>>

Some == Grants \cup {NoGrant}
Down == [phase |-> "none", token |-> NoGrant, routes |-> NoGrant]
Restarting == [phase |-> "restarting", token |-> NoGrant, routes |-> NoGrant]
Starting(g) == [phase |-> "starting", token |-> g, routes |-> NoGrant]
Sessions ==
  [phase : {"none", "restarting"}, token : {NoGrant}, routes : {NoGrant}]
  \cup [phase : {"starting"}, token : Grants, routes : {NoGrant}]
  \cup [phase : {"running"}, token : Grants, routes : Grants]

TypeOK ==
  /\ want \in Some /\ direct \in BOOLEAN
  /\ pc \in {"idle", "status", "stop", "halt", "cleanup", "check", "render", "env", "run"}
  /\ resp \in Some /\ believed \in Some
  /\ config \in Some /\ env \in Some
  /\ session \in Sessions
  /\ waiter \in {"none", "watching", "exited"} /\ removers \in Nat
  /\ told \in {"no", "asked", "done"}
  /\ changes \in 0..MaxChanges /\ faults \in 0..MaxFaults

Init ==
  /\ want = NoGrant /\ direct \in BOOLEAN
  /\ pc = "idle" /\ resp = NoGrant /\ believed = NoGrant
  /\ config = NoGrant /\ env = NoGrant
  /\ session = Down /\ waiter = "none" /\ removers = 0
  /\ told = "no"
  /\ changes = 0 /\ faults = 0

Fault == faults < MaxFaults /\ faults' = faults + 1

\* A lease is opened, closed, expires or is outranked (RemoteAccess.selected).
ServerChanges(g) ==
  /\ changes < MaxChanges /\ g # want
  /\ want' = g /\ changes' = changes + 1
  /\ told' = "no"
  /\ UNCHANGED <<direct, pc, resp, believed, files, proc, faults>>

IsActive == IF direct THEN waiter # "none" ELSE session.phase \in {"starting", "running"}

-----------------------------------------------------------------------------
(* pollOnce *)

Finish == pc' = "idle" /\ told' = IF told = "asked" THEN "done" ELSE told
Fail == pc' = "idle" /\ told' = "no"
Goto(from, to) == pc = from /\ pc' = to

\* A heartbeat that fails changes nothing here. What a child did at the last
\* poll it has done by the next.
Heartbeat ==
  /\ Goto("idle", "status")
  /\ direct => removers = 0 /\ waiter # "exited" /\ session.phase # "starting"
  /\ resp' = want /\ told' = "asked"
  /\ UNCHANGED <<server, direct, believed, files, proc, faults>>

\* A fault for comparison: a change of lease or profile is not noticed.
KeepAnyTunnel ==
  /\ pc = "status" /\ resp \in Known /\ IsActive
  /\ Finish
  /\ UNCHANGED <<server, direct, resp, believed, files, proc, faults>>

KeepTunnel ==
  /\ pc = "status" /\ resp \in Known /\ IsActive /\ believed = resp
  /\ Finish
  /\ UNCHANGED <<server, direct, resp, believed, files, proc, faults>>

\* credentialNeedsRefresh
RenewCredential ==
  /\ resp \in Known /\ IsActive /\ believed = resp
  /\ Fault
  /\ Goto("status", "stop")
  /\ UNCHANGED <<server, direct, resp, believed, files, proc, told>>

NeedsStart ==
  /\ resp \in Known /\ ~IsActive
  /\ Goto("status", "check")
  /\ UNCHANGED <<server, direct, resp, believed, files, proc, told, faults>>

\* A fault for comparison: a withdrawn tunnel is forgotten instead of stopped.
ForgetTunnel ==
  /\ pc = "status" /\ IsActive /\ believed # resp
  /\ IF resp \in Known THEN pc' = "stop" /\ UNCHANGED <<believed, told>>
     ELSE believed' = NoGrant /\ Finish
  /\ UNCHANGED <<server, direct, resp, files, proc, faults>>

NeedsStop ==
  /\ IsActive /\ (resp \in Known => believed # resp)
  /\ Goto("status", "stop")
  /\ UNCHANGED <<server, direct, resp, believed, files, proc, told, faults>>

NothingToStop ==
  /\ pc = "status" /\ resp \notin Known /\ ~IsActive
  /\ believed' = NoGrant
  /\ Finish
  /\ UNCHANGED <<server, direct, resp, files, proc, faults>>

-----------------------------------------------------------------------------
(* Manager.Stop *)

StopChild ==
  /\ direct /\ waiter # "none"
  /\ Goto("stop", "halt")
  /\ session' = Down /\ waiter' = "exited"
  /\ UNCHANGED <<server, direct, resp, believed, files, removers, told, faults>>

\* <-process.done
ChildIsDone ==
  /\ direct /\ waiter = "none" /\ removers = 0
  /\ Goto("halt", "cleanup")
  /\ UNCHANGED <<server, direct, resp, believed, files, proc, told, faults>>

NotActive ==
  /\ ~IsActive
  /\ Goto("stop", "cleanup")
  /\ UNCHANGED <<server, direct, resp, believed, files, proc, told, faults>>

UnitActive ==
  /\ ~direct /\ IsActive
  /\ Goto("stop", "halt")
  /\ UNCHANGED <<server, direct, resp, believed, files, proc, told, faults>>

StopUnit ==
  /\ ~direct /\ session.phase # "none"
  /\ Goto("halt", "cleanup")
  /\ session' = Down
  /\ UNCHANGED <<server, direct, resp, believed, files, waiter, removers, told, faults>>

StopFails ==
  /\ ~direct /\ pc = "halt"
  /\ \/ session.phase = "none" /\ UNCHANGED faults
     \/ Fault
  /\ Fail
  /\ UNCHANGED <<server, direct, resp, believed, files, proc>>

Cleanup ==
  /\ pc = "cleanup"
  /\ config' = NoGrant /\ env' = NoGrant
  /\ believed' = NoGrant
  /\ IF resp \in Known THEN pc' = "check" /\ UNCHANGED told ELSE Finish
  /\ UNCHANGED <<server, direct, resp, proc, faults>>

-----------------------------------------------------------------------------
(* Manager.Start *)

AlreadyActive ==
  /\ pc = "check" /\ IsActive
  /\ believed' = resp
  /\ Finish
  /\ UNCHANGED <<server, direct, resp, files, proc, faults>>

NotRunning ==
  /\ ~IsActive
  /\ Goto("check", "render")
  /\ UNCHANGED <<server, direct, resp, believed, files, proc, told, faults>>

Render ==
  /\ resp \in Renderable
  /\ Goto("render", "env")
  /\ config' = resp
  /\ UNCHANGED <<server, direct, resp, believed, env, proc, told, faults>>

\* A profile that resolves may have names too long for this device, in which
\* case the file is not touched; a write that fails leaves a useless one.
RenderFails ==
  /\ pc = "render"
  /\ \/ resp \notin Renderable /\ UNCHANGED <<config, faults>>
     \/ Fault /\ config' = NoGrant
  /\ Fail
  /\ UNCHANGED <<server, direct, resp, believed, env, proc>>

WriteEnvironment ==
  /\ Goto("env", "run")
  /\ env' = resp
  /\ UNCHANGED <<server, direct, resp, believed, config, proc, told, faults>>

WriteFails ==
  /\ pc = "env" /\ Fault
  /\ config' = NoGrant
  /\ Fail
  /\ UNCHANGED <<server, direct, resp, believed, env, proc>>

RunUnit ==
  /\ ~direct /\ pc = "run" /\ session.phase = "none"
  /\ session' = Starting(env)
  /\ believed' = resp
  /\ Finish
  /\ UNCHANGED <<server, direct, resp, files, waiter, removers, faults>>

\* systemd refuses a unit name that is still loaded.
RunFails ==
  /\ pc = "run"
  /\ \/ ~direct /\ session.phase # "none" /\ UNCHANGED faults
     \/ Fault
  /\ config' = NoGrant /\ env' = NoGrant
  /\ Fail
  /\ UNCHANGED <<server, direct, resp, believed, proc>>

\* The credential goes to the child in its environment.
StartDirect ==
  /\ direct /\ pc = "run"
  /\ env' = NoGrant
  /\ session' = Starting(resp) /\ waiter' = "watching"
  /\ believed' = resp
  /\ Finish
  /\ UNCHANGED <<server, direct, resp, config, removers, faults>>

-----------------------------------------------------------------------------
(* The processes *)

\* FRPS asks the server at login, and it accepts the selected lease only.
LogsIn ==
  /\ session.phase = "starting" /\ config # NoGrant /\ session.token = want
  /\ session' = [phase |-> "running", token |-> session.token, routes |-> config]
  /\ UNCHANGED <<server, direct, loop, files, waiter, removers, faults>>

\* A child is reaped by its goroutine; a unit is restarted unless it timed out.
Exits ==
  IF direct THEN session' = Down /\ waiter' = "exited"
  ELSE session' \in {Down, Restarting} /\ UNCHANGED waiter

IsRefused ==
  /\ session.phase = "starting" /\ (config = NoGrant \/ session.token # want)
  /\ Exits
  /\ UNCHANGED <<server, direct, loop, files, removers, faults>>

SessionEnds ==
  /\ session.phase \in {"starting", "running"}
  /\ Fault
  /\ Exits
  /\ UNCHANGED <<server, direct, loop, files, removers>>

UnitRestarts ==
  /\ session.phase = "restarting" /\ env # NoGrant
  /\ session' = Starting(env)
  /\ UNCHANGED <<server, direct, loop, files, waiter, removers, faults>>

\* The start limit: five starts in ten seconds.
UnitGivesUp ==
  /\ session.phase = "restarting"
  /\ session' = Down
  /\ UNCHANGED <<server, direct, loop, files, waiter, removers, faults>>

ForgetChild ==
  /\ waiter = "exited"
  /\ waiter' = "none" /\ removers' = removers + 1
  /\ UNCHANGED <<server, direct, loop, files, session, faults>>

\* The file may be the next child's by now.
RemoveConfig ==
  /\ removers > 0
  /\ removers' = removers - 1
  /\ config' = NoGrant
  /\ UNCHANGED <<server, direct, loop, env, session, waiter, faults>>

\* A unit outlives the poll process, a child does not.
ClientRestarts ==
  /\ Fault
  /\ pc' = "idle" /\ resp' = NoGrant /\ believed' = NoGrant /\ told' = "no"
  /\ IF direct THEN session' = Down /\ waiter' = "none" /\ removers' = 0 ELSE UNCHANGED proc
  /\ UNCHANGED <<server, direct, files>>

-----------------------------------------------------------------------------
Decide == KeepTunnel \/ RenewCredential \/ NeedsStart \/ NeedsStop \/ NothingToStop
Stop == StopChild \/ ChildIsDone \/ NotActive \/ UnitActive \/ StopUnit \/ StopFails \/ Cleanup
Start ==
  \/ AlreadyActive \/ NotRunning \/ Render \/ RenderFails \/ WriteEnvironment \/ WriteFails
  \/ RunUnit \/ RunFails \/ StartDirect
PollStep == Heartbeat \/ Decide \/ Stop \/ Start

Next ==
  \/ \E g \in Some : ServerChanges(g)
  \/ PollStep
  \/ LogsIn \/ IsRefused \/ SessionEnds
  \/ UnitRestarts \/ UnitGivesUp
  \/ ForgetChild \/ RemoveConfig
  \/ ClientRestarts

Spec == Init /\ [][Next]_vars

\* The loop polls on, processes and goroutines run, and the start limit ends a
\* unit that restarts again and again.
FairSpec ==
  /\ Spec
  /\ WF_vars(PollStep)
  /\ WF_vars(LogsIn) /\ WF_vars(IsRefused)
  /\ WF_vars(ForgetChild) /\ WF_vars(RemoveConfig)
  /\ WF_vars(UnitRestarts) /\ SF_vars(UnitGivesUp)

-----------------------------------------------------------------------------
(* Properties *)

\* "A tunnel that is already up keeps running until the device's next heartbeat
\* withdraws access and the client stops frpc", and no longer: a unit that the
\* loop missed because it was restarting is not let in again.
WithdrawnIsDown == want = NoGrant /\ told = "done" => session.phase # "running"

\* When the server keeps to a grant the tunnel comes up and stays up, whatever
\* went wrong before; a poll-owned session then has this grant's credential and
\* routes, even if the goroutine of an earlier one removed its frpc.toml.
TunnelComesUp ==
  \A g \in Renderable :
    <>[](want = g) =>
      <>[](session.phase = "running" /\ (direct => session.token = g /\ session.routes = g))
=============================================================================
