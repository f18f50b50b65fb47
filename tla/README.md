# Nixstasis in TLA+

Nixstasis manages a fleet of AtomicNix devices: an Elixir/Phoenix server (Ash
on PostgreSQL, GenServers, LiveViews) and a Go client that polls it every 30
seconds. This directory models the parts of it where several processes, two
machines and a database have to agree: who may reach a device and for how long,
how a device gets its identity, how commands and policies reach it, what the
device does with a batch of them, how its scripts run, how an artifact is
uploaded once, and how a browser terminal is opened and closed.

Paths below are relative to `src/packages/server/lib/` (S), and
`src/packages/client/` (C). The exact lines behind every definition are in
`PROJECT.json` under `map`.

## 1. The system

### How the parts interact

```
 operator's browser            server                               device
 ------------------   ---------------------------------   ------------------------
 DeviceLive (page) -->  RemoteAccessLeases (GenServer) ---.
      |                     timers, monitors              |
      |                 RemoteAccess (transactions) -- leases, device row
      |                                                   |
      |                       heartbeat: lease, commands  v
      |                 Monitoring.heartbeat  <---->  poll loop --> FRP manager
      |                       results                   |            frp-session
      |                 FrpsToken.verify  <-------------|-- login of frpc
      |                                                 |
      +--> SshKeyManager, TerminalChannel -- ssh ------ sshauth store
 PolicyLive ----> assignments, pending_commands ------- Handler: a batch of commands
                                                        |  policy file, script store
                 reports  <-------------------------- executor: scripts, MQTT
 provisioning API -> Provisioning (GenServer) -- HTTP --> AtomixOS job
                 registration API  <------------------ nixstasis register
```

Everything that crosses from the server to the device is either an HTTP answer
to a request of the device (registration, heartbeat) or goes through the FRP
tunnel whose lease the server granted. A lost answer is therefore the typical
fault: the server has committed, the device does not know.

### Inventory

| Component | State | Operations | What is hard | What makes it correct | Status |
|---|---|---|---|---|---|
| Remote-access leases: `nixstasis/devices/remote_access.ex`, `remote_access_lease.ex`, `changes/remote_access_projection.ex` | lease rows; summary columns on the device row; delivery rows (read) | open, close, close_device, sync_projection, restore's two passes, preference changes, deletion | time passes between transactions; the summary is a copy | summary mirrors the lease in effect; priority of uploads; selective revocation; nothing comes back | `RemoteAccess` |
| Lease manager: `Nixstasis.Devices.RemoteAccessLeases` in `nixstasis/devices.ex` | cache, timers, monitors, mailbox | calls, expiry, `:DOWN`, staged restore | stale messages, owners that die, crash | implements the authority; an alarm for every lease | `LeaseManager` |
| Registration: `devices.ex` register/exchange, C `cmd/nixstasis/register.go`, `internal/identity` | device row (status, token hash); two files on the device | claim, approve, exchange, retry, save | lost answers, crash between two files, two hosts with one MAC, late requests | never locked out; first proof wins; secrets move forward | `Enrollment` |
| Command policies: `command_allowlists.ex`, `live/command_policy_live`, C `internal/commands`, `internal/commandpolicy`, `poll.go` | assignments, pending commands, policy in memory and on disk | assign, revoke all, resend, queue, apply, report | reordering in a batch, failed save, restart, two operators | OK means durable; revisions only grow | `CommandPolicy` |
| Provisioning: `nixstasis/provisioning.ex` | delivery rows; the request in progress; mailbox | deliver, resume, upload, poll, withdraw, expire | crash between any two steps, unclear answers | one job per attempt; results stay; withdrawn is dead | `Provisioning` |
| Browser terminals: `live/device_live/show.ex`, `channels/terminal_channel.ex`, `devices/ssh_key_manager.ex`, C `internal/sshauth` | page assigns, keys, channels, device key store, commands | open, check, join, end, revoke | four processes end one session; stale timer messages | no terminal before the device's OK; ended means revoked | `TerminalSession` |
| Client remote access: C `cmd/nixstasis/poll.go`, `frp_session.go`, `internal/frp`, `internal/config/route_profile.go` | what the loop believes, two files, a unit or a child | resolve, render, start, stop, keep, renew, reap | unit and child live on between two looks; a clean-up goroutine; a profile that resolves but does not render | withdrawn is down; granted comes up; only the device's own services are served | `FrpSession`, `RouteProfile`, `TunnelRoutes` |
| Client commands: C `internal/commands`, `internal/script/discovery.go`, `version.go`, `poll.go` | the batch, its results, the script directories | fetch, execute, list, install, remove; the administrator's install and remove | reads in parallel and writes alone; deadlines after a commit; a cut file; two processes at one directory | in the server's order; each command answered once; what is refused changed nothing; what is installed is what runs | `CommandBatch`, `OrderedBatch`, `ScriptStore` |
| Client scripts: C `internal/script/executor.go`, `runtime.go`, `builtins_exec.go`, `builtins_mqtt.go` | workers, contexts, one MQTT client with its semaphore, subscription and breaker | execute, exec_cmd, pub_and_get, convert | hung scripts, cancellation, late replies, abandoned connection attempts | every script is reported; own replies only; bounded attempts and output | `ScriptRun`, `StarlarkValue` |
| SSH authority: C `internal/sshauth`, `cmd/nixstasis/ssh_authorized_keys.go` | keys in memory, their timers, the socket | add, revoke, expire, look up | a timer that has fired waits for the lock; the wall clock is set; lookups overlap revokes | no key outlives its ttl; no lookup after the end prints it; a newer key survives an older timer | `SshAuthority` |
| Monitoring and alerts: `nixstasis/monitoring.ex` | alerts, telemetry, last_seen | heartbeat, offline check, rules | read-then-create without a unique index | — | not modelled (section 6) |
| Rate limiter: `nixstasis_web/rate_limiter_store.ex` | two ETS tables | count, start window, prune | compare-and-swap among many callers | — | not modelled (section 6) |
| End-to-end runs: `nixstasis/e2e.ex`, `e2e/environment_locks.ex` | runs, results, locks | create, submit, cancel, delete | lock and run committed separately | — | not modelled (section 6) |
| SSH host keys: `devices.ex` | trusted and pending key | report, accept | — | compared again under the row lock | not modelled (section 6) |
| Device approval and groups, server scripts, command catalog, reporting, dashboards, settings, TLS observations, web layer, ssh byte stream, client I/O, gateways, docs | rows, files | edits, queries, parsing, rendering | — | — | not modelled; reasons in `PROJECT.json` |

The supervisor (`nixstasis/application.ex`, `one_for_one`) restarts a crashed
process with an empty state and leaves the others alone; that is what the
crash actions of the modules do.

## 2. The modules

Every module has one action per operation, callback or step of the code, a
`Spec`, and where liveness is stated a fair version of it. `MC<module>` holds
what TLC needs to instantiate it, `<module>Proofs` the theorems. Some modules
hold definitions marked as a *fault* (for comparison): they are variants of an
action that no specification uses and show what the properties rule out.

### RemoteAccess — the database authority

Each action is one transaction. `lease`, `delivery` and `device` are the rows;
`now` is the wall clock, advanced by `Tick`. `Project(d)` is the
`sync_projection` at the end of every transaction, part of the action that
calls it, as in the code. Transactions of one device are serial because the
code takes `FOR UPDATE` on its row, so atomic actions are exact.
`Selected` is the order of `active_query`: provisioning first, then the newest,
ties broken by UUID (leases are numbers for that reason only).

### LeaseManager — timers, monitors, crash and restore

EXTENDS RemoteAccess; a GenServer call is one action (request, transaction,
cache, reply), messages of timers and monitors wait in sets (`expiries`,
`downs`) and are handled at any later moment. After a crash `restore` runs in
its stages: scan, one close transaction per lease, one projection per device,
then the final filter that decides what is cached. `ImplementsRemoteAccess` is
the refinement: every step of the manager is a transaction of `RemoteAccess` or
leaves its rows alone. PubSub broadcasts carry no state and are left out.

### Enrollment — durable registration

One MAC address, several hosts. A host's `reg` and `id` are its two files,
`mem`, `token`, `tries`, `pc` the register process, `req` its request. The
server's work on a request is two steps, because `devices.ex` reads the row
before it opens the transaction that writes it: `ReadRow`, then `Commit`, which
compares with the row locked. Requests whose client gave up stay in `late`.
Tokens are drawn in sequence, so "a secret never seen before" is a larger
number, and hashes are the tokens. Registration on one host runs one process at
a time (`ConditionPathExists=!/etc/nixstasis/id`, one systemd unit). Deletion of
a device, `issue_device_token` and `register_device` have no caller in the
server and are left out.

### CommandPolicy — from assignment to the device's disk

One device. A policy is its revision and its commands (`version` is
`policy-<revision>`). An operator's session reads the highest revision, creates
the assignment, and queues the command in a transaction that first deletes the
queued ones: three steps, interleaved with other operators at READ COMMITTED. A
heartbeat claims all queued commands and delivers them in *any* order (the
second query of `pop_pending_commands` has none). The handler accepts, refuses
or repeats a policy by its revision; `Execute` includes the save, which may fail
before or after the rename. Results go out in one post, whose writes the server
performs one by one (`Ingest`), also for a post the client gave up on. The
50-command limit is not reached; other command types, delivery-result rows and
audit are left out.

### Provisioning — at most one AtomixOS job

`pc` says where the request being served is: creating the row, opening the
lease, checking readiness, uploading, deciding on the answer, polling,
closing the lease, recording the withdrawal. `Crash` may happen between any two.
AtomixOS and the lease manager are external: an upload is accepted (with or
without a job URL), refused, busy or leaves the outcome open, and in the last
case AtomixOS may have made a job or not; a lease ends at any time. Withdraw
calls and expiry notices wait in `mailbox` (those of two operators for the same
delivery are one element). Refusals that change nothing (authorization,
offline, approval, artifact checks) are not modelled.

### TerminalSession — one device page, its terminals, the device's key store

`view` is the LiveView: the session it shows, the one it waits for, and the two
steps by which it ends one (drop the private key, queue the revoke). A
`:terminal_authorization_check` of an earlier session may arrive later
(`checks`). A browser may join any session that was rendered and whose key is
still there once it has a socket token of the device, whichever session it got
that for; so a join may come while the command is pending, and the channel then
waits for its acknowledgement (`Confirm`, or `JoinFails`). Channels fetch the
key, confirm the command's result, start ssh, drop the key; any of them may
fail, and ending takes the same two steps. The key manager's timer drops a key
on its own. The client executes a batch in any order, keeps keys in memory,
expires them and loses them at a restart. A session starts when none is shown;
the event that replaces the one that is shown clears it first, which is `Close`
and its steps. Queueing a revoke is best effort, as in the code: it may fail
(`QueueTerminalRevoke`), and the caller goes on; `unqueued` remembers for which
sessions it did. A new session or join takes the next free name (`NewSession`,
`NewJoin`): names are interchangeable.

### FrpSession, RouteProfile, TunnelRoutes — the device's end of the tunnel

A grant is a lease with its profile. `pc` walks through one `pollOnce`: status,
decision, the steps of `Manager.Stop` and `Manager.Start`. The session process
runs between them: as a systemd unit that logs in, exits, is restarted with
whatever the environment file then holds, or reaches the start limit; or as a
child (`direct`) whose goroutine clears `m.directProcess` and only then removes
`frpc.toml`. The server accepts a login only with the selected lease. A child
dies with the poll process, a unit does not. frpc's own reconnects, expiry of a
credential inside a session and error reporting are left out: a lease that ran
out is `ServerChanges(NoGrant)`. In direct mode a heartbeat (30 s) comes after
the last child's exit has settled.

`RouteProfile` is the pure part: `NormalizeFRPConfig` adds the built-in profiles
to the device's own, `Resolved` is `ResolveRouteProfile` with its validation,
`Rendered` the proxies of `frpc.toml`. Addresses and names are what the
validation tells apart: loopback or not, a port, a width, a pattern that is
matched. A profile can resolve and not render (names too long for this device's
hostname label); the loop has stopped the old tunnel by then, which is why
`Renderable` is smaller than `Known`. `TunnelRoutes` composes the two:
`Known` and `Renderable` are what `RouteProfile` makes of the configuration.

### ScriptStore, CommandBatch, OrderedBatch — a heartbeat's commands

`ScriptStore` is the directories: `scripts` (written by the server's commands),
`packaged` and `user`, each file absent, a script, a script of which only the
front was written, or something that does not parse. `Discover`,
`LatestScript`, `MaxVersion`, `NewerThanAll` (`ensureNewerVersion`) and
`RemovalTarget` are the functions of `discovery.go`, `version.go` and
`handler.go`; `FileName` keeps that two scripts may share a file name.

`CommandBatch` is `handleCommandResponses` and `ExecuteBatch`: the cap and the
payload fetches (`Receive`), the loop over the commands (`Skip`, `Reject`,
`Collect`, `Execute`), `flushBatch` (`Flush`, `FlushOver`), and one send. What
runs at a position is `pc[i]`: it waits for a slot, checks its context and
payload, reads one directory after the other, and answers. `Expire` is a
command's own deadline, `Stop` the end of the service. `install` writes in
place, so a failure may leave the file as it was, empty or cut. At the same
time an administrator's `nixstasis script install` and `remove` work on the
same disk; they are one process with one write that is not atomic.
`run_script`, the SSH commands and the policy command differ only in what they
do to other state and are one kind of serial command here.

`OrderedBatch` is what the server may assume: writes happen alone and in its
order, a read sees exactly the writes ahead of it. `TakesEffectInOrder` is the
refinement (`Order == INSTANCE OrderedBatch WITH ...`): the store is the set of
scripts in the directory the commands write, a read is a `list_scripts`.

### StarlarkValue, ScriptRun — the scripts of a poll

A script is the list of builtins it calls and what it returns. `stage[s]` follows
it through the worker, `exec_cmd` and the steps of `pub_and_get`: semaphore,
connection with its breaker, subscription, publish, wait, deferred
unsubscribe. `ctx[s]` tells a deadline from a cancellation, because closing the
command's pipe is an error after the one and not after the other. Messages on
the reply topic are what the handler can tell apart: one with the fields that
`accept` names, whoever's request it answers, one without them, the echo of the
request, or one that is too large. A connection attempt that was given up goes
on (`dialing`) and may leave a connection (`stray`). `Restart` is the end of
the process.

`StarlarkValue` is the conversion of the returned value. Lists and dicts may
share parts or contain themselves, so a value is a node of a heap, and what it
is written out has a place for every path from its root. The code's recursion is
a walk over places that are still to do: `Accepts` and `Visit` are one value of
it, with the checks and charges in the code's order of visits, and `Convert` and
`ConvertFails` take the steps, so that a deadline may come between any two. The
reference has no walk: `WithinBudgets` is the size written out, counted over all
places, and `Convertible` adds what has no conversion at all (a function, a
container at the last level). No operator is RECURSIVE.

### SshAuthority — the device's key store

`held`, `armed` and `fired` are the store's entries, its timers, and timer
functions that wait for the lock. `time` passes; `wall` is the clock the code
reads, which `SetClock` may set: an entry expires by the clock when it is looked
up and by the time that passes when its timer fires. A lookup is the four steps
from the helper's query to the printed line, the clock read before the lock as
in `Authorize`. `Close` removes the socket while commands go on, `Exit` loses
the memory, `Start` replaces a socket left behind.

## 3. What TLC checks

A run checks what TLC is needed for: relations between components, refinements
and liveness. The type invariants (`TypeOK`, `ManagerTypeOK`, `RunTypeOK`) and six other
properties (`DeliveryOwnsOneLease`, `UploadKeepsRoute`, `NoResurrection`,
`OrphanIsNoticed`, `Exclusive`, and `RevocationIsSelective`) are proved for every
value of the constants in section 4 and are not repeated in the runs.

`expect: violation` runs check one sentence of the documentation that the code
does not keep; each is a finding in `PROJECT.json`.

| Run | Shows |
|---|---|
| `lease_manager` | The database authority under its manager. `ProjectionMirrorsLease`: an idle row means no active lease, an announcing row shows a granted lease that outranks every active one. `AlarmForEveryLease`, `CachedIsHeld`: what the manager remembers agrees with the database over crash, restore, reopened leases and dead owners. `ImplementsRemoteAccess`: every step is a step of the authority or leaves it alone. `ExpiredIsRevoked` (liveness) while the manager does not crash. |
| `lease_restore_race` (violation) | restore decides twice, at two instants, whether a lease is active; one that runs out in between is neither closed nor given a timer, and its device announces access for good. |
| `enrollment` | two hosts, faults, late requests: `NeverLockedOut`, `EnrollmentStaysWithHost`, `SecretsOnlyMoveForward`; and `EnrollmentCompletes`: an approved host that keeps running ends up with an identity the server accepts, unless an operator's renewal was interrupted (section 5). |
| `policy_delivery` | `AcknowledgedIsDurable`, `PolicyMovesForward`, `CommandsAreAnswered` over lost answers, reordered batches, failed writes, restarts and two operators. |
| `provisioning_delivery` | `OneJobPerAttempt`, `OneLiveDelivery`, `WithdrawnIsDead`, `ResultsStay`, and `LeasedDeliveriesEnd`: a delivery whose lease was opened ends when it is asked for again. |
| `provisioning_stuck` (violation) | a crash between creating the row and opening the lease leaves a delivery that never ends and blocks its artifact on that device. |
| `terminal_lifecycle` | `TerminalNeedsAck`: no token, and no ssh in a channel, before the device's OK for that very session, also for a join of a pending session with an earlier session's token. `EndedIsRevoked`: whoever ends a session, its private key is gone whatever fails, and its revoke is queued or was tried. `WaitEnds`: the page never waits for ever. |
| `terminal_revoke` (violation) | a batch that brings a revoke before its authorize leaves the key in the device's store, acknowledged as revoked. |
| `frp_session` | `WithdrawnIsDown`: after a poll that saw the withdrawal completes, no session is connected, not even one that was restarting when the loop looked. `TunnelComesUp`: a lasting grant whose profile renders brings the tunnel up; for a poll-owned session with exactly this grant's credential and routes. `RoutesStayLocal`: what is served is the device's own, each service under its name. An ASSUME of the MC module compares `Resolved` before and after normalisation, and the targets it accepts, over all small configurations. |
| `client_commands` | `AllAnswered`, `ExecutedOnce`, `RefusedChangesNothing`, `InstalledIsSelected`, the refinement `TakesEffectInOrder`, and `BatchEnds`, with an administrator at the same directories. |
| `script_run` | `EveryScriptAnswers`, `BreakerHolds`, `SubscriptionIsKept`, `SuccessIsWhole`; `SomebodyGoesOn` (workers, semaphore and results channel never wait for one another) and `PollEnds`; and the conversion is exact: `OutputWithinBudgets` (nothing too large gets through) with `RefusalIsDue` (nothing that fits is refused). |
| `ssh_authority` | `HeldWithinTtl`, `PrintedIsCurrent`, `NewerSurvives`, with a clock that is set and a process that ends. |

`CHECK_DEADLOCK FALSE` appears where the model may stop: the clock, the
tokens, the attempts or the sessions are used up. `FrpSession` polls for ever
and is checked for deadlock.

### Bounds, and why they are enough

* `LeaseManager`: one device, two leases (a lease and another that outranks,
  reopens or follows it), a session and a delivery as owners, two profiles, one
  LiveView, one crash; clock and lifetime such that a lease can be granted
  before, at and after the expiry of another.
* `Enrollment`: two hosts are the smallest race; `MaxTries` 2 instead of 8 has
  one retry and the last try; one run again by the operator, one abandoned
  request, one fault; eight tokens, so that tokens never run out.
* `CommandPolicy`: two assignments, three commands (one is a resend), one fault
  of each kind and one abandoned post: enough for two commands in a batch, one
  late answer and one failed save.
* `Provisioning`: two attempts for one artifact, one conflict retry instead of
  two, one poll, two crashes (the second during the recovery from the first).
* `TerminalSession`: two sessions on the page and two channels; one check per
  wait, one fault.
* `FrpSession`: four grants, one of each kind: a built-in profile, the bootstrap
  profile, one that resolves and does not render, and one the device refuses;
  four changes of mind and three faults.
* `CommandBatch`: five deliveries that hold every kind of command, a repeated,
  a missing and a deferred id, a barrier between reads, and one command more
  than the cap of 3; two slots; one script name in four versions, two of which
  are the same number (`1`, `v1`), on a disk with a packaged script; the
  administrator's version may equal the server's.
* `ScriptRun`: three scripts on two workers, two of which want the broker; one
  failed attempt opens the breaker, one may be left behind. The five outputs
  are a plain dict, a cycle, a shared string that is too large written out, one
  too deep and one that just fits, against budgets of one level, 5 nodes, strings
  of 4 bytes and 11 bytes in all.
* `SshAuthority`: two keys, two sessions, two authorizations (an older timer
  and a newer entry), one lookup, ttls below, at and above the limit, one
  change of the clock or end of the process.

### Fairness

Only what the code schedules is fair: timers fire, a mailbox is read, the
supervisor restarts a process, a loop that has work goes on, the poll loop
polls (`FairManagerSpec`, `FairSpec`). No operator has to act, except in
`Provisioning`, where a delivery is resumed only when it is asked for again
(`Resume`; the API's caller repeats the request). Faults are bounded by a
constant and never fair. In `CommandBatch` and `ScriptRun` goroutines run and
every wait ends, because commands, broker operations and scripts have timeouts
in the code; messages, deadlines and stops are not fair. `SshAuthority` states
no liveness. `Enrollment`: systemd restarts the failed service for
ever. `FrpSession`: `UnitGivesUp` is strongly fair, as systemd's start limit
ends a unit that keeps exiting.

## 4. What is proved

`tlapm` checks these for every value of the constants that satisfies the named
assumptions (assumptions say only that sets are disjoint from a default value,
bounds are naturals, and some set is not empty).

* **LeaseManagerProofs** — about the authority: `TypeCorrect`,
  `ProjectionCorrect`, `OwnershipCorrect`, `LossIsFinal`, `RevocationSelects`,
  `UploadOwnsTheRoute`. The inductive invariant adds `OwnerIsRecorded`: the
  delivery of a held lease has been recorded, so starting a delivery never makes
  a lease eligible that was not projected. About the manager:
  `ManagerImplementsAuthority` (refinement, step by step), `AlarmAlwaysSet`,
  `ManagerTypeCorrect`, `CacheHoldsNothingRevoked`, `OrphansAreNoticed`. The
  invariant `Covered` says where a lease in effect is remembered in each state
  of the manager: in cache and alarm when up, in the list it read while it
  restores.
* **EnrollmentProofs** — `EnrollmentTypeCorrect`, `LockoutImpossible`,
  `FirstProofWins`, `SecretsNeverReturn`. `DiskOrdered` (hosts' secrets are
  disjoint and a replacement is drawn after its proof), `ProcessFollowsDisk`
  (a running process holds the pair on its disk) and `LateIsCurrentOrSpent`
  (an abandoned request carries the current pair or a proof that is spent) make
  lockout impossible: what the server can store is always on the disk first.
* **CommandPolicyProofs** — `PolicyTypeCorrect`, `AcknowledgedStaysDurable`,
  `PolicyNeverGoesBack`. `FileAhead` (the file is the policy in memory or a
  later one whose save was reported as failed) and `OKIsSettled` (every OK, in
  the client, on its way or recorded, is about a policy in force or left
  behind).
* **ProvisioningProofs** — `ProvisioningTypeCorrect`, `NeverTwoJobs`,
  `NeverTwoLiveDeliveries`, `WithdrawalIsReal`, `ServedResultsStay`. `Served`
  says what is known at each point of a request: in particular that no job
  exists whenever an upload may still be sent.
* **TerminalSessionProofs** — `TerminalTypeCorrect`, `NoTerminalWithoutConsent`,
  `EverySessionIsRevoked`. `PageAgrees`, `ChannelAgrees` (a channel gets past
  its wait only with the acknowledgement) and `OneAnswer` (a command is in one
  place on its way) keep an acknowledgement from being rewritten while somebody
  relies on it. `EverySessionIsRevoked` assumes nothing about the queueing of a
  revoke: it says that the key is gone and the revoke queued or tried.
* **FrpSessionProofs** — `FrpTypeCorrect`, `WithdrawalEndsTheTunnel`. The
  invariant adds `ToldIsTrue` (the loop acts on what the server wanted when it
  was asked, until the server changes its mind), `StartsKnown` (a start works
  for a known grant with its own credential), `ChildIsWatched` (a poll-owned
  session lives only while its goroutine waits, so a loop that sees nothing
  active is right) and `StoppedIsDown` (after `Stop` nothing is let in again).
  `SessionsServeLocally` composes the two modules: `ConfigIsRendered` (what
  `frpc.toml` holds, and so what a session runs, has been rendered) with the
  lemmas that a profile that resolves is valid and that a valid route is
  rendered to the device's loopback under a name of its own.
* **PollProcessProofs**, about what the poll process keeps in memory only.
  `ScriptRun`: `RunTypeCorrect`, `EveryScriptIsReported`, `BreakerIsRespected`,
  `NoCutSuccess`, `SubscriptionLasts`, and the two halves
  of an exact conversion, `BudgetsHold` and `RefusalsAreDue`, for every finite
  heap, cyclic or not, and all budgets. The inductive invariant `RunIInv` adds
  `Holds` (whoever is between connection and unsubscribe has the semaphore),
  `Ended` (a value is
  there when the goroutine is over, and only a canceled script was cut) and
  `Converted`: the walk satisfies `Walk`. `Walked` and `Reached` say that every
  place known is seen or still to do, none twice, none before its container, and
  `Charged` that the counts are the number of nodes and bytes of the places
  seen. When nothing is left to do, the places seen are closed under parts, and a
  missing place of least length contradicts that (`ClosedIsWhole`, from the
  well-foundedness of `<`): the counts are the size of the whole value. The
  converse needs `NoCycle`: a node met again below itself has places of any
  length, by a place in the cycle that is nearest to the limit, so a value that
  fits never meets the cycle check; and what is reserved for a container's parts
  is charged for them later (`PartsCost`), so it never exceeds the whole.
  `SemaphoreIsReleased`, `NobodyWaitsForAll` and `StepsRunOut`: see below.
  `SshAuthority`: `TypeCorrect`, `TtlHolds`, `PrintsCurrent`, `NewerIsKept`. The
  invariant ties every held entry to a timer that is armed or has fired, and
  bounds it by the time that passes and not by the clock.
* **CommandBatchProofs** — `BatchTypeCorrect`, `SerialIsAlone`,
  `EveryCommandAnswered`, `NoneExecutedTwice`, `RefusalsAreClean`,
  `InstallsTakeEffect`, `BatchIsNeverStuck`, `BatchStepsRunOut`, and
  `BatchImplementsOrder`, the refinement of `OrderedBatch`. `SlotInv` says, for
  each phase of the loop, which positions are answered, collected, at work or
  still ahead, and what a reader has found so far; `SeesTheDisk` that an install
  has read the disk it writes to, unless the administrator wrote meanwhile.

Liveness is only model-checked: fairness and ENABLED are out of the prover's
reach. For the two components where goroutines wait for one another, the parts of
it that are safety are proved for all sizes. `NobodyWaitsForAll` and
`BatchIsNeverStuck` say that as long as a poll or a batch is not over, the guard
of some step holds; the guards are written out (`CanWork`, `LoopCanStep`,
`SlotCanStep`) in place of ENABLED. `StepsRunOut` and `BatchStepsRunOut` give each
script, each command and the loop a natural number that its own steps lower and
nobody's raise. What remains for `PollEnds` and `BatchEnds` is that steps that are
possible are taken. The additional invariants are `Released` (whoever holds the
semaphore is in a stage that gives it back) and `Placed` (what the loop waits for
has been started, and only commands that search reach the search).

Every other property of a passing run is proved. Nothing is proved by an
induction theorem of the library: where the data has a depth, as in the
conversion, the proofs take a least element instead.

## 5. Behaviour the models show and no property forbids

Found while modelling, present in the code and in the models. No text of the
repository states otherwise for most of them, so none is listed as a finding:

* An upload whose answer says that the job has already succeeded is recorded,
  and a failed check after it rewrites it to `indeterminate` while the request
  is still being served (`ResultsStay` starts when it has been served).
* Withdrawing a delivery that a crash interrupted closes its lease but leaves
  its state active.
* After a failed directory sync the policy file may hold a policy that was
  answered as refused, and a restart then enforces it.
* A terminal's revoke can be lost with a heartbeat's answer, and the unique
  index forbids a second one; the device's 300 s limit ends it. A revoke that
  could not be queued is tried again only if somebody else ends the session too
  (`unqueued`); the server's copy of the key is gone all the same, as
  `contracts.md` says.
* `pub_and_get` marks no request: a late reply to an earlier one that has the
  fields `accept` names is returned as the answer (`responseMatchesAccept`
  compares nothing else). A script that must not take it has to name a field
  that tells its requests apart.
* If a unit restarts between the loop's look and `systemd-run`, the run fails,
  the unit has the new grant's files and the loop still remembers the old
  grant. When the server then returns to the old lease the loop keeps the
  wrong tunnel until the credential is renewed.
  `website/docs/modules/client-frp-manager.md` says "A change of profile or
  lease restarts it promptly", which does not hold in this case.
* Two operators who assign a policy at the same time read the same highest
  revision (`index.ex:708`); the client then refuses the second one.
* An operator's renewal of a registration that is interrupted waits for the
  operator: no service runs it again (`RenewalInterrupted`).
* A connection attempt to the broker that was given up after five seconds goes
  on; if it succeeds, its connection stays until the process ends (`stray`).
* A second `nixstasis poll` replaces the SSH socket of the first, and the first
  removes it when it ends (`ipc.go:88`, `ipc.go:178`); not modelled.

## 6. Not modelled

* **Monitoring and alerts, rate limiter, end-to-end locks.** Their races
  (read-then-create without an index, a compare-and-swap loop, a lock released
  by name) are in the list of hazards at their lines. Each lies within one
  server and touches no other component; the code and its documents make no
  claim about them that a run could check.
* **SSH host keys.** Both writers lock the row and compare again.
* **Evaluation of Starlark, parsing of front matter and schemas, key syntax.**
  Their outcome (it parses, it fails, it takes too long) is a choice of the
  models.
* **The name of a result.** `executor.go` maps the result of a script back by the
  name it parses again from the file; the model's results are per script.
* **read_file, the REPL, telemetry, inventory, configuration, transport.**
  Sequential I/O; lost requests and answers stand for the transport.
* **Rendering, permissions, queries, reports, dashboards, settings.** Guards or
  views without a protocol between actors.
* **Composition of the device's tunnel with the lease manager.** What the server
  selects is `ServerChanges` in `FrpSession`; the two meet only in the value of
  `want`, which any change of leases may produce.
