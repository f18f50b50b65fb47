---------------------------- MODULE LeaseManager ----------------------------
(***************************************************************************)
(* The process Nixstasis.Devices.RemoteAccessLeases (devices.ex): the only *)
(* caller of RemoteAccess.open, close and close_device. It keeps a timer   *)
(* for every lease and a monitor on the LiveView that opened a session     *)
(* lease, and after a crash rebuilds both from the database.               *)
(*                                                                         *)
(* A GenServer handles one message at a time, so a call (request, database *)
(* transaction, cache update, reply) is one action; messages of timers and *)
(* monitors wait in its mailbox and may be handled after any later call.   *)
(***************************************************************************)
EXTENDS RemoteAccess

CONSTANTS
  Views,        \* LiveView processes of connected operators
  MaxCrashes    \* bound on the crashes of the manager

NoView == "no pid"
ASSUME ViewAssumption == NoView \notin Views
ASSUME SessionAssumption == "session" \in Kinds
ASSUME CrashAssumption == MaxCrashes \in Nat

VARIABLES
  mgr,        \* "down", restoring ("closing", "projecting") or "up"
  cached,     \* keys of state.leases
  pid,        \* owner of a cached lease, NoView for nil
  armed,      \* leases whose expiry timer is pending
  expiries,   \* {:remote_access_lease_expired, ref} in the manager's mailbox
  downs,      \* leases whose monitor's :DOWN is in the manager's mailbox
  view,       \* the LiveViews: alive or not, and remote_access_lease_ref
  told,       \* {:remote_access_lease_expired, ref} in the LiveViews' mailboxes
  snap,       \* restore: the unrevoked leases it read
  todo,       \* restore: those not examined yet
  sync,       \* restore: devices not reprojected yet
  crashes

mgrVars == <<mgr, cached, pid, armed, expiries, downs>>
restoreVars == <<snap, todo, sync>>
vars == <<raVars, mgrVars, view, told, restoreVars, crashes>>

NoLease == 0

ManagerTypeOK ==
  /\ TypeOK
  /\ mgr \in {"down", "closing", "projecting", "up"}
  /\ cached \subseteq Leases
  /\ pid \in [Leases -> Views \cup {NoView}]
  /\ armed \subseteq cached
  /\ expiries \subseteq Leases
  /\ downs \subseteq cached
  /\ view \in [Views -> [alive : BOOLEAN, ref : Leases \cup {NoLease}]]
  /\ told \in [Views -> SUBSET Leases]
  /\ snap \subseteq Leases /\ todo \subseteq snap /\ sync \subseteq Devices
  /\ crashes \in 0..MaxCrashes

ManagerInit ==
  /\ Init
  /\ mgr = "up" /\ cached = {} /\ pid = [l \in Leases |-> NoView]
  /\ armed = {} /\ expiries = {} /\ downs = {}
  /\ view = [v \in Views |-> [alive |-> TRUE, ref |-> NoLease]]
  /\ told = [v \in Views |-> {}]
  /\ snap = {} /\ todo = {} /\ sync = {}
  /\ crashes = 0

-----------------------------------------------------------------------------
(* Cache. *)

\* cache_remote_access_lease: drop the old entry, arm a timer, and monitor the
\* owner of a session lease.
CacheLease(l, v) ==
  /\ cached' = cached \cup {l}
  /\ pid' = [pid EXCEPT ![l] = v]
  /\ armed' = armed \cup {l}
  /\ downs' = downs \ {l}

\* drop_cached_remote_access_lease: cancel_timer leaves a message that has been
\* sent already; demonitor flushes its :DOWN.
DropLeases(ls) ==
  /\ cached' = cached \ ls
  /\ pid' = [l \in Leases |-> IF l \in ls THEN NoView ELSE pid[l]]
  /\ armed' = armed \ ls
  /\ downs' = downs \ ls

\* Fault: the lease is revoked, the device row is not reprojected.
CloseRowOnly(l) ==
  \/ Revoke({l}) /\ lease[l].state \in {"granted", "revoked"} /\ UNCHANGED <<now, delivery, device>>
  \/ lease[l].state \in {"unused", "deleted"} /\ UNCHANGED raVars

\* RemoteAccess.close, which does nothing to a row that is gone.
CloseRow(l) ==
  \/ Close(l)
  \/ lease[l].state \in {"unused", "deleted"} /\ UNCHANGED raVars

\* pop_remote_access_lease.
PopLease(l) == CloseRow(l) /\ DropLeases({l})

-----------------------------------------------------------------------------
(* Calls. *)

\* A LiveView holds one lease at a time (maybe_open_remote_access_lease, and
\* setup_device_view, which closes the previous session first).
ViewOpens(v, d, p, l, ttl) ==
  /\ mgr = "up"
  /\ view[v].alive /\ view[v].ref = NoLease
  /\ Open(d, "session", NoDelivery, p, l, ttl)
  /\ CacheLease(l, v)
  /\ view' = [view EXCEPT ![v].ref = l]
  /\ UNCHANGED <<mgr, expiries, told, restoreVars, crashes>>

\* set_remote_access(device, true), or a delivery's lease: not monitored.
OpenUnowned(d, kind, x, p, l, ttl) ==
  /\ mgr = "up"
  /\ kind # "session"
  /\ Open(d, kind, x, p, l, ttl)
  /\ CacheLease(l, NoView)
  /\ UNCHANGED <<mgr, expiries, view, told, restoreVars, crashes>>

\* Reopening caches the lease again, with a fresh timer.
ReopenDelivery(d, l, p) ==
  /\ mgr = "up"
  /\ Reopen(d, l, p)
  /\ CacheLease(l, NoView)
  /\ UNCHANGED <<mgr, expiries, view, told, restoreVars, crashes>>

\* close_remote_access_lease by the LiveView that holds the lease.
ViewCloses(v) ==
  /\ mgr = "up"
  /\ view[v].alive
  /\ \E l \in Leases : view[v].ref = l /\ PopLease(l)
  /\ view' = [view EXCEPT ![v].ref = NoLease]
  /\ UNCHANGED <<mgr, expiries, told, restoreVars, crashes>>

\* The delivery's side closes its lease (Provisioning.close_lease).
CloseDelivery(l) ==
  /\ mgr = "up"
  /\ lease[l].kind = "provisioning"
  /\ PopLease(l) /\ lease[l].state # "unused"
  /\ UNCHANGED <<mgr, expiries, view, told, restoreVars, crashes>>

\* close_device drops every cached lease of the device; nobody is told.
DisableDevice(d) ==
  /\ mgr = "up"
  /\ CloseDevice(d)
  /\ DropLeases({l \in cached : lease[l].device = d})
  /\ UNCHANGED <<mgr, expiries, view, told, restoreVars, crashes>>

-----------------------------------------------------------------------------
(* Timers, monitors and owners. *)

TimerFires(l) ==
  /\ l \in armed
  /\ lease[l].expires <= now
  /\ armed' = armed \ {l}
  /\ expiries' = expiries \cup {l}
  /\ UNCHANGED <<raVars, mgr, cached, pid, downs, view, told, restoreVars, crashes>>

\* Fault: an expiry message only clears the cache.
HandleExpiredCacheOnly(l) ==
  /\ mgr = "up"
  /\ l \in expiries
  /\ expiries' = expiries \ {l}
  /\ DropLeases({l})
  /\ UNCHANGED <<raVars, told, mgr, view, restoreVars, crashes>>

\* The owner is told only when the row still exists and its pid was cached.
HandleExpired(l) ==
  /\ mgr = "up"
  /\ l \in expiries
  /\ expiries' = expiries \ {l}
  /\ PopLease(l)
  /\ told' = IF lease[l].state \in {"granted", "revoked"} /\ l \in cached /\ pid[l] \in Views
             THEN [told EXCEPT ![pid[l]] = @ \cup {l}]
             ELSE told
  /\ UNCHANGED <<mgr, view, restoreVars, crashes>>

HandleDown(l) ==
  /\ mgr = "up"
  /\ l \in downs
  /\ PopLease(l)
  /\ UNCHANGED <<mgr, expiries, view, told, restoreVars, crashes>>

\* show.ex: an expiry for the lease it holds ends the session; any other is
\* ignored.
ViewHandlesExpiry(v, l) ==
  /\ view[v].alive /\ l \in told[v]
  /\ told' = [told EXCEPT ![v] = @ \ {l}]
  /\ \/ /\ view[v].ref = l
        /\ mgr = "up"
        /\ PopLease(l)
        /\ view' = [view EXCEPT ![v].ref = NoLease]
     \/ /\ view[v].ref # l
        /\ UNCHANGED <<raVars, cached, pid, armed, downs, view>>
  /\ UNCHANGED <<mgr, expiries, restoreVars, crashes>>

\* The browser disconnects, or the process crashes: no cleanup of its own.
ViewDies(v) ==
  /\ view[v].alive
  /\ view' = [view EXCEPT ![v].alive = FALSE]
  /\ told' = [told EXCEPT ![v] = {}]
  /\ downs' = downs \cup {l \in cached : pid[l] = v}
  /\ UNCHANGED <<raVars, mgr, cached, pid, armed, expiries, restoreVars, crashes>>

-----------------------------------------------------------------------------
(* Crash and restore. *)

Crash ==
  /\ mgr # "down"
  /\ crashes < MaxCrashes
  /\ crashes' = crashes + 1
  /\ mgr' = "down" /\ cached' = {} /\ pid' = [l \in Leases |-> NoView]
  /\ armed' = {} /\ expiries' = {} /\ downs' = {}
  /\ snap' = {} /\ todo' = {} /\ sync' = {}
  /\ UNCHANGED <<raVars, view, told>>

\* handle_continue: restore reads the unrevoked leases...
Restart ==
  /\ mgr = "down"
  /\ mgr' = "closing"
  /\ snap' = {l \in Leases : lease[l].state = "granted"}
  /\ todo' = snap'
  /\ UNCHANGED <<raVars, cached, pid, armed, expiries, downs, view, told, sync, crashes>>

\* ... closes those that are not active any more ...
RestoreClose(l) ==
  /\ mgr = "closing" /\ l \in todo
  /\ todo' = todo \ {l}
  /\ \/ Active(l) /\ UNCHANGED raVars
     \/ ~Active(l) /\ CloseRow(l)
  /\ UNCHANGED <<mgrVars, view, told, snap, sync, crashes>>

RestoreScan ==
  /\ mgr = "closing" /\ todo = {}
  /\ mgr' = "projecting"
  /\ sync' = {d \in Devices : device[d].exists /\ device[d].requested}
               \cup {lease[l].device : l \in snap}
  /\ UNCHANGED <<raVars, cached, pid, armed, expiries, downs, view, told, snap, todo, crashes>>

\* ... reprojects every device concerned ...
RestoreProject(d) ==
  /\ mgr = "projecting" /\ d \in sync
  /\ sync' = sync \ {d}
  /\ \/ Reproject(d)
     \/ ~device[d].exists /\ UNCHANGED raVars
  /\ UNCHANGED <<mgrVars, view, told, snap, todo, crashes>>

\* Fault: restored leases get no timer.
RestoreCacheUnarmed ==
  /\ mgr = "projecting" /\ sync = {}
  /\ mgr' = "up"
  /\ cached' = {l \in snap : Active(l)}
  /\ UNCHANGED <<raVars, armed, pid, expiries, downs, view, told, restoreVars, crashes>>

\* ... and caches those of the leases it read that are active now, without an
\* owner.
RestoreCache ==
  /\ mgr = "projecting" /\ sync = {}
  /\ mgr' = "up"
  /\ cached' = {l \in snap : Active(l)}
  /\ armed' = cached'
  /\ UNCHANGED <<raVars, pid, expiries, downs, view, told, restoreVars, crashes>>

-----------------------------------------------------------------------------
\* What others write to the database, and the passing of time.
Environment ==
  /\ \/ \E x \in Deliveries, d \in Devices : StartDelivery(x, d)
     \/ \E x \in Deliveries : EndDelivery(x)
     \/ \E d \in Devices, p \in Profiles : SetProfile(d, p)
     \/ \E d \in Devices : DeleteDevice(d)
     \/ Tick
  /\ UNCHANGED <<mgrVars, view, told, restoreVars, crashes>>

ManagerNext ==
  \/ \E v \in Views, d \in Devices, p \in Profiles, l \in Leases, ttl \in 1..MaxTtl :
       ViewOpens(v, d, p, l, ttl)
  \/ \E d \in Devices, kind \in Kinds, x \in Deliveries \cup {NoDelivery},
        p \in Profiles, l \in Leases, ttl \in 1..MaxTtl :
       OpenUnowned(d, kind, x, p, l, ttl)
  \/ \E d \in Devices, l \in Leases, p \in Profiles : ReopenDelivery(d, l, p)
  \/ \E v \in Views : ViewCloses(v) \/ ViewDies(v)
  \/ \E d \in Devices : DisableDevice(d) \/ RestoreProject(d)
  \/ \E l \in Leases : \/ CloseDelivery(l) \/ TimerFires(l) \/ HandleExpired(l)
                       \/ HandleDown(l) \/ RestoreClose(l)
  \/ \E v \in Views, l \in Leases : ViewHandlesExpiry(v, l)
  \/ Crash \/ Restart \/ RestoreScan \/ RestoreCache
  \/ Environment

ManagerSpec == ManagerInit /\ [][ManagerNext]_vars

\* Timers fire and mailboxes are read; the supervisor restarts the manager,
\* which then runs restore; time passes. No caller has to act.
Fairness ==
  /\ \A l \in Leases : /\ WF_vars(TimerFires(l))
                       /\ WF_vars(HandleExpired(l))
                       /\ WF_vars(HandleDown(l))
                       /\ WF_vars(RestoreClose(l))
  /\ \A d \in Devices : WF_vars(RestoreProject(d))
  /\ WF_vars(Restart) /\ WF_vars(RestoreScan) /\ WF_vars(RestoreCache)
  /\ WF_vars(Tick /\ UNCHANGED <<mgrVars, view, told, restoreVars, crashes>>)

FairManagerSpec == ManagerSpec /\ Fairness

-----------------------------------------------------------------------------
(* What the manager promises. *)

\* A running manager has an alarm set for every lease in effect, whatever
\* reopened, dropped or restored it: none can outlive its expiry unnoticed.
AlarmForEveryLease ==
  mgr = "up" => \A l \in Leases : Active(l) => l \in cached /\ l \in armed \cup expiries

\* The cache never keeps a lease the database has revoked: closing one owner's
\* lease withdraws exactly that lease, and an explicit disable drops them all.
CachedIsHeld ==
  mgr = "up" => \A l \in cached : lease[l].state \in {"granted", "deleted"}

\* The lease of a LiveView that died is on its way out: as long as the manager
\* has not crashed since, the :DOWN that revokes it is in the mailbox.
OrphanIsNoticed ==
  crashes = 0 =>
    \A v \in Views, l \in Leases :
      ~view[v].alive /\ view[v].ref = l /\ lease[l].state = "granted" => l \in downs

\* A lease that has run out is eventually revoked in the database, so that it
\* is not carried over every later restart, unless a crash of the manager comes
\* first (what restore then misses is the subject of ProjectionSettles).
ExpiredIsRevoked ==
  \A l \in Leases :
    (lease[l].state = "granted" /\ lease[l].expires <= now /\ crashes = 0)
      ~> (lease[l].state # "granted" \/ crashes > 0)

\* "The remote-access fields on a device only mirror the lease currently in
\* effect" (website/docs/modules/server-devices.md:36): a row that announces
\* access no lease backs is eventually corrected.
ProjectionSettles ==
  \A d \in Devices :
    (device[d].exists /\ device[d].requested /\ ActiveOn(d) = {})
      ~> (~device[d].exists \/ ~device[d].requested \/ ActiveOn(d) # {})

\* The manager uses the database only through the transactions of RemoteAccess.
ImplementsRemoteAccess == Spec
=============================================================================
