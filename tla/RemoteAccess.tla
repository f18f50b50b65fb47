---------------------------- MODULE RemoteAccess ----------------------------
(***************************************************************************)
(* The database authority for remote access (devices/remote_access.ex):    *)
(* durable leases, the order in which they take effect, and the summary    *)
(* ("projection") of the lease in effect that every device row carries.    *)
(* Each action is one database transaction; open, close, close_device and  *)
(* sync_projection run under the FOR UPDATE lock of the device row, so the *)
(* transactions of one device are serial.                                  *)
(***************************************************************************)
EXTENDS Integers, FiniteSets

CONSTANTS
  Devices,        \* device rows
  Leases,         \* UUIDs of the leases that may ever be inserted
  Kinds,          \* the owner kinds in play
  Deliveries,     \* provisioning deliveries (owners of provisioning leases)
  Profiles,       \* route profile names
  BaseProfile,    \* the default of remote_access_default_profile
  MaxTime,        \* bound on the wall clock
  MaxTtl          \* bound on ttl_ms

\* Only the order of UUIDs matters: it breaks ties between equal timestamps.
ASSUME LeaseAssumption == Leases \subseteq Nat \ {0}
ASSUME ProfileAssumption == BaseProfile \in Profiles
ASSUME KindAssumption == Kinds \subseteq {"session", "direct", "provisioning"}
ASSUME BoundAssumption == MaxTime \in Nat /\ MaxTtl \in Nat \ {0}

ASSUME DeviceAssumption == Devices # {}

AnyDevice == CHOOSE d \in Devices : TRUE   \* the device column of rows not inserted yet
NoDelivery == "no delivery"
ASSUME DeliveryAssumption == NoDelivery \notin Deliveries

VARIABLES
  now,        \* DateTime.utc_now()
  lease,      \* remote_access_leases, one row per UUID ("unused": not inserted)
  delivery,   \* what active_query reads of provisioning_deliveries
  device      \* the remote-access columns of devices

raVars == <<now, lease, delivery, device>>

LeaseRows ==
  [state    : {"unused", "granted", "revoked", "deleted"},
   device   : Devices,
   kind     : {"session", "direct", "provisioning"},
   owner    : Deliveries \cup {NoDelivery},
   profile  : Profiles,
   inserted : Nat,
   expires  : Nat]

\* status "live": in submitting, submitted, running or indeterminate, and the
\* lease not withdrawn; "over": any other state, or lease_withdrawn_at is set.
DeliveryRows == [status : {"absent", "live", "over"}, device : Devices]

DeviceRows ==
  [exists    : BOOLEAN,
   default   : Profiles,     \* remote_access_default_profile
   requested : BOOLEAN,      \* remote_access_requested
   profile   : Profiles,     \* remote_access_profile
   expires   : Nat]          \* remote_access_expires_at, 0 for NULL

TypeOK ==
  /\ now \in 0..MaxTime
  /\ lease \in [Leases -> LeaseRows]
  /\ delivery \in [Deliveries -> DeliveryRows]
  /\ device \in [Devices -> DeviceRows]

-----------------------------------------------------------------------------
(* Selection. *)

\* A provisioning lease is only as good as its delivery (active_query).
DeliveryAllows(l) ==
  lease[l].kind = "provisioning" =>
    /\ lease[l].owner \in Deliveries
    /\ delivery[lease[l].owner].status = "live"
    /\ delivery[lease[l].owner].device = lease[l].device

\* active_query: not revoked, not past its expiry, owner still entitled.
Active(l) ==
  /\ lease[l].state = "granted"
  /\ lease[l].expires > now
  /\ DeliveryAllows(l)

GrantedOn(d) == {l \in Leases : lease[l].state = "granted" /\ lease[l].device = d}
ActiveOn(d) == {l \in GrantedOn(d) : Active(l)}

OwnsRoute(l) == IF lease[l].kind = "provisioning" THEN 1 ELSE 0

\* The order_by of selected: provisioning first, then the newest, then the UUID.
Outranks(l, m) ==
  \/ OwnsRoute(l) > OwnsRoute(m)
  \/ /\ OwnsRoute(l) = OwnsRoute(m)
     /\ \/ lease[l].inserted > lease[m].inserted
        \/ lease[l].inserted = lease[m].inserted /\ l > m

\* l is the row selected(d) returns.
Selected(d, l) ==
  /\ l \in ActiveOn(d)
  /\ \A m \in ActiveOn(d) \ {l} : Outranks(l, m)

-----------------------------------------------------------------------------
(* Building blocks of the transactions. *)

\* project: the row of d, rewritten from the lease in effect after the
\* transaction's other writes. base is the row they leave.
Project(d, base) ==
  \/ /\ (ActiveOn(d) = {})'
     /\ device' = [device EXCEPT ![d] =
          [base EXCEPT !.requested = FALSE, !.profile = base.default, !.expires = 0]]
  \/ \E l \in Leases :
       /\ Selected(d, l)'
       /\ device' = [device EXCEPT ![d] =
            [base EXCEPT !.requested = TRUE, !.profile = lease'[l].profile,
                         !.expires = lease'[l].expires]]

\* revoke: set revoked_at on those of ls that are not revoked yet.
Revoke(ls) ==
  lease' = [l \in Leases |-> IF l \in ls /\ lease[l].state = "granted"
                             THEN [lease[l] EXCEPT !.state = "revoked"]
                             ELSE lease[l]]

\* The rows an owner holds: (owner_kind, owner_id) is unique, and the owner of
\* a session or direct lease is the lease's own fresh UUID.
HeldBy(x) == {l \in Leases : lease[l].kind = "provisioning" /\ lease[l].owner = x
                             /\ lease[l].state \in {"granted", "revoked"}}

-----------------------------------------------------------------------------
Init ==
  /\ now = 0
  /\ lease = [l \in Leases |->
                [state |-> "unused", device |-> AnyDevice, kind |-> "session",
                 owner |-> NoDelivery, profile |-> BaseProfile,
                 inserted |-> 0, expires |-> 0]]
  /\ delivery = [x \in Deliveries |-> [status |-> "absent", device |-> AnyDevice]]
  /\ device = [d \in Devices |->
                 [exists |-> TRUE, default |-> BaseProfile, requested |-> FALSE,
                  profile |-> BaseProfile, expires |-> 0]]

\* open, with no row for this owner yet. A lease that would not be active is
\* rolled back, so a provisioning lease needs a live delivery of this device.
Open(d, kind, x, profile, l, ttl) ==
  /\ device[d].exists
  /\ lease[l].state = "unused"
  /\ now + ttl <= MaxTime       \* bound: every lease can be seen to expire
  /\ kind = "provisioning" <=> x \in Deliveries
  /\ kind = "provisioning" => HeldBy(x) = {}
  /\ lease' = [lease EXCEPT ![l] =
       [state |-> "granted", device |-> d, kind |-> kind, owner |-> x,
        profile |-> profile, inserted |-> now, expires |-> now + ttl]]
  /\ UNCHANGED <<now, delivery>>
  /\ Active(l)'
  /\ Project(d, device[d])

\* open for an owner that holds an active lease on this device with this
\* profile: the row is returned as it is, never renewed.
Reopen(d, l, profile) ==
  /\ device[d].exists
  /\ lease[l].kind = "provisioning"
  /\ Active(l)
  /\ lease[l].device = d
  /\ lease[l].profile = profile
  /\ UNCHANGED <<now, lease, delivery>>
  /\ Project(d, device[d])

\* Fault: closing a lease revokes every lease of its device.
CloseRevokesDevice(l) ==
  /\ lease[l].state \in {"granted", "revoked"}
  /\ Revoke(GrantedOn(lease[l].device))
  /\ UNCHANGED <<now, delivery>>
  /\ \E d \in Devices : lease[l].device = d /\ Project(d, device[d])

\* close: revoke one lease and reproject its device; nothing when the row or
\* its device is gone.
Close(l) ==
  /\ lease[l].state \in {"granted", "revoked"}
  /\ Revoke({l})
  /\ UNCHANGED <<now, delivery>>
  /\ \E d \in Devices : lease[l].device = d /\ Project(d, device[d])

\* close_device (set_remote_access(device, false)).
CloseDevice(d) ==
  /\ device[d].exists
  /\ Revoke(GrantedOn(d))
  /\ UNCHANGED <<now, delivery>>
  /\ Project(d, device[d])

\* Fault: the preference is written over the profile of the lease in effect.
SetProfileDirect(d, profile) ==
  /\ device[d].exists
  /\ device' = [device EXCEPT ![d].default = profile, ![d].profile = profile]
  /\ UNCHANGED <<now, lease, delivery>>

\* A change of remote_access_profile saves the preference and resynchronises
\* the projection in the same transaction (RemoteAccessProjection.change).
SetProfile(d, profile) ==
  /\ device[d].exists
  /\ UNCHANGED <<now, lease, delivery>>
  /\ Project(d, [device[d] EXCEPT !.default = profile])

\* One projection of restore.
Reproject(d) ==
  /\ device[d].exists
  /\ UNCHANGED <<now, lease, delivery>>
  /\ Project(d, device[d])

\* The leases of a deleted device go with it (on_delete: :delete).
DeleteDevice(d) ==
  /\ device[d].exists
  /\ device' = [device EXCEPT ![d].exists = FALSE]
  /\ lease' = [l \in Leases |-> IF lease[l].device = d /\ lease[l].state # "unused"
                                THEN [lease[l] EXCEPT !.state = "deleted"]
                                ELSE lease[l]]
  /\ delivery' = [x \in Deliveries |-> IF delivery[x].status # "absent" /\ delivery[x].device = d
                                       THEN [delivery[x] EXCEPT !.status = "over"]
                                       ELSE delivery[x]]
  /\ UNCHANGED now

\* Provisioning inserts a delivery, and later ends or withdraws it. These
\* writes take no device lock and reproject nothing.
StartDelivery(x, d) ==
  /\ device[d].exists
  /\ delivery[x].status = "absent"
  /\ delivery' = [delivery EXCEPT ![x] = [status |-> "live", device |-> d]]
  /\ UNCHANGED <<now, lease, device>>

EndDelivery(x) ==
  /\ delivery[x].status = "live"
  /\ delivery' = [delivery EXCEPT ![x].status = "over"]
  /\ UNCHANGED <<now, lease, device>>

Tick ==
  /\ now < MaxTime
  /\ now' = now + 1
  /\ UNCHANGED <<lease, delivery, device>>

Next ==
  \/ \E d \in Devices, kind \in Kinds,
        x \in Deliveries \cup {NoDelivery}, p \in Profiles, l \in Leases, ttl \in 1..MaxTtl :
       Open(d, kind, x, p, l, ttl)
  \/ \E d \in Devices, l \in Leases, p \in Profiles : Reopen(d, l, p)
  \/ \E l \in Leases : Close(l)
  \/ \E d \in Devices : CloseDevice(d) \/ Reproject(d) \/ DeleteDevice(d)
  \/ \E d \in Devices, p \in Profiles : SetProfile(d, p)
  \/ \E x \in Deliveries, d \in Devices : StartDelivery(x, d)
  \/ \E x \in Deliveries : EndDelivery(x)
  \/ Tick

Spec == Init /\ [][Next]_raVars

-----------------------------------------------------------------------------
(* What the authority promises. *)

RowMirrors(d) ==
  \/ /\ ~device[d].requested
     /\ ActiveOn(d) = {}
     /\ device[d].profile = device[d].default
  \/ /\ device[d].requested
     /\ \E l \in GrantedOn(d) :
          /\ device[d].profile = lease[l].profile
          /\ device[d].expires = lease[l].expires
          /\ \A m \in ActiveOn(d) \ {l} : Outranks(l, m)

\* The summary on a device row never speaks for a revoked lease and never hides
\* one in effect: an idle row means that no lease is active, and a row that
\* announces access shows a lease granted on this very device that outranks
\* every active one (it may itself have run out since the last projection).
ProjectionMirrorsLease == \A d \in Devices : device[d].exists => RowMirrors(d)

\* A delivery holds at most one lease in its whole life, and only on the device
\* the artifact is for, so withdrawing it withdraws everything it was granted.
DeliveryOwnsOneLease ==
  \A x \in Deliveries :
    /\ \A l, m \in HeldBy(x) : l = m
    /\ \A l \in HeldBy(x) : lease[l].device = delivery[x].device

\* While an upload's lease is in effect no browser, direct or older
\* provisioning lease is selected: opening a device page cannot take the route.
UploadKeepsRoute ==
  \A d \in Devices, l \in Leases :
    Selected(d, l) /\ OwnsRoute(l) = 0 =>
      \A x \in Deliveries : \A m \in HeldBy(x) : lease[m].device = d => ~Active(m)

\* Authorization, once lost for good, never comes back, and a lease in effect
\* is never extended, moved to another device or given another profile.
OnlyLoses(l) ==
  /\ lease[l].state \in {"revoked", "deleted"} => lease'[l].state \in {"revoked", "deleted"}
  /\ lease[l].state = "granted" =>
       /\ lease'[l] = [lease[l] EXCEPT !.state = lease'[l].state]
       /\ ~Active(l) => ~Active(l)'

NoResurrection == [][\A l \in Leases : OnlyLoses(l)]_raVars

\* Revocation is selective: a transaction that revokes the leases of several
\* owners is the explicit disable of one device and leaves it none.
RevocationIsSelective ==
  [][LET gone == {l \in Leases : lease[l].state = "granted" /\ lease'[l].state = "revoked"}
     IN  \A l, m \in gone : l # m =>
           lease[l].device = lease[m].device /\ GrantedOn(lease[l].device)' = {}]_raVars
=============================================================================
