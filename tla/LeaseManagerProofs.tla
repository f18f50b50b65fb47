------------------------- MODULE LeaseManagerProofs -------------------------
(***************************************************************************)
(* Proofs about remote-access leases, for any sets of devices, leases,     *)
(* deliveries and profiles and any bounds. First the database authority    *)
(* (RemoteAccess): types, the projection, ownership, finality, what        *)
(* revocation selects. Then the manager (LeaseManager): it implements the  *)
(* authority, every lease in effect has its alarm, and its cache holds     *)
(* nothing that was revoked.                                               *)
(***************************************************************************)
EXTENDS LeaseManager, TLAPS

\* What DeliveryOwnsOneLease and ProjectionMirrorsLease need to be inductive:
\* the delivery of a held lease has been recorded, so StartDelivery, which only
\* takes an absent one, can never make a lease eligible that was not projected.
OwnerIsRecorded ==
  \A x \in Deliveries : \A l \in HeldBy(x) : delivery[x].status # "absent"

IInv ==
  /\ TypeOK
  /\ ProjectionMirrorsLease
  /\ DeliveryOwnsOneLease
  /\ OwnerIsRecorded

-----------------------------------------------------------------------------
\* A lease that is in effect is not past its expiry, for any amount of time.
LEMMA ActiveIsGranted ==
  ASSUME NEW l \in Leases, Active(l)
  PROVE  lease[l].state = "granted"
  BY DEF Active

\* Project leaves a well-typed device column.
LEMMA ProjectType ==
  ASSUME TypeOK, NEW d \in Devices, NEW base \in DeviceRows, Project(d, base),
         lease' \in [Leases -> LeaseRows]
  PROVE  device' \in [Devices -> DeviceRows]
<1>1. device \in [Devices -> DeviceRows]
  BY DEF TypeOK
<1>2. ASSUME NEW b \in BOOLEAN, NEW p \in Profiles, NEW t \in Nat,
             device' = [device EXCEPT ![d] =
               [base EXCEPT !.requested = b, !.profile = p, !.expires = t]]
      PROVE  device' \in [Devices -> DeviceRows]
  BY <1>1, <1>2 DEF DeviceRows
<1>3. base.default \in Profiles
  BY DEF DeviceRows
<1>4. \A l \in Leases : lease'[l].profile \in Profiles /\ lease'[l].expires \in Nat
  BY DEF LeaseRows
<1> QED
  BY <1>2, <1>3, <1>4 DEF Project

\* Project makes the row of d mirror the lease in effect after the
\* transaction, and touches no other row.
LEMMA ProjectMirrors ==
  ASSUME TypeOK, NEW d \in Devices, NEW base \in DeviceRows, Project(d, base)
  PROVE  /\ \A e \in Devices \ {d} : device'[e] = device[e]
         /\ device'[d].exists = base.exists
         /\ RowMirrors(d)'
<1>1. device \in [Devices -> DeviceRows]
  BY DEF TypeOK
<1>2. CASE /\ (ActiveOn(d) = {})'
           /\ device' = [device EXCEPT ![d] =
                [base EXCEPT !.requested = FALSE, !.profile = base.default, !.expires = 0]]
  BY <1>1, <1>2 DEF DeviceRows, RowMirrors
<1>3. CASE \E l \in Leases :
             /\ Selected(d, l)'
             /\ device' = [device EXCEPT ![d] =
                  [base EXCEPT !.requested = TRUE, !.profile = lease'[l].profile,
                               !.expires = lease'[l].expires]]
  <2>1. PICK l \in Leases :
             /\ Selected(d, l)'
             /\ device' = [device EXCEPT ![d] =
                  [base EXCEPT !.requested = TRUE, !.profile = lease'[l].profile,
                               !.expires = lease'[l].expires]]
    BY <1>3
  <2>2. l \in GrantedOn(d)' /\ \A m \in ActiveOn(d)' \ {l} : Outranks(l, m)'
    BY <2>1 DEF Selected, ActiveOn
  <2> QED
    BY <1>1, <2>1, <2>2 DEF DeviceRows, RowMirrors
<1> QED
  BY <1>2, <1>3 DEF Project

-----------------------------------------------------------------------------
\* Revoking keeps the table well typed and every attribute of every row.
LEMMA RevokeFacts ==
  ASSUME TypeOK, NEW ls \in SUBSET Leases, Revoke(ls)
  PROVE  /\ lease' \in [Leases -> LeaseRows]
         /\ \A l \in Leases :
              /\ lease'[l] = [lease[l] EXCEPT !.state = lease'[l].state]
              /\ lease'[l].state = lease[l].state
                   \/ (l \in ls /\ lease[l].state = "granted" /\ lease'[l].state = "revoked")
<1>1. lease \in [Leases -> LeaseRows]
  BY DEF TypeOK
<1>2. \A l \in Leases : lease[l] \in LeaseRows
  BY <1>1
<1>3. \A l \in Leases : lease'[l] = IF l \in ls /\ lease[l].state = "granted"
                                    THEN [lease[l] EXCEPT !.state = "revoked"]
                                    ELSE lease[l]
  BY DEF Revoke
<1>4. ASSUME NEW l \in Leases
      PROVE  lease'[l] \in LeaseRows
  <2>1. [lease[l] EXCEPT !.state = "revoked"] \in LeaseRows
    BY <1>2 DEF LeaseRows
  <2> QED
    BY <1>2, <1>3, <2>1
<1>5. lease' \in [Leases -> LeaseRows]
  BY <1>4 DEF Revoke
<1>6. ASSUME NEW l \in Leases
      PROVE  /\ lease'[l] = [lease[l] EXCEPT !.state = lease'[l].state]
             /\ lease'[l].state = lease[l].state
                   \/ (l \in ls /\ lease[l].state = "granted" /\ lease'[l].state = "revoked")
  BY <1>2, <1>3 DEF LeaseRows
<1> QED
  BY <1>5, <1>6

\* The empty tables are well typed.
LEMMA InitType == Init => TypeOK
<1> SUFFICES ASSUME Init PROVE TypeOK
  OBVIOUS
<1>1. AnyDevice \in Devices
  BY DeviceAssumption DEF AnyDevice
<1>2. now \in 0..MaxTime
  BY BoundAssumption DEF Init
<1>3. lease \in [Leases -> LeaseRows]
  BY <1>1, ProfileAssumption DEF Init, LeaseRows
<1>4. delivery \in [Deliveries -> DeliveryRows]
  BY <1>1 DEF Init, DeliveryRows
<1>5. device \in [Devices -> DeviceRows]
  BY ProfileAssumption DEF Init, DeviceRows
<1> QED
  BY <1>2, <1>3, <1>4, <1>5 DEF TypeOK

\* Every action keeps the state well typed.
LEMMA TypeStep == TypeOK /\ [Next]_raVars => TypeOK'
<1> SUFFICES ASSUME TypeOK, [Next]_raVars PROVE TypeOK'
  OBVIOUS
<1> USE DEF TypeOK
<1>0. \A d \in Devices : device[d] \in DeviceRows
  OBVIOUS
<1>1. ASSUME NEW d \in Devices, NEW kind \in Kinds, NEW x \in Deliveries \cup {NoDelivery},
             NEW p \in Profiles, NEW l \in Leases, NEW ttl \in 1..MaxTtl,
             Open(d, kind, x, p, l, ttl)
      PROVE  TypeOK'
  <2>1. now + ttl \in Nat /\ now \in Nat
    BY BoundAssumption
  <2>2. lease' \in [Leases -> LeaseRows]
    BY <1>1, <2>1, KindAssumption DEF Open, LeaseRows
  <2>3. device' \in [Devices -> DeviceRows]
    BY <1>0, <1>1, <2>2, ProjectType DEF Open
  <2> QED
    BY <1>1, <2>2, <2>3 DEF Open
<1>2. ASSUME NEW d \in Devices, NEW l \in Leases, NEW p \in Profiles, Reopen(d, l, p)
      PROVE  TypeOK'
  BY <1>0, <1>2, ProjectType DEF Reopen
<1>3. ASSUME NEW l \in Leases, Close(l)
      PROVE  TypeOK'
  <2>1. lease' \in [Leases -> LeaseRows]
    BY <1>3, RevokeFacts DEF Close
  <2>2. device' \in [Devices -> DeviceRows]
    BY <1>0, <1>3, <2>1, ProjectType DEF Close
  <2> QED
    BY <1>3, <2>1, <2>2 DEF Close
<1>4. ASSUME NEW d \in Devices, CloseDevice(d)
      PROVE  TypeOK'
  <2>1. lease' \in [Leases -> LeaseRows]
    BY <1>4, RevokeFacts DEF CloseDevice, GrantedOn
  <2>2. device' \in [Devices -> DeviceRows]
    BY <1>0, <1>4, <2>1, ProjectType DEF CloseDevice
  <2> QED
    BY <1>4, <2>1, <2>2 DEF CloseDevice
<1>5. ASSUME NEW d \in Devices, Reproject(d)
      PROVE  TypeOK'
  BY <1>0, <1>5, ProjectType DEF Reproject
<1>6. ASSUME NEW d \in Devices, DeleteDevice(d)
      PROVE  TypeOK'
  <2>1. \A l \in Leases : [lease[l] EXCEPT !.state = "deleted"] \in LeaseRows
    BY DEF LeaseRows
  <2>2. \A x \in Deliveries : [delivery[x] EXCEPT !.status = "over"] \in DeliveryRows
    BY DEF DeliveryRows
  <2>3. lease' \in [Leases -> LeaseRows]
    BY <1>6, <2>1 DEF DeleteDevice
  <2>4. delivery' \in [Deliveries -> DeliveryRows]
    BY <1>6, <2>2 DEF DeleteDevice
  <2>5. device' \in [Devices -> DeviceRows]
    BY <1>6 DEF DeleteDevice, DeviceRows
  <2> QED
    BY <1>6, <2>3, <2>4, <2>5 DEF DeleteDevice
<1>7. ASSUME NEW d \in Devices, NEW p \in Profiles, SetProfile(d, p)
      PROVE  TypeOK'
  <2>1. [device[d] EXCEPT !.default = p] \in DeviceRows
    BY <1>0 DEF DeviceRows
  <2>2. device' \in [Devices -> DeviceRows]
    BY <1>7, <2>1, ProjectType DEF SetProfile
  <2> QED
    BY <1>7, <2>2 DEF SetProfile
<1>8. ASSUME NEW x \in Deliveries, NEW d \in Devices, StartDelivery(x, d)
      PROVE  TypeOK'
  BY <1>8 DEF StartDelivery, DeliveryRows
<1>9. ASSUME NEW x \in Deliveries, EndDelivery(x)
      PROVE  TypeOK'
  BY <1>9 DEF EndDelivery, DeliveryRows
<1>10. CASE Tick
  BY <1>10, BoundAssumption DEF Tick
<1>11. CASE UNCHANGED raVars
  BY <1>11 DEF raVars
<1> QED
  BY <1>1, <1>2, <1>3, <1>4, <1>5, <1>6, <1>7, <1>8, <1>9, <1>10, <1>11 DEF Next

\* Every reachable state is well typed.
THEOREM TypeCorrect == Spec => []TypeOK
  BY InitType, TypeStep, PTL DEF Spec

-----------------------------------------------------------------------------
\* A row keeps mirroring when neither it nor a lease of its device is written,
\* time does not go back and no delivery becomes entitled.
LEMMA MirrorKept ==
  ASSUME TypeOK, NEW e \in Devices, RowMirrors(e),
         device'[e] = device[e],
         now' \in Nat, now' >= now,
         \A l \in GrantedOn(e) \cup GrantedOn(e)' : lease'[l] = lease[l],
         \A l \in GrantedOn(e) : DeliveryAllows(l)' => DeliveryAllows(l)
  PROVE  RowMirrors(e)'
<1>1. GrantedOn(e)' = GrantedOn(e)
  BY DEF GrantedOn
<1>2. \A l \in GrantedOn(e) : lease'[l] = lease[l] /\ lease[l].expires \in Nat /\ now \in Nat
  BY DEF GrantedOn, TypeOK, LeaseRows
<1>3. ActiveOn(e)' \subseteq ActiveOn(e)
  <2> SUFFICES ASSUME NEW l \in ActiveOn(e)'
               PROVE  l \in ActiveOn(e)
    OBVIOUS
  <2>1. l \in GrantedOn(e) /\ Active(l)'
    BY <1>1 DEF ActiveOn
  <2>2. Active(l)
    BY <1>2, <2>1 DEF Active
  <2> QED
    BY <2>1, <2>2 DEF ActiveOn
<1>4. ActiveOn(e) \subseteq GrantedOn(e)
  BY DEF ActiveOn
<1>5. \A l \in GrantedOn(e) : \A m \in GrantedOn(e) : Outranks(l, m)' = Outranks(l, m)
  BY <1>2 DEF Outranks, OwnsRoute
<1>6. CASE ~device[e].requested /\ ActiveOn(e) = {} /\ device[e].profile = device[e].default
  BY <1>3, <1>6 DEF RowMirrors
<1>7. CASE device[e].requested
  <2>1. PICK l \in GrantedOn(e) :
          /\ device[e].profile = lease[l].profile
          /\ device[e].expires = lease[l].expires
          /\ \A m \in ActiveOn(e) \ {l} : Outranks(l, m)
    BY <1>7 DEF RowMirrors
  <2>2. \A m \in ActiveOn(e)' \ {l} : Outranks(l, m)'
    BY <1>3, <1>4, <1>5, <2>1
  <2> QED
    BY <1>1, <1>2, <1>7, <2>1, <2>2 DEF RowMirrors
<1> QED
  BY <1>6, <1>7 DEF RowMirrors

\* The rest of the table is what Open leaves alone.
LEMMA OpenFacts ==
  ASSUME TypeOK, NEW d \in Devices, NEW kind \in Kinds, NEW x \in Deliveries \cup {NoDelivery},
         NEW p \in Profiles, NEW l \in Leases, NEW ttl \in 1..MaxTtl,
         Open(d, kind, x, p, l, ttl)
  PROVE  /\ \A m \in Leases \ {l} : lease'[m] = lease[m]
         /\ lease[l].state = "unused"
         /\ lease'[l].state = "granted" /\ lease'[l].device = d
         /\ lease'[l].kind = kind /\ lease'[l].owner = x
  BY DEF Open, TypeOK

\* Every step keeps the device rows mirrors of their leases.
LEMMA MirrorStep ==
  ASSUME TypeOK, TypeOK', ProjectionMirrorsLease, OwnerIsRecorded, [Next]_raVars
  PROVE  ProjectionMirrorsLease'
<1> SUFFICES ASSUME NEW e \in Devices, device'[e].exists
             PROVE  RowMirrors(e)'
  BY DEF ProjectionMirrorsLease
<1>0. /\ device \in [Devices -> DeviceRows] /\ lease \in [Leases -> LeaseRows]
      /\ now \in Nat /\ now' \in Nat
      /\ \A d \in Devices : device[d] \in DeviceRows
  BY BoundAssumption DEF TypeOK
\* Steps that write rows of one device d only, and then project it.
<1>1. ASSUME NEW d \in Devices, NEW base \in DeviceRows, base.exists = device[d].exists,
             Project(d, base), now' = now, delivery' = delivery,
             \A f \in Devices \ {d} : \A l \in GrantedOn(f) \cup GrantedOn(f)' : lease'[l] = lease[l]
      PROVE  RowMirrors(e)'
  <2>1. CASE e = d
    BY <1>1, <2>1, ProjectMirrors
  <2>2. CASE e # d
    <3>1. device'[e] = device[e]
      BY <1>1, <2>2, ProjectMirrors
    <3>2. RowMirrors(e)
      BY <3>1 DEF ProjectionMirrorsLease
    <3>3. \A l \in GrantedOn(e) \cup GrantedOn(e)' : lease'[l] = lease[l]
      BY <1>1, <2>2
    <3>4. \A l \in GrantedOn(e) : DeliveryAllows(l)' => DeliveryAllows(l)
      BY <1>1, <3>3 DEF DeliveryAllows
    <3> QED
      BY <1>0, <1>1, <3>1, <3>2, <3>3, <3>4, MirrorKept
  <2> QED
    BY <2>1, <2>2
\* Steps that write no row of a device and no lease.
<1>2. ASSUME device' = device, lease' = lease, now' >= now,
             \A l \in GrantedOn(e) : DeliveryAllows(l)' => DeliveryAllows(l)
      PROVE  RowMirrors(e)'
  <2>1. RowMirrors(e)
    BY <1>2 DEF ProjectionMirrorsLease
  <2> QED
    BY <1>0, <1>2, <2>1, MirrorKept
<1>3. ASSUME NEW d \in Devices, NEW kind \in Kinds, NEW x \in Deliveries \cup {NoDelivery},
             NEW p \in Profiles, NEW l \in Leases, NEW ttl \in 1..MaxTtl,
             Open(d, kind, x, p, l, ttl)
      PROVE  RowMirrors(e)'
  <2>1. \A f \in Devices \ {d} : \A m \in GrantedOn(f) \cup GrantedOn(f)' : lease'[m] = lease[m]
    BY <1>3, OpenFacts DEF GrantedOn
  <2> QED
    BY <1>0, <1>1, <1>3, <2>1 DEF Open
<1>4. ASSUME NEW d \in Devices, NEW l \in Leases, NEW p \in Profiles, Reopen(d, l, p)
      PROVE  RowMirrors(e)'
  BY <1>0, <1>1, <1>4 DEF Reopen
<1>5. ASSUME NEW l \in Leases, Close(l)
      PROVE  RowMirrors(e)'
  <2>1. PICK d \in Devices : lease[l].device = d /\ Project(d, device[d])
    BY <1>5 DEF Close
  <2>2. \A f \in Devices \ {d} : \A m \in GrantedOn(f) \cup GrantedOn(f)' : lease'[m] = lease[m]
    BY <1>5, <2>1, <1>0 DEF Close, Revoke, GrantedOn, LeaseRows
  <2> QED
    BY <1>0, <1>1, <1>5, <2>1, <2>2 DEF Close
<1>6. ASSUME NEW d \in Devices, CloseDevice(d)
      PROVE  RowMirrors(e)'
  <2>1. \A f \in Devices \ {d} : \A m \in GrantedOn(f) \cup GrantedOn(f)' : lease'[m] = lease[m]
    BY <1>0, <1>6 DEF CloseDevice, Revoke, GrantedOn, LeaseRows
  <2> QED
    BY <1>0, <1>1, <1>6, <2>1 DEF CloseDevice
<1>7. ASSUME NEW d \in Devices, Reproject(d)
      PROVE  RowMirrors(e)'
  BY <1>0, <1>1, <1>7 DEF Reproject
<1>8. ASSUME NEW d \in Devices, NEW p \in Profiles, SetProfile(d, p)
      PROVE  RowMirrors(e)'
  <2>1. /\ [device[d] EXCEPT !.default = p] \in DeviceRows
        /\ [device[d] EXCEPT !.default = p].exists = device[d].exists
    BY <1>0 DEF DeviceRows
  <2> QED
    BY <1>1, <1>8, <2>1 DEF SetProfile
<1>9. ASSUME NEW d \in Devices, DeleteDevice(d)
      PROVE  RowMirrors(e)'
  <2>1. e # d /\ device'[e] = device[e]
    BY <1>0, <1>9 DEF DeleteDevice, DeviceRows
  <2>2. RowMirrors(e)
    BY <2>1 DEF ProjectionMirrorsLease
  <2>3. ASSUME NEW l \in GrantedOn(e) \cup GrantedOn(e)'
        PROVE  lease'[l] = lease[l]
    <3>1. lease'[l] = IF lease[l].device = d /\ lease[l].state # "unused"
                      THEN [lease[l] EXCEPT !.state = "deleted"]
                      ELSE lease[l]
      BY <1>9 DEF DeleteDevice, GrantedOn
    <3>2. l \in Leases /\ lease[l] \in LeaseRows
      BY <1>0 DEF GrantedOn
    <3>3. [lease[l] EXCEPT !.state = "deleted"].state = "deleted"
      BY <3>2 DEF LeaseRows
    <3>4. lease[l].device # d
          \/ lease[l].state = "unused"
      BY <2>1, <3>1, <3>3 DEF GrantedOn
    <3> QED
      BY <3>1, <3>4
  <2>4. ASSUME NEW l \in GrantedOn(e), DeliveryAllows(l)'
        PROVE  DeliveryAllows(l)
    <3>1. lease'[l] = lease[l]
      BY <2>3
    <3>2. ASSUME NEW x \in Deliveries, delivery'[x].status = "live"
          PROVE  delivery'[x] = delivery[x]
      <4>1. delivery[x] \in DeliveryRows
        BY DEF TypeOK
      <4>2. [delivery[x] EXCEPT !.status = "over"].status = "over"
        BY <4>1 DEF DeliveryRows
      <4> QED
        BY <1>9, <3>2, <4>2 DEF DeleteDevice
    <3> QED
      BY <2>4, <3>1, <3>2 DEF DeliveryAllows
  <2> QED
    <3>1. now' \in Nat /\ now' >= now
      BY <1>0, <1>9 DEF DeleteDevice
    <3>2. \A l \in GrantedOn(e) \cup GrantedOn(e)' : lease'[l] = lease[l]
      BY <2>3
    <3>3. \A l \in GrantedOn(e) : DeliveryAllows(l)' => DeliveryAllows(l)
      BY <2>4
    <3> QED
      BY <2>1, <2>2, <3>1, <3>2, <3>3, MirrorKept
<1>10. ASSUME NEW x \in Deliveries, NEW d \in Devices, StartDelivery(x, d)
       PROVE  RowMirrors(e)'
  <2>1. \A l \in GrantedOn(e) : lease[l].kind = "provisioning" => lease[l].owner # x
    BY <1>10 DEF StartDelivery, OwnerIsRecorded, HeldBy, GrantedOn
  <2>2. \A l \in GrantedOn(e) : DeliveryAllows(l)' => DeliveryAllows(l)
    BY <1>10, <2>1 DEF StartDelivery, DeliveryAllows, TypeOK
  <2> QED
    BY <1>0, <1>2, <1>10, <2>2 DEF StartDelivery
<1>11. ASSUME NEW x \in Deliveries, EndDelivery(x)
       PROVE  RowMirrors(e)'
  <2>1. \A l \in GrantedOn(e) : DeliveryAllows(l)' => DeliveryAllows(l)
    BY <1>11 DEF EndDelivery, DeliveryAllows, TypeOK, DeliveryRows
  <2> QED
    BY <1>0, <1>2, <1>11, <2>1 DEF EndDelivery
<1>12. CASE Tick
  BY <1>0, <1>2, <1>12 DEF Tick, DeliveryAllows
<1>13. CASE UNCHANGED raVars
  BY <1>0, <1>2, <1>13 DEF raVars, DeliveryAllows
<1> QED
  BY <1>3, <1>4, <1>5, <1>6, <1>7, <1>8, <1>9, <1>10, <1>11, <1>12, <1>13 DEF Next

-----------------------------------------------------------------------------
\* Every step keeps: one lease per delivery, on the delivery's device, and the
\* delivery recorded.
LEMMA OwnershipStep ==
  ASSUME TypeOK, TypeOK', DeliveryOwnsOneLease, OwnerIsRecorded, [Next]_raVars
  PROVE  DeliveryOwnsOneLease' /\ OwnerIsRecorded'
<1>0. /\ lease \in [Leases -> LeaseRows] /\ delivery \in [Deliveries -> DeliveryRows]
      /\ \A l \in Leases : lease[l] \in LeaseRows
      /\ \A x \in Deliveries : delivery[x] \in DeliveryRows
  BY DEF TypeOK
\* Steps after which every held lease was held before, unchanged in what
\* ownership reads, and every recorded delivery stays on its device.
<1>1. ASSUME \A x \in Deliveries : HeldBy(x)' \subseteq HeldBy(x),
             \A x \in Deliveries : \A l \in HeldBy(x)' : lease'[l].device = lease[l].device,
             \A x \in Deliveries : delivery[x].status # "absent" =>
               delivery'[x].status # "absent" /\ delivery'[x].device = delivery[x].device
      PROVE  DeliveryOwnsOneLease' /\ OwnerIsRecorded'
  BY <1>1 DEF DeliveryOwnsOneLease, OwnerIsRecorded
<1>2. ASSUME NEW d \in Devices, NEW kind \in Kinds, NEW x \in Deliveries \cup {NoDelivery},
             NEW p \in Profiles, NEW l \in Leases, NEW ttl \in 1..MaxTtl,
             Open(d, kind, x, p, l, ttl)
      PROVE  DeliveryOwnsOneLease' /\ OwnerIsRecorded'
  <2>1. delivery' = delivery /\ DeliveryAllows(l)'
    BY <1>2 DEF Open, Active
  <2>2. \A y \in Deliveries : HeldBy(y)' = IF y = x /\ kind = "provisioning"
                                           THEN {l} ELSE HeldBy(y)
    <3> SUFFICES ASSUME NEW y \in Deliveries
                 PROVE  HeldBy(y)' = IF y = x /\ kind = "provisioning" THEN {l} ELSE HeldBy(y)
      OBVIOUS
    <3>1. \A m \in Leases \ {l} : m \in HeldBy(y)' <=> m \in HeldBy(y)
      BY <1>2, OpenFacts DEF HeldBy
    <3>2. l \notin HeldBy(y)
      BY <1>2, OpenFacts DEF HeldBy
    <3>3. l \in HeldBy(y)' <=> y = x /\ kind = "provisioning"
      BY <1>2, OpenFacts DEF HeldBy
    <3>4. y = x /\ kind = "provisioning" => HeldBy(y) = {}
      BY <1>2 DEF Open
    <3>5. HeldBy(y) \subseteq Leases /\ HeldBy(y)' \subseteq Leases
      BY DEF HeldBy
    <3> QED
      BY <3>1, <3>2, <3>3, <3>4, <3>5
  <2>3. \A m \in Leases \ {l} : lease'[m] = lease[m]
    BY <1>2, OpenFacts
  <2>4. \A y \in Deliveries : l \notin HeldBy(y)
    BY <1>2, OpenFacts DEF HeldBy
  <2>5. CASE kind = "provisioning"
    <3>1. /\ x \in Deliveries /\ delivery'[x].status = "live"
          /\ delivery'[x].device = lease'[l].device
      BY <1>2, <2>1, <2>5, OpenFacts DEF DeliveryAllows
    <3> QED
      <4> SUFFICES ASSUME NEW y \in Deliveries
                   PROVE  /\ \A k, m \in HeldBy(y)' : k = m
                          /\ \A m \in HeldBy(y)' : lease'[m].device = delivery'[y].device
                          /\ \A m \in HeldBy(y)' : delivery'[y].status # "absent"
        BY DEF DeliveryOwnsOneLease, OwnerIsRecorded
      <4>1. CASE y = x
        <5>1. HeldBy(y)' = {l}
          BY <2>2, <2>5, <4>1
        <5> QED
          BY <3>1, <4>1, <5>1
      <4>2. CASE y # x
        <5>1. HeldBy(y)' = HeldBy(y)
          BY <2>2, <4>2
        <5>2. \A m \in HeldBy(y) : lease'[m].device = lease[m].device
          BY <2>3, <2>4 DEF HeldBy
        <5> QED
          BY <2>1, <5>1, <5>2 DEF DeliveryOwnsOneLease, OwnerIsRecorded
      <4> QED
        BY <4>1, <4>2
  <2>6. CASE kind # "provisioning"
    <3>1. \A y \in Deliveries : HeldBy(y)' = HeldBy(y)
      BY <2>2, <2>6
    <3>2. \A y \in Deliveries : \A m \in HeldBy(y)' : lease'[m].device = lease[m].device
      BY <2>3, <2>4, <3>1 DEF HeldBy
    <3> QED
      BY <1>1, <2>1, <3>1, <3>2
  <2> QED
    BY <2>5, <2>6
<1>3. ASSUME NEW ls \in SUBSET Leases, Revoke(ls), delivery' = delivery
      PROVE  DeliveryOwnsOneLease' /\ OwnerIsRecorded'
  <2>1. \A l \in Leases : /\ lease'[l].device = lease[l].device
                          /\ lease'[l].kind = lease[l].kind /\ lease'[l].owner = lease[l].owner
    <3> SUFFICES ASSUME NEW l \in Leases
                 PROVE  /\ lease'[l].device = lease[l].device
                        /\ lease'[l].kind = lease[l].kind /\ lease'[l].owner = lease[l].owner
      OBVIOUS
    <3>1. lease'[l] = [lease[l] EXCEPT !.state = lease'[l].state]
      BY <1>3, RevokeFacts
    <3>2. lease[l] \in LeaseRows
      BY <1>0
    <3> QED
      BY <3>1, <3>2 DEF LeaseRows
  <2>2. \A l \in Leases : lease'[l].state \in {"granted", "revoked"} =>
                            lease[l].state \in {"granted", "revoked"}
    BY <1>3, RevokeFacts
  <2> QED
    BY <1>1, <1>3, <2>1, <2>2 DEF HeldBy
<1>4. ASSUME lease' = lease, delivery' = delivery
      PROVE  DeliveryOwnsOneLease' /\ OwnerIsRecorded'
  BY <1>1, <1>4 DEF HeldBy
<1>5. ASSUME NEW d \in Devices, DeleteDevice(d)
      PROVE  DeliveryOwnsOneLease' /\ OwnerIsRecorded'
  <2>1. ASSUME NEW l \in Leases
        PROVE  lease'[l] = lease[l] \/ lease'[l].state = "deleted"
    BY <1>0, <1>5 DEF DeleteDevice, LeaseRows
  <2>2. ASSUME NEW x \in Deliveries, delivery[x].status # "absent"
        PROVE  delivery'[x].status # "absent" /\ delivery'[x].device = delivery[x].device
    BY <1>0, <1>5, <2>2 DEF DeleteDevice, DeliveryRows
  <2> QED
    BY <1>1, <2>1, <2>2 DEF HeldBy
<1>6. ASSUME NEW x \in Deliveries, NEW d \in Devices, StartDelivery(x, d)
      PROVE  DeliveryOwnsOneLease' /\ OwnerIsRecorded'
  BY <1>0, <1>1, <1>6 DEF StartDelivery, HeldBy
<1>7. ASSUME NEW x \in Deliveries, EndDelivery(x)
      PROVE  DeliveryOwnsOneLease' /\ OwnerIsRecorded'
  <2>1. \A y \in Deliveries : delivery[y].status # "absent" =>
          delivery'[y].status # "absent" /\ delivery'[y].device = delivery[y].device
    BY <1>0, <1>7 DEF EndDelivery, DeliveryRows
  <2> QED
    BY <1>1, <1>7, <2>1 DEF EndDelivery, HeldBy
<1>8. ASSUME NEW d \in Devices, CloseDevice(d)
      PROVE  DeliveryOwnsOneLease' /\ OwnerIsRecorded'
  BY <1>3, <1>8 DEF CloseDevice, GrantedOn
<1>9. ASSUME NEW l \in Leases, Close(l)
      PROVE  DeliveryOwnsOneLease' /\ OwnerIsRecorded'
  BY <1>3, <1>9 DEF Close
<1>10. ASSUME NEW d \in Devices, NEW l \in Leases, NEW p \in Profiles,
              Reopen(d, l, p) \/ SetProfile(d, p) \/ Reproject(d)
       PROVE  DeliveryOwnsOneLease' /\ OwnerIsRecorded'
  BY <1>4, <1>10 DEF Reopen, SetProfile, Reproject
<1>11. CASE Tick \/ UNCHANGED raVars
  BY <1>4, <1>11 DEF Tick, raVars
<1>12. ASSUME NEW d \in Devices, NEW p \in Profiles, SetProfile(d, p) \/ Reproject(d)
       PROVE  DeliveryOwnsOneLease' /\ OwnerIsRecorded'
  BY <1>4, <1>12 DEF SetProfile, Reproject
<1> QED
  BY <1>2, <1>5, <1>6, <1>7, <1>8, <1>9, <1>10, <1>11, <1>12, ProfileAssumption DEF Next

\* No step brings a lease back or changes one that is in effect.
LEMMA OnlyLosesStep ==
  ASSUME TypeOK, TypeOK', OwnerIsRecorded, [Next]_raVars, NEW l \in Leases
  PROVE  OnlyLoses(l)
<1>0. /\ lease[l] \in LeaseRows
      /\ now \in Nat /\ now' \in Nat
      /\ lease[l] = [lease[l] EXCEPT !.state = lease[l].state]
  BY BoundAssumption DEF TypeOK, LeaseRows
<1>1. ASSUME lease'[l] = lease[l], now' >= now, DeliveryAllows(l)' => DeliveryAllows(l) \/ ~Active(l)' 
      PROVE  OnlyLoses(l)
  <2>1. lease[l].expires \in Nat
    BY <1>0 DEF LeaseRows
  <2>2. Active(l)' => Active(l)
    BY <1>0, <1>1, <2>1 DEF Active
  <2> QED
    BY <1>0, <1>1, <2>2 DEF OnlyLoses
<1>2. ASSUME lease'[l] = lease[l], now' = now, delivery' = delivery
      PROVE  OnlyLoses(l)
  BY <1>0, <1>1, <1>2 DEF DeliveryAllows
<1>3. ASSUME NEW ls \in SUBSET Leases, Revoke(ls), now' = now, delivery' = delivery
      PROVE  OnlyLoses(l)
  <2>1. /\ lease'[l] = [lease[l] EXCEPT !.state = lease'[l].state]
        /\ lease'[l].state = lease[l].state
             \/ (lease[l].state = "granted" /\ lease'[l].state = "revoked")
    BY <1>3, RevokeFacts
  <2>2. CASE lease'[l].state = lease[l].state
    BY <1>0, <1>2, <1>3, <2>1, <2>2
  <2>3. CASE lease[l].state = "granted" /\ lease'[l].state = "revoked"
    BY <2>1, <2>3 DEF OnlyLoses, Active
  <2> QED
    BY <2>1, <2>2, <2>3
<1>4. ASSUME NEW d \in Devices, NEW kind \in Kinds, NEW x \in Deliveries \cup {NoDelivery},
             NEW p \in Profiles, NEW m \in Leases, NEW ttl \in 1..MaxTtl,
             Open(d, kind, x, p, m, ttl)
      PROVE  OnlyLoses(l)
  <2>1. CASE l = m
    BY <1>4, <2>1 DEF Open, OnlyLoses
  <2>2. CASE l # m
    BY <1>2, <1>4, <2>2, OpenFacts DEF Open
  <2> QED
    BY <2>1, <2>2
<1>5. ASSUME NEW d \in Devices, NEW m \in Leases, NEW p \in Profiles,
             Reopen(d, m, p) \/ SetProfile(d, p)
      PROVE  OnlyLoses(l)
  BY <1>2, <1>5 DEF Reopen, SetProfile
<1>6. ASSUME NEW m \in Leases, Close(m)
      PROVE  OnlyLoses(l)
  BY <1>3, <1>6 DEF Close
<1>7. ASSUME NEW d \in Devices, CloseDevice(d)
      PROVE  OnlyLoses(l)
  BY <1>3, <1>7 DEF CloseDevice, GrantedOn
<1>8. ASSUME NEW d \in Devices, NEW p \in Profiles, SetProfile(d, p) \/ Reproject(d)
      PROVE  OnlyLoses(l)
  BY <1>2, <1>8 DEF SetProfile, Reproject
<1>9. ASSUME NEW d \in Devices, DeleteDevice(d)
      PROVE  OnlyLoses(l)
  <2>1. lease'[l] = IF lease[l].device = d /\ lease[l].state # "unused"
                    THEN [lease[l] EXCEPT !.state = "deleted"] ELSE lease[l]
    BY <1>9 DEF DeleteDevice
  <2>2. CASE lease[l].device = d /\ lease[l].state # "unused"
    <3>1. lease'[l].state = "deleted" /\ lease'[l] = [lease[l] EXCEPT !.state = lease'[l].state]
      BY <1>0, <2>1, <2>2 DEF LeaseRows
    <3> QED
      BY <3>1 DEF OnlyLoses, Active
  <2>3. CASE ~(lease[l].device = d /\ lease[l].state # "unused")
    <3>1. lease'[l] = lease[l]
      BY <2>1, <2>3
    <3>2. ASSUME NEW x \in Deliveries, delivery'[x].status = "live"
          PROVE  delivery'[x] = delivery[x]
      <4>1. delivery[x] \in DeliveryRows
        BY DEF TypeOK
      <4>2. [delivery[x] EXCEPT !.status = "over"].status = "over"
        BY <4>1 DEF DeliveryRows
      <4> QED
        BY <1>9, <3>2, <4>2 DEF DeleteDevice
    <3>3. DeliveryAllows(l)' => DeliveryAllows(l)
      BY <3>1, <3>2 DEF DeliveryAllows
    <3>4. now' >= now
      BY <1>0, <1>9 DEF DeleteDevice
    <3> QED
      BY <1>1, <3>1, <3>3, <3>4
  <2> QED
    BY <2>2, <2>3
<1>10. ASSUME NEW x \in Deliveries, NEW d \in Devices, StartDelivery(x, d)
       PROVE  OnlyLoses(l)
  <2>1. lease[l].state = "granted" /\ lease[l].kind = "provisioning" => lease[l].owner # x
    BY <1>10 DEF StartDelivery, OwnerIsRecorded, HeldBy
  <2>2. DeliveryAllows(l)' => DeliveryAllows(l) \/ ~Active(l)'
    BY <1>10, <2>1 DEF StartDelivery, DeliveryAllows, Active, TypeOK
  <2> QED
    BY <1>0, <1>1, <1>10, <2>2 DEF StartDelivery
<1>11. ASSUME NEW x \in Deliveries, EndDelivery(x)
       PROVE  OnlyLoses(l)
  <2>1. DeliveryAllows(l)' => DeliveryAllows(l)
    BY <1>11 DEF EndDelivery, DeliveryAllows, TypeOK, DeliveryRows
  <2> QED
    BY <1>0, <1>1, <1>11, <2>1 DEF EndDelivery
<1>12. CASE Tick
  BY <1>0, <1>1, <1>12 DEF Tick, DeliveryAllows
<1>13. CASE UNCHANGED raVars
  BY <1>2, <1>13 DEF raVars
<1> QED
  BY <1>4, <1>5, <1>6, <1>7, <1>8, <1>9, <1>10, <1>11, <1>12, <1>13, ProfileAssumption DEF Next

\* The empty tables satisfy the inductive invariant.
LEMMA InitInv == Init => IInv
<1> SUFFICES ASSUME Init PROVE IInv
  OBVIOUS
<1>1. TypeOK
  BY InitType
<1>2. \A l \in Leases : lease[l].state = "unused"
  BY DEF Init
<1>3. \A d \in Devices : ActiveOn(d) = {}
  BY <1>2 DEF ActiveOn, GrantedOn
<1>4. \A x \in Deliveries : HeldBy(x) = {}
  BY <1>2 DEF HeldBy
<1>5. ProjectionMirrorsLease
  BY <1>3 DEF ProjectionMirrorsLease, RowMirrors, Init
<1> QED
  BY <1>1, <1>4, <1>5 DEF IInv, DeliveryOwnsOneLease, OwnerIsRecorded

\* Every step preserves the inductive invariant.
LEMMA InvStep == IInv /\ [Next]_raVars => IInv'
  BY TypeStep, MirrorStep, OwnershipStep DEF IInv

\* The device rows always mirror the leases in effect.
THEOREM ProjectionCorrect == Spec => []ProjectionMirrorsLease
<1>1. IInv => ProjectionMirrorsLease
  BY DEF IInv
<1> QED
  BY <1>1, InitInv, InvStep, PTL DEF Spec

\* A delivery never holds two leases, nor one on another device.
THEOREM OwnershipCorrect == Spec => []DeliveryOwnsOneLease
<1>1. IInv => DeliveryOwnsOneLease
  BY DEF IInv
<1> QED
  BY <1>1, InitInv, InvStep, PTL DEF Spec

\* Authorization that is lost stays lost, and a lease in effect never changes.
THEOREM LossIsFinal == Spec => NoResurrection
<1>1. IInv /\ [Next]_raVars => [\A l \in Leases : OnlyLoses(l)]_raVars
  <2> SUFFICES ASSUME IInv, Next
               PROVE  \A l \in Leases : OnlyLoses(l)
    BY DEF raVars
  <2> QED
    BY TypeStep, OnlyLosesStep DEF IInv
<1> QED
  BY <1>1, InitInv, InvStep, PTL DEF Spec, NoResurrection

\* The revocations of a step: none, a single one, or every one of some device.
LEMMA RevocationStep ==
  ASSUME TypeOK, Next, NEW l \in Leases, NEW m \in Leases, l # m,
         lease[l].state = "granted", lease'[l].state = "revoked",
         lease[m].state = "granted", lease'[m].state = "revoked"
  PROVE  lease[l].device = lease[m].device /\ GrantedOn(lease[l].device)' = {}
<1>0. lease[l] \in LeaseRows /\ lease[m] \in LeaseRows
  BY DEF TypeOK
<1>1. ASSUME NEW k \in Leases, Close(k)
      PROVE  FALSE
  BY <1>1 DEF Close, Revoke
<1>2. ASSUME NEW d \in Devices, NEW kind \in Kinds, NEW x \in Deliveries \cup {NoDelivery},
             NEW p \in Profiles, NEW k \in Leases, NEW ttl \in 1..MaxTtl,
             Open(d, kind, x, p, k, ttl)
      PROVE  FALSE
  <2>1. \A n \in Leases \ {k} : lease'[n] = lease[n]
    BY <1>2, OpenFacts
  <2>2. lease[k].state = "unused"
    BY <1>2, OpenFacts
  <2> QED
    BY <2>1, <2>2
<1>3. ASSUME NEW d \in Devices, DeleteDevice(d)
      PROVE  FALSE
  <2>1. lease'[l] = lease[l] \/ lease'[l].state = "deleted"
    BY <1>0, <1>3 DEF DeleteDevice, LeaseRows
  <2> QED
    BY <2>1
<1>4. ASSUME NEW d \in Devices, CloseDevice(d)
      PROVE  lease[l].device = lease[m].device /\ GrantedOn(lease[l].device)' = {}
  <2>1. l \in GrantedOn(d) /\ m \in GrantedOn(d)
    BY <1>4 DEF CloseDevice, Revoke
  <2>2. lease[l].device = d /\ lease[m].device = d
    BY <2>1 DEF GrantedOn
  <2>3. Revoke(GrantedOn(d)) /\ GrantedOn(d) \in SUBSET Leases
    BY <1>4 DEF CloseDevice, GrantedOn
  <2>4. ASSUME NEW n \in Leases, lease'[n].state = "granted", lease'[n].device = d
        PROVE  FALSE
    <3>1. n \notin GrantedOn(d)
      <4>1. lease'[n] = IF n \in GrantedOn(d) /\ lease[n].state = "granted"
                        THEN [lease[n] EXCEPT !.state = "revoked"] ELSE lease[n]
        BY <2>3 DEF Revoke
      <4>2. lease[n] \in LeaseRows
        BY DEF TypeOK
      <4>3. [lease[n] EXCEPT !.state = "revoked"].state = "revoked"
        BY <4>2 DEF LeaseRows
      <4>4. n \in GrantedOn(d) => lease[n].state = "granted"
        BY DEF GrantedOn
      <4> QED
        BY <2>4, <4>1, <4>3, <4>4
    <3>2. lease'[n] = lease[n]
      BY <2>3, <3>1 DEF Revoke
    <3> QED
      BY <2>4, <3>1, <3>2 DEF GrantedOn
  <2>5. lease'[l].device = d
    <3>1. lease'[l] = [lease[l] EXCEPT !.state = lease'[l].state]
      BY <2>3, RevokeFacts
    <3> QED
      BY <1>0, <2>2, <3>1 DEF LeaseRows
  <2>6. {n \in Leases : lease'[n].state = "granted" /\ lease'[n].device = lease'[l].device} = {}
    BY <2>4, <2>5
  <2>7. GrantedOn(lease[l].device)' = {}
    BY <2>6 DEF GrantedOn
  <2> QED
    BY <2>2, <2>7
<1>5. ASSUME lease' = lease
      PROVE  FALSE
  BY <1>5
<1>6. ASSUME NEW d \in Devices, NEW k \in Leases, NEW p \in Profiles, Reopen(d, k, p)
      PROVE  FALSE
  BY <1>5, <1>6 DEF Reopen
<1>7. ASSUME NEW d \in Devices, NEW p \in Profiles, SetProfile(d, p)
      PROVE  FALSE
  BY <1>5, <1>7 DEF SetProfile
<1>8. ASSUME NEW d \in Devices, Reproject(d)
      PROVE  FALSE
  BY <1>5, <1>8 DEF Reproject
<1>9. ASSUME NEW x \in Deliveries, NEW d \in Devices, StartDelivery(x, d)
      PROVE  FALSE
  BY <1>5, <1>9 DEF StartDelivery
<1>10. ASSUME NEW x \in Deliveries, EndDelivery(x)
       PROVE  FALSE
  BY <1>5, <1>10 DEF EndDelivery
<1>11. CASE Tick
  BY <1>5, <1>11 DEF Tick
<1> QED
  BY <1>1, <1>2, <1>3, <1>4, <1>6, <1>7, <1>8, <1>9, <1>10, <1>11 DEF Next

\* A transaction that revokes the leases of several owners is the explicit
\* disable of one device (close_device), and it leaves that device none.
THEOREM RevocationSelects == Spec => RevocationIsSelective
<1>1. IInv /\ [Next]_raVars =>
        [LET gone == {l \in Leases : lease[l].state = "granted" /\ lease'[l].state = "revoked"}
         IN  \A l, m \in gone : l # m =>
               lease[l].device = lease[m].device /\ GrantedOn(lease[l].device)' = {}]_raVars
  BY RevocationStep DEF IInv
<1> QED
  BY <1>1, InitInv, InvStep, PTL DEF Spec, RevocationIsSelective

\* Whatever the selection returns, an upload's lease in effect is not behind it.
THEOREM UploadOwnsTheRoute == Spec => []UploadKeepsRoute
<1>1. IInv => UploadKeepsRoute
  <2> SUFFICES ASSUME NEW d \in Devices, NEW l \in Leases, Selected(d, l), OwnsRoute(l) = 0,
                      NEW x \in Deliveries, NEW m \in HeldBy(x), lease[m].device = d, Active(m)
               PROVE  FALSE
    BY DEF UploadKeepsRoute
  <2>1. m \in Leases /\ OwnsRoute(m) = 1
    BY DEF HeldBy, OwnsRoute
  <2>2. m \in ActiveOn(d) \ {l}
    BY <2>1, ActiveIsGranted DEF ActiveOn, GrantedOn
  <2>3. Outranks(l, m)
    BY <2>2 DEF Selected
  <2> QED
    BY <2>1, <2>3 DEF Outranks
<1> QED
  BY <1>1, InitInv, InvStep, PTL DEF Spec

-----------------------------------------------------------------------------
(* The manager *)

\* What every other transaction does to a lease: nothing becomes active.
NothingOpens == \A l \in Leases : Active(l)' => Active(l)

-----------------------------------------------------------------------------
\* A close that finds the row is a Close of RemoteAccess, any other a stutter.
LEMMA CloseRowStep ==
  ASSUME NEW l \in Leases, CloseRow(l)
  PROVE  [Next]_raVars
  BY DEF CloseRow, Next

\* Every step of the manager is one transaction of the authority, or none.
LEMMA ManagerStep ==
  ASSUME [ManagerNext]_vars
  PROVE  [Next]_raVars
<1>1. ASSUME NEW v \in Views, NEW d \in Devices, NEW p \in Profiles, NEW l \in Leases,
             NEW ttl \in 1..MaxTtl, ViewOpens(v, d, p, l, ttl)
      PROVE  [Next]_raVars
  BY <1>1, SessionAssumption DEF ViewOpens, Next
<1>2. ASSUME NEW d \in Devices, NEW kind \in Kinds, NEW x \in Deliveries \cup {NoDelivery},
             NEW p \in Profiles, NEW l \in Leases, NEW ttl \in 1..MaxTtl,
             OpenUnowned(d, kind, x, p, l, ttl)
      PROVE  [Next]_raVars
  BY <1>2 DEF OpenUnowned, Next
<1>3. ASSUME NEW d \in Devices, NEW l \in Leases, NEW p \in Profiles, ReopenDelivery(d, l, p)
      PROVE  [Next]_raVars
  BY <1>3 DEF ReopenDelivery, Next
<1>4. ASSUME NEW v \in Views, ViewCloses(v)
      PROVE  [Next]_raVars
  BY <1>4, CloseRowStep DEF ViewCloses, PopLease
<1>5. ASSUME NEW l \in Leases,
             CloseDelivery(l) \/ HandleExpired(l) \/ HandleDown(l) \/ RestoreClose(l)
      PROVE  [Next]_raVars
  BY <1>5, CloseRowStep DEF CloseDelivery, HandleExpired, HandleDown, RestoreClose, PopLease
<1>6. ASSUME NEW d \in Devices, DisableDevice(d) \/ RestoreProject(d)
      PROVE  [Next]_raVars
  BY <1>6 DEF DisableDevice, RestoreProject, Next
<1>7. ASSUME NEW v \in Views, NEW l \in Leases, ViewHandlesExpiry(v, l)
      PROVE  [Next]_raVars
  BY <1>7, CloseRowStep DEF ViewHandlesExpiry, PopLease
<1>8. ASSUME Environment
      PROVE  [Next]_raVars
  BY <1>8 DEF Environment, Next
<1>9. CASE Crash \/ Restart \/ RestoreScan \/ RestoreCache
  BY <1>9 DEF Crash, Restart, RestoreScan, RestoreCache
<1>10. ASSUME NEW v \in Views, ViewDies(v)
       PROVE  [Next]_raVars
  BY <1>10 DEF ViewDies
<1>11. ASSUME NEW l \in Leases, TimerFires(l)
       PROVE  [Next]_raVars
  BY <1>11 DEF TimerFires
<1>12. CASE UNCHANGED vars
  BY <1>12 DEF vars
<1> QED
  BY <1>1, <1>2, <1>3, <1>4, <1>5, <1>6, <1>7, <1>8, <1>9, <1>10, <1>11, <1>12
     DEF ManagerNext

\* The manager reaches the database only through the authority's transactions,
\* so everything proved of the authority holds of the running system.
THEOREM ManagerImplementsAuthority == ManagerSpec => ImplementsRemoteAccess
<1>1. ManagerInit => Init
  BY DEF ManagerInit
<1>2. [ManagerNext]_vars => [Next]_raVars
  BY ManagerStep
<1> QED
  BY <1>1, <1>2, PTL DEF ManagerSpec, Spec, ImplementsRemoteAccess

-----------------------------------------------------------------------------
\* The leases in effect are covered by an alarm while the manager is up, and by
\* the list it read while it restores.
Covered ==
  /\ AlarmForEveryLease
  /\ mgr \in {"closing", "projecting"} => \A l \in Leases : Active(l) => l \in snap
  /\ mgr \in {"down", "closing", "projecting", "up"}

\* Only an open makes a lease active.
LEMMA OnlyOpenActivates ==
  ASSUME IInv, IInv', [Next]_raVars,
         \A l \in Leases : lease[l].state = "unused" => lease'[l].state # "granted"
  PROVE  NothingOpens
<1> SUFFICES ASSUME NEW l \in Leases, Active(l)'
             PROVE  Active(l)
  BY DEF NothingOpens
<1>1. OnlyLoses(l)
  BY OnlyLosesStep DEF IInv
<1>2. lease[l].state \in {"unused", "granted", "revoked", "deleted"}
  BY DEF IInv, TypeOK, LeaseRows
<1>3. lease'[l].state = "granted"
  BY DEF Active
<1> QED
  BY <1>1, <1>2, <1>3 DEF OnlyLoses

\* No transaction but open touches a row that is not inserted yet.
LEMMA UnusedStays ==
  ASSUME IInv, NEW l \in Leases, lease[l].state = "unused",
         \/ \E m \in Leases : CloseRow(m)
         \/ \E d \in Devices : CloseDevice(d) \/ DeleteDevice(d)
         \/ UNCHANGED lease
  PROVE  lease'[l].state # "granted"
  BY DEF CloseRow, Close, CloseDevice, DeleteDevice, Revoke, raVars

\* Every step keeps the leases in effect covered.
LEMMA CoveredStep ==
  ASSUME IInv, IInv', Covered, [ManagerNext]_vars
  PROVE  Covered'
<1>0. [Next]_raVars
  BY ManagerStep
<1>1. ASSUME NEW v \in Views \cup {NoView}, NEW d \in Devices, NEW kind \in Kinds,
             NEW x \in Deliveries \cup {NoDelivery}, NEW p \in Profiles,
             NEW l \in Leases, NEW ttl \in 1..MaxTtl,
             mgr = "up", mgr' = mgr, expiries' = expiries,
             Open(d, kind, x, p, l, ttl), CacheLease(l, v)
      PROVE  Covered'
  <2>1. \A m \in Leases \ {l} : lease'[m] = lease[m]
    BY <1>1, OpenFacts DEF IInv
  <2>2. \A m \in Leases \ {l} : Active(m)' => Active(m)
    BY <1>1, <2>1 DEF Active, DeliveryAllows, Open
  <2> QED
    BY <1>1, <2>2 DEF Covered, AlarmForEveryLease, CacheLease
<1>2. ASSUME NEW l \in Leases, mgr = "up", mgr' = mgr, expiries \ {l} \subseteq expiries',
             PopLease(l)
      PROVE  Covered'
  <2>1. NothingOpens
    BY <1>0, <1>2, OnlyOpenActivates, UnusedStays DEF PopLease
  <2>2. ~Active(l)'
    <3>1. lease[l] \in LeaseRows /\ CloseRow(l)
      BY <1>2 DEF IInv, TypeOK, PopLease
    <3>2. CASE Close(l) /\ lease[l].state = "granted"
      <4>1. lease'[l] = [lease[l] EXCEPT !.state = "revoked"]
        BY <3>2 DEF Close, Revoke
      <4> QED
        BY <3>1, <4>1 DEF LeaseRows, Active
    <3>3. CASE lease'[l] = lease[l] /\ lease[l].state # "granted"
      BY <3>3 DEF Active
    <3> QED
      BY <3>1, <3>2, <3>3 DEF CloseRow, Close, Revoke, raVars, LeaseRows
  <2> QED
    BY <1>2, <2>1, <2>2 DEF Covered, AlarmForEveryLease, NothingOpens, PopLease, DropLeases
<1>3. ASSUME NothingOpens, mgr' = mgr, snap' = snap, cached \subseteq cached',
             armed \cup expiries \subseteq armed' \cup expiries'
      PROVE  Covered'
  BY <1>3 DEF Covered, AlarmForEveryLease, NothingOpens
<1>4. ASSUME UNCHANGED raVars
      PROVE  NothingOpens
  BY <1>4 DEF raVars, NothingOpens, Active, DeliveryAllows
<1>5. ASSUME NEW v \in Views, NEW d \in Devices, NEW p \in Profiles, NEW l \in Leases,
             NEW ttl \in 1..MaxTtl, ViewOpens(v, d, p, l, ttl)
      PROVE  Covered'
  BY <1>1, <1>5, SessionAssumption DEF ViewOpens
<1>6. ASSUME NEW d \in Devices, NEW kind \in Kinds, NEW x \in Deliveries \cup {NoDelivery},
             NEW p \in Profiles, NEW l \in Leases, NEW ttl \in 1..MaxTtl,
             OpenUnowned(d, kind, x, p, l, ttl)
      PROVE  Covered'
  BY <1>1, <1>6 DEF OpenUnowned
<1>7. ASSUME NEW d \in Devices, NEW l \in Leases, NEW p \in Profiles, ReopenDelivery(d, l, p)
      PROVE  Covered'
  <2>1. NothingOpens
    BY <1>7 DEF ReopenDelivery, Reopen, NothingOpens, Active, DeliveryAllows
  <2> QED
    BY <1>3, <1>7, <2>1 DEF ReopenDelivery, CacheLease, restoreVars
<1>8. ASSUME NEW v \in Views, ViewCloses(v)
      PROVE  Covered'
  BY <1>2, <1>8 DEF ViewCloses
<1>9. ASSUME NEW l \in Leases, CloseDelivery(l) \/ HandleExpired(l) \/ HandleDown(l)
      PROVE  Covered'
  BY <1>2, <1>9 DEF CloseDelivery, HandleExpired, HandleDown
<1>10. ASSUME NEW d \in Devices, DisableDevice(d)
       PROVE  Covered'
  <2>1. NothingOpens
    BY <1>0, <1>10, OnlyOpenActivates, UnusedStays DEF DisableDevice
  <2>2. \A l \in Leases : lease[l].device = d => ~Active(l)'
    BY <1>10 DEF DisableDevice, CloseDevice, Revoke, GrantedOn, Active
  <2> QED
    BY <1>10, <2>1, <2>2 DEF Covered, AlarmForEveryLease, NothingOpens, DisableDevice, DropLeases
<1>11. ASSUME NEW l \in Leases, TimerFires(l)
       PROVE  Covered'
  BY <1>3, <1>4, <1>11 DEF TimerFires, restoreVars
<1>12. ASSUME NEW v \in Views, NEW l \in Leases, ViewHandlesExpiry(v, l)
       PROVE  Covered'
  <2>1. CASE mgr = "up" /\ PopLease(l)
    BY <1>2, <1>12, <2>1 DEF ViewHandlesExpiry
  <2>2. CASE UNCHANGED <<raVars, cached, pid, armed, downs, view>>
    BY <1>3, <1>4, <1>12, <2>2 DEF ViewHandlesExpiry, restoreVars
  <2> QED
    BY <1>12, <2>1, <2>2 DEF ViewHandlesExpiry
<1>13. ASSUME NEW v \in Views, ViewDies(v)
       PROVE  Covered'
  BY <1>3, <1>4, <1>13 DEF ViewDies, restoreVars
<1>14. CASE Crash
  BY <1>14 DEF Crash, Covered, AlarmForEveryLease
<1>15. CASE Restart
  BY <1>15 DEF Restart, Covered, AlarmForEveryLease, Active, DeliveryAllows, raVars
<1>16. ASSUME NEW l \in Leases, RestoreClose(l)
       PROVE  Covered'
  <2>1. NothingOpens
    <3>1. CASE UNCHANGED raVars
      BY <1>4, <3>1
    <3>2. CASE CloseRow(l)
      BY <1>0, <3>2, OnlyOpenActivates, UnusedStays
    <3> QED
      BY <1>16, <3>1, <3>2 DEF RestoreClose
  <2> QED
    BY <1>3, <1>16, <2>1 DEF RestoreClose, mgrVars
<1>17. CASE RestoreScan
  <2>1. NothingOpens
    BY <1>4, <1>17 DEF RestoreScan
  <2> QED
    BY <1>17, <2>1 DEF RestoreScan, Covered, AlarmForEveryLease, NothingOpens
<1>18. ASSUME NEW d \in Devices, RestoreProject(d)
       PROVE  Covered'
  <2>1. NothingOpens
    BY <1>18 DEF RestoreProject, Reproject, NothingOpens, Active, DeliveryAllows, raVars
  <2> QED
    BY <1>3, <1>18, <2>1 DEF RestoreProject, mgrVars
<1>19. CASE RestoreCache
  <2>1. NothingOpens
    BY <1>4, <1>19 DEF RestoreCache
  <2> QED
    BY <1>19, <2>1 DEF RestoreCache, Covered, AlarmForEveryLease, NothingOpens
<1>20. CASE Environment
  <2>1. \A l \in Leases : lease[l].state = "unused" => lease'[l].state # "granted"
    BY <1>20, UnusedStays DEF Environment, StartDelivery, EndDelivery, SetProfile, Tick
  <2> QED
    BY <1>0, <1>3, <1>20, <2>1, OnlyOpenActivates DEF Environment, mgrVars, restoreVars
<1>21. CASE UNCHANGED vars
  BY <1>3, <1>4, <1>21 DEF vars, mgrVars, restoreVars
<1> QED
  BY <1>5, <1>6, <1>7, <1>8, <1>9, <1>10, <1>11, <1>12, <1>13, <1>14, <1>15, <1>16,
     <1>17, <1>18, <1>19, <1>20, <1>21 DEF ManagerNext

\* While the manager runs, every lease in effect has its alarm, over any number
\* of crashes and restores.
THEOREM AlarmAlwaysSet == ManagerSpec => []AlarmForEveryLease
<1>1. ManagerInit => IInv /\ Covered
  <2>1. ManagerInit => IInv
    BY InitInv DEF ManagerInit
  <2>2. ManagerInit => Covered
    BY DEF ManagerInit, Init, Covered, AlarmForEveryLease, Active
  <2> QED
    BY <2>1, <2>2
<1>2. (IInv /\ Covered) /\ [ManagerNext]_vars => (IInv /\ Covered)'
  BY InvStep, ManagerStep, CoveredStep
<1>3. IInv /\ Covered => AlarmForEveryLease
  BY DEF Covered
<1> QED
  BY <1>1, <1>2, <1>3, PTL DEF ManagerSpec

-----------------------------------------------------------------------------
\* A manager that is not up remembers nothing, and one that never crashed is up.
Idle ==
  /\ mgr # "up" => cached = {} /\ armed = {} /\ downs = {}
  /\ crashes = 0 => mgr = "up"

\* A LiveView only refers to session leases, and the manager knows it as the
\* owner of the one it holds.
RefsAreWatched ==
  \A v \in Views, l \in Leases :
    view[v].ref = l =>
      /\ lease[l].state # "unused"
      /\ lease[l].kind = "session"
      /\ crashes = 0 /\ lease[l].state = "granted" =>
           l \in cached /\ pid[l] = v /\ (view[v].alive \/ l \in downs)

CacheInv == ManagerTypeOK /\ Idle /\ CachedIsHeld /\ RefsAreWatched

\* A row, once inserted, stays inserted, keeps its kind and is not granted again.
LEMMA RowStep ==
  ASSUME TypeOK, [Next]_raVars, NEW l \in Leases, lease[l].state # "unused"
  PROVE  /\ lease'[l].state # "unused"
         /\ lease'[l].kind = lease[l].kind
         /\ lease'[l].state = lease[l].state \/ lease'[l].state \in {"revoked", "deleted"}
<1>0. lease[l] \in LeaseRows
  BY DEF TypeOK
<1>1. ASSUME lease'[l] = lease[l]
      PROVE  /\ lease'[l].state # "unused" /\ lease'[l].kind = lease[l].kind
             /\ lease'[l].state = lease[l].state \/ lease'[l].state \in {"revoked", "deleted"}
  BY <1>1
<1>2. ASSUME NEW ls \in SUBSET Leases, Revoke(ls)
      PROVE  /\ lease'[l].state # "unused" /\ lease'[l].kind = lease[l].kind
             /\ lease'[l].state = lease[l].state \/ lease'[l].state \in {"revoked", "deleted"}
  <2>1. lease'[l] = [lease[l] EXCEPT !.state = lease'[l].state]
    BY <1>2, RevokeFacts
  <2>2. lease'[l].kind = lease[l].kind
    BY <1>0, <2>1 DEF LeaseRows
  <2> QED
    BY <1>2, <2>2, RevokeFacts
<1>3. ASSUME NEW d \in Devices, NEW kind \in Kinds, NEW x \in Deliveries \cup {NoDelivery},
             NEW p \in Profiles, NEW k \in Leases, NEW ttl \in 1..MaxTtl,
             Open(d, kind, x, p, k, ttl)
      PROVE  lease'[l] = lease[l]
  BY <1>3, OpenFacts
<1>4. ASSUME NEW d \in Devices, DeleteDevice(d)
      PROVE  lease'[l] = lease[l] \/ (lease'[l].state = "deleted" /\ lease'[l].kind = lease[l].kind)
  BY <1>0, <1>4 DEF DeleteDevice, LeaseRows
<1>5. ASSUME NEW d \in Devices, NEW k \in Leases, NEW p \in Profiles,
             Reopen(d, k, p) \/ SetProfile(d, p) \/ Reproject(d)
      PROVE  lease' = lease
  BY <1>5 DEF Reopen, SetProfile, Reproject
<1>6. ASSUME NEW x \in Deliveries, NEW d \in Devices, StartDelivery(x, d) \/ EndDelivery(x)
      PROVE  lease' = lease
  BY <1>6 DEF StartDelivery, EndDelivery
<1>7. CASE Tick \/ UNCHANGED raVars
  BY <1>1, <1>7 DEF Tick, raVars
<1>8. ASSUME NEW k \in Leases, Close(k)
      PROVE  Revoke({k}) /\ {k} \in SUBSET Leases
  BY <1>8 DEF Close
<1>9. ASSUME NEW d \in Devices, CloseDevice(d)
      PROVE  Revoke(GrantedOn(d)) /\ GrantedOn(d) \in SUBSET Leases
  BY <1>9 DEF CloseDevice, GrantedOn
<1>10. ASSUME NEW x \in Deliveries, EndDelivery(x)
       PROVE  lease' = lease
  BY <1>10 DEF EndDelivery
<1>11. ASSUME NEW d \in Devices, NEW p \in Profiles, SetProfile(d, p) \/ Reproject(d)
       PROVE  lease' = lease
  BY <1>11 DEF SetProfile, Reproject
<1> QED
  BY <1>1, <1>2, <1>3, <1>4, <1>5, <1>6, <1>7, <1>8, <1>9, <1>10, <1>11, ProfileAssumption DEF Next

\* Popping a lease revokes nothing else and leaves it revoked or gone.
LEMMA PopFacts ==
  ASSUME TypeOK, NEW l \in Leases, PopLease(l)
  PROVE  /\ lease'[l].state # "granted"
         /\ \A m \in Leases \ {l} : lease'[m] = lease[m]
         /\ cached' = cached \ {l} /\ armed' = armed \ {l} /\ downs' = downs \ {l}
         /\ pid' = [m \in Leases |-> IF m = l THEN NoView ELSE pid[m]]
<1>1. lease[l] \in LeaseRows /\ CloseRow(l) /\ DropLeases({l})
  BY DEF TypeOK, PopLease
<1>2. CASE Close(l) /\ lease[l].state = "granted"
  <2>1. lease'[l] = [lease[l] EXCEPT !.state = "revoked"] /\ \A m \in Leases \ {l} : lease'[m] = lease[m]
    BY <1>2 DEF Close, Revoke
  <2>2. lease'[l].state = "revoked"
    BY <1>1, <2>1 DEF LeaseRows
  <2> QED
    BY <1>1, <2>1, <2>2 DEF DropLeases
<1>3. CASE Close(l) /\ lease[l].state # "granted"
  BY <1>1, <1>3 DEF Close, Revoke, DropLeases
<1>4. CASE lease[l].state \in {"unused", "deleted"} /\ UNCHANGED raVars
  BY <1>1, <1>4 DEF raVars, DropLeases
<1> QED
  BY <1>1, <1>2, <1>3, <1>4 DEF CloseRow

\* A transaction that leaves the cache alone keeps what it says about owners,
\* and revokes no lease while the manager is up.
LEMMA QuietStep ==
  ASSUME CacheInv, TypeOK', [Next]_raVars, UNCHANGED <<mgrVars, view, crashes>>,
         told' \in [Views -> SUBSET Leases],
         snap' \subseteq Leases, todo' \subseteq snap', sync' \subseteq Devices,
         mgr # "up" \/ \A l \in Leases : lease'[l].state = "revoked" => lease[l].state = "revoked"
  PROVE  CacheInv'
<1>1. ManagerTypeOK' /\ Idle'
  BY DEF CacheInv, ManagerTypeOK, Idle, mgrVars
<1>2. CachedIsHeld'
  <2> SUFFICES ASSUME mgr = "up", NEW l \in cached
               PROVE  lease'[l].state \in {"granted", "deleted"}
    BY DEF CachedIsHeld, mgrVars
  <2>1. l \in Leases /\ lease[l].state \in {"granted", "deleted"} /\ TypeOK
    BY DEF CacheInv, ManagerTypeOK, CachedIsHeld
  <2> QED
    BY <2>1, RowStep
<1>3. RefsAreWatched'
  <2> SUFFICES ASSUME NEW v \in Views, NEW l \in Leases, view[v].ref = l
               PROVE  /\ lease'[l].state # "unused"
                      /\ lease'[l].kind = "session"
                      /\ crashes = 0 /\ lease'[l].state = "granted" =>
                           l \in cached /\ pid[l] = v /\ (view[v].alive \/ l \in downs)
    BY DEF RefsAreWatched, mgrVars
  <2>1. /\ lease[l].state # "unused" /\ lease[l].kind = "session" /\ TypeOK
        /\ crashes = 0 /\ lease[l].state = "granted" =>
             l \in cached /\ pid[l] = v /\ (view[v].alive \/ l \in downs)
    BY DEF CacheInv, ManagerTypeOK, RefsAreWatched
  <2> QED
    BY <2>1, RowStep
<1> QED
  BY <1>1, <1>2, <1>3 DEF CacheInv

\* Popping a lease of a running manager, whoever asks for it: at most the
\* LiveView that held it lets go of it.
LEMMA PopStep ==
  ASSUME CacheInv, TypeOK', [Next]_raVars, NEW l \in Leases, PopLease(l),
         mgr = "up", UNCHANGED <<mgr, restoreVars, crashes>>, expiries' \subseteq Leases,
         told' \in [Views -> SUBSET Leases],
         view' \in [Views -> [alive : BOOLEAN, ref : Leases \cup {NoLease}]],
         \A v \in Views : view'[v].alive = view[v].alive /\ view'[v].ref \in {view[v].ref, NoLease}
  PROVE  CacheInv'
<1>0. TypeOK /\ NoLease \notin Leases
  BY LeaseAssumption DEF CacheInv, ManagerTypeOK, NoLease
<1>1. ManagerTypeOK'
  BY <1>0, PopFacts DEF CacheInv, ManagerTypeOK, restoreVars
<1>2. Idle'
  BY <1>0, PopFacts DEF CacheInv, Idle
<1>3. CachedIsHeld'
  <2> SUFFICES ASSUME NEW m \in cached \ {l}
               PROVE  lease'[m].state \in {"granted", "deleted"}
    BY <1>0, PopFacts DEF CachedIsHeld
  <2>1. m \in Leases /\ lease[m].state \in {"granted", "deleted"}
    BY DEF CacheInv, ManagerTypeOK, CachedIsHeld
  <2> QED
    BY <1>0, <2>1, PopFacts
<1>4. RefsAreWatched'
  <2> SUFFICES ASSUME NEW v \in Views, NEW m \in Leases, view'[v].ref = m
               PROVE  /\ lease'[m].state # "unused"
                      /\ lease'[m].kind = "session"
                      /\ crashes' = 0 /\ lease'[m].state = "granted" =>
                           m \in cached' /\ pid'[m] = v /\ (view'[v].alive \/ m \in downs')
    BY DEF RefsAreWatched
  <2>1. view[v].ref = m /\ view'[v].alive = view[v].alive
    BY <1>0
  <2>2. /\ lease[m].state # "unused" /\ lease[m].kind = "session"
        /\ crashes = 0 /\ lease[m].state = "granted" =>
             m \in cached /\ pid[m] = v /\ (view[v].alive \/ m \in downs)
    BY <2>1 DEF CacheInv, RefsAreWatched
  <2>3. lease'[m].state # "unused" /\ lease'[m].kind = "session"
    BY <1>0, <2>2, RowStep
  <2>4. CASE m = l
    BY <1>0, <2>3, <2>4, PopFacts
  <2>5. CASE m # l
    BY <1>0, <2>1, <2>2, <2>3, <2>5, PopFacts
  <2> QED
    BY <2>4, <2>5
<1> QED
  BY <1>1, <1>2, <1>3, <1>4 DEF CacheInv

\* Caching a lease, newly opened by a LiveView or by nobody, or reopened.
LEMMA CacheLeaseStep ==
  ASSUME CacheInv, TypeOK', [Next]_raVars, NEW l \in Leases, NEW w \in Views \cup {NoView},
         CacheLease(l, w), lease'[l].state = "granted",
         \A m \in Leases \ {l} : lease'[m] = lease[m],
         mgr = "up", UNCHANGED <<mgr, expiries, told, restoreVars, crashes>>,
         \/ /\ w \in Views /\ view[w].alive /\ view[w].ref = NoLease
            /\ lease[l].state = "unused" /\ lease'[l].kind = "session"
            /\ view' = [view EXCEPT ![w].ref = l]
         \/ /\ lease'[l].kind # "session"
            /\ view' = view
  PROVE  CacheInv'
<1>0. /\ TypeOK /\ NoLease \notin Leases
      /\ view \in [Views -> [alive : BOOLEAN, ref : Leases \cup {NoLease}]]
      /\ pid \in [Leases -> Views \cup {NoView}]
  BY LeaseAssumption DEF CacheInv, ManagerTypeOK, NoLease
<1>1. /\ view' \in [Views -> [alive : BOOLEAN, ref : Leases \cup {NoLease}]]
      /\ \A v \in Views : view'[v].alive = view[v].alive
      /\ \A v \in Views : view'[v].ref = view[v].ref
                           \/ (v = w /\ w \in Views /\ view[v].alive /\ view'[v].ref = l
                               /\ lease'[l].kind = "session")
  <2>1. CASE view' = view
    BY <1>0, <2>1
  <2>2. CASE w \in Views /\ view[w].alive /\ lease'[l].kind = "session"
             /\ view' = [view EXCEPT ![w].ref = l]
    <3>1. \A v \in Views : view[v] \in [alive : BOOLEAN, ref : Leases \cup {NoLease}]
      BY <1>0
    <3> DEFINE new == [view[w] EXCEPT !.ref = l]
    <3>2. /\ new \in [alive : BOOLEAN, ref : Leases \cup {NoLease}]
          /\ new.alive = view[w].alive
          /\ new.ref = l
      BY <2>2, <3>1
    <3>3. view' = [v \in Views |-> IF v = w THEN new ELSE view[v]]
      BY <1>0, <2>2
    <3> HIDE DEF new
    <3>4. view' \in [Views -> [alive : BOOLEAN, ref : Leases \cup {NoLease}]]
      BY <3>1, <3>2, <3>3
    <3>5. \A v \in Views : view'[v] = IF v = w THEN new ELSE view[v]
      BY <3>3
    <3>6. \A v \in Views : view'[v].alive = view[v].alive
      BY <3>2, <3>5
    <3>7. \A v \in Views \ {w} : view'[v].ref = view[v].ref
      BY <3>5
    <3>8. view'[w].ref = l
      BY <2>2, <3>2, <3>5
    <3> QED
      BY <2>2, <3>4, <3>6, <3>7, <3>8
  <2> QED
    BY <2>1, <2>2
<1>2. ManagerTypeOK'
  BY <1>0, <1>1 DEF CacheInv, ManagerTypeOK, CacheLease, restoreVars
<1>3. Idle' /\ CachedIsHeld'
  BY DEF CacheInv, Idle, CachedIsHeld, CacheLease, ManagerTypeOK
<1>4. RefsAreWatched'
  <2> SUFFICES ASSUME NEW v \in Views, NEW m \in Leases, view'[v].ref = m
               PROVE  /\ lease'[m].state # "unused"
                      /\ lease'[m].kind = "session"
                      /\ crashes' = 0 /\ lease'[m].state = "granted" =>
                           m \in cached' /\ pid'[m] = v /\ (view'[v].alive \/ m \in downs')
    BY DEF RefsAreWatched
  <2>1. CASE view[v].ref = m
    <3>1. /\ lease[m].state # "unused" /\ lease[m].kind = "session"
          /\ crashes = 0 /\ lease[m].state = "granted" =>
               m \in cached /\ pid[m] = v /\ (view[v].alive \/ m \in downs)
      BY <2>1 DEF CacheInv, RefsAreWatched
    <3>2. m # l
      BY <1>0, <3>1, RowStep
    <3>3. /\ lease'[m] = lease[m] /\ view'[v].alive = view[v].alive
          /\ m \in cached => m \in cached'
          /\ m \in downs => m \in downs'
          /\ pid'[m] = pid[m]
      BY <1>0, <1>1, <3>2 DEF CacheLease
    <3> QED
      BY <3>1, <3>3
  <2>2. CASE view[v].ref # m
    <3>1. m = l /\ v = w /\ view[v].alive /\ lease'[l].kind = "session"
      BY <1>1, <2>2
    <3>2. view'[v].alive /\ l \in cached' /\ pid'[l] = w
      BY <1>0, <1>1, <3>1 DEF CacheLease
    <3> QED
      BY <3>1, <3>2
  <2> QED
    BY <2>1, <2>2
<1> QED
  BY <1>2, <1>3, <1>4 DEF CacheInv

\* A LiveView lets go of its lease.
LEMMA LetGo ==
  ASSUME view \in [Views -> [alive : BOOLEAN, ref : Leases \cup {NoLease}]],
         NEW v \in Views, view' = [view EXCEPT ![v].ref = NoLease]
  PROVE  /\ view' \in [Views -> [alive : BOOLEAN, ref : Leases \cup {NoLease}]]
         /\ \A w \in Views : view'[w].alive = view[w].alive /\ view'[w].ref \in {view[w].ref, NoLease}
<1> DEFINE new == [view[v] EXCEPT !.ref = NoLease]
<1>1. /\ new \in [alive : BOOLEAN, ref : Leases \cup {NoLease}]
      /\ new.alive = view[v].alive
      /\ new.ref = NoLease
  OBVIOUS
<1>2. view' = [w \in Views |-> IF w = v THEN new ELSE view[w]]
  OBVIOUS
<1> HIDE DEF new
<1>3. view' \in [Views -> [alive : BOOLEAN, ref : Leases \cup {NoLease}]]
  BY <1>1, <1>2
<1>4. \A w \in Views : view'[w] = IF w = v THEN new ELSE view[w]
  BY <1>2
<1>5. \A w \in Views : view'[w].alive = view[w].alive
  BY <1>1, <1>4
<1>6. \A w \in Views : view'[w].ref \in {view[w].ref, NoLease}
  BY <1>1, <1>4
<1> QED
  BY <1>3, <1>5, <1>6

\* A LiveView dies: its leases' :DOWN messages are sent in the same step.
LEMMA DeathStep ==
  ASSUME CacheInv, NEW v \in Views, ViewDies(v)
  PROVE  CacheInv'
<1>0. /\ view \in [Views -> [alive : BOOLEAN, ref : Leases \cup {NoLease}]]
      /\ ManagerTypeOK
  BY DEF CacheInv, ManagerTypeOK
<1> DEFINE new == [view[v] EXCEPT !.alive = FALSE]
<1>1. /\ new \in [alive : BOOLEAN, ref : Leases \cup {NoLease}]
      /\ new.ref = view[v].ref
  BY <1>0
<1>2. view' = [w \in Views |-> IF w = v THEN new ELSE view[w]]
  BY <1>0 DEF ViewDies
<1> HIDE DEF new
<1>3. view' \in [Views -> [alive : BOOLEAN, ref : Leases \cup {NoLease}]]
  BY <1>0, <1>1, <1>2
<1>4. \A w \in Views : view'[w] = IF w = v THEN new ELSE view[w]
  BY <1>2
<1>5. \A w \in Views : view'[w].ref = view[w].ref
  BY <1>1, <1>4
<1>6. \A w \in Views \ {v} : view'[w].alive = view[w].alive
  BY <1>4
<1>7. /\ downs' = downs \cup {l \in cached : pid[l] = v}
      /\ told' = [told EXCEPT ![v] = {}]
      /\ UNCHANGED <<now, lease, delivery, device, mgr, cached, pid, armed, expiries,
                     snap, todo, sync, crashes>>
  BY DEF ViewDies, raVars, restoreVars
<1>8. ManagerTypeOK'
  <2>1. TypeOK'
    BY <1>0, <1>7 DEF ManagerTypeOK, TypeOK
  <2>2. told' \in [Views -> SUBSET Leases]
    BY <1>0, <1>7 DEF ManagerTypeOK
  <2> QED
    BY <1>0, <1>3, <1>7, <2>1, <2>2 DEF ManagerTypeOK
<1>9. Idle' /\ CachedIsHeld'
  BY <1>7 DEF CacheInv, Idle, CachedIsHeld
<1>10. RefsAreWatched'
  <2> SUFFICES ASSUME NEW w \in Views, NEW l \in Leases, view[w].ref = l
               PROVE  /\ lease[l].state # "unused"
                      /\ lease[l].kind = "session"
                      /\ crashes = 0 /\ lease[l].state = "granted" =>
                           l \in cached /\ pid[l] = w /\ (view'[w].alive \/ l \in downs')
    BY <1>5, <1>7 DEF RefsAreWatched
  <2>1. /\ lease[l].state # "unused" /\ lease[l].kind = "session"
        /\ crashes = 0 /\ lease[l].state = "granted" =>
             l \in cached /\ pid[l] = w /\ (view[w].alive \/ l \in downs)
    BY DEF CacheInv, RefsAreWatched
  <2>2. CASE w = v
    BY <1>7, <2>1, <2>2
  <2>3. CASE w # v
    BY <1>6, <1>7, <2>1, <2>3
  <2> QED
    BY <2>2, <2>3
<1> QED
  BY <1>8, <1>9, <1>10 DEF CacheInv

\* The explicit disable: every granted lease of the device is revoked and every
\* cached one dropped.
LEMMA DisableStep ==
  ASSUME CacheInv, TypeOK', [Next]_raVars, NEW d \in Devices, DisableDevice(d)
  PROVE  CacheInv'
<1> DEFINE gone == {l \in cached : lease[l].device = d}
<1>0. /\ ManagerTypeOK /\ TypeOK /\ cached \subseteq Leases
      /\ mgr = "up" /\ UNCHANGED <<mgr, expiries, view, told, snap, todo, sync, crashes>>
      /\ Revoke(GrantedOn(d))
      /\ cached' = cached \ gone /\ armed' = armed \ gone /\ downs' = downs \ gone
      /\ pid' = [l \in Leases |-> IF l \in gone THEN NoView ELSE pid[l]]
  BY DEF CacheInv, ManagerTypeOK, DisableDevice, CloseDevice, DropLeases, restoreVars
<1>1. ManagerTypeOK' /\ Idle'
  BY <1>0 DEF CacheInv, ManagerTypeOK, Idle
<1>2. ASSUME NEW l \in Leases, lease[l].device # d
      PROVE  lease'[l] = lease[l]
  BY <1>0, <1>2 DEF Revoke, GrantedOn
<1>3. ASSUME NEW l \in Leases, lease[l].device = d, lease'[l].state = "granted"
      PROVE  FALSE
  <2>1. lease'[l] = IF lease[l].state = "granted" THEN [lease[l] EXCEPT !.state = "revoked"] ELSE lease[l]
    BY <1>0, <1>3 DEF Revoke, GrantedOn
  <2>2. lease[l] \in LeaseRows
    BY <1>0 DEF TypeOK
  <2>3. [lease[l] EXCEPT !.state = "revoked"].state = "revoked"
    BY <2>2 DEF LeaseRows
  <2> QED
    BY <1>3, <2>1, <2>3
<1>4. CachedIsHeld'
  <2> SUFFICES ASSUME NEW l \in cached \ gone
               PROVE  lease'[l].state \in {"granted", "deleted"}
    BY <1>0 DEF CachedIsHeld
  <2>1. l \in Leases /\ lease[l].device # d /\ lease[l].state \in {"granted", "deleted"}
    BY <1>0 DEF CacheInv, CachedIsHeld
  <2> QED
    BY <1>2, <2>1
<1>5. RefsAreWatched'
  <2> SUFFICES ASSUME NEW v \in Views, NEW l \in Leases, view[v].ref = l
               PROVE  /\ lease'[l].state # "unused"
                      /\ lease'[l].kind = "session"
                      /\ crashes = 0 /\ lease'[l].state = "granted" =>
                           l \in cached' /\ pid'[l] = v /\ (view[v].alive \/ l \in downs')
    BY <1>0 DEF RefsAreWatched
  <2>1. /\ lease[l].state # "unused" /\ lease[l].kind = "session"
        /\ crashes = 0 /\ lease[l].state = "granted" =>
             l \in cached /\ pid[l] = v /\ (view[v].alive \/ l \in downs)
    BY DEF CacheInv, RefsAreWatched
  <2>2. lease'[l].state # "unused" /\ lease'[l].kind = "session"
    BY <1>0, <2>1, RowStep
  <2>3. CASE lease[l].device = d
    BY <1>3, <2>2, <2>3
  <2>4. CASE lease[l].device # d
    BY <1>0, <1>2, <2>1, <2>2, <2>4
  <2> QED
    BY <2>3, <2>4
<1> QED
  BY <1>1, <1>4, <1>5 DEF CacheInv

\* A crash forgets everything; restore remembers active leases only.
LEMMA RestoreStep ==
  ASSUME CacheInv, Crash \/ Restart \/ RestoreScan \/ RestoreCache
  PROVE  CacheInv'
<1>0. ManagerTypeOK /\ Idle /\ RefsAreWatched /\ TypeOK /\ crashes \in Nat
  BY CrashAssumption DEF CacheInv, ManagerTypeOK
<1>1. UNCHANGED <<now, lease, delivery, device, view, told>> /\ TypeOK'
  BY <1>0 DEF Crash, Restart, RestoreScan, RestoreCache, raVars, TypeOK
<1>2. CASE Crash
  <2>1. /\ mgr' = "down" /\ cached' = {} /\ pid' = [l \in Leases |-> NoView]
        /\ armed' = {} /\ expiries' = {} /\ downs' = {}
        /\ snap' = {} /\ todo' = {} /\ sync' = {}
        /\ crashes < MaxCrashes /\ crashes' = crashes + 1 /\ crashes' # 0
    BY <1>0, <1>2 DEF Crash
  <2>2. crashes' \in 0..MaxCrashes
    BY <1>0, <2>1, CrashAssumption
  <2>3. ManagerTypeOK'
    BY <1>0, <1>1, <2>1, <2>2 DEF ManagerTypeOK
  <2>4. RefsAreWatched'
    BY <1>0, <1>1, <2>1 DEF RefsAreWatched
  <2> QED
    BY <2>1, <2>3, <2>4 DEF CacheInv, Idle, CachedIsHeld
<1>3. CASE Restart
  <2>1. /\ mgr = "down" /\ mgr' = "closing"
        /\ snap' \subseteq Leases /\ todo' = snap'
        /\ UNCHANGED <<cached, pid, armed, expiries, downs, sync, crashes>>
    BY <1>3 DEF Restart
  <2>2. ManagerTypeOK' /\ RefsAreWatched'
    BY <1>0, <1>1, <2>1 DEF ManagerTypeOK, RefsAreWatched
  <2> QED
    BY <1>0, <2>1, <2>2 DEF CacheInv, Idle, CachedIsHeld
<1>4. CASE RestoreScan
  <2>1. sync' \subseteq Devices
    BY <1>0, <1>4 DEF RestoreScan, ManagerTypeOK, TypeOK, LeaseRows
  <2>2. /\ mgr = "closing" /\ mgr' = "projecting"
        /\ UNCHANGED <<cached, pid, armed, expiries, downs, snap, todo, crashes>>
    BY <1>4 DEF RestoreScan
  <2>3. ManagerTypeOK' /\ RefsAreWatched'
    BY <1>0, <1>1, <2>1, <2>2 DEF ManagerTypeOK, RefsAreWatched
  <2> QED
    BY <1>0, <2>2, <2>3 DEF CacheInv, Idle, CachedIsHeld
<1>5. CASE RestoreCache
  <2>1. /\ mgr = "projecting" /\ mgr' = "up" /\ crashes # 0
        /\ cached' = {l \in snap : Active(l)} /\ armed' = cached'
        /\ UNCHANGED <<pid, expiries, downs, snap, todo, sync, crashes>>
    BY <1>0, <1>5 DEF RestoreCache, restoreVars, Idle
  <2>2. downs = {} /\ snap \subseteq Leases
    BY <1>0, <2>1 DEF Idle, ManagerTypeOK
  <2>3. ManagerTypeOK' /\ RefsAreWatched'
    BY <1>0, <1>1, <2>1, <2>2 DEF ManagerTypeOK, RefsAreWatched
  <2>4. CachedIsHeld'
    BY <1>1, <2>1 DEF CachedIsHeld, Active
  <2> QED
    BY <2>1, <2>3, <2>4 DEF CacheInv, Idle
<1> QED
  BY <1>2, <1>3, <1>4, <1>5

\* Every step of the manager keeps the cache in agreement with the database.
LEMMA CacheStep ==
  ASSUME IInv, IInv', CacheInv, [ManagerNext]_vars
  PROVE  CacheInv'
<1>0. /\ TypeOK /\ TypeOK' /\ [Next]_raVars
      /\ view \in [Views -> [alive : BOOLEAN, ref : Leases \cup {NoLease}]]
      /\ told \in [Views -> SUBSET Leases] /\ expiries \subseteq Leases
      /\ snap \subseteq Leases /\ todo \subseteq snap /\ sync \subseteq Devices
  BY ManagerStep DEF IInv, CacheInv, ManagerTypeOK
<1>1. ASSUME NEW v \in Views, NEW d \in Devices, NEW p \in Profiles, NEW l \in Leases,
             NEW ttl \in 1..MaxTtl, ViewOpens(v, d, p, l, ttl)
      PROVE  CacheInv'
  <2>1. Open(d, "session", NoDelivery, p, l, ttl)
    BY <1>1 DEF ViewOpens
  <2>2. /\ lease[l].state = "unused" /\ lease'[l].state = "granted"
        /\ \A m \in Leases \ {l} : lease'[m] = lease[m]
    BY <1>0, <2>1, OpenFacts, SessionAssumption
  <2>3. lease'[l].kind = "session"
    BY <1>0, <2>1, OpenFacts, SessionAssumption
  <2> QED
    BY <1>0, <1>1, <2>2, <2>3, CacheLeaseStep DEF ViewOpens
<1>2. ASSUME NEW d \in Devices, NEW kind \in Kinds, NEW x \in Deliveries \cup {NoDelivery},
             NEW p \in Profiles, NEW l \in Leases, NEW ttl \in 1..MaxTtl,
             OpenUnowned(d, kind, x, p, l, ttl)
      PROVE  CacheInv'
  <2>1. Open(d, kind, x, p, l, ttl) /\ kind # "session"
    BY <1>2 DEF OpenUnowned
  <2>2. /\ lease'[l].state = "granted"
        /\ \A m \in Leases \ {l} : lease'[m] = lease[m]
        /\ lease'[l].kind # "session"
    BY <1>0, <2>1, OpenFacts
  <2> QED
    BY <1>0, <1>2, <2>2, CacheLeaseStep DEF OpenUnowned
<1>3. ASSUME NEW d \in Devices, NEW l \in Leases, NEW p \in Profiles, ReopenDelivery(d, l, p)
      PROVE  CacheInv'
  <2>1. lease' = lease /\ lease[l].state = "granted" /\ lease[l].kind = "provisioning"
    BY <1>3 DEF ReopenDelivery, Reopen, Active
  <2> QED
    BY <1>0, <1>3, <2>1, CacheLeaseStep DEF ReopenDelivery
<1>4. ASSUME NEW v \in Views, ViewCloses(v)
      PROVE  CacheInv'
  <2>1. PICK l \in Leases : PopLease(l)
    BY <1>4 DEF ViewCloses
  <2>2. /\ view' \in [Views -> [alive : BOOLEAN, ref : Leases \cup {NoLease}]]
        /\ \A w \in Views : view'[w].alive = view[w].alive /\ view'[w].ref \in {view[w].ref, NoLease}
    BY <1>0, <1>4, LetGo DEF ViewCloses
  <2> QED
    BY <1>0, <1>4, <2>1, <2>2, PopStep DEF ViewCloses
<1>5. ASSUME NEW l \in Leases, CloseDelivery(l) \/ HandleExpired(l) \/ HandleDown(l)
      PROVE  CacheInv'
  <2>1. told' \in [Views -> SUBSET Leases]
    BY <1>0, <1>5 DEF CloseDelivery, HandleExpired, HandleDown
  <2>2. /\ PopLease(l) /\ mgr = "up" /\ UNCHANGED <<mgr, view, restoreVars, crashes>>
        /\ expiries' \subseteq Leases
    BY <1>0, <1>5 DEF CloseDelivery, HandleExpired, HandleDown
  <2> QED
    BY <1>0, <2>1, <2>2, PopStep
<1>6. ASSUME NEW v \in Views, NEW l \in Leases, ViewHandlesExpiry(v, l)
      PROVE  CacheInv'
  <2>1. /\ told' \in [Views -> SUBSET Leases]
        /\ UNCHANGED <<mgr, expiries, restoreVars, crashes>>
    BY <1>0, <1>6 DEF ViewHandlesExpiry
  <2>2. CASE mgr = "up" /\ PopLease(l) /\ view' = [view EXCEPT ![v].ref = NoLease]
    <3>1. /\ view' \in [Views -> [alive : BOOLEAN, ref : Leases \cup {NoLease}]]
          /\ \A w \in Views : view'[w].alive = view[w].alive /\ view'[w].ref \in {view[w].ref, NoLease}
      BY <1>0, <2>2, LetGo
    <3> QED
      BY <1>0, <2>1, <2>2, <3>1, PopStep
  <2>3. CASE UNCHANGED <<raVars, cached, pid, armed, downs, view>>
    BY <1>0, <2>1, <2>3, QuietStep DEF mgrVars, restoreVars, raVars
  <2> QED
    BY <1>6, <2>2, <2>3 DEF ViewHandlesExpiry
<1>7. ASSUME NEW d \in Devices, DisableDevice(d)
      PROVE  CacheInv'
  BY <1>0, <1>7, DisableStep
<1>8. ASSUME NEW l \in Leases, TimerFires(l)
      PROVE  CacheInv'
  <2>1. /\ UNCHANGED <<raVars, mgr, cached, pid, downs, view, told, restoreVars, crashes>>
        /\ armed' \subseteq armed /\ expiries' \subseteq Leases
    BY <1>0, <1>8 DEF TimerFires
  <2> QED
    BY <1>0, <2>1 DEF CacheInv, ManagerTypeOK, Idle, CachedIsHeld, RefsAreWatched, restoreVars, raVars
<1>9. ASSUME NEW v \in Views, ViewDies(v)
      PROVE  CacheInv'
  BY <1>0, <1>9, DeathStep
<1>10. ASSUME NEW l \in Leases, RestoreClose(l)
       PROVE  CacheInv'
  <2>1. /\ mgr = "closing" /\ todo' \subseteq snap'
        /\ UNCHANGED <<mgrVars, view, told, snap, sync, crashes>>
    BY <1>0, <1>10 DEF RestoreClose
  <2> QED
    BY <1>0, <2>1, QuietStep
<1>11. ASSUME NEW d \in Devices, RestoreProject(d)
       PROVE  CacheInv'
  <2>1. /\ mgr = "projecting" /\ sync' \subseteq Devices
        /\ UNCHANGED <<mgrVars, view, told, snap, todo, crashes>>
    BY <1>0, <1>11 DEF RestoreProject
  <2> QED
    BY <1>0, <2>1, QuietStep
<1>12. CASE Crash \/ Restart \/ RestoreScan \/ RestoreCache
  BY <1>0, <1>12, RestoreStep
<1>13. CASE Environment
  <2>1. UNCHANGED <<mgrVars, view, told, restoreVars, crashes>>
    BY <1>13 DEF Environment
  <2>2. \A l \in Leases : lease'[l].state = "revoked" => lease[l].state = "revoked"
    <3>1. ASSUME NEW d \in Devices, DeleteDevice(d), NEW l \in Leases
          PROVE  lease'[l] = lease[l] \/ lease'[l].state = "deleted"
      BY <1>0, <3>1 DEF DeleteDevice, TypeOK, LeaseRows
    <3>2. CASE lease' = lease
      BY <3>2
    <3> QED
      BY <1>13, <3>1, <3>2 DEF Environment, StartDelivery, EndDelivery, SetProfile, Tick
  <2> QED
    BY <1>0, <2>1, <2>2, QuietStep DEF restoreVars
<1>14. CASE UNCHANGED vars
  BY <1>0, <1>14, QuietStep DEF vars, restoreVars, raVars
<1> QED
  BY <1>1, <1>2, <1>3, <1>4, <1>5, <1>6, <1>7, <1>8, <1>9, <1>10, <1>11, <1>12, <1>13, <1>14
     DEF ManagerNext

\* Nothing is cached, and no view holds a lease, when the manager starts.
LEMMA CacheInit == ManagerInit => CacheInv
<1> SUFFICES ASSUME ManagerInit PROVE CacheInv
  OBVIOUS
<1>1. TypeOK
  BY InitType DEF ManagerInit
<1>2. ManagerTypeOK
  BY <1>1, CrashAssumption DEF ManagerInit, ManagerTypeOK
<1>3. NoLease \notin Leases
  BY LeaseAssumption DEF NoLease
<1>4. RefsAreWatched
  BY <1>3 DEF ManagerInit, RefsAreWatched
<1> QED
  BY <1>2, <1>4 DEF CacheInv, Idle, CachedIsHeld, ManagerInit

\* What the three theorems below rest on, in every reachable state.
LEMMA CacheInvariant == ManagerSpec => [](IInv /\ CacheInv)
<1>1. ManagerInit => IInv /\ CacheInv
  BY InitInv, CacheInit DEF ManagerInit
<1>2. (IInv /\ CacheInv) /\ [ManagerNext]_vars => (IInv /\ CacheInv)'
  BY InvStep, ManagerStep, CacheStep
<1> QED
  BY <1>1, <1>2, PTL DEF ManagerSpec

\* The manager's variables keep their types; its timers and monitors are those
\* of cached leases.
THEOREM ManagerTypeCorrect == ManagerSpec => []ManagerTypeOK
<1>1. CacheInv => ManagerTypeOK
  BY DEF CacheInv
<1> QED
  BY <1>1, CacheInvariant, PTL

\* No lease the database has revoked stays in the cache.
THEOREM CacheHoldsNothingRevoked == ManagerSpec => []CachedIsHeld
<1>1. CacheInv => CachedIsHeld
  BY DEF CacheInv
<1> QED
  BY <1>1, CacheInvariant, PTL

\* The lease of a LiveView that died is revoked by a message already sent.
THEOREM OrphansAreNoticed == ManagerSpec => []OrphanIsNoticed
<1>1. CacheInv => OrphanIsNoticed
  BY DEF CacheInv, RefsAreWatched, OrphanIsNoticed
<1> QED
  BY <1>1, CacheInvariant, PTL
=============================================================================
