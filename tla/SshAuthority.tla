---------------------------- MODULE SshAuthority ----------------------------
(***************************************************************************)
(* The device's SSH authority (internal/sshauth): the keys of browser      *)
(* terminals that nixstasis poll holds in memory for a while, the commands *)
(* that add and revoke them, the timers that drop them, and sshd's lookups *)
(* over the Unix socket (nixstasis ssh-authorized-keys). An entry's expiry *)
(* is an instant of the wall clock, which may be set; its timer counts the *)
(* time that passes.                                                       *)
(***************************************************************************)
EXTENDS Naturals

CONSTANTS
  Keys, Sessions,
  Entries,  \* one for each Add: no two have the same ExpiresAt to the nanosecond
  None,
  Lookups,  \* helpers that sshd may run at the same time
  Ttls,     \* what the server may ask for
  MaxTtl,   \* MaxAuthorizationTTL
  MaxTime,  \* bound on the time that passes
  MaxFaults \* bound on clock changes and ends of the process

ASSUME AuthorityAssumption ==
  /\ None \notin Entries
  /\ Ttls \subseteq Nat /\ MaxTtl \in Nat /\ MaxTime \in Nat /\ MaxFaults \in Nat

VARIABLES
  time, wall, \* the time that has passed, and what the clock shows
  server,     \* "down", "up" or "closing": its context is done, its socket removed
  held,       \* Store.entries: the entry of each key (and the one target user)
  armed,      \* Store.expiryTimers: whose timer is running
  fired,      \* entries whose timer's function waits for the lock
  log,        \* the entries added so far, by this process and earlier ones
  over,       \* history: entries revoked, or of a process that has ended
  at,         \* where each lookup is
  asked,      \* its offered key
  clock,      \* the time Authorize has read
  gave,       \* the entry it was answered from
  late,       \* history: entries that were over when the lookup began
  faults

store == <<held, armed, fired, log>>
lookup == <<at, asked, clock, gave, late>>
vars == <<time, wall, server, store, over, lookup, faults>>

Entry == [key : Keys, session : Sessions, expires : Nat \ {0}, until : Nat \ {0}]
ASSUME EntryAssumption == None \notin Entry

Added == {e \in Entries : log[e] # None}

TypeOK ==
  /\ time \in Nat /\ wall \in Nat
  /\ server \in {"down", "up", "closing"}
  /\ held \in [Keys -> Entries \cup {None}]
  /\ armed \in [Keys -> Entries \cup {None}]
  /\ fired \in SUBSET Entries
  /\ log \in [Entries -> Entry \cup {None}]
  /\ over \in SUBSET Entries
  /\ at \in [Lookups -> {"idle", "sent", "clock", "answered", "printed", "lost"}]
  /\ asked \in [Lookups -> Keys \cup {None}]
  /\ clock \in [Lookups -> Nat]
  /\ gave \in [Lookups -> Entries \cup {None}]
  /\ late \in [Lookups -> SUBSET Entries]
  /\ faults \in 0..MaxFaults

Init ==
  /\ time = 0 /\ wall = 0 /\ server = "up"
  /\ held = [k \in Keys |-> None] /\ armed = [k \in Keys |-> None]
  /\ fired = {} /\ log = [e \in Entries |-> None] /\ over = {}
  /\ at = [l \in Lookups |-> "idle"] /\ asked = [l \in Lookups |-> None]
  /\ clock = [l \in Lookups |-> 0] /\ gave = [l \in Lookups |-> None]
  /\ late = [l \in Lookups |-> {}]
  /\ faults = 0

-----------------------------------------------------------------------------
(* Time *)

\* A timer's function is scheduled, and has the lock, well within one tick.
Tick ==
  /\ time < MaxTime /\ fired = {}
  /\ \A k \in Keys : armed[k] # None => log[armed[k]].until > time
  /\ time' = time + 1 /\ wall' = wall + 1
  /\ UNCHANGED <<server, store, over, lookup, faults>>

\* The clock is set, or the device was asleep.
SetClock ==
  /\ faults < MaxFaults /\ faults' = faults + 1
  /\ wall' \in 0..MaxTime + MaxTtl
  /\ UNCHANGED <<time, server, store, over, lookup>>

-----------------------------------------------------------------------------
(* The store *)

\* purgeExpiredLocked and deleteMatchingLocked: without the entries of gone, whose
\* timers are stopped.
Without(gone) == [k \in Keys |-> IF held[k] \in gone THEN None ELSE held[k]]
Stopped(gone) == [k \in Keys |-> IF held[k] \in gone THEN None ELSE armed[k]]
Expired(now) == {e \in Added : log[e].expires <= now}

\* The limits that sshAuthorize and Add set on the ttl.
Acceptable(ttl) == ttl > 0 /\ ttl <= MaxTtl

\* Fault: a timer that runs for the key already is left to do it.
AddUntimed(k, s, ttl) ==
  /\ server # "down" /\ Acceptable(ttl)
  /\ \E e \in Entries \ Added :
       /\ log' = [log EXCEPT ![e] = [key |-> k, session |-> s, expires |-> wall + ttl, until |-> time + ttl]]
       /\ held' = [Without(Expired(wall)) EXCEPT ![k] = e]
       /\ armed' = [Stopped(Expired(wall)) EXCEPT ![k] = IF @ = None THEN e ELSE @]
  /\ UNCHANGED <<time, wall, server, fired, over, lookup, faults>>

\* ssh_authorize. The key's earlier timer is stopped, unless it has fired.
Add(k, s, ttl) ==
  /\ server # "down" /\ Acceptable(ttl)
  /\ \E e \in Entries \ Added :
       /\ log' = [log EXCEPT ![e] = [key |-> k, session |-> s, expires |-> wall + ttl, until |-> time + ttl]]
       /\ held' = [Without(Expired(wall)) EXCEPT ![k] = e]
       /\ armed' = [Stopped(Expired(wall)) EXCEPT ![k] = e]
  /\ UNCHANGED <<time, wall, server, fired, over, lookup, faults>>

OfSession(s) == {e \in Added : log[e].session = s}

\* Fault: only the session's newest key is removed.
RevokeOne(s) ==
  /\ server # "down"
  /\ \E k \in Keys :
       /\ held[k] \in OfSession(s) \/ \A j \in Keys : held[j] \notin OfSession(s)
       /\ held' = Without({held[k]} \cap OfSession(s))
       /\ armed' = Stopped({held[k]} \cap OfSession(s))
  /\ over' = over \cup OfSession(s)
  /\ UNCHANGED <<time, wall, server, fired, log, lookup, faults>>

\* ssh_revoke.
RevokeSession(s) ==
  /\ server # "down"
  /\ held' = Without(OfSession(s)) /\ armed' = Stopped(OfSession(s))
  /\ over' = over \cup OfSession(s)
  /\ UNCHANGED <<time, wall, server, fired, log, lookup, faults>>

Fire(k) ==
  /\ armed[k] # None /\ log[armed[k]].until <= time
  /\ fired' = fired \cup {armed[k]} /\ armed' = [armed EXCEPT ![k] = None]
  /\ UNCHANGED <<time, wall, server, held, log, over, lookup, faults>>

\* Fault: whatever entry the key has by then is removed.
ExpireAny(e) ==
  /\ e \in fired /\ fired' = fired \ {e}
  /\ LET k == log[e].key IN
       held' = [held EXCEPT ![k] = None] /\ armed' = [armed EXCEPT ![k] = None]
  /\ UNCHANGED <<time, wall, server, log, over, lookup, faults>>

\* expire, with the lock: nothing when the key has a newer entry.
Expire(e) ==
  /\ e \in fired /\ fired' = fired \ {e}
  /\ held' = Without({e}) /\ armed' = Stopped({e})
  /\ UNCHANGED <<time, wall, server, log, over, lookup, faults>>

-----------------------------------------------------------------------------
(* Lookups *)

\* The helper reaches the server; if it does not, sshd gets no key.
Query(l, k) ==
  /\ at[l] = "idle" /\ server = "up"
  /\ at' = [at EXCEPT ![l] = "sent"] /\ asked' = [asked EXCEPT ![l] = k]
  /\ late' = [late EXCEPT ![l] = over \cup {e \in Added : log[e].until < time}]
  /\ UNCHANGED <<time, wall, server, store, over, clock, gave, faults>>

\* Authorize reads the clock before it has the lock.
ReadClock(l) ==
  /\ at[l] = "sent"
  /\ at' = [at EXCEPT ![l] = "clock"] /\ clock' = [clock EXCEPT ![l] = wall]
  /\ UNCHANGED <<time, wall, server, store, over, asked, gave, late, faults>>

Authorize(l) ==
  /\ at[l] = "clock" /\ at' = [at EXCEPT ![l] = "answered"]
  /\ held' = Without(Expired(clock[l])) /\ armed' = Stopped(Expired(clock[l]))
  /\ gave' = [gave EXCEPT ![l] = held'[asked[l]]]
  /\ UNCHANGED <<time, wall, server, fired, log, over, asked, clock, late, faults>>

\* authorizedKeyLine: the answer must be for the offered key.
PrintKey(l) ==
  /\ at[l] = "answered" /\ gave[l] # None /\ log[gave[l]].key = asked[l]
  /\ at' = [at EXCEPT ![l] = "printed"]
  /\ UNCHANGED <<time, wall, server, store, over, asked, clock, gave, late, faults>>

\* The answer is no, a deadline of the helper or of the server's connection has
\* passed, or sshd has the key: the helper ends.
End(l) ==
  /\ at[l] # "idle" /\ at' = [at EXCEPT ![l] = "idle"]
  /\ asked' = [asked EXCEPT ![l] = None] /\ clock' = [clock EXCEPT ![l] = 0]
  /\ gave' = [gave EXCEPT ![l] = None] /\ late' = [late EXCEPT ![l] = {}]
  /\ UNCHANGED <<time, wall, server, store, over, faults>>

-----------------------------------------------------------------------------
(* The process *)

\* The loop's context is done. The commands and connections it has go on.
Close ==
  /\ server = "up" /\ server' = "closing"
  /\ UNCHANGED <<time, wall, store, over, lookup, faults>>

\* The process ends or is killed, and with it its memory and its connections.
Exit ==
  /\ server # "down" /\ server' = "down"
  /\ faults < MaxFaults /\ faults' = faults + 1
  /\ held' = [k \in Keys |-> None] /\ armed' = [k \in Keys |-> None] /\ fired' = {}
  /\ over' = Added
  /\ at' = [l \in Lookups |-> IF at[l] \in {"sent", "clock"} THEN "lost" ELSE at[l]]
  /\ UNCHANGED <<time, wall, log, asked, clock, gave, late>>

\* The socket that a killed process has left is replaced.
Start ==
  /\ server = "down" /\ server' = "up"
  /\ UNCHANGED <<time, wall, store, over, lookup, faults>>

Next ==
  \/ Tick \/ SetClock \/ Close \/ Exit \/ Start
  \/ \E k \in Keys, s \in Sessions, ttl \in Ttls : Add(k, s, ttl)
  \/ \E s \in Sessions : RevokeSession(s)
  \/ \E k \in Keys : Fire(k)
  \/ \E e \in Entries : Expire(e)
  \/ \E l \in Lookups, k \in Keys : Query(l, k)
  \/ \E l \in Lookups : ReadClock(l) \/ Authorize(l) \/ PrintKey(l) \/ End(l)

Spec == Init /\ [][Next]_vars

-----------------------------------------------------------------------------
\* The ttl holds in time that passes, also when the clock is set back: no entry is
\* held for longer, nor for longer than MaxAuthorizationTTL.
HeldWithinTtl ==
  \A k \in Keys : held[k] # None =>
    time <= log[held[k]].until /\ log[held[k]].until <= time + MaxTtl

\* A lookup that begins when an entry is revoked, its ttl has passed or its process
\* has ended never prints the key on that entry's account.
PrintedIsCurrent ==
  \A l \in Lookups : at[l] = "printed" => gave[l] \in Added \ late[l] /\ log[gave[l]].key = asked[l]

\* An authorization lasts: while the process runs, only a revoke, a newer one for
\* its key, its own ttl or the clock removes it, never an earlier one's timer.
NewerSurvives ==
  [][\A k \in Keys :
       held[k] # None /\ held'[k] # held[k] /\ server' # "down" =>
         \/ held[k] \in over' \/ held'[k] # None
         \/ log[held[k]].until <= time \/ log[held[k]].expires <= wall
         \/ \E l \in Lookups : log[held[k]].expires <= clock[l]]_vars
=============================================================================
