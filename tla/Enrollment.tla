----------------------------- MODULE Enrollment -----------------------------
(***************************************************************************)
(* Registration of one MAC address. `nixstasis register` on a host saves a *)
(* random proof and a proposed runtime token before it sends them; the     *)
(* server lets the first proof claim the device row, and after approval    *)
(* exchanges the proof for the proposed token. Several hosts may present   *)
(* the same MAC address. A request that its client gave up on may still    *)
(* reach the database later; the server reads the row before the           *)
(* transaction that writes it.                                             *)
(***************************************************************************)
EXTENDS Integers, FiniteSets

CONSTANTS
  Hosts,       \* machines that register with this MAC address
  MaxToken,    \* bound on the random tokens ever drawn
  MaxTries,    \* maxRetries of runRegisterWithClient (8)
  MaxRuns,     \* bound on registrations started by an operator
  MaxFaults,   \* bound on lost answers, failed writes and crashes
  MaxLate      \* bound on abandoned requests still at the server

ASSUME HostAssumption == Hosts # {}
ASSUME EnrollmentBounds ==
  /\ MaxToken \in Nat
  /\ MaxTries \in Nat \ {0}
  /\ MaxRuns \in Nat
  /\ MaxFaults \in Nat
  /\ MaxLate \in Nat

VARIABLES
  device,   \* the row with this MAC: approval_status and api_token_hash
  late,     \* abandoned requests the server still works on
  drawn,    \* tokens drawn so far: token n is the n-th
  pc,       \* where the register process of a host is
  mem,      \* its enrollment variable: the proof and the proposed token
  token,    \* the runtime token in the last answer
  tries,    \* the loop counter i
  req,      \* its request in progress
  reg,      \* /etc/nixstasis/registration
  id,       \* the token in /etc/nixstasis/id
  runs,     \* registrations an operator started so far
  faults    \* faults so far

hostVars == <<pc, mem, token, tries, reg, id, runs>>
vars == <<device, late, drawn, pc, mem, token, tries, req, reg, id, runs, faults>>

\* A token is never known by another's name: only the SHA-256 hashes are
\* stored, and equal hashes stand for equal tokens. 0 is "no token".
None == 0
Tokens == Nat \ {None}
NoPair == [proof |-> None, repl |-> None]
Pairs == [proof : Nat, repl : Nat]

\* hash = None is a null api_token_hash, runtime = FALSE the "registration:" prefix.
DeviceRows == [status : {"absent", "pending", "approved", "rejected"},
               hash : Nat, runtime : BOOLEAN]

\* stage: sent, read (the row as seen is loaded), answered.
Requests == [stage : {"none", "sent", "read", "answered"},
             host : Hosts, proof : Nat, repl : Nat, seen : DeviceRows,
             answer : {"none", "issued", "pending", "refused", "granted"}]

Steps == {"stopped", "ready", "waiting", "save", "discard"}

TypeOK ==
  /\ device \in DeviceRows
  /\ late \in SUBSET Requests
  /\ drawn \in Nat
  /\ pc \in [Hosts -> Steps]
  /\ mem \in [Hosts -> Pairs]
  /\ token \in [Hosts -> Nat]
  /\ tries \in [Hosts -> 0..MaxTries]
  /\ req \in [Hosts -> Requests]
  /\ reg \in [Hosts -> Pairs]
  /\ id \in [Hosts -> Nat]
  /\ runs \in 0..MaxRuns
  /\ faults \in 0..MaxFaults

-----------------------------------------------------------------------------
NewRow == [status |-> "absent", hash |-> None, runtime |-> FALSE]

NoRequest(h) == [stage |-> "none", host |-> h, proof |-> None, repl |-> None,
                 seen |-> NewRow, answer |-> "none"]

\* The row is missing, or was created without a token before proofs existed.
Init ==
  /\ device \in {NewRow, [NewRow EXCEPT !.status = "pending"]}
  /\ late = {}
  /\ drawn = 0
  /\ pc = [h \in Hosts |-> "stopped"]
  /\ mem = [h \in Hosts |-> NoPair]
  /\ token = [h \in Hosts |-> None]
  /\ tries = [h \in Hosts |-> 0]
  /\ req = [h \in Hosts |-> NoRequest(h)]
  /\ reg = [h \in Hosts |-> NoPair]
  /\ id = [h \in Hosts |-> None]
  /\ runs = 0
  /\ faults = 0

Fault == faults < MaxFaults /\ faults' = faults + 1

-----------------------------------------------------------------------------
(* The register process. *)

\* What prepareRegistration starts from: recovery state supersedes the identity.
Loaded(h) == IF reg[h].proof # None THEN reg[h] ELSE [proof |-> id[h], repl |-> None]

\* The proof and the proposed token of the next run; a missing one is drawn.
NextPair(h) ==
  LET saved == Loaded(h)
      first == IF saved.proof = None THEN drawn + 1 ELSE drawn
  IN  [proof |-> IF saved.proof = None THEN first ELSE saved.proof,
       repl  |-> IF saved.repl = None THEN first + 1 ELSE saved.repl]

\* Fault: the pair is only kept in memory.
PrepareUnsaved(h) ==
  /\ NextPair(h).repl <= MaxToken
  /\ drawn' = IF Loaded(h).repl = None THEN NextPair(h).repl ELSE drawn
  /\ mem' = [mem EXCEPT ![h] = NextPair(h)]
  /\ tries' = [tries EXCEPT ![h] = 0]
  /\ pc' = [pc EXCEPT ![h] = "ready"]
  /\ UNCHANGED <<device, late, token, req, reg, id, faults>>

\* prepareRegistration: the pair is on disk before any request. A write that
\* fails may have been renamed into place already (syncDir comes last).
Prepare(h) ==
  /\ NextPair(h).repl <= MaxToken
  /\ drawn' = IF Loaded(h).repl = None THEN NextPair(h).repl ELSE drawn
  /\ \/ /\ reg' = [reg EXCEPT ![h] = NextPair(h)]
        /\ mem' = [mem EXCEPT ![h] = NextPair(h)]
        /\ tries' = [tries EXCEPT ![h] = 0]
        /\ pc' = [pc EXCEPT ![h] = "ready"]
        /\ UNCHANGED faults
     \/ /\ Fault
        /\ \E r \in {reg[h], NextPair(h)} : reg' = [reg EXCEPT ![h] = r]
        /\ UNCHANGED <<mem, tries, pc>>
  /\ UNCHANGED <<device, late, token, req, id>>

\* nixstasis-registration.service runs only while there is no identity file and
\* restarts on failure; an operator may run `nixstasis register` at any time.
ServiceStarts(h) ==
  /\ pc[h] = "stopped"
  /\ id[h] = None
  /\ Prepare(h)
  /\ UNCHANGED runs

OperatorStarts(h) ==
  /\ pc[h] = "stopped"
  /\ runs < MaxRuns
  /\ runs' = runs + 1
  /\ Prepare(h)

\* RegisterDeviceCredentials sends the prepared pair.
Send(h) ==
  /\ pc[h] = "ready"
  /\ pc' = [pc EXCEPT ![h] = "waiting"]
  /\ req' = [req EXCEPT ![h] = [NoRequest(h) EXCEPT
       !.stage = "sent", !.proof = mem[h].proof, !.repl = mem[h].repl]]
  /\ UNCHANGED <<device, late, drawn, mem, token, tries, reg, id, runs, faults>>

\* One more failed attempt: back off and retry, or give up.
Retry(h) ==
  /\ tries' = [tries EXCEPT ![h] = @ + 1]
  /\ pc' = [pc EXCEPT ![h] = IF tries[h] + 1 < MaxTries THEN "ready" ELSE "stopped"]
  /\ UNCHANGED <<mem, token, id, runs>>

\* The answer arrives: approved, pending or refused. The registration token of a
\* first claim is saved (it is the proof already on disk); a failed save stops.
Receive(h) ==
  /\ pc[h] = "waiting"
  /\ req[h].stage = "answered"
  /\ req' = [req EXCEPT ![h] = NoRequest(h)]
  /\ \/ /\ req[h].answer = "granted"
        /\ token' = [token EXCEPT ![h] = req[h].repl]
        /\ pc' = [pc EXCEPT ![h] = "save"]
        /\ UNCHANGED <<mem, tries, reg, id, runs, faults>>
     \/ /\ req[h].answer \in {"pending", "refused"}
        /\ Retry(h)
        /\ UNCHANGED <<reg, faults>>
     \/ /\ req[h].answer = "issued"
        /\ reg' = [reg EXCEPT ![h] = mem[h]]
        /\ Retry(h)
        /\ UNCHANGED faults
     \/ /\ req[h].answer = "issued"
        /\ Fault
        /\ pc' = [pc EXCEPT ![h] = "stopped"]
        /\ UNCHANGED <<mem, token, tries, reg, id, runs>>
  /\ UNCHANGED <<device, late, drawn>>

\* A request the client no longer waits for: the server never got it, or it is
\* still working on it, or its answer is lost.
Abandon(h) ==
  /\ \/ UNCHANGED late
     \/ /\ req[h].stage \in {"sent", "read"}
        /\ Cardinality(late) < MaxLate
        /\ late' = late \cup {req[h]}
  /\ req' = [req EXCEPT ![h] = NoRequest(h)]

\* The connection fails or times out.
LoseAnswer(h) ==
  /\ pc[h] = "waiting"
  /\ Fault
  /\ Abandon(h)
  /\ Retry(h)
  /\ UNCHANGED <<device, drawn, reg>>

\* Fault: the recovery pair is cleared although the identity may not be saved.
SaveIdentityClearsProof(h) ==
  /\ pc[h] = "save"
  /\ \/ /\ id' = [id EXCEPT ![h] = token[h]]
        /\ pc' = [pc EXCEPT ![h] = "discard"]
        /\ UNCHANGED <<reg, faults>>
     \/ /\ Fault
        /\ \E t \in {id[h], token[h]} : id' = [id EXCEPT ![h] = t]
        /\ reg' = [reg EXCEPT ![h] = NoPair]
        /\ pc' = [pc EXCEPT ![h] = "stopped"]
  /\ UNCHANGED <<device, late, drawn, mem, token, tries, req, runs>>

\* Save the identity; if that fails, keep the new token as the next proof. Each
\* write may fail before or after its rename.
SaveIdentity(h) ==
  /\ pc[h] = "save"
  /\ \/ /\ id' = [id EXCEPT ![h] = token[h]]
        /\ pc' = [pc EXCEPT ![h] = "discard"]
        /\ UNCHANGED <<reg, faults>>
     \/ /\ Fault
        /\ \E t \in {id[h], token[h]} : id' = [id EXCEPT ![h] = t]
        /\ \E r \in {reg[h], [proof |-> token[h], repl |-> None]} :
             reg' = [reg EXCEPT ![h] = r]
        /\ pc' = [pc EXCEPT ![h] = "stopped"]
  /\ UNCHANGED <<device, late, drawn, mem, token, tries, req, runs>>

\* removeRegistrationProof, after the identity is durable.
DiscardProof(h) ==
  /\ pc[h] = "discard"
  /\ pc' = [pc EXCEPT ![h] = "stopped"]
  /\ \/ reg' = [reg EXCEPT ![h] = NoPair] /\ UNCHANGED faults
     \/ Fault /\ UNCHANGED reg
  /\ UNCHANGED <<device, late, drawn, mem, token, tries, req, id, runs>>

\* The process or the machine stops; only the files survive.
Crash(h) ==
  /\ pc[h] # "stopped"
  /\ Fault
  /\ Abandon(h)
  /\ pc' = [pc EXCEPT ![h] = "stopped"]
  /\ mem' = [mem EXCEPT ![h] = NoPair]
  /\ token' = [token EXCEPT ![h] = None]
  /\ tries' = [tries EXCEPT ![h] = 0]
  /\ UNCHANGED <<device, drawn, reg, id, runs>>

-----------------------------------------------------------------------------
(* The server. *)

\* public_registration_device reads the row outside the transaction.
Load(r) == [r EXCEPT !.stage = "read", !.seen = device]

ReadRow(h) ==
  /\ req[h].stage = "sent"
  /\ req' = [req EXCEPT ![h] = Load(@)]
  /\ UNCHANGED <<device, late, drawn, hostVars, faults>>

ReadRowLate(r) ==
  /\ r.stage = "sent"
  /\ late' = (late \ {r}) \cup {Load(r)}
  /\ UNCHANGED <<device, drawn, req, hostVars, faults>>

Unclaimed(row) == row.status = "pending" /\ row.hash = None

\* completed_registration_exchange?: t is the runtime token of an approved device.
Completed(row, t) == row.status = "approved" /\ row.runtime /\ row.hash = t

\* Fault: the claim does not look for a token that is already there.
ClaimUnchecked(r, a) ==
  /\ r.seen.status = "absent" \/ Unclaimed(r.seen)
  /\ device' = [status |-> "pending", hash |-> r.proof, runtime |-> FALSE]
  /\ a = "issued"

\* A row seen missing or unclaimed: insert it, or put the proof in its empty
\* slot, unless another request did so in the meantime.
Claim(r, a) ==
  /\ r.seen.status = "absent" \/ Unclaimed(r.seen)
  /\ \/ /\ r.seen.status = "absent" => device.status = "absent"
        /\ r.seen.status # "absent" => Unclaimed(device)
        /\ device' = [status |-> "pending", hash |-> r.proof, runtime |-> FALSE]
        /\ a = "issued"
     \/ /\ r.seen.status = "absent" => device.status # "absent"
        /\ r.seen.status # "absent" => ~Unclaimed(device)
        /\ UNCHANGED device
        /\ a = "refused"

\* Fault: the row is written without comparing it with what was read.
ExchangesBlindly(r) ==
  /\ ~Completed(r.seen, r.repl)
  /\ r.seen.hash = r.proof

\* The presented proof matches the row as read, and the row has not changed since
\* (claim_registration_exchange compares the hash and the approval status).
Exchanges(r) ==
  /\ ~Completed(r.seen, r.repl)
  /\ r.seen.hash = r.proof
  /\ device.hash = r.seen.hash
  /\ device.runtime = r.seen.runtime
  /\ device.status = r.seen.status

\* Fault: a lost answer is not recognised.
ExchangeForgets(r, a) ==
  /\ r.seen.hash # None
  /\ \/ /\ Exchanges(r)
        /\ r.seen.status = "approved"
        /\ device' = [r.seen EXCEPT !.hash = r.repl, !.runtime = TRUE]
        /\ a = "granted"
     \/ /\ Exchanges(r)
        /\ r.seen.status # "approved"
        /\ UNCHANGED device
        /\ a = "pending"
     \/ /\ ~Exchanges(r)
        /\ UNCHANGED device
        /\ a = "refused"

\* An enrolled device: an approved one gets the proposed token, any other only
\* updates its details. Whoever is refused is recognised by the proposed token if
\* that is the one already committed (recover_registration_exchange).
Exchange(r, a) ==
  /\ r.seen.hash # None
  /\ \/ /\ Exchanges(r)
        /\ r.seen.status = "approved"
        /\ device' = [r.seen EXCEPT !.hash = r.repl, !.runtime = TRUE]
        /\ a = "granted"
     \/ /\ Exchanges(r)
        /\ r.seen.status # "approved"
        /\ UNCHANGED device
        /\ a = "pending"
     \/ /\ ~Exchanges(r)
        /\ UNCHANGED device
        /\ a = IF Completed(device, r.repl) THEN "granted" ELSE "refused"

\* The transaction of register_public_device_with_proof.
Commit(h) ==
  /\ req[h].stage = "read"
  /\ \E a \in {"issued", "pending", "refused", "granted"} :
       /\ Claim(req[h], a) \/ Exchange(req[h], a)
       /\ req' = [req EXCEPT ![h].stage = "answered", ![h].answer = a]
  /\ UNCHANGED <<late, drawn, hostVars, faults>>

CommitLate(r) ==
  /\ r.stage = "read"
  /\ \E a \in {"issued", "pending", "refused", "granted"} : Claim(r, a) \/ Exchange(r, a)
  /\ late' = late \ {r}
  /\ UNCHANGED <<drawn, req, hostVars, faults>>

\* An operator decides on a pending device (ApprovalTransition).
Decide(status) ==
  /\ device.status = "pending"
  /\ device' = [device EXCEPT !.status = status]
  /\ UNCHANGED <<late, drawn, req, hostVars, faults>>

-----------------------------------------------------------------------------
Running(h) ==
  \/ Send(h) \/ Receive(h) \/ SaveIdentity(h) \/ DiscardProof(h)
  \/ ReadRow(h) \/ Commit(h)

Next ==
  \/ \E h \in Hosts : ServiceStarts(h) \/ OperatorStarts(h) \/ Running(h)
                      \/ LoseAnswer(h) \/ Crash(h)
  \/ \E r \in late : ReadRowLate(r) \/ CommitLate(r)
  \/ \E status \in {"approved", "rejected"} : Decide(status)

Spec == Init /\ [][Next]_vars

\* systemd restarts a failed registration for ever, a run that is not disturbed
\* goes on, and the server answers.
Fairness ==
  /\ \A h \in Hosts : WF_vars(ServiceStarts(h)) /\ WF_vars(Running(h))
  /\ WF_vars(\E r \in late : ReadRowLate(r) \/ CommitLate(r))

FairSpec == Spec /\ Fairness

-----------------------------------------------------------------------------
(* What registration promises. *)

\* The server never waits for a secret nobody can present: the next run of some
\* host would present the stored secret as its proof, or has it as the proposed
\* token of an exchange that is already committed. Lost answers, crashes and
\* failed writes never lock the device out.
CanPresent(h) ==
  \/ Loaded(h).proof = device.hash
  \/ Loaded(h).repl = device.hash /\ device.runtime

NeverLockedOut == device.hash # None => \E h \in Hosts : CanPresent(h)

\* The first proof wins: once a host's secret is stored, every later one is also
\* on that host's disk, whatever other hosts with the same MAC send.
Holds(h, t) == t \in {reg[h].proof, reg[h].repl, id[h]}

EnrollmentStaysWithHost ==
  [][\A h \in Hosts : device.hash # None /\ Holds(h, device.hash) => Holds(h, device.hash)']_vars

\* A secret that was replaced is never stored again: a request that reaches the
\* database late cannot bring an older secret back.
SecretsOnlyMoveForward == [][device.hash' >= device.hash]_vars

\* When the faults are over, an approved device ends up with an identity file
\* that heartbeats are accepted with, without an operator at the device. Only a
\* renewal that an operator started on an enrolled host and that was interrupted
\* waits: the unit does not start while an identity file is there.
Enrolled == \E h \in Hosts : Completed(device, id[h])

RenewalInterrupted ==
  \E h \in Hosts : pc[h] = "stopped" /\ id[h] # None /\ reg[h] # NoPair /\ CanPresent(h)

EnrollmentCompletes ==
  (device.status = "approved" /\ device.hash # None) ~> (Enrolled \/ RenewalInterrupted)
=============================================================================
