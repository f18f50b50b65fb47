---------------------------- MODULE Provisioning ----------------------------
(***************************************************************************)
(* The process Nixstasis.Provisioning (provisioning.ex): it uploads a      *)
(* first-boot artifact to one device's AtomixOS at most once per attempt,  *)
(* polls the job AtomixOS makes of it, and withdraws the lease that opened *)
(* the route.                                                              *)
(*                                                                         *)
(* A GenServer serves one request at a time, but a delivery is many steps: *)
(* database writes, the lease manager's calls and HTTP requests, with a    *)
(* crash possible between any two. pc says where the request being served  *)
(* is; calls and notices that arrive meanwhile wait in mailbox. AtomixOS   *)
(* and the lease manager are external: the first answers as it likes, the  *)
(* second (module LeaseManager) ends a lease at any time.                  *)
(***************************************************************************)
EXTENDS Naturals

CONSTANTS
  Attempts,      \* attempt UUIDs, each names at most one delivery
  Artifacts,     \* artifacts, by SHA-256
  MaxRetries,    \* uploads repeated after a 409, 2 in the code
  MaxPolls,      \* bound on the polls one request has time for
  MaxCrashes     \* bound on the crashes of the process

NoAttempt == "no_attempt"
NoArtifact == "no_artifact"

ASSUME NoAttemptAssumption == NoAttempt \notin Attempts
ASSUME NoArtifactAssumption == NoArtifact \notin Artifacts
ASSUME BoundAssumption == MaxRetries \in Nat /\ MaxPolls \in Nat /\ MaxCrashes \in Nat

VARIABLES
  \* the rows of provisioning_deliveries
  state, artifact, url, withdrawn,
  lease,         \* the delivery's row of the lease table, and whether its time ran out
  jobs,          \* jobs AtomixOS has made of the delivery
  pc,            \* the request being served
  mailbox,       \* withdraw calls and expiry notices not served yet
  crashes

rows == <<state, artifact, url, withdrawn>>
vars == <<rows, lease, jobs, pc, mailbox, crashes>>

Active == {"submitting", "submitted", "running"}
Final == {"succeeded", "failed", "indeterminate"}
JobStates == {"submitted", "running", "succeeded", "failed"}

\* Uploads: accepted with or without a job URL, an answer that leaves the
\* outcome open, a full queue (409), any other refusal.
Accepted == {"accepted", "accepted_without_url"}
Outcomes == Accepted \cup {"ambiguous", "busy", "refused"}

At == {"idle", "open", "check", "upload", "answered", "no_url", "poll", "get",
       "close", "mark"}

Points == [at : At, d : Attempts \cup {NoAttempt},
           n : 0..(MaxRetries + MaxPolls), out : Outcomes \cup {"none"}]

Rest == [at |-> "idle", d |-> NoAttempt, n |-> 0, out |-> "none"]
Serve(where, d, n, out) == pc' = [at |-> where, d |-> d, n |-> n, out |-> out]
Goto(where) == pc' = [pc EXCEPT !.at = where]

TypeOK ==
  /\ state \in [Attempts -> Active \cup Final \cup {"absent"}]
  /\ artifact \in [Attempts -> Artifacts \cup {NoArtifact}]
  /\ url \in [Attempts -> BOOLEAN] /\ withdrawn \in [Attempts -> BOOLEAN]
  /\ lease \in [Attempts -> {"absent", "granted", "expired", "revoked"}]
  /\ jobs \in [Attempts -> Nat]
  /\ pc \in Points
  /\ pc.at = "idle" <=> pc.d = NoAttempt
  /\ mailbox \subseteq {"withdraw", "expired"} \X Attempts
  /\ crashes \in 0..MaxCrashes

Init ==
  /\ state = [d \in Attempts |-> "absent"]
  /\ artifact = [d \in Attempts |-> NoArtifact]
  /\ url = [d \in Attempts |-> FALSE] /\ withdrawn = [d \in Attempts |-> FALSE]
  /\ lease = [d \in Attempts |-> "absent"]
  /\ jobs = [d \in Attempts |-> 0]
  /\ pc = Rest /\ mailbox = {} /\ crashes = 0

-----------------------------------------------------------------------------
(* Requests of operators *)

Deliveries(a) == {d \in Attempts : state[d] # "absent" /\ artifact[d] = a}

\* remote_access_lease_active?: the lease has neither run out nor been revoked,
\* and its delivery is neither finished nor withdrawn.
LeaseActive(d) ==
  lease[d] = "granted" /\ ~withdrawn[d] /\ state[d] \in Active \cup {"indeterminate"}

IgnoreSubmitting(a) == {d \in Deliveries(a) : state[d] \in {"submitted", "running", "succeeded"}}

Blocking(a) == {d \in Deliveries(a) : state[d] \in Active \cup {"succeeded"}}

\* A new delivery, asked for with or without an attempt id. A delivery of the
\* artifact that succeeded is returned, one that is active is resumed; after
\* one that failed or is indeterminate a new attempt must be named.
Start(asked, d, a) ==
  /\ pc.at = "idle" /\ state[d] = "absent"
  /\ asked \in {d, NoAttempt}
  /\ Blocking(a) = {}
  /\ Deliveries(a) # {} => asked = d
  /\ state' = [state EXCEPT ![d] = "submitting"]
  /\ artifact' = [artifact EXCEPT ![d] = a]
  /\ Serve("open", d, 0, "none")
  /\ UNCHANGED <<url, withdrawn, lease, jobs, mailbox, crashes>>

Open ==
  /\ pc.at = "open"
  /\ lease' = [lease EXCEPT ![pc.d] = "granted"]
  /\ Goto("check")
  /\ UNCHANGED <<rows, jobs, mailbox, crashes>>

\* finish_failed, up to close_lease.
Fail ==
  /\ state' = [state EXCEPT ![pc.d] = "failed"]
  /\ Goto("close")
  /\ UNCHANGED <<artifact, url, withdrawn, lease, jobs, mailbox, crashes>>

\* finish_indeterminate: the lease is kept.
FinishIndeterminate(d) ==
  /\ state' = [state EXCEPT ![d] = "indeterminate"]
  /\ pc' = Rest
  /\ UNCHANGED <<artifact, url, withdrawn, lease, jobs, mailbox, crashes>>

OpenFails == pc.at = "open" /\ Fail

\* The lease is checked when it was opened and once the route answers.
Ready ==
  /\ pc.at = "check" /\ LeaseActive(pc.d)
  /\ Goto("upload")
  /\ UNCHANGED <<rows, lease, jobs, mailbox, crashes>>

\* The route never answers, or the lease ended meanwhile.
NotReady == pc.at = "check" /\ Fail

-----------------------------------------------------------------------------
(* The upload and its answer *)

\* AtomixOS makes one job of an upload it accepts; after an ambiguous answer
\* nobody knows whether it did.
Upload ==
  /\ pc.at = "upload"
  /\ \E out \in Outcomes, made \in 0..1 :
       /\ out \in Accepted => made = 1
       /\ out \in {"busy", "refused"} => made = 0
       /\ jobs' = [jobs EXCEPT ![pc.d] = @ + made]
       /\ Serve("answered", pc.d, pc.n, out)
  /\ UNCHANGED <<rows, lease, mailbox, crashes>>

Answered(outs) == pc.at = "answered" /\ pc.out \in outs

\* Fault for comparison: an unclear answer is repeated too.
RetryServerErrors ==
  /\ Answered({"busy", "ambiguous"}) /\ pc.n < MaxRetries
  /\ Serve("upload", pc.d, pc.n + 1, "none")
  /\ UNCHANGED <<rows, lease, jobs, mailbox, crashes>>

\* submit_with_conflict_retries: only a 409 is repeated.
Retry ==
  /\ Answered({"busy"}) /\ pc.n < MaxRetries
  /\ Serve("upload", pc.d, pc.n + 1, "none")
  /\ UNCHANGED <<rows, lease, jobs, mailbox, crashes>>

Refused ==
  /\ Answered({"busy", "refused"})
  /\ pc.out = "busy" => pc.n = MaxRetries
  /\ Fail

Unclear == Answered({"ambiguous"}) /\ FinishIndeterminate(pc.d)

\* The row takes the job's state and its URL, if the answer had one. An answer
\* that says "succeeded" without a URL is invalid.
Accept(s) ==
  /\ Answered(Accepted)
  /\ pc.out = "accepted_without_url" => s # "succeeded"
  /\ state' = [state EXCEPT ![pc.d] = s]
  /\ url' = [url EXCEPT ![pc.d] = pc.out = "accepted"]
  /\ Serve(IF pc.out = "accepted" THEN "poll" ELSE "no_url", pc.d, 0, "none")
  /\ UNCHANGED <<artifact, withdrawn, lease, jobs, mailbox, crashes>>

InvalidAnswer == Answered({"accepted_without_url"}) /\ FinishIndeterminate(pc.d)

NoJobURL ==
  /\ pc.at = "no_url"
  /\ IF state[pc.d] = "failed" THEN Fail ELSE FinishIndeterminate(pc.d)

-----------------------------------------------------------------------------
(* Polling the job *)

\* The lease is checked before every poll.
PollCheck ==
  /\ pc.at = "poll" /\ LeaseActive(pc.d)
  /\ Goto("get")
  /\ UNCHANGED <<rows, lease, jobs, mailbox, crashes>>

\* finish_expired
LeaseExpiredWhilePolling ==
  /\ pc.at = "poll" /\ ~LeaseActive(pc.d)
  /\ state' = [state EXCEPT ![pc.d] = "indeterminate"]
  /\ Goto("close")
  /\ UNCHANGED <<artifact, url, withdrawn, lease, jobs, mailbox, crashes>>

JobSucceeded ==
  /\ pc.at = "get"
  /\ state' = [state EXCEPT ![pc.d] = "succeeded"]
  /\ Goto("close")
  /\ UNCHANGED <<artifact, url, withdrawn, lease, jobs, mailbox, crashes>>

\* The job failed, or AtomixOS does not know it (404).
JobFailed == pc.at = "get" /\ Fail

\* The job goes on, or the answer said nothing of it.
JobRunning(s) ==
  /\ pc.at = "get" /\ pc.n < MaxPolls
  /\ s \in {"submitted", "running", state[pc.d]}
  /\ state' = [state EXCEPT ![pc.d] = s]
  /\ Serve("poll", pc.d, pc.n + 1, "none")
  /\ UNCHANGED <<artifact, url, withdrawn, lease, jobs, mailbox, crashes>>

\* The deadline passed, or the result asks for a reapply.
JobUnknown == pc.at = "get" /\ FinishIndeterminate(pc.d)

-----------------------------------------------------------------------------
(* Closing the lease, after a result or for an operator *)

MarkWithoutRevoking ==
  /\ pc.at = "close"
  /\ withdrawn' = [withdrawn EXCEPT ![pc.d] = TRUE]
  /\ Goto("mark")
  /\ UNCHANGED <<state, artifact, url, lease, jobs, mailbox, crashes>>

RevokeLease ==
  /\ pc.at = "close"
  /\ lease' = [lease EXCEPT ![pc.d] = IF @ = "absent" THEN @ ELSE "revoked"]
  /\ Goto("mark")
  /\ UNCHANGED <<rows, jobs, mailbox, crashes>>

MarkWithdrawn ==
  /\ pc.at = "mark"
  /\ withdrawn' = [withdrawn EXCEPT ![pc.d] = TRUE]
  /\ pc' = Rest
  /\ UNCHANGED <<state, artifact, url, lease, jobs, mailbox, crashes>>

\* An operator reads the delivery and calls the process, which acts on what the
\* operator read, whatever the delivery has become by then.
CallWithdraw(d) ==
  /\ state[d] # "absent" /\ ~withdrawn[d]
  /\ mailbox' = mailbox \cup {<<"withdraw", d>>}
  /\ UNCHANGED <<rows, lease, jobs, pc, crashes>>

Withdraw(d) ==
  /\ pc.at = "idle" /\ <<"withdraw", d>> \in mailbox
  /\ mailbox' = mailbox \ {<<"withdraw", d>>}
  /\ Serve("close", d, 0, "none")
  /\ UNCHANGED <<rows, lease, jobs, crashes>>

-----------------------------------------------------------------------------
(* Resuming, expiry, crash *)

ExpiryOverwrites(d) ==
  /\ state' = [state EXCEPT ![d] = "indeterminate"]
  /\ withdrawn' = [withdrawn EXCEPT ![d] = TRUE]
  /\ UNCHANGED <<artifact, url, lease, jobs, pc, crashes>>

\* record_lease_expiry, of a delivery not marked withdrawn
RecordExpiry(d) ==
  /\ state' = [state EXCEPT ![d] = IF @ \in Active THEN "indeterminate" ELSE @]
  /\ withdrawn' = [withdrawn EXCEPT ![d] = TRUE]
  /\ UNCHANGED <<artifact, url, lease, jobs, pc, crashes>>

ResumeNeedsURL(d) ==
  /\ pc.at = "idle" /\ state[d] \in Active /\ LeaseActive(d) /\ url[d]
  /\ Serve("poll", d, 0, "none")
  /\ UNCHANGED <<rows, lease, jobs, mailbox, crashes>>

\* Asking again for an active delivery: with its lease it polls, or gives up
\* if no job URL was recorded.
Resume(d) ==
  /\ pc.at = "idle" /\ state[d] \in Active /\ LeaseActive(d)
  /\ IF url[d]
       THEN /\ Serve("poll", d, 0, "none")
            /\ UNCHANGED <<rows, lease, jobs, mailbox, crashes>>
       ELSE FinishIndeterminate(d)

\* Without, the expiry is recorded. A delivery that has no lease or is marked
\* withdrawn is left as it is, and the operator gets an error.
ResumeWithoutLease(d) ==
  /\ pc.at = "idle" /\ state[d] \in Active /\ ~LeaseActive(d)
  /\ lease[d] # "absent" /\ ~withdrawn[d]
  /\ RecordExpiry(d)
  /\ UNCHANGED mailbox

\* handle_info({:remote_access_lease_expired, ref})
ExpiryNotice(d) ==
  /\ pc.at = "idle" /\ <<"expired", d>> \in mailbox
  /\ mailbox' = mailbox \ {<<"expired", d>>}
  /\ IF withdrawn[d] THEN UNCHANGED <<rows, lease, jobs, pc, crashes>>
                     ELSE RecordExpiry(d)

\* The lease's time runs out; later the manager revokes it and notifies this
\* process, if it is up.
Expire(d) ==
  /\ lease[d] = "granted"
  /\ lease' = [lease EXCEPT ![d] = "expired"]
  /\ UNCHANGED <<rows, jobs, pc, mailbox, crashes>>

ManagerRevokes(d, notices) ==
  /\ lease[d] = "expired"
  /\ lease' = [lease EXCEPT ![d] = "revoked"]
  /\ mailbox' = mailbox \cup notices
  /\ UNCHANGED <<rows, jobs, pc, crashes>>

Crash ==
  /\ crashes < MaxCrashes
  /\ pc' = Rest /\ mailbox' = {} /\ crashes' = crashes + 1
  /\ UNCHANGED <<rows, lease, jobs>>

-----------------------------------------------------------------------------
Delivering ==
  \/ Open \/ OpenFails \/ Ready \/ NotReady
  \/ Upload \/ Retry \/ Refused \/ Unclear
  \/ \E s \in JobStates : Accept(s)
  \/ InvalidAnswer \/ NoJobURL
  \/ PollCheck \/ LeaseExpiredWhilePolling
  \/ JobSucceeded \/ JobFailed \/ JobUnknown
  \/ \E s \in Active : JobRunning(s)
  \/ RevokeLease \/ MarkWithdrawn

Serving == \E d \in Attempts : Withdraw(d) \/ ExpiryNotice(d)

Leases ==
  \E d \in Attempts :
    \/ Expire(d)
    \/ ManagerRevokes(d, {}) \/ ManagerRevokes(d, {<<"expired", d>>})

Next ==
  \/ Delivering \/ Serving \/ Leases \/ Crash
  \/ \E d \in Attempts : CallWithdraw(d) \/ Resume(d) \/ ResumeWithoutLease(d)
  \/ \E d \in Attempts, a \in Artifacts, asked \in Attempts \cup {NoAttempt} :
       Start(asked, d, a)

Spec == Init /\ [][Next]_vars

\* The process goes on with the request it serves and with its mailbox, and the
\* operator asks again for a delivery that has no result.
FairSpec ==
  /\ Spec
  /\ WF_vars(Delivering) /\ WF_vars(Serving)
  /\ \A d \in Attempts : WF_vars(Resume(d) \/ ResumeWithoutLease(d))

-----------------------------------------------------------------------------
(* Properties *)

\* "The server never risks creating the same AtomixOS job twice": whatever was
\* repeated, resumed, crashed or left unclear, an attempt makes at most one job.
OneJobPerAttempt == \A d \in Attempts : jobs[d] <= 1

Live(d) == state[d] \in Active \cup {"succeeded"}

\* Two attempts never deliver the same artifact at once, and none starts once
\* it has succeeded (choose_delivery, existing_action).
OneLiveDelivery ==
  \A a \in Artifacts : \A d, e \in Deliveries(a) : Live(d) /\ Live(e) => d = e

\* A delivery recorded as withdrawn has a dead lease, so that the record can be
\* trusted after any crash (close_lease, record_lease_expiry).
WithdrawnIsDead == \A d \in Attempts : withdrawn[d] => lease[d] # "granted"

\* The result of a request that has been served is never rewritten, by a later
\* request, a stale withdraw call or a late expiry notice.
ResultsStay ==
  [][\A d \in Attempts :
       state[d] \in Final /\ pc.d # d => state'[d] = state[d]]_vars

\* A delivery interrupted by a crash gets a result or is withdrawn when the
\* operator asks again, if its lease was opened before the crash.
LeasedDeliveriesEnd ==
  \A d \in Attempts :
    (state[d] \in Active /\ lease[d] # "absent") ~> (state[d] \in Final \/ withdrawn[d])

\* "If the lease is gone or expired, the delivery stops": every delivery that is
\* asked for again gets a result or is withdrawn, whenever it was interrupted, also
\* before it had a lease.
DeliveriesEnd ==
  \A d \in Attempts : (state[d] \in Active) ~> (state[d] \in Final \/ withdrawn[d])
=============================================================================
