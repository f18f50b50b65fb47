------------------------- MODULE ProvisioningProofs -------------------------
(***************************************************************************)
(* Proofs about Provisioning, for any attempts, artifacts and bounds.      *)
(***************************************************************************)
EXTENDS Provisioning, TLAPS

\* Nothing is known of an attempt before its delivery is created.
Fresh ==
  \A d \in Attempts :
    state[d] = "absent" => /\ jobs[d] = 0 /\ lease[d] = "absent" /\ ~withdrawn[d]
                           /\ \A k \in {"withdraw", "expired"} : <<k, d>> \notin mailbox

\* What is known of the delivery being served, at each point of the request.
Served ==
  pc.at # "idle" =>
    /\ pc.d \in Attempts /\ state[pc.d] # "absent"
    /\ pc.at \in {"open", "check", "upload", "answered"} => state[pc.d] = "submitting"
    /\ pc.at \in {"open", "check", "upload"} => jobs[pc.d] = 0
    /\ pc.at = "answered" /\ pc.out \in {"busy", "refused"} => jobs[pc.d] = 0
    /\ pc.at = "open" => ~withdrawn[pc.d] /\ lease[pc.d] = "absent"
    /\ pc.at = "poll" => state[pc.d] # "indeterminate"
    /\ pc.at = "get" => state[pc.d] \in Active
    /\ pc.at = "mark" => lease[pc.d] # "granted"

\* A notice is sent by the transaction that revoked the lease.
NoticesAreTrue == \A d \in Attempts : <<"expired", d>> \in mailbox => lease[d] = "revoked"

IInv ==
  /\ TypeOK /\ Fresh /\ Served /\ NoticesAreTrue
  /\ OneJobPerAttempt /\ OneLiveDelivery /\ WithdrawnIsDead

USE NoAttemptAssumption, NoArtifactAssumption, BoundAssumption DEF NoAttempt, NoArtifact

\* The initial state.
LEMMA InitIInv == Init => IInv
<1> SUFFICES ASSUME Init PROVE IInv
  OBVIOUS
<1> USE DEF Init
<1>1. TypeOK
  BY DEF TypeOK, Points, Rest, Active, Final, At, Outcomes, Accepted
<1>2. Fresh /\ Served /\ NoticesAreTrue
  BY DEF Fresh, Served, NoticesAreTrue, Rest
<1>3. OneJobPerAttempt /\ OneLiveDelivery /\ WithdrawnIsDead
  BY DEF OneJobPerAttempt, OneLiveDelivery, WithdrawnIsDead, Deliveries
<1> QED
  BY <1>1, <1>2, <1>3 DEF IInv

\* Every step keeps the types.
LEMMA TypeStep ==
  ASSUME TypeOK, Served, [Next]_vars
  PROVE  TypeOK'
<1> USE DEF TypeOK, Points, Served, Rest, Serve, Active, Final, At, Outcomes, Accepted
<1>1. CASE Open
  BY <1>1 DEF Open, Goto, rows
<1>2. CASE OpenFails
  BY <1>2 DEF OpenFails, Fail, Goto, rows
<1>3. CASE Ready
  BY <1>3 DEF Ready, LeaseActive, Goto, rows
<1>4. CASE NotReady
  BY <1>4 DEF NotReady, Fail, Goto, rows
<1>5. CASE Upload
  <2> USE <1>5 DEF Upload, rows
  <2>1. pc' \in Points
    OBVIOUS
  <2>2. pc'.at = "idle" <=> pc'.d = NoAttempt
    OBVIOUS
  <2>3. /\ state' \in [Attempts -> Active \cup Final \cup {"absent"}]
        /\ artifact' \in [Attempts -> Artifacts \cup {NoArtifact}]
    OBVIOUS
  <2>4. url' \in [Attempts -> BOOLEAN]
    OBVIOUS
  <2>5. /\ withdrawn' \in [Attempts -> BOOLEAN]
        /\ lease' \in [Attempts -> {"absent", "granted", "expired", "revoked"}]
        /\ jobs' \in [Attempts -> Nat]
    OBVIOUS
  <2>6. mailbox' \subseteq {"withdraw", "expired"} \X Attempts /\ crashes' \in 0..MaxCrashes
    OBVIOUS
  <2> QED
    BY ONLY <2>1, <2>2, <2>3, <2>4, <2>5, <2>6 DEF TypeOK
<1>6. CASE Retry
  <2> USE <1>6 DEF Retry, Answered, rows
  <2>1. pc' \in Points
    OBVIOUS
  <2>2. pc'.at = "idle" <=> pc'.d = NoAttempt
    OBVIOUS
  <2>3. /\ state' \in [Attempts -> Active \cup Final \cup {"absent"}]
        /\ artifact' \in [Attempts -> Artifacts \cup {NoArtifact}]
    OBVIOUS
  <2>4. url' \in [Attempts -> BOOLEAN]
    OBVIOUS
  <2>5. /\ withdrawn' \in [Attempts -> BOOLEAN]
        /\ lease' \in [Attempts -> {"absent", "granted", "expired", "revoked"}]
        /\ jobs' \in [Attempts -> Nat]
    OBVIOUS
  <2>6. mailbox' \subseteq {"withdraw", "expired"} \X Attempts /\ crashes' \in 0..MaxCrashes
    OBVIOUS
  <2> QED
    BY ONLY <2>1, <2>2, <2>3, <2>4, <2>5, <2>6 DEF TypeOK
<1>7. CASE Refused
  BY <1>7 DEF Refused, Answered, Fail, Goto, rows
<1>8. CASE Unclear
  BY <1>8 DEF Unclear, Answered, FinishIndeterminate, Goto, rows
<1>9. CASE \E s \in JobStates : Accept(s)
  <2> PICK s \in JobStates : Accept(s)
    BY <1>9
  <2> USE DEF Accept, Answered, JobStates
  <2>1. pc' \in Points
    OBVIOUS
  <2>2. pc'.at = "idle" <=> pc'.d = NoAttempt
    OBVIOUS
  <2>3. /\ state' \in [Attempts -> Active \cup Final \cup {"absent"}]
        /\ artifact' \in [Attempts -> Artifacts \cup {NoArtifact}]
    OBVIOUS
  <2>4. url' \in [Attempts -> BOOLEAN]
    OBVIOUS
  <2>5. /\ withdrawn' \in [Attempts -> BOOLEAN]
        /\ lease' \in [Attempts -> {"absent", "granted", "expired", "revoked"}]
        /\ jobs' \in [Attempts -> Nat]
    OBVIOUS
  <2>6. mailbox' \subseteq {"withdraw", "expired"} \X Attempts /\ crashes' \in 0..MaxCrashes
    OBVIOUS
  <2> QED
    BY ONLY <2>1, <2>2, <2>3, <2>4, <2>5, <2>6 DEF TypeOK
<1>10. CASE InvalidAnswer
  BY <1>10 DEF InvalidAnswer, Answered, FinishIndeterminate, Goto, rows
<1>11. CASE NoJobURL
  BY <1>11 DEF NoJobURL, Fail, FinishIndeterminate, Goto, rows
<1>12. CASE PollCheck
  BY <1>12 DEF PollCheck, LeaseActive, Goto, rows
<1>13. CASE LeaseExpiredWhilePolling
  BY <1>13 DEF LeaseExpiredWhilePolling, LeaseActive, Goto, rows
<1>14. CASE JobSucceeded
  BY <1>14 DEF JobSucceeded, Goto, rows
<1>15. CASE JobFailed
  BY <1>15 DEF JobFailed, Fail, Goto, rows
<1>16. CASE JobUnknown
  BY <1>16 DEF JobUnknown, FinishIndeterminate, Goto, rows
<1>17. CASE \E s \in Active : JobRunning(s)
  <2> PICK s \in Active : JobRunning(s)
    BY <1>17
  <2> USE DEF JobRunning
  <2>1. pc' \in Points
    OBVIOUS
  <2>2. pc'.at = "idle" <=> pc'.d = NoAttempt
    OBVIOUS
  <2>3. /\ state' \in [Attempts -> Active \cup Final \cup {"absent"}]
        /\ artifact' \in [Attempts -> Artifacts \cup {NoArtifact}]
    OBVIOUS
  <2>4. url' \in [Attempts -> BOOLEAN]
    OBVIOUS
  <2>5. /\ withdrawn' \in [Attempts -> BOOLEAN]
        /\ lease' \in [Attempts -> {"absent", "granted", "expired", "revoked"}]
        /\ jobs' \in [Attempts -> Nat]
    OBVIOUS
  <2>6. mailbox' \subseteq {"withdraw", "expired"} \X Attempts /\ crashes' \in 0..MaxCrashes
    OBVIOUS
  <2> QED
    BY ONLY <2>1, <2>2, <2>3, <2>4, <2>5, <2>6 DEF TypeOK
<1>18. CASE RevokeLease
  BY <1>18 DEF RevokeLease, Goto, rows
<1>19. CASE MarkWithdrawn
  BY <1>19 DEF MarkWithdrawn, Goto, rows
<1>20. CASE \E d \in Attempts : Withdraw(d)
  <2> PICK d \in Attempts : Withdraw(d)
    BY <1>20
  <2> USE DEF Withdraw, rows
  <2>1. pc' \in Points
    OBVIOUS
  <2>2. pc'.at = "idle" <=> pc'.d = NoAttempt
    OBVIOUS
  <2>3. /\ state' \in [Attempts -> Active \cup Final \cup {"absent"}]
        /\ artifact' \in [Attempts -> Artifacts \cup {NoArtifact}]
    OBVIOUS
  <2>4. url' \in [Attempts -> BOOLEAN]
    OBVIOUS
  <2>5. /\ withdrawn' \in [Attempts -> BOOLEAN]
        /\ lease' \in [Attempts -> {"absent", "granted", "expired", "revoked"}]
        /\ jobs' \in [Attempts -> Nat]
    OBVIOUS
  <2>6. mailbox' \subseteq {"withdraw", "expired"} \X Attempts /\ crashes' \in 0..MaxCrashes
    OBVIOUS
  <2> QED
    BY ONLY <2>1, <2>2, <2>3, <2>4, <2>5, <2>6 DEF TypeOK
<1>21. CASE \E d \in Attempts : ExpiryNotice(d)
  <2> PICK d \in Attempts : ExpiryNotice(d)
    BY <1>21
  <2> USE DEF ExpiryNotice, RecordExpiry, rows
  <2>1. pc' \in Points
    OBVIOUS
  <2>2. pc'.at = "idle" <=> pc'.d = NoAttempt
    OBVIOUS
  <2>3. /\ state' \in [Attempts -> Active \cup Final \cup {"absent"}]
        /\ artifact' \in [Attempts -> Artifacts \cup {NoArtifact}]
    OBVIOUS
  <2>4. url' \in [Attempts -> BOOLEAN]
    OBVIOUS
  <2>5. /\ withdrawn' \in [Attempts -> BOOLEAN]
        /\ lease' \in [Attempts -> {"absent", "granted", "expired", "revoked"}]
        /\ jobs' \in [Attempts -> Nat]
    OBVIOUS
  <2>6. mailbox' \subseteq {"withdraw", "expired"} \X Attempts /\ crashes' \in 0..MaxCrashes
    OBVIOUS
  <2> QED
    BY ONLY <2>1, <2>2, <2>3, <2>4, <2>5, <2>6 DEF TypeOK
<1>22. CASE \E d \in Attempts : Expire(d)
  BY <1>22 DEF Expire, Goto, rows
<1>23. CASE \E d \in Attempts : ManagerRevokes(d, {})
  BY <1>23 DEF ManagerRevokes, Goto, rows
<1>24. CASE \E d \in Attempts : ManagerRevokes(d, {<<"expired", d>>})
  BY <1>24 DEF ManagerRevokes, Goto, rows
<1>25. CASE Crash
  BY <1>25 DEF Crash, Goto, rows
<1>26. CASE \E d \in Attempts : CallWithdraw(d)
  BY <1>26 DEF CallWithdraw, Goto, rows
<1>27. CASE \E d \in Attempts : Resume(d)
  <2> PICK d \in Attempts : Resume(d)
    BY <1>27
  <2> USE DEF Resume, LeaseActive, FinishIndeterminate, rows
  <2>1. pc' \in Points
    OBVIOUS
  <2>2. pc'.at = "idle" <=> pc'.d = NoAttempt
    OBVIOUS
  <2>3. /\ state' \in [Attempts -> Active \cup Final \cup {"absent"}]
        /\ artifact' \in [Attempts -> Artifacts \cup {NoArtifact}]
    OBVIOUS
  <2>4. url' \in [Attempts -> BOOLEAN]
    OBVIOUS
  <2>5. /\ withdrawn' \in [Attempts -> BOOLEAN]
        /\ lease' \in [Attempts -> {"absent", "granted", "expired", "revoked"}]
        /\ jobs' \in [Attempts -> Nat]
    OBVIOUS
  <2>6. mailbox' \subseteq {"withdraw", "expired"} \X Attempts /\ crashes' \in 0..MaxCrashes
    OBVIOUS
  <2> QED
    BY ONLY <2>1, <2>2, <2>3, <2>4, <2>5, <2>6 DEF TypeOK
<1>28. CASE \E d \in Attempts : ResumeWithoutLease(d)
  BY <1>28 DEF ResumeWithoutLease, LeaseActive, RecordExpiry, Goto, rows
<1>29. CASE \E d \in Attempts, a \in Artifacts, asked \in Attempts \cup {NoAttempt} :
            Start(asked, d, a)
  <2> PICK d \in Attempts, a \in Artifacts, asked \in Attempts \cup {NoAttempt} : Start(asked, d, a)
    BY <1>29
  <2> USE DEF Start
  <2>1. pc' \in Points
    OBVIOUS
  <2>2. pc'.at = "idle" <=> pc'.d = NoAttempt
    OBVIOUS
  <2>3. /\ state' \in [Attempts -> Active \cup Final \cup {"absent"}]
        /\ artifact' \in [Attempts -> Artifacts \cup {NoArtifact}]
    OBVIOUS
  <2>4. url' \in [Attempts -> BOOLEAN]
    OBVIOUS
  <2>5. /\ withdrawn' \in [Attempts -> BOOLEAN]
        /\ lease' \in [Attempts -> {"absent", "granted", "expired", "revoked"}]
        /\ jobs' \in [Attempts -> Nat]
    OBVIOUS
  <2>6. mailbox' \subseteq {"withdraw", "expired"} \X Attempts /\ crashes' \in 0..MaxCrashes
    OBVIOUS
  <2> QED
    BY ONLY <2>1, <2>2, <2>3, <2>4, <2>5, <2>6 DEF TypeOK
<1>30. CASE UNCHANGED vars
  BY <1>30 DEF vars, rows
<1> QED
  BY <1>1, <1>2, <1>3, <1>4, <1>5, <1>6, <1>7, <1>8, <1>9, <1>10, <1>11,
     <1>12, <1>13, <1>14, <1>15, <1>16, <1>17, <1>18, <1>19, <1>20, <1>21,
     <1>22, <1>23, <1>24, <1>25, <1>26, <1>27, <1>28, <1>29, <1>30 DEF Next,
     Delivering, Serving, Leases

\* An attempt without a delivery stays untouched.
LEMMA FreshStep ==
  ASSUME TypeOK, Fresh, Served, [Next]_vars
  PROVE  Fresh'
<1> USE DEF TypeOK, Points, Rest, Serve, Active, Final, At, Outcomes, Accepted, Fresh, Served
<1>1. CASE Open
  BY <1>1 DEF Open, Goto, rows
<1>2. CASE OpenFails
  BY <1>2 DEF OpenFails, Fail, Goto, rows
<1>3. CASE Ready
  BY <1>3 DEF Ready, LeaseActive, Goto, rows
<1>4. CASE NotReady
  BY <1>4 DEF NotReady, Fail, Goto, rows
<1>5. CASE Upload
  BY <1>5 DEF Upload, Goto, rows
<1>6. CASE Retry
  BY <1>6 DEF Retry, Answered, Goto, rows
<1>7. CASE Refused
  BY <1>7 DEF Refused, Answered, Fail, Goto, rows
<1>8. CASE Unclear
  BY <1>8 DEF Unclear, Answered, FinishIndeterminate, Goto, rows
<1>9. CASE \E s \in JobStates : Accept(s)
  BY <1>9 DEF Accept, Answered, JobStates, Goto, rows
<1>10. CASE InvalidAnswer
  BY <1>10 DEF InvalidAnswer, Answered, FinishIndeterminate, Goto, rows
<1>11. CASE NoJobURL
  BY <1>11 DEF NoJobURL, Fail, FinishIndeterminate, Goto, rows
<1>12. CASE PollCheck
  BY <1>12 DEF PollCheck, LeaseActive, Goto, rows
<1>13. CASE LeaseExpiredWhilePolling
  BY <1>13 DEF LeaseExpiredWhilePolling, LeaseActive, Goto, rows
<1>14. CASE JobSucceeded
  BY <1>14 DEF JobSucceeded, Goto, rows
<1>15. CASE JobFailed
  BY <1>15 DEF JobFailed, Fail, Goto, rows
<1>16. CASE JobUnknown
  BY <1>16 DEF JobUnknown, FinishIndeterminate, Goto, rows
<1>17. CASE \E s \in Active : JobRunning(s)
  BY <1>17 DEF JobRunning, Goto, rows
<1>18. CASE RevokeLease
  BY <1>18 DEF RevokeLease, Goto, rows
<1>19. CASE MarkWithdrawn
  BY <1>19 DEF MarkWithdrawn, Goto, rows
<1>20. CASE \E d \in Attempts : Withdraw(d)
  BY <1>20 DEF Withdraw, Goto, rows
<1>21. CASE \E d \in Attempts : ExpiryNotice(d)
  BY <1>21 DEF ExpiryNotice, RecordExpiry, Goto, rows
<1>22. CASE \E d \in Attempts : Expire(d)
  BY <1>22 DEF Expire, Goto, rows
<1>23. CASE \E d \in Attempts : ManagerRevokes(d, {})
  BY <1>23 DEF ManagerRevokes, Goto, rows
<1>24. CASE \E d \in Attempts : ManagerRevokes(d, {<<"expired", d>>})
  BY <1>24 DEF ManagerRevokes, Goto, rows
<1>25. CASE Crash
  BY <1>25 DEF Crash, Goto, rows
<1>26. CASE \E d \in Attempts : CallWithdraw(d)
  BY <1>26 DEF CallWithdraw, Goto, rows
<1>27. CASE \E d \in Attempts : Resume(d)
  BY <1>27 DEF Resume, LeaseActive, FinishIndeterminate, Goto, rows
<1>28. CASE \E d \in Attempts : ResumeWithoutLease(d)
  BY <1>28 DEF ResumeWithoutLease, LeaseActive, RecordExpiry, Goto, rows
<1>29. CASE \E d \in Attempts, a \in Artifacts, asked \in Attempts \cup {NoAttempt} :
            Start(asked, d, a)
  BY <1>29 DEF Start, Goto, rows
<1>30. CASE UNCHANGED vars
  BY <1>30 DEF vars, rows
<1> QED
  BY <1>1, <1>2, <1>3, <1>4, <1>5, <1>6, <1>7, <1>8, <1>9, <1>10, <1>11,
     <1>12, <1>13, <1>14, <1>15, <1>16, <1>17, <1>18, <1>19, <1>20, <1>21,
     <1>22, <1>23, <1>24, <1>25, <1>26, <1>27, <1>28, <1>29, <1>30 DEF Next,
     Delivering, Serving, Leases

\* The request being served goes through its points in order.
LEMMA ServedStep ==
  ASSUME TypeOK, Fresh, Served, [Next]_vars
  PROVE  Served'
<1> USE DEF TypeOK, Points, Rest, Serve, Active, Final, At, Outcomes, Accepted, Fresh, Served
<1>1. CASE Open
  BY <1>1 DEF Open, Goto, rows
<1>2. CASE OpenFails
  BY <1>2 DEF OpenFails, Fail, Goto, rows
<1>3. CASE Ready
  BY <1>3 DEF Ready, LeaseActive, Goto, rows
<1>4. CASE NotReady
  BY <1>4 DEF NotReady, Fail, Goto, rows
<1>5. CASE Upload
  BY <1>5 DEF Upload, Goto, rows
<1>6. CASE Retry
  BY <1>6 DEF Retry, Answered, Goto, rows
<1>7. CASE Refused
  BY <1>7 DEF Refused, Answered, Fail, Goto, rows
<1>8. CASE Unclear
  BY <1>8 DEF Unclear, Answered, FinishIndeterminate, Goto, rows
<1>9. CASE \E s \in JobStates : Accept(s)
  BY <1>9 DEF Accept, Answered, JobStates, Goto, rows
<1>10. CASE InvalidAnswer
  BY <1>10 DEF InvalidAnswer, Answered, FinishIndeterminate, Goto, rows
<1>11. CASE NoJobURL
  BY <1>11 DEF NoJobURL, Fail, FinishIndeterminate, Goto, rows
<1>12. CASE PollCheck
  <2> USE <1>12 DEF PollCheck, LeaseActive, Goto, rows
  <2>1. pc.d \in Attempts /\ state[pc.d] \in Active
    OBVIOUS
  <2>2. pc' = [pc EXCEPT !.at = "get"] /\ UNCHANGED <<state, jobs, withdrawn, lease>>
    OBVIOUS
  <2> QED
    BY <2>1, <2>2
<1>13. CASE LeaseExpiredWhilePolling
  BY <1>13 DEF LeaseExpiredWhilePolling, LeaseActive, Goto, rows
<1>14. CASE JobSucceeded
  BY <1>14 DEF JobSucceeded, Goto, rows
<1>15. CASE JobFailed
  BY <1>15 DEF JobFailed, Fail, Goto, rows
<1>16. CASE JobUnknown
  BY <1>16 DEF JobUnknown, FinishIndeterminate, Goto, rows
<1>17. CASE \E s \in Active : JobRunning(s)
  BY <1>17 DEF JobRunning, Goto, rows
<1>18. CASE RevokeLease
  BY <1>18 DEF RevokeLease, Goto, rows
<1>19. CASE MarkWithdrawn
  BY <1>19 DEF MarkWithdrawn, Goto, rows
<1>20. CASE \E d \in Attempts : Withdraw(d)
  <2> PICK d \in Attempts : Withdraw(d)
    BY <1>20
  <2>1. state[d] # "absent"
    BY DEF Withdraw
  <2> QED
    BY <2>1 DEF Withdraw, rows
<1>21. CASE \E d \in Attempts : ExpiryNotice(d)
  BY <1>21 DEF ExpiryNotice, RecordExpiry, Goto, rows
<1>22. CASE \E d \in Attempts : Expire(d)
  BY <1>22 DEF Expire, Goto, rows
<1>23. CASE \E d \in Attempts : ManagerRevokes(d, {})
  BY <1>23 DEF ManagerRevokes, Goto, rows
<1>24. CASE \E d \in Attempts : ManagerRevokes(d, {<<"expired", d>>})
  BY <1>24 DEF ManagerRevokes, Goto, rows
<1>25. CASE Crash
  BY <1>25 DEF Crash, Goto, rows
<1>26. CASE \E d \in Attempts : CallWithdraw(d)
  BY <1>26 DEF CallWithdraw, Goto, rows
<1>27. CASE \E d \in Attempts : Resume(d)
  BY <1>27 DEF Resume, LeaseActive, FinishIndeterminate, Goto, rows
<1>28. CASE \E d \in Attempts : ResumeWithoutLease(d)
  BY <1>28 DEF ResumeWithoutLease, LeaseActive, RecordExpiry, Goto, rows
<1>29. CASE \E d \in Attempts, a \in Artifacts, asked \in Attempts \cup {NoAttempt} :
            Start(asked, d, a)
  <2> PICK d \in Attempts, a \in Artifacts, asked \in Attempts \cup {NoAttempt} : Start(asked, d, a)
    BY <1>29
  <2>1. /\ pc' = [at |-> "open", d |-> d, n |-> 0, out |-> "none"]
        /\ state'[d] = "submitting" /\ UNCHANGED <<jobs, withdrawn, lease>>
    BY DEF Start
  <2>2. jobs[d] = 0 /\ lease[d] = "absent" /\ ~withdrawn[d]
    BY DEF Start
  <2> QED
    BY <2>1, <2>2
<1>30. CASE UNCHANGED vars
  BY <1>30 DEF vars, rows
<1> QED
  BY <1>1, <1>2, <1>3, <1>4, <1>5, <1>6, <1>7, <1>8, <1>9, <1>10, <1>11,
     <1>12, <1>13, <1>14, <1>15, <1>16, <1>17, <1>18, <1>19, <1>20, <1>21,
     <1>22, <1>23, <1>24, <1>25, <1>26, <1>27, <1>28, <1>29, <1>30 DEF Next,
     Delivering, Serving, Leases

\* A revoked lease stays revoked.
LEMMA NoticesStep ==
  ASSUME TypeOK, Fresh, Served, NoticesAreTrue, [Next]_vars
  PROVE  NoticesAreTrue'
<1> USE DEF TypeOK, Points, Rest, Serve, Active, Final, At, Outcomes, Accepted, Fresh, Served, NoticesAreTrue
<1>1. CASE Open
  BY <1>1 DEF Open, Goto, rows
<1>2. CASE OpenFails
  BY <1>2 DEF OpenFails, Fail, Goto, rows
<1>3. CASE Ready
  BY <1>3 DEF Ready, LeaseActive, Goto, rows
<1>4. CASE NotReady
  BY <1>4 DEF NotReady, Fail, Goto, rows
<1>5. CASE Upload
  BY <1>5 DEF Upload, Goto, rows
<1>6. CASE Retry
  BY <1>6 DEF Retry, Answered, Goto, rows
<1>7. CASE Refused
  BY <1>7 DEF Refused, Answered, Fail, Goto, rows
<1>8. CASE Unclear
  BY <1>8 DEF Unclear, Answered, FinishIndeterminate, Goto, rows
<1>9. CASE \E s \in JobStates : Accept(s)
  BY <1>9 DEF Accept, Answered, JobStates, Goto, rows
<1>10. CASE InvalidAnswer
  BY <1>10 DEF InvalidAnswer, Answered, FinishIndeterminate, Goto, rows
<1>11. CASE NoJobURL
  BY <1>11 DEF NoJobURL, Fail, FinishIndeterminate, Goto, rows
<1>12. CASE PollCheck
  BY <1>12 DEF PollCheck, LeaseActive, Goto, rows
<1>13. CASE LeaseExpiredWhilePolling
  BY <1>13 DEF LeaseExpiredWhilePolling, LeaseActive, Goto, rows
<1>14. CASE JobSucceeded
  BY <1>14 DEF JobSucceeded, Goto, rows
<1>15. CASE JobFailed
  BY <1>15 DEF JobFailed, Fail, Goto, rows
<1>16. CASE JobUnknown
  BY <1>16 DEF JobUnknown, FinishIndeterminate, Goto, rows
<1>17. CASE \E s \in Active : JobRunning(s)
  BY <1>17 DEF JobRunning, Goto, rows
<1>18. CASE RevokeLease
  BY <1>18 DEF RevokeLease, Goto, rows
<1>19. CASE MarkWithdrawn
  BY <1>19 DEF MarkWithdrawn, Goto, rows
<1>20. CASE \E d \in Attempts : Withdraw(d)
  BY <1>20 DEF Withdraw, Goto, rows
<1>21. CASE \E d \in Attempts : ExpiryNotice(d)
  BY <1>21 DEF ExpiryNotice, RecordExpiry, Goto, rows
<1>22. CASE \E d \in Attempts : Expire(d)
  BY <1>22 DEF Expire, Goto, rows
<1>23. CASE \E d \in Attempts : ManagerRevokes(d, {})
  BY <1>23 DEF ManagerRevokes, Goto, rows
<1>24. CASE \E d \in Attempts : ManagerRevokes(d, {<<"expired", d>>})
  BY <1>24 DEF ManagerRevokes, Goto, rows
<1>25. CASE Crash
  BY <1>25 DEF Crash, Goto, rows
<1>26. CASE \E d \in Attempts : CallWithdraw(d)
  BY <1>26 DEF CallWithdraw, Goto, rows
<1>27. CASE \E d \in Attempts : Resume(d)
  BY <1>27 DEF Resume, LeaseActive, FinishIndeterminate, Goto, rows
<1>28. CASE \E d \in Attempts : ResumeWithoutLease(d)
  BY <1>28 DEF ResumeWithoutLease, LeaseActive, RecordExpiry, Goto, rows
<1>29. CASE \E d \in Attempts, a \in Artifacts, asked \in Attempts \cup {NoAttempt} :
            Start(asked, d, a)
  BY <1>29 DEF Start, Goto, rows
<1>30. CASE UNCHANGED vars
  BY <1>30 DEF vars, rows
<1> QED
  BY <1>1, <1>2, <1>3, <1>4, <1>5, <1>6, <1>7, <1>8, <1>9, <1>10, <1>11,
     <1>12, <1>13, <1>14, <1>15, <1>16, <1>17, <1>18, <1>19, <1>20, <1>21,
     <1>22, <1>23, <1>24, <1>25, <1>26, <1>27, <1>28, <1>29, <1>30 DEF Next,
     Delivering, Serving, Leases

\* Only the first upload of an attempt, or one after a 409, makes a job.
LEMMA OneJobStep ==
  ASSUME TypeOK, Served, OneJobPerAttempt, [Next]_vars
  PROVE  OneJobPerAttempt'
<1> USE DEF TypeOK, Points, Rest, Serve, Active, Final, At, Outcomes, Accepted, Served, OneJobPerAttempt
<1>1. CASE Open
  BY <1>1 DEF Open, Goto, rows
<1>2. CASE OpenFails
  BY <1>2 DEF OpenFails, Fail, Goto, rows
<1>3. CASE Ready
  BY <1>3 DEF Ready, LeaseActive, Goto, rows
<1>4. CASE NotReady
  BY <1>4 DEF NotReady, Fail, Goto, rows
<1>5. CASE Upload
  BY <1>5 DEF Upload, Goto, rows
<1>6. CASE Retry
  BY <1>6 DEF Retry, Answered, Goto, rows
<1>7. CASE Refused
  BY <1>7 DEF Refused, Answered, Fail, Goto, rows
<1>8. CASE Unclear
  BY <1>8 DEF Unclear, Answered, FinishIndeterminate, Goto, rows
<1>9. CASE \E s \in JobStates : Accept(s)
  BY <1>9 DEF Accept, Answered, JobStates, Goto, rows
<1>10. CASE InvalidAnswer
  BY <1>10 DEF InvalidAnswer, Answered, FinishIndeterminate, Goto, rows
<1>11. CASE NoJobURL
  BY <1>11 DEF NoJobURL, Fail, FinishIndeterminate, Goto, rows
<1>12. CASE PollCheck
  BY <1>12 DEF PollCheck, LeaseActive, Goto, rows
<1>13. CASE LeaseExpiredWhilePolling
  BY <1>13 DEF LeaseExpiredWhilePolling, LeaseActive, Goto, rows
<1>14. CASE JobSucceeded
  BY <1>14 DEF JobSucceeded, Goto, rows
<1>15. CASE JobFailed
  BY <1>15 DEF JobFailed, Fail, Goto, rows
<1>16. CASE JobUnknown
  BY <1>16 DEF JobUnknown, FinishIndeterminate, Goto, rows
<1>17. CASE \E s \in Active : JobRunning(s)
  BY <1>17 DEF JobRunning, Goto, rows
<1>18. CASE RevokeLease
  BY <1>18 DEF RevokeLease, Goto, rows
<1>19. CASE MarkWithdrawn
  BY <1>19 DEF MarkWithdrawn, Goto, rows
<1>20. CASE \E d \in Attempts : Withdraw(d)
  BY <1>20 DEF Withdraw, Goto, rows
<1>21. CASE \E d \in Attempts : ExpiryNotice(d)
  BY <1>21 DEF ExpiryNotice, RecordExpiry, Goto, rows
<1>22. CASE \E d \in Attempts : Expire(d)
  BY <1>22 DEF Expire, Goto, rows
<1>23. CASE \E d \in Attempts : ManagerRevokes(d, {})
  BY <1>23 DEF ManagerRevokes, Goto, rows
<1>24. CASE \E d \in Attempts : ManagerRevokes(d, {<<"expired", d>>})
  BY <1>24 DEF ManagerRevokes, Goto, rows
<1>25. CASE Crash
  BY <1>25 DEF Crash, Goto, rows
<1>26. CASE \E d \in Attempts : CallWithdraw(d)
  BY <1>26 DEF CallWithdraw, Goto, rows
<1>27. CASE \E d \in Attempts : Resume(d)
  BY <1>27 DEF Resume, LeaseActive, FinishIndeterminate, Goto, rows
<1>28. CASE \E d \in Attempts : ResumeWithoutLease(d)
  BY <1>28 DEF ResumeWithoutLease, LeaseActive, RecordExpiry, Goto, rows
<1>29. CASE \E d \in Attempts, a \in Artifacts, asked \in Attempts \cup {NoAttempt} :
            Start(asked, d, a)
  BY <1>29 DEF Start, Goto, rows
<1>30. CASE UNCHANGED vars
  BY <1>30 DEF vars, rows
<1> QED
  BY <1>1, <1>2, <1>3, <1>4, <1>5, <1>6, <1>7, <1>8, <1>9, <1>10, <1>11,
     <1>12, <1>13, <1>14, <1>15, <1>16, <1>17, <1>18, <1>19, <1>20, <1>21,
     <1>22, <1>23, <1>24, <1>25, <1>26, <1>27, <1>28, <1>29, <1>30 DEF Next,
     Delivering, Serving, Leases

\* The lease dies before its delivery is marked.
LEMMA WithdrawnStep ==
  ASSUME TypeOK, Fresh, Served, NoticesAreTrue, WithdrawnIsDead, [Next]_vars
  PROVE  WithdrawnIsDead'
<1> USE DEF TypeOK, Points, Rest, Serve, Active, Final, At, Outcomes, Accepted, Fresh, Served, NoticesAreTrue, WithdrawnIsDead
<1>1. CASE Open
  BY <1>1 DEF Open, Goto, rows
<1>2. CASE OpenFails
  BY <1>2 DEF OpenFails, Fail, Goto, rows
<1>3. CASE Ready
  BY <1>3 DEF Ready, LeaseActive, Goto, rows
<1>4. CASE NotReady
  BY <1>4 DEF NotReady, Fail, Goto, rows
<1>5. CASE Upload
  BY <1>5 DEF Upload, Goto, rows
<1>6. CASE Retry
  BY <1>6 DEF Retry, Answered, Goto, rows
<1>7. CASE Refused
  BY <1>7 DEF Refused, Answered, Fail, Goto, rows
<1>8. CASE Unclear
  BY <1>8 DEF Unclear, Answered, FinishIndeterminate, Goto, rows
<1>9. CASE \E s \in JobStates : Accept(s)
  BY <1>9 DEF Accept, Answered, JobStates, Goto, rows
<1>10. CASE InvalidAnswer
  BY <1>10 DEF InvalidAnswer, Answered, FinishIndeterminate, Goto, rows
<1>11. CASE NoJobURL
  BY <1>11 DEF NoJobURL, Fail, FinishIndeterminate, Goto, rows
<1>12. CASE PollCheck
  BY <1>12 DEF PollCheck, LeaseActive, Goto, rows
<1>13. CASE LeaseExpiredWhilePolling
  BY <1>13 DEF LeaseExpiredWhilePolling, LeaseActive, Goto, rows
<1>14. CASE JobSucceeded
  BY <1>14 DEF JobSucceeded, Goto, rows
<1>15. CASE JobFailed
  BY <1>15 DEF JobFailed, Fail, Goto, rows
<1>16. CASE JobUnknown
  BY <1>16 DEF JobUnknown, FinishIndeterminate, Goto, rows
<1>17. CASE \E s \in Active : JobRunning(s)
  BY <1>17 DEF JobRunning, Goto, rows
<1>18. CASE RevokeLease
  BY <1>18 DEF RevokeLease, Goto, rows
<1>19. CASE MarkWithdrawn
  BY <1>19 DEF MarkWithdrawn, Goto, rows
<1>20. CASE \E d \in Attempts : Withdraw(d)
  BY <1>20 DEF Withdraw, Goto, rows
<1>21. CASE \E d \in Attempts : ExpiryNotice(d)
  BY <1>21 DEF ExpiryNotice, RecordExpiry, Goto, rows
<1>22. CASE \E d \in Attempts : Expire(d)
  BY <1>22 DEF Expire, Goto, rows
<1>23. CASE \E d \in Attempts : ManagerRevokes(d, {})
  BY <1>23 DEF ManagerRevokes, Goto, rows
<1>24. CASE \E d \in Attempts : ManagerRevokes(d, {<<"expired", d>>})
  BY <1>24 DEF ManagerRevokes, Goto, rows
<1>25. CASE Crash
  BY <1>25 DEF Crash, Goto, rows
<1>26. CASE \E d \in Attempts : CallWithdraw(d)
  BY <1>26 DEF CallWithdraw, Goto, rows
<1>27. CASE \E d \in Attempts : Resume(d)
  BY <1>27 DEF Resume, LeaseActive, FinishIndeterminate, Goto, rows
<1>28. CASE \E d \in Attempts : ResumeWithoutLease(d)
  BY <1>28 DEF ResumeWithoutLease, LeaseActive, RecordExpiry, Goto, rows
<1>29. CASE \E d \in Attempts, a \in Artifacts, asked \in Attempts \cup {NoAttempt} :
            Start(asked, d, a)
  BY <1>29 DEF Start, Goto, rows
<1>30. CASE UNCHANGED vars
  BY <1>30 DEF vars, rows
<1> QED
  BY <1>1, <1>2, <1>3, <1>4, <1>5, <1>6, <1>7, <1>8, <1>9, <1>10, <1>11,
     <1>12, <1>13, <1>14, <1>15, <1>16, <1>17, <1>18, <1>19, <1>20, <1>21,
     <1>22, <1>23, <1>24, <1>25, <1>26, <1>27, <1>28, <1>29, <1>30 DEF Next,
     Delivering, Serving, Leases

\* A step that brings no delivery to life and renames no artifact keeps
\* OneLiveDelivery.
LEMMA LiveShrinks ==
  ASSUME OneLiveDelivery, UNCHANGED artifact, \A d \in Attempts : Live(d)' => Live(d)
  PROVE  OneLiveDelivery'
  BY DEF OneLiveDelivery, Live, Deliveries, Active

\* Only Start brings a delivery to life, when the artifact has no live one.
LEMMA OneLiveStep ==
  ASSUME TypeOK, Served, OneLiveDelivery, [Next]_vars
  PROVE  OneLiveDelivery'
<1> USE DEF TypeOK, Points, Rest, Serve, Active, Final, At, Outcomes, Accepted, Served
<1>1. CASE Open
  <2>1. UNCHANGED artifact /\ \A d \in Attempts : Live(d)' => Live(d)
    BY <1>1 DEF Open, Goto, rows, Live
  <2> QED
    BY <2>1, LiveShrinks
<1>2. CASE OpenFails
  <2>1. UNCHANGED artifact /\ \A d \in Attempts : Live(d)' => Live(d)
    BY <1>2 DEF OpenFails, Fail, Goto, rows, Live
  <2> QED
    BY <2>1, LiveShrinks
<1>3. CASE Ready
  <2>1. UNCHANGED artifact /\ \A d \in Attempts : Live(d)' => Live(d)
    BY <1>3 DEF Ready, LeaseActive, Goto, rows, Live
  <2> QED
    BY <2>1, LiveShrinks
<1>4. CASE NotReady
  <2>1. UNCHANGED artifact /\ \A d \in Attempts : Live(d)' => Live(d)
    BY <1>4 DEF NotReady, Fail, Goto, rows, Live
  <2> QED
    BY <2>1, LiveShrinks
<1>5. CASE Upload
  <2>1. UNCHANGED artifact /\ \A d \in Attempts : Live(d)' => Live(d)
    BY <1>5 DEF Upload, Goto, rows, Live
  <2> QED
    BY <2>1, LiveShrinks
<1>6. CASE Retry
  <2>1. UNCHANGED artifact /\ \A d \in Attempts : Live(d)' => Live(d)
    BY <1>6 DEF Retry, Answered, Goto, rows, Live
  <2> QED
    BY <2>1, LiveShrinks
<1>7. CASE Refused
  <2>1. UNCHANGED artifact /\ \A d \in Attempts : Live(d)' => Live(d)
    BY <1>7 DEF Refused, Answered, Fail, Goto, rows, Live
  <2> QED
    BY <2>1, LiveShrinks
<1>8. CASE Unclear
  <2>1. UNCHANGED artifact /\ \A d \in Attempts : Live(d)' => Live(d)
    BY <1>8 DEF Unclear, Answered, FinishIndeterminate, Goto, rows, Live
  <2> QED
    BY <2>1, LiveShrinks
<1>9. CASE \E s \in JobStates : Accept(s)
  <2>1. UNCHANGED artifact /\ \A d \in Attempts : Live(d)' => Live(d)
    BY <1>9 DEF Accept, Answered, JobStates, Goto, rows, Live
  <2> QED
    BY <2>1, LiveShrinks
<1>10. CASE InvalidAnswer
  <2>1. UNCHANGED artifact /\ \A d \in Attempts : Live(d)' => Live(d)
    BY <1>10 DEF InvalidAnswer, Answered, FinishIndeterminate, Goto, rows, Live
  <2> QED
    BY <2>1, LiveShrinks
<1>11. CASE NoJobURL
  <2>1. UNCHANGED artifact /\ \A d \in Attempts : Live(d)' => Live(d)
    BY <1>11 DEF NoJobURL, Fail, FinishIndeterminate, Goto, rows, Live
  <2> QED
    BY <2>1, LiveShrinks
<1>12. CASE PollCheck
  <2>1. UNCHANGED artifact /\ \A d \in Attempts : Live(d)' => Live(d)
    BY <1>12 DEF PollCheck, LeaseActive, Goto, rows, Live
  <2> QED
    BY <2>1, LiveShrinks
<1>13. CASE LeaseExpiredWhilePolling
  <2>1. UNCHANGED artifact /\ \A d \in Attempts : Live(d)' => Live(d)
    BY <1>13 DEF LeaseExpiredWhilePolling, LeaseActive, Goto, rows, Live
  <2> QED
    BY <2>1, LiveShrinks
<1>14. CASE JobSucceeded
  <2>1. UNCHANGED artifact /\ \A d \in Attempts : Live(d)' => Live(d)
    BY <1>14 DEF JobSucceeded, Goto, rows, Live
  <2> QED
    BY <2>1, LiveShrinks
<1>15. CASE JobFailed
  <2>1. UNCHANGED artifact /\ \A d \in Attempts : Live(d)' => Live(d)
    BY <1>15 DEF JobFailed, Fail, Goto, rows, Live
  <2> QED
    BY <2>1, LiveShrinks
<1>16. CASE JobUnknown
  <2>1. UNCHANGED artifact /\ \A d \in Attempts : Live(d)' => Live(d)
    BY <1>16 DEF JobUnknown, FinishIndeterminate, Goto, rows, Live
  <2> QED
    BY <2>1, LiveShrinks
<1>17. CASE \E s \in Active : JobRunning(s)
  <2>1. UNCHANGED artifact /\ \A d \in Attempts : Live(d)' => Live(d)
    BY <1>17 DEF JobRunning, Goto, rows, Live
  <2> QED
    BY <2>1, LiveShrinks
<1>18. CASE RevokeLease
  <2>1. UNCHANGED artifact /\ \A d \in Attempts : Live(d)' => Live(d)
    BY <1>18 DEF RevokeLease, Goto, rows, Live
  <2> QED
    BY <2>1, LiveShrinks
<1>19. CASE MarkWithdrawn
  <2>1. UNCHANGED artifact /\ \A d \in Attempts : Live(d)' => Live(d)
    BY <1>19 DEF MarkWithdrawn, Goto, rows, Live
  <2> QED
    BY <2>1, LiveShrinks
<1>20. CASE \E d \in Attempts : Withdraw(d)
  <2>1. UNCHANGED artifact /\ \A d \in Attempts : Live(d)' => Live(d)
    BY <1>20 DEF Withdraw, Goto, rows, Live
  <2> QED
    BY <2>1, LiveShrinks
<1>21. CASE \E d \in Attempts : ExpiryNotice(d)
  <2>1. UNCHANGED artifact /\ \A d \in Attempts : Live(d)' => Live(d)
    BY <1>21 DEF ExpiryNotice, RecordExpiry, Goto, rows, Live
  <2> QED
    BY <2>1, LiveShrinks
<1>22. CASE \E d \in Attempts : Expire(d)
  <2>1. UNCHANGED artifact /\ \A d \in Attempts : Live(d)' => Live(d)
    BY <1>22 DEF Expire, Goto, rows, Live
  <2> QED
    BY <2>1, LiveShrinks
<1>23. CASE \E d \in Attempts : ManagerRevokes(d, {})
  <2>1. UNCHANGED artifact /\ \A d \in Attempts : Live(d)' => Live(d)
    BY <1>23 DEF ManagerRevokes, Goto, rows, Live
  <2> QED
    BY <2>1, LiveShrinks
<1>24. CASE \E d \in Attempts : ManagerRevokes(d, {<<"expired", d>>})
  <2>1. UNCHANGED artifact /\ \A d \in Attempts : Live(d)' => Live(d)
    BY <1>24 DEF ManagerRevokes, Goto, rows, Live
  <2> QED
    BY <2>1, LiveShrinks
<1>25. CASE Crash
  <2>1. UNCHANGED artifact /\ \A d \in Attempts : Live(d)' => Live(d)
    BY <1>25 DEF Crash, Goto, rows, Live
  <2> QED
    BY <2>1, LiveShrinks
<1>26. CASE \E d \in Attempts : CallWithdraw(d)
  <2>1. UNCHANGED artifact /\ \A d \in Attempts : Live(d)' => Live(d)
    BY <1>26 DEF CallWithdraw, Goto, rows, Live
  <2> QED
    BY <2>1, LiveShrinks
<1>27. CASE \E d \in Attempts : Resume(d)
  <2>1. UNCHANGED artifact /\ \A d \in Attempts : Live(d)' => Live(d)
    BY <1>27 DEF Resume, LeaseActive, FinishIndeterminate, Goto, rows, Live
  <2> QED
    BY <2>1, LiveShrinks
<1>28. CASE \E d \in Attempts : ResumeWithoutLease(d)
  <2>1. UNCHANGED artifact /\ \A d \in Attempts : Live(d)' => Live(d)
    BY <1>28 DEF ResumeWithoutLease, LeaseActive, RecordExpiry, Goto, rows, Live
  <2> QED
    BY <2>1, LiveShrinks
<1>29. CASE \E d \in Attempts, a \in Artifacts, asked \in Attempts \cup {NoAttempt} :
            Start(asked, d, a)
  <2> PICK d \in Attempts, a \in Artifacts, asked \in Attempts \cup {NoAttempt} : Start(asked, d, a)
    BY <1>29
  <2>1. \A e \in Attempts \ {d} : state'[e] = state[e] /\ artifact'[e] = artifact[e]
    BY DEF Start
  <2>2. artifact'[d] = a /\ Blocking(a) = {}
    BY DEF Start
  <2>3. \A b \in Artifacts : \A e \in Deliveries(b)' : Live(e)' =>
            (e = d /\ b = a) \/ (e # d /\ e \in Deliveries(b) /\ Live(e) /\ b # a)
    BY <2>1, <2>2 DEF Blocking, Deliveries, Live
  <2>4. SUFFICES ASSUME NEW b \in Artifacts, NEW e \in Deliveries(b)', NEW f \in Deliveries(b)',
                        Live(e)', Live(f)'
                 PROVE  e = f
    BY DEF OneLiveDelivery
  <2> QED
    BY <2>3, <2>4 DEF OneLiveDelivery
<1>30. CASE UNCHANGED vars
  <2>1. UNCHANGED artifact /\ \A d \in Attempts : Live(d)' => Live(d)
    BY <1>30 DEF vars, rows, Live
  <2> QED
    BY <2>1, LiveShrinks
<1> QED
  BY <1>1, <1>2, <1>3, <1>4, <1>5, <1>6, <1>7, <1>8, <1>9, <1>10, <1>11,
     <1>12, <1>13, <1>14, <1>15, <1>16, <1>17, <1>18, <1>19, <1>20, <1>21,
     <1>22, <1>23, <1>24, <1>25, <1>26, <1>27, <1>28, <1>29, <1>30 DEF Next,
     Delivering, Serving, Leases

LEMMA Inductive == Spec => []IInv
<1>1. IInv /\ [Next]_vars => IInv'
  BY TypeStep, FreshStep, ServedStep, NoticesStep, OneJobStep, OneLiveStep, WithdrawnStep
     DEF IInv
<1> QED
  BY <1>1, InitIInv, PTL DEF Spec

-----------------------------------------------------------------------------
\* The types hold in every reachable state.
THEOREM ProvisioningTypeCorrect == Spec => []TypeOK
<1>1. IInv => TypeOK
  BY DEF IInv
<1> QED
  BY <1>1, Inductive, PTL

\* No attempt makes AtomixOS run two jobs (deliver, submit_with_conflict_retries).
THEOREM NeverTwoJobs == Spec => []OneJobPerAttempt
<1>1. IInv => OneJobPerAttempt
  BY DEF IInv
<1> QED
  BY <1>1, Inductive, PTL

\* No two attempts deliver one artifact at once (choose_delivery).
THEOREM NeverTwoLiveDeliveries == Spec => []OneLiveDelivery
<1>1. IInv => OneLiveDelivery
  BY DEF IInv
<1> QED
  BY <1>1, Inductive, PTL

\* A withdrawn delivery's lease is dead (close_lease, record_lease_expiry).
THEOREM WithdrawalIsReal == Spec => []WithdrawnIsDead
<1>1. IInv => WithdrawnIsDead
  BY DEF IInv
<1> QED
  BY <1>1, Inductive, PTL

ResultStays ==
  \A d \in Attempts : state[d] \in Final /\ pc.d # d => state'[d] = state[d]

\* A request rewrites only the delivery it serves; the others only if active.
LEMMA ResultStep ==
  ASSUME TypeOK, Served, [Next]_vars
  PROVE  ResultStays
<1> USE DEF TypeOK, Points, Rest, Serve, Active, Final, At, Outcomes, Accepted, Served, ResultStays
<1>1. CASE Open
  BY <1>1 DEF Open, Goto, rows
<1>2. CASE OpenFails
  BY <1>2 DEF OpenFails, Fail, Goto, rows
<1>3. CASE Ready
  BY <1>3 DEF Ready, LeaseActive, Goto, rows
<1>4. CASE NotReady
  BY <1>4 DEF NotReady, Fail, Goto, rows
<1>5. CASE Upload
  BY <1>5 DEF Upload, Goto, rows
<1>6. CASE Retry
  BY <1>6 DEF Retry, Answered, Goto, rows
<1>7. CASE Refused
  BY <1>7 DEF Refused, Answered, Fail, Goto, rows
<1>8. CASE Unclear
  BY <1>8 DEF Unclear, Answered, FinishIndeterminate, Goto, rows
<1>9. CASE \E s \in JobStates : Accept(s)
  BY <1>9 DEF Accept, Answered, JobStates, Goto, rows
<1>10. CASE InvalidAnswer
  BY <1>10 DEF InvalidAnswer, Answered, FinishIndeterminate, Goto, rows
<1>11. CASE NoJobURL
  BY <1>11 DEF NoJobURL, Fail, FinishIndeterminate, Goto, rows
<1>12. CASE PollCheck
  BY <1>12 DEF PollCheck, LeaseActive, Goto, rows
<1>13. CASE LeaseExpiredWhilePolling
  BY <1>13 DEF LeaseExpiredWhilePolling, LeaseActive, Goto, rows
<1>14. CASE JobSucceeded
  BY <1>14 DEF JobSucceeded, Goto, rows
<1>15. CASE JobFailed
  BY <1>15 DEF JobFailed, Fail, Goto, rows
<1>16. CASE JobUnknown
  BY <1>16 DEF JobUnknown, FinishIndeterminate, Goto, rows
<1>17. CASE \E s \in Active : JobRunning(s)
  BY <1>17 DEF JobRunning, Goto, rows
<1>18. CASE RevokeLease
  BY <1>18 DEF RevokeLease, Goto, rows
<1>19. CASE MarkWithdrawn
  BY <1>19 DEF MarkWithdrawn, Goto, rows
<1>20. CASE \E d \in Attempts : Withdraw(d)
  BY <1>20 DEF Withdraw, Goto, rows
<1>21. CASE \E d \in Attempts : ExpiryNotice(d)
  BY <1>21 DEF ExpiryNotice, RecordExpiry, Goto, rows
<1>22. CASE \E d \in Attempts : Expire(d)
  BY <1>22 DEF Expire, Goto, rows
<1>23. CASE \E d \in Attempts : ManagerRevokes(d, {})
  BY <1>23 DEF ManagerRevokes, Goto, rows
<1>24. CASE \E d \in Attempts : ManagerRevokes(d, {<<"expired", d>>})
  BY <1>24 DEF ManagerRevokes, Goto, rows
<1>25. CASE Crash
  BY <1>25 DEF Crash, Goto, rows
<1>26. CASE \E d \in Attempts : CallWithdraw(d)
  BY <1>26 DEF CallWithdraw, Goto, rows
<1>27. CASE \E d \in Attempts : Resume(d)
  BY <1>27 DEF Resume, LeaseActive, FinishIndeterminate, Goto, rows
<1>28. CASE \E d \in Attempts : ResumeWithoutLease(d)
  BY <1>28 DEF ResumeWithoutLease, LeaseActive, RecordExpiry, Goto, rows
<1>29. CASE \E d \in Attempts, a \in Artifacts, asked \in Attempts \cup {NoAttempt} :
            Start(asked, d, a)
  BY <1>29 DEF Start, Goto, rows
<1>30. CASE UNCHANGED vars
  BY <1>30 DEF vars, rows
<1> QED
  BY <1>1, <1>2, <1>3, <1>4, <1>5, <1>6, <1>7, <1>8, <1>9, <1>10, <1>11,
     <1>12, <1>13, <1>14, <1>15, <1>16, <1>17, <1>18, <1>19, <1>20, <1>21,
     <1>22, <1>23, <1>24, <1>25, <1>26, <1>27, <1>28, <1>29, <1>30 DEF Next,
     Delivering, Serving, Leases

\* The result of a served request is never rewritten.
THEOREM ServedResultsStay == Spec => ResultsStay
<1>1. IInv /\ [Next]_vars => [ResultStays]_vars
  BY ResultStep DEF IInv
<1> QED
  BY <1>1, Inductive, PTL DEF Spec, ResultsStay, ResultStays
=============================================================================
