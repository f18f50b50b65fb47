-------------------------- MODULE EnrollmentProofs --------------------------
(* Proofs about Enrollment: the stored secret is always presentable, stays   *)
(* with the host that enrolled, and never goes back to an older one.         *)
EXTENDS Enrollment, TLAPS

\* The tokens on a host's disk.
Disk(h) == {reg[h].proof, reg[h].repl, id[h]} \ {None}

\* Hosts draw their own tokens, and a proposed token is drawn after its proof.
DiskOrdered ==
  /\ \A h \in Hosts : \A t \in Disk(h) : t <= drawn
  /\ \A g, h \in Hosts : g # h => Disk(g) \cap Disk(h) = {}
  /\ \A h \in Hosts : reg[h].repl # None => reg[h].proof # None /\ reg[h].proof < reg[h].repl

\* A running process works with the pair on its disk, and has a request in
\* progress exactly while it waits; a granted token is the one stored.
ProcessFollowsDisk ==
  \A h \in Hosts :
    /\ pc[h] \in {"ready", "waiting"} =>
         mem[h] = reg[h] /\ mem[h].repl # None /\ tries[h] < MaxTries
    /\ pc[h] = "waiting" <=> req[h].stage # "none"
    /\ req[h].stage # "none" =>
         req[h].proof = mem[h].proof /\ req[h].repl = mem[h].repl /\ req[h].host = h
    /\ req[h].stage = "answered" /\ req[h].answer = "granted" =>
         device.runtime /\ device.hash = req[h].repl
    /\ pc[h] \in {"save", "discard"} =>
         /\ token[h] # None /\ token[h] = reg[h].repl
         /\ device.runtime /\ device.hash = token[h]
    /\ pc[h] = "discard" => id[h] = token[h]

\* An abandoned request carries the pair on its host's disk, or a proof older
\* than the stored secret.
LateIsCurrentOrSpent ==
  \A r \in late :
    /\ r.stage \in {"sent", "read"}
    /\ r.proof # None /\ r.proof < r.repl
    /\ \/ r.proof = reg[r.host].proof /\ r.repl = reg[r.host].repl
       \/ r.proof < device.hash

RowShape ==
  /\ device.status = "absent" => device.hash = None
  /\ device.hash = None => ~device.runtime

IInv ==
  /\ TypeOK
  /\ DiskOrdered
  /\ ProcessFollowsDisk
  /\ LateIsCurrentOrSpent
  /\ RowShape
  /\ NeverLockedOut

-----------------------------------------------------------------------------
\* The pair a run is prepared with.
LEMMA NextPairFacts ==
  ASSUME TypeOK, DiskOrdered, NEW h \in Hosts
  PROVE  /\ NextPair(h) \in Pairs
         /\ NextPair(h).proof # None /\ NextPair(h).proof < NextPair(h).repl
         /\ Loaded(h).proof # None => NextPair(h).proof = Loaded(h).proof
         /\ Loaded(h).repl # None => NextPair(h).repl = Loaded(h).repl
         /\ NextPair(h).proof \in Disk(h) \/ NextPair(h).proof > drawn
         /\ NextPair(h).repl \in Disk(h) \/ NextPair(h).repl > drawn
         /\ Loaded(h).repl # None => NextPair(h) = reg[h]
<1>1. /\ reg[h] \in Pairs /\ id[h] \in Nat /\ drawn \in Nat
      /\ \A t \in Disk(h) : t <= drawn
      /\ reg[h].repl # None => reg[h].proof # None /\ reg[h].proof < reg[h].repl
  BY DEF TypeOK, DiskOrdered
<1>2. CASE reg[h].proof # None /\ reg[h].repl # None
  <2>1. reg[h] = [proof |-> reg[h].proof, repl |-> reg[h].repl]
    BY <1>1 DEF Pairs
  <2>2. NextPair(h) = reg[h] /\ Loaded(h) = reg[h]
    BY <1>2, <2>1 DEF NextPair, Loaded
  <2> QED
    BY <1>1, <1>2, <2>2 DEF Disk
<1>3. CASE reg[h].proof # None /\ reg[h].repl = None
  <2>1. Loaded(h) = reg[h]
    BY <1>3 DEF Loaded
  <2>2. NextPair(h) = [proof |-> reg[h].proof, repl |-> drawn + 1]
    BY <1>3, <2>1 DEF NextPair
  <2>3. reg[h].proof \in Nat /\ reg[h].proof \in Disk(h)
    BY <1>1, <1>3 DEF Pairs, Disk
  <2> QED
    BY <1>1, <1>3, <2>1, <2>2, <2>3 DEF Pairs, None
<1>4. CASE reg[h].proof = None /\ id[h] # None
  <2>1. Loaded(h) = [proof |-> id[h], repl |-> None]
    BY <1>4 DEF Loaded
  <2>2. NextPair(h) = [proof |-> id[h], repl |-> drawn + 1]
    BY <1>4, <2>1 DEF NextPair
  <2>3. id[h] \in Disk(h)
    BY <1>4 DEF Disk
  <2> QED
    BY <1>1, <1>4, <2>1, <2>2, <2>3 DEF Pairs, None
<1>5. CASE reg[h].proof = None /\ id[h] = None
  <2>1. Loaded(h) = [proof |-> None, repl |-> None]
    BY <1>5 DEF Loaded
  <2>2. NextPair(h) = [proof |-> drawn + 1, repl |-> drawn + 2]
    BY <1>1, <2>1 DEF NextPair
  <2> QED
    BY <1>1, <2>1, <2>2 DEF Pairs, None
<1> QED
  BY <1>2, <1>3, <1>4, <1>5

\* What a transaction does to the row: nothing, the first claim, or an exchange.
LEMMA CommitOutcome ==
  ASSUME TypeOK, RowShape, NEW r \in Requests, NEW a, Claim(r, a) \/ Exchange(r, a)
  PROVE  \/ UNCHANGED device /\ (a = "granted" => device.runtime /\ device.hash = r.repl)
         \/ /\ device.hash = None /\ a = "issued"
            /\ device' = [status |-> "pending", hash |-> r.proof, runtime |-> FALSE]
         \/ /\ device.hash # None /\ device.hash = r.proof /\ a = "granted"
            /\ device.status = "approved"
            /\ device' = [device EXCEPT !.hash = r.repl, !.runtime = TRUE]
<1>1. device \in DeviceRows /\ r.seen \in DeviceRows
  BY DEF TypeOK, Requests
<1>2. CASE Claim(r, a)
  BY <1>2 DEF Claim, RowShape, Unclaimed
<1>3. CASE Exchange(r, a)
  <2>1. Exchanges(r) => device = r.seen
    BY <1>1 DEF Exchanges, DeviceRows
  <2> QED
    BY <1>3, <2>1 DEF Exchange, Exchanges, Completed
<1> QED
  BY <1>2, <1>3

\* A request that may still change the row carries its host's pair, so the new
\* secret is on that host's disk and supersedes the one before.
LEMMA RowChange ==
  ASSUME IInv, NEW r \in Requests, NEW a, Claim(r, a) \/ Exchange(r, a),
         r.proof # None, r.proof < r.repl,
         \/ r.proof = reg[r.host].proof /\ r.repl = reg[r.host].repl
         \/ r.proof < device.hash,
         UNCHANGED hostVars
  PROVE  /\ device' \in DeviceRows /\ RowShape' /\ NeverLockedOut'
         /\ device'.hash >= device.hash
         /\ a = "granted" => device'.runtime /\ device'.hash = r.repl
         /\ \A h \in Hosts : Holds(h, device.hash) /\ device.hash # None => Holds(h, device.hash)'
         /\ \A h \in Hosts : device.runtime /\ device.hash = reg[h].repl /\ device.hash # None
                               => device' = device
<1>1. /\ device \in DeviceRows /\ r.proof \in Nat /\ r.repl \in Nat /\ r.host \in Hosts
      /\ reg[r.host] \in Pairs
  BY DEF IInv, TypeOK, Requests
<1>2. CASE UNCHANGED device /\ (a = "granted" => device.runtime /\ device.hash = r.repl)
  BY <1>1, <1>2 DEF IInv, RowShape, NeverLockedOut, CanPresent, Loaded, Holds, hostVars, DeviceRows
<1>3. CASE /\ device.hash = None /\ a = "issued"
           /\ device' = [status |-> "pending", hash |-> r.proof, runtime |-> FALSE]
  <2>1. r.proof = reg[r.host].proof
    BY <1>1, <1>3 DEF None
  <2>2. CanPresent(r.host)'
    BY <1>1, <1>3, <2>1 DEF CanPresent, Loaded, hostVars
  <2> QED
    BY <1>1, <1>3, <2>2 DEF IInv, RowShape, NeverLockedOut, DeviceRows, None
<1>4. CASE /\ device.hash # None /\ device.hash = r.proof /\ a = "granted"
           /\ device.status = "approved"
           /\ device' = [device EXCEPT !.hash = r.repl, !.runtime = TRUE]
  <2>1. r.proof = reg[r.host].proof /\ r.repl = reg[r.host].repl
    BY <1>1, <1>4
  <2>2. CanPresent(r.host)'
    BY <1>1, <1>4, <2>1 DEF CanPresent, Loaded, hostVars, DeviceRows
  <2>3. device' \in DeviceRows /\ device'.hash = r.repl /\ device'.runtime /\ device'.status = "approved"
    BY <1>1, <1>4 DEF DeviceRows
  <2>4. \A h \in Hosts : device.hash \in Disk(h) => h = r.host
    <3>1. device.hash \in Disk(r.host)
      BY <1>4, <2>1 DEF Disk
    <3> QED
      BY <1>1, <3>1 DEF IInv, DiskOrdered
  <2>5. \A h \in Hosts : Holds(h, device.hash) => Holds(h, device.hash)'
    BY <1>4, <2>1, <2>3, <2>4 DEF Holds, Disk, hostVars
  <2>6. \A h \in Hosts : device.hash = reg[h].repl => FALSE
    BY <1>1, <1>4, <2>1, <2>4 DEF Disk
  <2> QED
    BY <1>1, <1>4, <2>2, <2>3, <2>5, <2>6 DEF RowShape, NeverLockedOut, None
<1> QED
  BY <1>2, <1>3, <1>4, CommitOutcome DEF IInv

-----------------------------------------------------------------------------
LEMMA InitInv == Init => IInv
<1> SUFFICES ASSUME Init PROVE IInv
  OBVIOUS
<1>1. NewRow \in DeviceRows /\ [NewRow EXCEPT !.status = "pending"] \in DeviceRows
  BY DEF NewRow, DeviceRows, None
<1>2. \A h \in Hosts : NoRequest(h) \in Requests
  BY <1>1 DEF NoRequest, Requests, None
<1>3. TypeOK
  BY <1>1, <1>2, EnrollmentBounds DEF Init, TypeOK, NoPair, Pairs, Steps, None
<1>4. /\ device.hash = None /\ ~device.runtime
      /\ \A h \in Hosts : Disk(h) = {}
  BY DEF Init, NewRow, Disk, NoPair, None
<1>5. DiskOrdered /\ ProcessFollowsDisk /\ LateIsCurrentOrSpent
  BY <1>4 DEF Init, DiskOrdered, ProcessFollowsDisk, LateIsCurrentOrSpent, NoPair, NoRequest, None
<1>6. RowShape /\ NeverLockedOut
  BY <1>4 DEF RowShape, NeverLockedOut
<1> QED
  BY <1>3, <1>5, <1>6 DEF IInv

\* Loading the row into a request keeps it a request.
LEMMA LoadType ==
  ASSUME TypeOK, NEW r \in Requests
  PROVE  /\ Load(r) \in Requests /\ Load(r).stage = "read"
         /\ Load(r).host = r.host /\ Load(r).proof = r.proof /\ Load(r).repl = r.repl
  BY DEF TypeOK, Load, Requests

\* Preparing a run writes a pair that still presents whatever is stored.
LEMMA PrepareStep ==
  ASSUME IInv, NEW h \in Hosts, pc[h] = "stopped", Prepare(h), runs' \in 0..MaxRuns
  PROVE  IInv' /\ \A g \in Hosts : Holds(g, device.hash) /\ device.hash # None
                                     => Holds(g, device.hash)'
<1>1. /\ NextPair(h) \in Pairs
      /\ NextPair(h).proof # None /\ NextPair(h).proof < NextPair(h).repl
      /\ Loaded(h).proof # None => NextPair(h).proof = Loaded(h).proof
      /\ Loaded(h).repl # None => NextPair(h).repl = Loaded(h).repl
      /\ NextPair(h).proof \in Disk(h) \/ NextPair(h).proof > drawn
      /\ NextPair(h).repl \in Disk(h) \/ NextPair(h).repl > drawn
      /\ Loaded(h).repl # None => NextPair(h) = reg[h]
  BY NextPairFacts DEF IInv
<1>2. /\ drawn \in Nat /\ drawn' \in Nat /\ drawn' >= drawn /\ NextPair(h).repl <= drawn'
      /\ reg[h] \in Pairs /\ id[h] \in Nat
  <2>1. drawn \in Nat /\ reg[h] \in Pairs /\ id[h] \in Nat /\ \A t \in Disk(h) : t <= drawn
    BY DEF IInv, TypeOK, DiskOrdered
  <2>2. NextPair(h).repl \in Nat /\ NextPair(h).proof \in Nat
    BY <1>1 DEF Pairs
  <2>3. Loaded(h).repl # None => Loaded(h).repl \in Disk(h)
    BY DEF Loaded, Disk
  <2>4. Loaded(h).repl = None => NextPair(h).repl > drawn
    BY <2>1 DEF NextPair
  <2> QED
    BY <1>1, <2>1, <2>2, <2>3, <2>4 DEF Prepare
<1>3. /\ device' = device /\ late' = late /\ req' = req /\ id' = id /\ token' = token
      /\ reg' = [reg EXCEPT ![h] = reg'[h]] /\ reg'[h] \in {reg[h], NextPair(h)}
      /\ \A g \in Hosts \ {h} : mem'[g] = mem[g] /\ pc'[g] = pc[g]
      /\ \/ /\ pc'[h] = "ready"
            /\ mem'[h] = NextPair(h)
            /\ reg'[h] = NextPair(h)
         \/ pc'[h] = "stopped"
  BY DEF Prepare, IInv, TypeOK
<1>4. TypeOK'
  BY <1>1, <1>2, EnrollmentBounds DEF IInv, TypeOK, Prepare, Fault, Steps
<1>5. Disk(h)' \subseteq Disk(h) \cup {t \in Nat : t > drawn /\ t <= drawn'}
  <2>1. NextPair(h).proof \in Nat /\ NextPair(h).repl \in Nat
    BY <1>1 DEF Pairs
  <2> QED
    BY <1>1, <1>2, <1>3, <2>1 DEF Disk
<1>6. \A g \in Hosts \ {h} : Disk(g)' = Disk(g) /\ reg'[g] = reg[g]
  BY <1>3 DEF Disk, IInv, TypeOK
<1>7. DiskOrdered'
  <2>1. \A g \in Hosts : Disk(g) \subseteq Nat
    BY DEF IInv, TypeOK, Disk, Pairs
  <2>2. \A g \in Hosts : \A t \in Disk(g)' : t <= drawn'
    BY <1>2, <1>5, <1>6, <2>1 DEF IInv, DiskOrdered
  <2>3. \A g \in Hosts \ {h} : Disk(g)' \cap Disk(h)' = {}
    BY <1>2, <1>5, <1>6, <2>1 DEF IInv, DiskOrdered
  <2>4. \A f, g \in Hosts : f # g => Disk(f)' \cap Disk(g)' = {}
    BY <1>6, <2>3 DEF IInv, DiskOrdered
  <2>5. reg'[h].repl # None => reg'[h].proof # None /\ reg'[h].proof < reg'[h].repl
    BY <1>1, <1>3 DEF IInv, DiskOrdered
  <2> QED
    BY <1>6, <2>2, <2>4, <2>5 DEF IInv, DiskOrdered
<1>8. ProcessFollowsDisk'
  <2>1. pc[h] # "waiting" /\ req[h].stage = "none"
    BY DEF IInv, ProcessFollowsDisk
  <2>2. NextPair(h).repl # None
    BY <1>1 DEF Pairs, None
  <2>3. \A g \in Hosts \ {h} : tries'[g] = tries[g]
    BY DEF Prepare, IInv, TypeOK
  <2>4. pc'[h] = "ready" => tries'[h] < MaxTries
    BY EnrollmentBounds DEF Prepare, IInv, TypeOK
  <2> QED
    BY <1>3, <1>6, <2>1, <2>2, <2>3, <2>4 DEF IInv, ProcessFollowsDisk
<1>9. LateIsCurrentOrSpent'
  <2>1. ASSUME NEW r \in late
        PROVE  \/ r.proof = reg'[r.host].proof /\ r.repl = reg'[r.host].repl
               \/ r.proof < device.hash
    <3>1. /\ r \in Requests /\ r.host \in Hosts /\ r.proof # None /\ r.proof < r.repl
          /\ r.proof \in Nat /\ r.repl \in Nat
      BY <2>1 DEF IInv, TypeOK, Requests, LateIsCurrentOrSpent
    <3>2. CASE r.host = h /\ r.proof = reg[h].proof /\ r.repl = reg[h].repl
      <4>1. Loaded(h) = reg[h] /\ reg[h].repl # None
        BY <3>1, <3>2 DEF Loaded, None
      <4> QED
        BY <1>1, <1>3, <3>2, <4>1
    <3> QED
      BY <1>6, <2>1, <3>1, <3>2 DEF IInv, LateIsCurrentOrSpent
  <2> QED
    BY <1>3, <2>1 DEF IInv, LateIsCurrentOrSpent
<1>10. \A g \in Hosts : device.hash # None /\ CanPresent(g) => CanPresent(g)'
  <2>1. ASSUME device.hash # None, CanPresent(h)
        PROVE  CanPresent(h)'
    <3>1. CASE reg'[h] = reg[h]
      BY <1>3, <2>1, <3>1 DEF CanPresent, Loaded
    <3>2. CASE reg'[h] = NextPair(h)
      <4>1. Loaded(h)' = NextPair(h)
        BY <1>1, <3>2 DEF Loaded
      <4> QED
        BY <1>1, <1>3, <2>1, <4>1 DEF CanPresent
    <3> QED
      BY <1>3, <3>1, <3>2
  <2>2. \A g \in Hosts \ {h} : CanPresent(g)' = CanPresent(g)
    BY <1>3, <1>6 DEF CanPresent, Loaded
  <2> QED
    BY <2>1, <2>2
<1>11. \A g \in Hosts : Holds(g, device.hash) /\ device.hash # None => Holds(g, device.hash)'
  <2>1. ASSUME device.hash # None, Holds(h, device.hash)
        PROVE  Holds(h, device.hash)'
    BY <1>1, <1>3, <2>1 DEF Holds, Loaded, IInv, DiskOrdered
  <2> QED
    BY <1>3, <1>6, <2>1 DEF Holds
<1> QED
  BY <1>3, <1>4, <1>7, <1>8, <1>9, <1>10, <1>11 DEF IInv, RowShape, NeverLockedOut

\* What a step of a process that changes neither the row nor the tokens drawn
\* must keep: it only has to leave the tokens on disk in place.
Kept(h) ==
  /\ device' = device /\ drawn' = drawn
  /\ reg'[h] = reg[h] /\ id'[h] = id[h]
  /\ \A g \in Hosts \ {h} :
       /\ pc'[g] = pc[g] /\ mem'[g] = mem[g] /\ token'[g] = token[g]
       /\ req'[g] = req[g] /\ reg'[g] = reg[g] /\ id'[g] = id[g] /\ tries'[g] = tries[g]

LEMMA KeptStep ==
  ASSUME IInv, NEW h \in Hosts, Kept(h)
  PROVE  /\ DiskOrdered' /\ RowShape' /\ NeverLockedOut'
         /\ \A r \in late : r \in late' =>
              \/ r.proof = reg'[r.host].proof /\ r.repl = reg'[r.host].repl
              \/ r.proof < device'.hash
         /\ \A g \in Hosts : Holds(g, device.hash) => Holds(g, device.hash)'
<1>1. \A g \in Hosts : reg'[g] = reg[g] /\ id'[g] = id[g]
  BY DEF Kept
<1>2. \A g \in Hosts : Disk(g)' = Disk(g) /\ CanPresent(g)' = CanPresent(g)
  BY <1>1 DEF Disk, CanPresent, Loaded, Kept
<1>3. DiskOrdered' /\ RowShape' /\ NeverLockedOut'
  BY <1>1, <1>2 DEF Kept, IInv, DiskOrdered, RowShape, NeverLockedOut
<1>4. \A r \in late : r.host \in Hosts
  BY DEF IInv, TypeOK, Requests
<1> QED
  BY <1>1, <1>3, <1>4 DEF IInv, LateIsCurrentOrSpent, Holds, Kept

\* A request that is abandoned carries the pair on disk.
LEMMA AbandonStep ==
  ASSUME IInv, NEW h \in Hosts, Kept(h), Abandon(h)
  PROVE  /\ LateIsCurrentOrSpent' /\ late' \in SUBSET Requests
         /\ req' \in [Hosts -> Requests] /\ req'[h].stage = "none"
<1>1. req[h] \in Requests /\ late \in SUBSET Requests /\ req \in [Hosts -> Requests]
  BY DEF IInv, TypeOK
<1>2. NoRequest(h) \in Requests /\ NoRequest(h).stage = "none"
  BY DEF NoRequest, Requests, NewRow, DeviceRows, None
<1>3. req[h].stage \in {"sent", "read"} =>
        /\ req[h].host = h /\ req[h].proof = reg[h].proof /\ req[h].repl = reg[h].repl
        /\ req[h].proof # None /\ req[h].proof < req[h].repl
  BY DEF IInv, ProcessFollowsDisk, DiskOrdered
<1>4. ASSUME NEW r \in late'
      PROVE  /\ r.stage \in {"sent", "read"} /\ r.proof # None /\ r.proof < r.repl
             /\ \/ r.proof = reg'[r.host].proof /\ r.repl = reg'[r.host].repl
                \/ r.proof < device'.hash
  <2>1. CASE r \in late
    BY <1>4, <2>1, KeptStep DEF IInv, LateIsCurrentOrSpent
  <2>2. CASE r \notin late
    BY <1>3, <1>4, <2>2 DEF Abandon, Kept
  <2> QED
    BY <2>1, <2>2
<1> QED
  BY <1>1, <1>2, <1>4 DEF Abandon, LateIsCurrentOrSpent

\* Sending, losing an answer and crashing leave the files alone.
LEMMA SendStep ==
  ASSUME IInv, NEW h \in Hosts, Send(h)
  PROVE  IInv' /\ Kept(h)
<1>1. Kept(h)
  BY DEF Send, Kept, IInv, TypeOK
<1>2. mem[h] \in Pairs /\ reg[h] \in Pairs /\ mem[h] = reg[h] /\ mem[h].repl # None
  BY DEF Send, IInv, TypeOK, ProcessFollowsDisk
<1>3. /\ req'[h] \in Requests /\ req'[h].stage = "sent" /\ req'[h].host = h
      /\ req'[h].proof = mem[h].proof /\ req'[h].repl = mem[h].repl
  BY <1>2 DEF Send, IInv, TypeOK, NoRequest, Requests, Pairs, NewRow, DeviceRows, None
<1>4. TypeOK'
  BY <1>3 DEF Send, IInv, TypeOK, Steps
<1>5. ProcessFollowsDisk'
  BY <1>1, <1>2, <1>3 DEF Send, Kept, IInv, TypeOK, ProcessFollowsDisk
<1>6. LateIsCurrentOrSpent'
  BY <1>1, KeptStep DEF Send, IInv, LateIsCurrentOrSpent
<1> QED
  BY <1>1, <1>4, <1>5, <1>6, KeptStep DEF IInv

LEMMA RetryType ==
  ASSUME TypeOK, NEW h \in Hosts, pc[h] = "waiting", tries[h] < MaxTries, Retry(h)
  PROVE  /\ tries' \in [Hosts -> 0..MaxTries] /\ pc' \in [Hosts -> Steps]
         /\ pc'[h] \in {"ready", "stopped"} /\ \A g \in Hosts \ {h} : pc'[g] = pc[g]
  BY EnrollmentBounds DEF TypeOK, Retry, Steps

LEMMA LoseAnswerStep ==
  ASSUME IInv, NEW h \in Hosts, LoseAnswer(h)
  PROVE  IInv' /\ Kept(h)
<1>1. Kept(h)
  BY DEF LoseAnswer, Retry, Abandon, Kept, IInv, TypeOK
<1>2. /\ tries' \in [Hosts -> 0..MaxTries] /\ pc' \in [Hosts -> Steps]
      /\ pc'[h] \in {"ready", "stopped"}
  BY RetryType DEF LoseAnswer, IInv, ProcessFollowsDisk
<1>3. /\ LateIsCurrentOrSpent' /\ late' \in SUBSET Requests
      /\ req' \in [Hosts -> Requests] /\ req'[h].stage = "none"
  BY <1>1, AbandonStep DEF LoseAnswer
<1>4. TypeOK'
  BY <1>2, <1>3, EnrollmentBounds DEF LoseAnswer, Retry, Fault, IInv, TypeOK
<1>5. ProcessFollowsDisk'
  <2>1. pc'[h] = "ready" => tries'[h] < MaxTries
    BY DEF LoseAnswer, Retry, IInv, TypeOK
  <2> QED
    BY <1>1, <1>2, <1>3, <2>1 DEF LoseAnswer, Retry, Kept, IInv, TypeOK, ProcessFollowsDisk
<1> QED
  BY <1>1, <1>3, <1>4, <1>5, KeptStep DEF IInv

LEMMA CrashStep ==
  ASSUME IInv, NEW h \in Hosts, Crash(h)
  PROVE  IInv' /\ Kept(h)
<1>1. Kept(h)
  BY DEF Crash, Abandon, Kept, IInv, TypeOK
<1>2. /\ LateIsCurrentOrSpent' /\ late' \in SUBSET Requests
      /\ req' \in [Hosts -> Requests] /\ req'[h].stage = "none"
  BY <1>1, AbandonStep DEF Crash
<1>3. TypeOK'
  <2>1. NoPair \in Pairs /\ None \in Nat /\ 0 \in 0..MaxTries /\ "stopped" \in Steps
    BY EnrollmentBounds DEF NoPair, Pairs, None, Steps
  <2>2. faults' \in 0..MaxFaults
    BY EnrollmentBounds DEF Crash, Fault, IInv, TypeOK
  <2> QED
    BY <1>2, <2>1, <2>2 DEF Crash, IInv, TypeOK
<1>4. ProcessFollowsDisk'
  <2>1. pc'[h] = "stopped"
    BY DEF Crash, IInv, TypeOK
  <2> QED
    BY <1>1, <1>2, <2>1 DEF Kept, IInv, ProcessFollowsDisk
<1> QED
  BY <1>1, <1>2, <1>3, <1>4, KeptStep DEF IInv

\* Receiving an answer: a granted token is the stored one.
LEMMA ReceiveStep ==
  ASSUME IInv, NEW h \in Hosts, Receive(h)
  PROVE  IInv' /\ Kept(h)
<1>1. /\ mem[h] = reg[h] /\ mem[h].repl # None /\ tries[h] < MaxTries
      /\ req[h].repl = mem[h].repl /\ reg \in [Hosts -> Pairs]
      /\ req[h] \in Requests
      /\ req[h].answer = "granted" => device.runtime /\ device.hash = req[h].repl
  BY DEF Receive, IInv, TypeOK, ProcessFollowsDisk
<1>2. NoRequest(h) \in Requests /\ NoRequest(h).stage = "none"
  BY DEF NoRequest, Requests, NewRow, DeviceRows, None
<1>3. Retry(h) => /\ tries' \in [Hosts -> 0..MaxTries] /\ pc' \in [Hosts -> Steps]
                  /\ pc'[h] \in {"ready", "stopped"}
                  /\ pc'[h] = "ready" => tries'[h] < MaxTries
  <2>1. Retry(h) => (pc'[h] = "ready" => tries'[h] < MaxTries)
    BY DEF Retry, IInv, TypeOK
  <2> QED
    BY <1>1, <2>1, RetryType DEF Receive, IInv
<1>4. Kept(h)
  BY <1>1 DEF Receive, Retry, Kept, IInv, TypeOK
<1>5. TypeOK'
  <2>1. req' \in [Hosts -> Requests]
    BY <1>2 DEF Receive, IInv, TypeOK
  <2>2. reg' = reg
    BY <1>1 DEF Receive
  <2>3. CASE Retry(h) /\ UNCHANGED faults
    BY <1>3, <2>1, <2>2, <2>3 DEF Receive, Retry, IInv, TypeOK
  <2>4. CASE /\ token' = [token EXCEPT ![h] = req[h].repl] /\ pc' = [pc EXCEPT ![h] = "save"]
             /\ UNCHANGED <<mem, tries, reg, id, runs, faults>>
    BY <1>1, <2>1, <2>4 DEF Receive, IInv, TypeOK, Steps, Requests
  <2>5. CASE Fault /\ pc' = [pc EXCEPT ![h] = "stopped"]
             /\ UNCHANGED <<mem, token, tries, reg, id, runs>>
    BY <2>1, <2>5, EnrollmentBounds DEF Receive, Fault, IInv, TypeOK, Steps
  <2> QED
    BY <2>3, <2>4, <2>5 DEF Receive
<1>6. ProcessFollowsDisk'
  <2>1. req'[h].stage = "none"
    BY <1>2 DEF Receive, IInv, TypeOK
  <2>2. CASE Retry(h)
    BY <1>1, <1>3, <1>4, <2>1, <2>2 DEF Retry, Kept, IInv, TypeOK, ProcessFollowsDisk
  <2>3. CASE /\ req[h].answer = "granted"
             /\ token' = [token EXCEPT ![h] = req[h].repl] /\ pc' = [pc EXCEPT ![h] = "save"]
    BY <1>1, <1>4, <2>1, <2>3 DEF Kept, IInv, TypeOK, ProcessFollowsDisk
  <2>4. CASE pc' = [pc EXCEPT ![h] = "stopped"]
    BY <1>4, <2>1, <2>4 DEF Kept, IInv, TypeOK, ProcessFollowsDisk
  <2> QED
    BY <2>2, <2>3, <2>4 DEF Receive
<1>7. LateIsCurrentOrSpent'
  BY <1>4, KeptStep DEF Receive, IInv, LateIsCurrentOrSpent
<1> QED
  BY <1>4, <1>5, <1>6, <1>7, KeptStep DEF IInv

\* A granted token is the stored secret and the proposed token on disk, so every
\* way of writing the two files leaves a pair that presents it.
LEMMA SaveStep ==
  ASSUME IInv, NEW h \in Hosts, SaveIdentity(h) \/ DiscardProof(h)
  PROVE  IInv' /\ \A g \in Hosts : Holds(g, device.hash) => Holds(g, device.hash)'
<1>1. /\ token[h] # None /\ token[h] = reg[h].repl /\ device.runtime /\ device.hash = token[h]
      /\ pc[h] = "discard" => id[h] = token[h]
      /\ reg[h].proof # None /\ reg[h].proof < reg[h].repl
      /\ reg[h] \in Pairs /\ token[h] \in Nat /\ id[h] \in Nat
  BY DEF SaveIdentity, DiscardProof, IInv, TypeOK, ProcessFollowsDisk, DiskOrdered
<1>2. /\ device' = device /\ drawn' = drawn /\ late' = late /\ req' = req /\ token' = token
      /\ mem' = mem /\ tries' = tries
      /\ pc'[h] = "stopped" \/ (pc'[h] = "discard" /\ id'[h] = token[h] /\ reg'[h] = reg[h])
      /\ reg'[h] \in {reg[h], [proof |-> token[h], repl |-> None], NoPair}
      /\ id'[h] \in {id[h], token[h]}
      /\ reg'[h] = NoPair => id'[h] = token[h]
      /\ \A g \in Hosts \ {h} : pc'[g] = pc[g] /\ reg'[g] = reg[g] /\ id'[g] = id[g]
  <2>1. CASE SaveIdentity(h)
    BY <1>1, <2>1 DEF SaveIdentity, IInv, TypeOK, NoPair, None
  <2>2. CASE DiscardProof(h)
    BY <1>1, <2>2 DEF DiscardProof, IInv, TypeOK
  <2> QED
    BY <2>1, <2>2
<1>3. TypeOK'
  <2>1. reg' \in [Hosts -> Pairs] /\ id' \in [Hosts -> Nat] /\ pc' \in [Hosts -> Steps]
    <3>1. [proof |-> token[h], repl |-> None] \in Pairs /\ NoPair \in Pairs
          /\ "stopped" \in Steps /\ "discard" \in Steps
      BY <1>1 DEF Pairs, NoPair, None, Steps
    <3>2. CASE SaveIdentity(h)
      BY <1>1, <3>1, <3>2 DEF SaveIdentity, IInv, TypeOK
    <3>3. CASE DiscardProof(h)
      BY <3>1, <3>3 DEF DiscardProof, IInv, TypeOK
    <3> QED
      BY <3>2, <3>3
  <2> QED
    BY <1>2, <2>1, EnrollmentBounds DEF SaveIdentity, DiscardProof, Fault, IInv, TypeOK
<1>4. Disk(h)' \subseteq Disk(h)
  BY <1>1, <1>2 DEF Disk, NoPair
<1>5. DiskOrdered'
  <2>1. \A g \in Hosts \ {h} : Disk(g)' = Disk(g)
    BY <1>2 DEF Disk
  <2>2. \A g \in Hosts : Disk(g)' \subseteq Disk(g)
    BY <1>4, <2>1
  <2>3. reg'[h].repl # None => reg'[h].proof # None /\ reg'[h].proof < reg'[h].repl
    BY <1>1, <1>2 DEF NoPair
  <2> QED
    BY <1>2, <2>2, <2>3 DEF IInv, DiskOrdered
<1>6. ProcessFollowsDisk'
  <2>1. req[h].stage = "none"
    BY DEF SaveIdentity, DiscardProof, IInv, ProcessFollowsDisk
  <2> QED
    BY <1>1, <1>2, <2>1 DEF IInv, ProcessFollowsDisk
<1>7. LateIsCurrentOrSpent'
  <2>1. ASSUME NEW r \in late
        PROVE  \/ r.proof = reg'[r.host].proof /\ r.repl = reg'[r.host].repl
               \/ r.proof < device.hash
    <3>1. r.host \in Hosts /\ r.proof < r.repl
      BY <2>1 DEF IInv, TypeOK, Requests, LateIsCurrentOrSpent
    <3>2. CASE r.proof = reg[r.host].proof /\ r.repl = reg[r.host].repl
      BY <1>1, <1>2, <3>1, <3>2
    <3>3. CASE r.proof < device.hash
      BY <3>3
    <3> QED
      BY <2>1, <3>2, <3>3 DEF IInv, LateIsCurrentOrSpent
  <2> QED
    BY <1>2, <2>1 DEF IInv, LateIsCurrentOrSpent
<1>8. CanPresent(h)'
  BY <1>1, <1>2 DEF CanPresent, Loaded, NoPair
<1>9. \A g \in Hosts : Holds(g, device.hash) => Holds(g, device.hash)'
  <2>1. Holds(h, device.hash)'
    BY <1>1, <1>2 DEF Holds, NoPair
  <2> QED
    BY <1>2, <2>1 DEF Holds
<1> QED
  BY <1>2, <1>3, <1>5, <1>6, <1>7, <1>8, <1>9 DEF IInv, RowShape, NeverLockedOut

\* Reading the row only moves a request on.
LEMMA ReadStep ==
  ASSUME IInv, NEW h \in Hosts, ReadRow(h)
  PROVE  IInv' /\ Kept(h)
<1>1. req[h] \in Requests /\ Load(req[h]) \in Requests /\ Load(req[h]).stage = "read"
      /\ Load(req[h]).host = req[h].host /\ Load(req[h]).proof = req[h].proof
      /\ Load(req[h]).repl = req[h].repl
  BY LoadType DEF IInv, TypeOK
<1>2. Kept(h)
  BY DEF ReadRow, Kept, hostVars, IInv, TypeOK
<1>3. TypeOK'
  BY <1>1 DEF ReadRow, hostVars, IInv, TypeOK
<1>4. ProcessFollowsDisk'
  BY <1>1 DEF ReadRow, hostVars, IInv, TypeOK, ProcessFollowsDisk
<1>5. LateIsCurrentOrSpent'
  BY <1>2, KeptStep DEF ReadRow, IInv, LateIsCurrentOrSpent
<1> QED
  BY <1>2, <1>3, <1>4, <1>5, KeptStep DEF IInv

LEMMA ReadLateStep ==
  ASSUME IInv, NEW r \in late, ReadRowLate(r)
  PROVE  IInv' /\ \A g \in Hosts : Kept(g)
<1>1. /\ r \in Requests /\ Load(r) \in Requests /\ Load(r).stage = "read"
      /\ Load(r).host = r.host /\ Load(r).proof = r.proof /\ Load(r).repl = r.repl
  BY LoadType DEF IInv, TypeOK
<1>2. \A g \in Hosts : Kept(g)
  BY DEF ReadRowLate, Kept, hostVars
<1>3. TypeOK'
  BY <1>1 DEF ReadRowLate, hostVars, IInv, TypeOK
<1>4. ProcessFollowsDisk'
  BY DEF ReadRowLate, hostVars, IInv, ProcessFollowsDisk
<1>5. LateIsCurrentOrSpent'
  BY <1>1 DEF ReadRowLate, hostVars, IInv, LateIsCurrentOrSpent
<1> QED
  BY <1>2, <1>3, <1>4, <1>5, KeptStep, HostAssumption DEF IInv

\* The transaction of a request in progress.
LEMMA CommitStep ==
  ASSUME IInv, NEW h \in Hosts, Commit(h)
  PROVE  /\ IInv' /\ device'.hash >= device.hash
         /\ \A g \in Hosts : device.hash # None /\ Holds(g, device.hash) => Holds(g, device.hash)'
<1>1. PICK a \in {"issued", "pending", "refused", "granted"} :
        /\ Claim(req[h], a) \/ Exchange(req[h], a)
        /\ req' = [req EXCEPT ![h].stage = "answered", ![h].answer = a]
  BY DEF Commit
<1>2. /\ req[h] \in Requests /\ req[h].stage = "read" /\ req[h].host = h /\ pc[h] = "waiting"
      /\ req[h].proof = reg[h].proof /\ req[h].repl = reg[h].repl
      /\ req[h].proof # None /\ req[h].proof < req[h].repl
  BY DEF Commit, IInv, TypeOK, ProcessFollowsDisk, DiskOrdered
<1>3. /\ device' \in DeviceRows /\ RowShape' /\ NeverLockedOut'
      /\ device'.hash >= device.hash
      /\ a = "granted" => device'.runtime /\ device'.hash = req[h].repl
      /\ \A g \in Hosts : Holds(g, device.hash) /\ device.hash # None => Holds(g, device.hash)'
      /\ \A g \in Hosts : device.runtime /\ device.hash = reg[g].repl /\ device.hash # None
                            => device' = device
  BY <1>1, <1>2, RowChange DEF Commit
<1>4. /\ req'[h] \in Requests /\ req'[h].stage = "answered" /\ req'[h].answer = a
      /\ req'[h].host = h /\ req'[h].proof = req[h].proof /\ req'[h].repl = req[h].repl
      /\ \A g \in Hosts \ {h} : req'[g] = req[g]
      /\ req' \in [Hosts -> Requests]
  BY <1>1, <1>2 DEF IInv, TypeOK, Requests
<1>5. TypeOK' /\ DiskOrdered'
  BY <1>3, <1>4 DEF Commit, hostVars, IInv, TypeOK, DiskOrdered, Disk
<1>6. ProcessFollowsDisk'
  <2>1. \A g \in Hosts : pc[g] \in {"save", "discard"} => device' = device
    BY <1>3 DEF IInv, ProcessFollowsDisk
  <2>2. \A g \in Hosts : req[g].stage = "answered" /\ req[g].answer = "granted" => device' = device
    BY <1>3 DEF IInv, ProcessFollowsDisk
  <2> QED
    BY <1>2, <1>3, <1>4, <2>1, <2>2 DEF Commit, hostVars, IInv, ProcessFollowsDisk
<1>7. LateIsCurrentOrSpent'
  <2>1. \A r \in late : r.proof \in Nat /\ device.hash \in Nat /\ device'.hash \in Nat
    BY <1>3 DEF IInv, TypeOK, Requests, DeviceRows
  <2> QED
    BY <1>3, <2>1 DEF Commit, hostVars, IInv, LateIsCurrentOrSpent
<1> QED
  BY <1>3, <1>5, <1>6, <1>7 DEF IInv

\* The transaction of an abandoned request, which nobody hears of.
LEMMA CommitLateStep ==
  ASSUME IInv, NEW r \in late, CommitLate(r)
  PROVE  /\ IInv' /\ device'.hash >= device.hash
         /\ \A g \in Hosts : device.hash # None /\ Holds(g, device.hash) => Holds(g, device.hash)'
<1>1. PICK a \in {"issued", "pending", "refused", "granted"} : Claim(r, a) \/ Exchange(r, a)
  BY DEF CommitLate
<1>2. /\ r \in Requests /\ r.proof # None /\ r.proof < r.repl
      /\ \/ r.proof = reg[r.host].proof /\ r.repl = reg[r.host].repl
         \/ r.proof < device.hash
  BY DEF IInv, TypeOK, LateIsCurrentOrSpent
<1>3. /\ device' \in DeviceRows /\ RowShape' /\ NeverLockedOut'
      /\ device'.hash >= device.hash
      /\ \A g \in Hosts : Holds(g, device.hash) /\ device.hash # None => Holds(g, device.hash)'
      /\ \A g \in Hosts : device.runtime /\ device.hash = reg[g].repl /\ device.hash # None
                            => device' = device
  BY <1>1, <1>2, RowChange DEF CommitLate
<1>4. TypeOK' /\ DiskOrdered'
  BY <1>3 DEF CommitLate, hostVars, IInv, TypeOK, DiskOrdered, Disk
<1>5. ProcessFollowsDisk'
  <2>1. \A g \in Hosts :
          pc[g] \in {"save", "discard"} \/ (req[g].stage = "answered" /\ req[g].answer = "granted")
            => device' = device
    BY <1>3 DEF IInv, ProcessFollowsDisk
  <2> QED
    BY <2>1 DEF CommitLate, hostVars, IInv, ProcessFollowsDisk
<1>6. LateIsCurrentOrSpent'
  <2>1. \A q \in late : q.proof \in Nat /\ device.hash \in Nat /\ device'.hash \in Nat
    BY <1>3 DEF IInv, TypeOK, Requests, DeviceRows
  <2> QED
    BY <1>3, <2>1 DEF CommitLate, hostVars, IInv, LateIsCurrentOrSpent
<1> QED
  BY <1>3, <1>4, <1>5, <1>6 DEF IInv

LEMMA DecideStep ==
  ASSUME IInv, NEW status \in {"approved", "rejected"}, Decide(status)
  PROVE  IInv' /\ device'.hash = device.hash /\ UNCHANGED <<reg, id>>
<1>1. device \in DeviceRows
  BY DEF IInv, TypeOK
<1>2. device' \in DeviceRows /\ device'.hash = device.hash /\ device'.runtime = device.runtime
      /\ device'.status = status
  BY <1>1 DEF Decide, DeviceRows
<1>3. TypeOK' /\ DiskOrdered'
  BY <1>2 DEF Decide, hostVars, IInv, TypeOK, DiskOrdered, Disk
<1>4. ProcessFollowsDisk'
  BY <1>2 DEF Decide, hostVars, IInv, ProcessFollowsDisk
<1>5. LateIsCurrentOrSpent' /\ RowShape'
  BY <1>2 DEF Decide, hostVars, IInv, LateIsCurrentOrSpent, RowShape
<1>6. NeverLockedOut'
  BY <1>2 DEF Decide, hostVars, IInv, NeverLockedOut, CanPresent, Loaded
<1> QED
  BY <1>2, <1>3, <1>4, <1>5, <1>6 DEF Decide, hostVars, IInv

-----------------------------------------------------------------------------
\* Every step keeps the invariant, moves the secret forward only, and leaves it
\* with the host that has it.
SecretStays ==
  /\ device'.hash >= device.hash
  /\ \A h \in Hosts : device.hash # None /\ Holds(h, device.hash) => Holds(h, device.hash)'

LEMMA InvStep ==
  ASSUME IInv, [Next]_vars
  PROVE  IInv' /\ SecretStays
<1>0. device.hash \in Nat
  BY DEF IInv, TypeOK, DeviceRows
<1>1. ASSUME NEW h \in Hosts, ServiceStarts(h) \/ OperatorStarts(h)
      PROVE  IInv' /\ SecretStays
  <2>1. pc[h] = "stopped" /\ Prepare(h)
    BY <1>1 DEF ServiceStarts, OperatorStarts
  <2>2. runs' \in 0..MaxRuns
    BY <1>1, EnrollmentBounds DEF ServiceStarts, OperatorStarts, IInv, TypeOK
  <2>3. device' = device
    BY <2>1 DEF Prepare
  <2> QED
    BY <1>0, <2>1, <2>2, <2>3, PrepareStep DEF SecretStays
<1>2. ASSUME NEW h \in Hosts, Send(h) \/ Receive(h) \/ LoseAnswer(h) \/ Crash(h) \/ ReadRow(h)
      PROVE  IInv' /\ SecretStays
  <2>1. IInv' /\ Kept(h)
    BY <1>2, SendStep, ReceiveStep, LoseAnswerStep, CrashStep, ReadStep
  <2> QED
    BY <1>0, <2>1, KeptStep DEF SecretStays, Kept
<1>3. ASSUME NEW h \in Hosts, SaveIdentity(h) \/ DiscardProof(h)
      PROVE  IInv' /\ SecretStays
  <2>1. device' = device
    BY <1>3 DEF SaveIdentity, DiscardProof
  <2> QED
    BY <1>0, <1>3, <2>1, SaveStep DEF SecretStays
<1>4. ASSUME NEW h \in Hosts, Commit(h)
      PROVE  IInv' /\ SecretStays
  BY <1>4, CommitStep DEF SecretStays
<1>5. ASSUME NEW r \in late, ReadRowLate(r)
      PROVE  IInv' /\ SecretStays
  <2>1. IInv' /\ \A g \in Hosts : Kept(g)
    BY <1>5, ReadLateStep
  <2> QED
    BY <1>0, <2>1, KeptStep, HostAssumption DEF SecretStays, Kept
<1>6. ASSUME NEW r \in late, CommitLate(r)
      PROVE  IInv' /\ SecretStays
  BY <1>6, CommitLateStep DEF SecretStays
<1>7. ASSUME NEW status \in {"approved", "rejected"}, Decide(status)
      PROVE  IInv' /\ SecretStays
  BY <1>0, <1>7, DecideStep DEF SecretStays, Holds
<1>8. CASE UNCHANGED vars
  <2>1. TypeOK' /\ DiskOrdered' /\ RowShape'
    BY <1>8 DEF vars, IInv, TypeOK, DiskOrdered, Disk, RowShape
  <2>2. ProcessFollowsDisk' /\ LateIsCurrentOrSpent'
    BY <1>8 DEF vars, IInv, ProcessFollowsDisk, LateIsCurrentOrSpent
  <2>3. NeverLockedOut'
    BY <1>8 DEF vars, IInv, NeverLockedOut, CanPresent, Loaded
  <2>4. SecretStays
    BY <1>0, <1>8 DEF vars, SecretStays, Holds
  <2> QED
    BY <2>1, <2>2, <2>3, <2>4 DEF IInv
<1> QED
  BY <1>1, <1>2, <1>3, <1>4, <1>5, <1>6, <1>7, <1>8 DEF Next, Running

\* Whatever is lost, crashes or fails to be written, some host can present the
\* secret the server has stored.
THEOREM LockoutImpossible == Spec => []NeverLockedOut
<1>1. IInv => NeverLockedOut
  BY DEF IInv
<1> QED
  BY <1>1, InitInv, InvStep, PTL DEF Spec

\* Every reachable state is well typed.
THEOREM EnrollmentTypeCorrect == Spec => []TypeOK
<1>1. IInv => TypeOK
  BY DEF IInv
<1> QED
  BY <1>1, InitInv, InvStep, PTL DEF Spec

\* The first host to claim the row keeps it.
THEOREM FirstProofWins == Spec => EnrollmentStaysWithHost
<1>1. IInv /\ [Next]_vars =>
        [\A h \in Hosts : device.hash # None /\ Holds(h, device.hash) => Holds(h, device.hash)']_vars
  BY InvStep DEF SecretStays
<1> QED
  BY <1>1, InitInv, InvStep, PTL DEF Spec, EnrollmentStaysWithHost

\* A secret that was replaced never becomes valid again.
THEOREM SecretsNeverReturn == Spec => SecretsOnlyMoveForward
<1>1. IInv /\ [Next]_vars => [device.hash' >= device.hash]_vars
  BY InvStep DEF SecretStays
<1> QED
  BY <1>1, InitInv, InvStep, PTL DEF Spec, SecretsOnlyMoveForward
=============================================================================
