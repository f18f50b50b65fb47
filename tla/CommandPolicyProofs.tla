------------------------- MODULE CommandPolicyProofs -------------------------
(* Proofs about CommandPolicy: what was acknowledged is durable, and the     *)
(* policy in force only moves to higher revisions.                           *)
EXTENDS CommandPolicy, SequenceTheorems, FiniteSetTheorems, TLAPS

\* next_revision finds a highest revision.
HasHighest ==
  asg # <<>> => \E m \in DOMAIN asg : \A a \in DOMAIN asg : asg[a].rev <= asg[m].rev

\* A session about to create or queue has what it needs.
SessionsReady ==
  \A o \in Operators :
    /\ op[o].stage = "create" => op[o].cmds \in Policies
    /\ op[o].stage \in {"queue", "commit"} => op[o].asg \in DOMAIN asg

\* The file is the policy in memory, or a later one whose save was reported as failed.
FileAhead == file = mem \/ file.rev > mem.rev

\* Policy p is in force or was left behind.
Settled(p) == mem = p \/ mem.rev > p.rev

\* An answer to a command, if OK, is about a settled policy.
Sound(r) == r.ok => Settled(PolicyOf(cmd[r.cmd].asg))

\* So is every OK on an assignment, in the client, or on its way.
OKIsSettled ==
  /\ \A a \in DOMAIN asg : asg[a].status = "acknowledged" => Settled(PolicyOf(a))
  /\ \A r \in ToSet(results) : Sound(r)
  /\ \A w \in posts : \A r \in ToSet(w) : Sound(r)

\* A batch that is being answered has commands, and a post has writes left.
NothingEmpty ==
  /\ pc = "busy" => batch # <<>> \/ results # <<>>
  /\ <<>> \notin posts

IInv == TypeOK /\ HasHighest /\ SessionsReady /\ FileAhead /\ OKIsSettled /\ NothingEmpty

-----------------------------------------------------------------------------
LEMMA InitInv == Init => IInv
<1> SUFFICES ASSUME Init PROVE IInv
  OBVIOUS
<1> USE PolicyBounds DEF Init
<1>1. Default \in Policy
  BY DEF Default, Policy
<1>2. Idle \in Sessions
  BY DEF Idle, Sessions
<1>3. TypeOK
  BY <1>1, <1>2 DEF TypeOK
<1>4. HasHighest /\ SessionsReady /\ FileAhead /\ OKIsSettled /\ NothingEmpty
  BY DEF HasHighest, SessionsReady, FileAhead, OKIsSettled, NothingEmpty, Idle, ToSet
<1> QED
  BY <1>3, <1>4 DEF IInv

\* An accepted policy keeps what is settled.
LEMMA AcceptedSettles ==
  ASSUME mem \in Policy, NEW p \in Policy, Accepts(p)
  PROVE  /\ p = mem \/ p.rev > mem.rev
         /\ \A q \in Policy : Settled(q) => p = q \/ p.rev > q.rev
<1>1. p.rev \in Nat /\ mem.rev \in Nat /\ \A q \in Policy : q.rev \in Nat
  BY DEF Policy
<1>2. p.rev = mem.rev /\ p.cmds = mem.cmds => p = mem
  BY DEF Policy
<1>3. p = mem \/ p.rev > mem.rev
  BY <1>1, <1>2 DEF Accepts, Stale, Conflict
<1> QED
  BY <1>1, <1>3 DEF Settled

LEMMA AssignmentType ==
  ASSUME asg \in Seq(Assignments), NEW a \in DOMAIN asg
  PROVE  /\ asg[a] \in Assignments
         /\ asg[a].rev \in Nat /\ asg[a].cmds \in Policies
         /\ PolicyOf(a) \in Policy
<1>1. asg[a] \in Assignments
  OBVIOUS
<1>2. asg[a].rev \in Nat /\ asg[a].cmds \in Policies
  BY <1>1 DEF Assignments
<1> QED
  BY <1>1, <1>2 DEF PolicyOf, Policy

LEMMA NextRevisionType ==
  ASSUME asg \in Seq(Assignments), HasHighest
  PROVE  NextRevision \in Nat
<1>1. CASE asg = <<>>
  BY <1>1 DEF NextRevision
<1>2. CASE asg # <<>>
  <2> DEFINE Revs == {asg[a].rev : a \in DOMAIN asg}
             Top(r) == \A a \in DOMAIN asg : asg[a].rev <= r
             top == CHOOSE r \in Revs : Top(r)
  <2>1. PICK m \in DOMAIN asg : Top(asg[m].rev)
    BY <1>2 DEF HasHighest
  <2>2. top \in Revs
    BY <2>1
  <2>3. Revs \subseteq Nat
    BY AssignmentType
  <2>4. NextRevision = 1 + top
    BY <1>2 DEF NextRevision
  <2> HIDE DEF Revs, Top, top
  <2> QED
    BY <2>2, <2>3, <2>4
<1> QED
  BY <1>1, <1>2

\* Rows are only added: what refers to them stays well typed and sound.
LEMMA RowsGrow ==
  ASSUME TypeOK, OKIsSettled,
         \A i \in DOMAIN cmd : i \in DOMAIN cmd' /\ cmd'[i].asg = cmd[i].asg,
         \A a \in DOMAIN asg : a \in DOMAIN asg' /\ PolicyOf(a)' = PolicyOf(a),
         \A q \in Policy : Settled(q) => Settled(q)'
  PROVE  /\ batch \in Seq(DOMAIN cmd')
         /\ results \in Seq(Results')
         /\ posts \in SUBSET Seq(PostWrites')
         /\ \A r : r.cmd \in DOMAIN cmd /\ Sound(r) => Sound(r)'
         /\ \A r \in ToSet(results) : Sound(r)'
         /\ \A w \in posts : \A r \in ToSet(w) : Sound(r)'
<1>1. DOMAIN cmd \subseteq DOMAIN cmd'
  OBVIOUS
<1>2. Results \subseteq Results' /\ PostWrites \subseteq PostWrites'
  BY <1>1 DEF Results, PostWrites
<1>3. /\ batch \in Seq(DOMAIN cmd')
      /\ results \in Seq(Results')
      /\ posts \in SUBSET Seq(PostWrites')
  BY <1>1, <1>2, SeqMonotonic DEF TypeOK
<1>4. ASSUME NEW r, r.cmd \in DOMAIN cmd, Sound(r)
      PROVE  Sound(r)'
  <2>1. cmd[r.cmd].asg \in DOMAIN asg
    <3>1. cmd[r.cmd] \in Commands
      BY <1>4 DEF TypeOK
    <3> QED
      BY <3>1 DEF Commands
  <2>2. PolicyOf(cmd[r.cmd].asg) \in Policy
    BY <2>1, AssignmentType DEF TypeOK
  <2>3. PolicyOf(cmd[r.cmd].asg)' = PolicyOf(cmd[r.cmd].asg)
    BY <1>4, <2>1 DEF PolicyOf
  <2> QED
    BY <1>4, <2>2, <2>3 DEF Sound, Settled
<1>5. \A r \in ToSet(results) : r.cmd \in DOMAIN cmd /\ Sound(r)
  <2>1. ToSet(results) \subseteq Results
    BY DEF TypeOK, ToSet
  <2> QED
    BY <2>1 DEF Results, OKIsSettled
<1>6. \A w \in posts : \A r \in ToSet(w) : r.cmd \in DOMAIN cmd /\ Sound(r)
  <2>1. \A w \in posts : ToSet(w) \subseteq PostWrites
    BY DEF TypeOK, ToSet
  <2> QED
    BY <2>1 DEF PostWrites, OKIsSettled
<1> QED
  BY <1>3, <1>4, <1>5, <1>6

-----------------------------------------------------------------------------
(* Operators *)

\* A step that changes a session only.
LEMMA SessionStep ==
  ASSUME IInv, op' \in [Operators -> Sessions], SessionsReady',
         faults' \in 0..MaxFaults,
         UNCHANGED <<asg, cmd, clientVars, posts, late>>
  PROVE  IInv'
<1> USE DEF clientVars
<1>1. TypeOK'
  BY DEF IInv, TypeOK, Commands, Results, PostWrites
<1>2. HasHighest' /\ FileAhead' /\ NothingEmpty'
  BY DEF IInv, HasHighest, FileAhead, NothingEmpty
<1>3. OKIsSettled'
  BY DEF IInv, OKIsSettled, Sound, Settled, PolicyOf, ToSet
<1> QED
  BY <1>1, <1>2, <1>3 DEF IInv

LEMMA OperatorInv ==
  ASSUME IInv, NEW o \in Operators,
         BeginAssign(o) \/ Retry(o) \/ BeginSupersede(o) \/ Abandon(o)
  PROVE  IInv'
<1>1. Idle \in Sessions
  BY DEF Idle, Sessions
<1>2. op[o] \in Sessions
  BY DEF IInv, TypeOK
<1>3. NextRevision \in Nat /\ faults \in 0..MaxFaults /\ MaxFaults \in Nat
  BY NextRevisionType, PolicyBounds DEF IInv, TypeOK
<1>4. PICK s \in Sessions :
        /\ op' = [op EXCEPT ![o] = s]
        /\ s.stage = "create" => s.cmds \in Policies
        /\ s.stage \in {"queue", "commit"} => s.asg \in DOMAIN asg
  <2>1. CASE BeginAssign(o)
    <3>1. PICK p \in Policies :
            op' = [op EXCEPT ![o] = [@ EXCEPT !.stage = "create", !.rev = NextRevision, !.cmds = p]]
      BY <2>1 DEF BeginAssign
    <3> DEFINE s == [op[o] EXCEPT !.stage = "create", !.rev = NextRevision, !.cmds = p]
    <3>2. s \in Sessions /\ s.stage = "create" /\ s.cmds \in Policies
      BY <1>2, <1>3 DEF Sessions
    <3>3. op' = [op EXCEPT ![o] = s]
      BY <3>1
    <3> QED
      BY <3>2, <3>3
  <2>2. CASE Retry(o)
    <3>1. PICK a \in DOMAIN asg : op' = [op EXCEPT ![o] = [Idle EXCEPT !.stage = "queue", !.asg = a]]
      BY <2>2 DEF Retry
    <3> DEFINE s == [Idle EXCEPT !.stage = "queue", !.asg = a]
    <3>2. a \in Nat
      BY DEF IInv, TypeOK
    <3>3. s \in Sessions /\ s.stage = "queue" /\ s.asg = a
      BY <1>1, <3>2 DEF Sessions, Idle
    <3> QED
      BY <3>1, <3>3
  <2>3. CASE BeginSupersede(o)
    <3> DEFINE s == [op[o] EXCEPT !.stage = "commit", !.seen = Queued]
    <3>1. op' = [op EXCEPT ![o] = s] /\ op[o].stage = "queue"
      BY <2>3 DEF BeginSupersede
    <3>2. Queued \subseteq Nat
      BY DEF IInv, TypeOK, Queued
    <3>3. s \in Sessions /\ s.stage = "commit" /\ s.asg = op[o].asg
      BY <1>2, <3>2 DEF Sessions
    <3>4. s.asg \in DOMAIN asg
      BY <3>1, <3>3 DEF IInv, SessionsReady
    <3> QED
      BY <3>1, <3>3, <3>4
  <2>4. CASE Abandon(o)
    BY <1>1, <2>4 DEF Abandon, Idle
  <2> QED
    BY <2>1, <2>2, <2>3, <2>4
<1>5. op' \in [Operators -> Sessions]
  BY <1>4 DEF IInv, TypeOK
<1>6. faults' \in 0..MaxFaults /\ UNCHANGED <<asg, cmd, clientVars, posts, late>>
  <2>1. CASE Abandon(o)
    BY <1>3, <2>1 DEF Abandon, Fault
  <2>2. CASE ~Abandon(o)
    BY <1>3, <2>2 DEF BeginAssign, Retry, BeginSupersede
  <2> QED
    BY <2>1, <2>2
<1>7. SessionsReady'
  BY <1>4, <1>6 DEF SessionsReady, IInv, TypeOK
<1> QED
  BY <1>5, <1>6, <1>7, SessionStep

LEMMA CreateAssignmentInv ==
  ASSUME IInv, NEW o \in Operators, CreateAssignment(o)
  PROVE  IInv'
<1> DEFINE row == [rev |-> op[o].rev, cmds |-> op[o].cmds, status |-> "queued"]
<1>1. /\ asg' = Append(asg, row)
      /\ op' = [op EXCEPT ![o] = [Idle EXCEPT !.stage = "queue", !.asg = Len(asg')]]
      /\ op[o].stage = "create"
      /\ UNCHANGED <<cmd, mem, file, pc, batch, results, posts, late, faults>>
  BY DEF CreateAssignment, clientVars
<1>2. row \in Assignments
  <2>1. op[o] \in Sessions /\ op[o].cmds \in Policies
    BY <1>1 DEF IInv, TypeOK, SessionsReady
  <2> QED
    BY <2>1 DEF Sessions, Assignments
<1>3. asg \in Seq(Assignments)
  BY DEF IInv, TypeOK
<1> HIDE DEF row
<1>4. /\ asg' \in Seq(Assignments)
      /\ Len(asg') = Len(asg) + 1
      /\ \A a \in DOMAIN asg : a \in DOMAIN asg' /\ asg'[a] = asg[a]
      /\ asg'[Len(asg')] = row
      /\ DOMAIN asg' = DOMAIN asg \cup {Len(asg')}
  BY <1>1, <1>2, <1>3
<1>5. /\ \A a \in DOMAIN asg : a \in DOMAIN asg' /\ PolicyOf(a)' = PolicyOf(a)
      /\ \A q \in Policy : Settled(q) => Settled(q)'
  BY <1>1, <1>4 DEF PolicyOf, Settled
<1>6. TypeOK'
  <2>1. Commands \subseteq Commands'
    BY <1>4 DEF Commands
  <2>2. cmd \in Seq(Commands')
    BY <2>1, SeqMonotonic DEF IInv, TypeOK
  <2>3. [Idle EXCEPT !.stage = "queue", !.asg = Len(asg')] \in Sessions
    <3>1. Len(asg') \in Nat
      BY <1>4
    <3> QED
      BY <3>1 DEF Idle, Sessions
  <2>4. op' \in [Operators -> Sessions]
    BY <1>1, <2>3 DEF IInv, TypeOK
  <2>5. Results' = Results /\ PostWrites' = PostWrites
    BY <1>1 DEF Results, PostWrites
  <2> QED
    BY <1>1, <1>4, <2>2, <2>4, <2>5 DEF IInv, TypeOK
<1>7. HasHighest'
  <2>1. \A a \in DOMAIN asg' : asg'[a].rev \in Nat
    <3>1. asg' \in Seq(Assignments)
      BY <1>4
    <3>2. \A a \in DOMAIN asg' : asg'[a] \in Assignments
      BY <3>1
    <3> QED
      BY <3>2 DEF Assignments
  <2>2. CASE asg = <<>>
    <3> DEFINE n == Len(asg')
    <3>1. n \in DOMAIN asg' /\ DOMAIN asg' = {n}
      BY <1>4, <2>2
    <3>2. \A a \in DOMAIN asg' : asg'[a].rev <= asg'[n].rev
      BY <2>1, <3>1
    <3> QED
      BY <3>1, <3>2 DEF HasHighest
  <2>3. CASE asg # <<>>
    <3>1. PICK m \in DOMAIN asg : \A a \in DOMAIN asg : asg[a].rev <= asg[m].rev
      BY <2>3 DEF IInv, HasHighest
    <3>2. CASE row.rev <= asg[m].rev
      <4>1. \A a \in DOMAIN asg' : asg'[a].rev <= asg'[m].rev
        BY <1>4, <2>1, <3>1, <3>2
      <4>2. m \in DOMAIN asg'
        BY <1>4
      <4> QED
        BY <4>1, <4>2 DEF HasHighest
    <3>3. CASE ~(row.rev <= asg[m].rev)
      <4> DEFINE n == Len(asg')
      <4>1. n \in DOMAIN asg' /\ asg'[n] = row
        BY <1>4
      <4>2. \A a \in DOMAIN asg' : asg'[a].rev <= asg'[n].rev
        BY <1>4, <2>1, <3>1, <3>3, <4>1
      <4> QED
        BY <4>1, <4>2 DEF HasHighest
    <3> QED
      BY <3>2, <3>3
  <2> QED
    BY <2>2, <2>3
<1>8. SessionsReady'
  <2>1. op \in [Operators -> Sessions]
    BY DEF IInv, TypeOK
  <2>2. op'[o].stage = "queue" /\ op'[o].asg = Len(asg')
    BY <1>1, <2>1 DEF Idle
  <2>3. \A x \in Operators \ {o} : op'[x] = op[x]
    BY <1>1, <2>1
  <2>4. Len(asg') \in DOMAIN asg'
    BY <1>3, <1>4
  <2> QED
    BY <1>4, <2>2, <2>3, <2>4 DEF IInv, SessionsReady
<1>9. FileAhead' /\ NothingEmpty'
  BY <1>1 DEF IInv, FileAhead, NothingEmpty
<1>10. OKIsSettled'
  <2>1. /\ \A r \in ToSet(results) : Sound(r)'
        /\ \A w \in posts : \A r \in ToSet(w) : Sound(r)'
    BY <1>1, <1>5, RowsGrow DEF IInv
  <2>2. \A a \in DOMAIN asg' : asg'[a].status = "acknowledged" => Settled(PolicyOf(a))'
    <3> SUFFICES ASSUME NEW a \in DOMAIN asg', asg'[a].status = "acknowledged"
                 PROVE  Settled(PolicyOf(a))'
      OBVIOUS
    <3>1. a \in DOMAIN asg /\ asg[a].status = "acknowledged"
      BY <1>4 DEF row
    <3>2. Settled(PolicyOf(a))
      BY <3>1 DEF IInv, OKIsSettled
    <3> QED
      BY <1>1, <1>5, <3>1, <3>2 DEF Settled
  <2> QED
    BY <1>1, <2>1, <2>2 DEF OKIsSettled
<1> QED
  BY <1>6, <1>7, <1>8, <1>9, <1>10 DEF IInv

\* Commands are marked and added; assignments and the client's policy stay.
LEMMA CommandRowsStep ==
  ASSUME IInv,
         cmd' \in Seq(Commands),
         \A i \in DOMAIN cmd : i \in DOMAIN cmd' /\ cmd'[i].asg = cmd[i].asg,
         UNCHANGED <<asg, mem, file, results, posts>>
  PROVE  /\ HasHighest' /\ FileAhead' /\ OKIsSettled'
         /\ cmd' \in Seq(Commands')
         /\ batch \in Seq(DOMAIN cmd')
         /\ results' \in Seq(Results')
         /\ posts' \in SUBSET Seq(PostWrites')
<1>1. /\ \A a \in DOMAIN asg : a \in DOMAIN asg' /\ PolicyOf(a)' = PolicyOf(a)
      /\ \A q \in Policy : Settled(q) => Settled(q)'
  BY DEF PolicyOf, Settled
<1>2. /\ batch \in Seq(DOMAIN cmd')
      /\ results \in Seq(Results')
      /\ posts \in SUBSET Seq(PostWrites')
      /\ \A r \in ToSet(results) : Sound(r)'
      /\ \A w \in posts : \A r \in ToSet(w) : Sound(r)'
  BY <1>1, RowsGrow DEF IInv
<1>3. Commands' = Commands
  BY DEF Commands
<1>4. \A a \in DOMAIN asg' : asg'[a].status = "acknowledged" => Settled(PolicyOf(a))'
  BY DEF IInv, OKIsSettled, Settled, PolicyOf
<1>5. OKIsSettled'
  BY <1>2, <1>4 DEF OKIsSettled
<1> QED
  BY <1>2, <1>3, <1>5 DEF IInv, HasHighest, FileAhead

LEMMA CommitQueueInv ==
  ASSUME IInv, NEW o \in Operators, CommitQueue(o)
  PROVE  IInv'
<1> DEFINE Superseded(i) == i \in op[o].seen /\ cmd[i].state = "queued"
           kept == [i \in DOMAIN cmd |->
                      IF Superseded(i) THEN [cmd[i] EXCEPT !.state = "superseded"] ELSE cmd[i]]
           row == [asg |-> op[o].asg, state |-> "queued"]
<1>1. /\ cmd' = Append(kept, row)
      /\ op' = [op EXCEPT ![o] = Idle]
      /\ op[o].stage = "commit"
      /\ UNCHANGED <<asg, mem, file, pc, batch, results, posts, late, faults>>
  BY DEF CommitQueue, QueueReplacement, clientVars
<1>2. row \in Commands
  BY <1>1 DEF IInv, SessionsReady, Commands
<1>3. /\ kept \in Seq(Commands)
      /\ DOMAIN kept = DOMAIN cmd
      /\ \A i \in DOMAIN cmd : kept[i].asg = cmd[i].asg
  <2>1. cmd \in Seq(Commands) /\ \A i \in DOMAIN cmd : cmd[i] \in Commands
    BY DEF IInv, TypeOK
  <2>2. \A i \in DOMAIN cmd : kept[i] \in Commands /\ kept[i].asg = cmd[i].asg
    BY <2>1 DEF Commands
  <2>3. kept \in [1..Len(cmd) -> Commands] /\ Len(cmd) \in Nat
    BY <2>1, <2>2
  <2>4. kept \in Seq(Commands)
    BY <2>3
  <2> QED
    BY <2>2, <2>4
<1> HIDE DEF kept, row
<1>4. /\ cmd' \in Seq(Commands)
      /\ \A i \in DOMAIN cmd : i \in DOMAIN cmd' /\ cmd'[i].asg = cmd[i].asg
  BY <1>1, <1>2, <1>3
<1>5. /\ HasHighest' /\ FileAhead' /\ OKIsSettled'
      /\ cmd' \in Seq(Commands')
      /\ batch \in Seq(DOMAIN cmd')
      /\ results' \in Seq(Results')
      /\ posts' \in SUBSET Seq(PostWrites')
  BY <1>1, <1>4, CommandRowsStep
<1>6. op' \in [Operators -> Sessions]
  BY <1>1 DEF IInv, TypeOK, Idle, Sessions
<1>7. TypeOK'
  <2>1. Assignments' = Assignments /\ Sessions' = Sessions /\ Policy' = Policy
    BY DEF Assignments, Sessions, Policy
  <2> QED
    BY <1>1, <1>5, <1>6, <2>1 DEF IInv, TypeOK
<1>8. SessionsReady' /\ NothingEmpty'
  BY <1>1 DEF IInv, TypeOK, SessionsReady, NothingEmpty, Idle
<1> QED
  BY <1>5, <1>7, <1>8 DEF IInv

-----------------------------------------------------------------------------
(* The client *)

\* Any order of a finite set lists each of its elements.
LEMMA OrderOfSet ==
  ASSUME NEW S, IsFiniteSet(S), S # {}, NEW s \in SetToSeqs(S)
  PROVE  s \in Seq(S) /\ s # <<>>
<1>1. Cardinality(S) \in Nat /\ Cardinality(S) # 0
  BY FS_CardinalityType, FS_EmptySet
<1>2. s \in [1..Cardinality(S) -> S]
  BY DEF SetToSeqs
<1> QED
  BY <1>1, <1>2

LEMMA HeartbeatInv ==
  ASSUME IInv, Heartbeat
  PROVE  IInv'
<1>1. PICK skip \in SUBSET (Queued \cap Locked) :
        LET got == Queued \ skip IN
        /\ got # {}
        /\ cmd' = [i \in DOMAIN cmd |->
                     IF i \in got THEN [cmd[i] EXCEPT !.state = "delivered"] ELSE cmd[i]]
        /\ \/ batch' \in SetToSeqs(got) /\ pc' = "busy" /\ UNCHANGED faults
           \/ Fault /\ UNCHANGED <<pc, batch>>
  BY DEF Heartbeat
<1> DEFINE got == Queued \ skip
<1>2. UNCHANGED <<asg, op, mem, file, results, posts, late>> /\ pc = "idle"
  BY DEF Heartbeat
<1>3. /\ cmd' \in Seq(Commands)
      /\ DOMAIN cmd' = DOMAIN cmd
      /\ \A i \in DOMAIN cmd : cmd'[i].asg = cmd[i].asg
  <2>1. cmd \in Seq(Commands) /\ \A i \in DOMAIN cmd : cmd[i] \in Commands
    BY DEF IInv, TypeOK
  <2>2. DOMAIN cmd' = DOMAIN cmd
    BY <1>1
  <2>3. \A i \in DOMAIN cmd : cmd'[i] \in Commands /\ cmd'[i].asg = cmd[i].asg
    BY <1>1, <2>1 DEF Commands
  <2>4. cmd' \in [1..Len(cmd) -> Commands] /\ Len(cmd) \in Nat
    BY <1>1, <2>1, <2>3
  <2> QED
    BY <2>2, <2>3, <2>4
<1>4. /\ HasHighest' /\ FileAhead' /\ OKIsSettled'
      /\ cmd' \in Seq(Commands')
      /\ batch \in Seq(DOMAIN cmd')
      /\ results' \in Seq(Results')
      /\ posts' \in SUBSET Seq(PostWrites')
  BY <1>2, <1>3, CommandRowsStep
<1>5. /\ pc' \in {"idle", "busy"} /\ batch' \in Seq(DOMAIN cmd') /\ faults' \in 0..MaxFaults
      /\ pc' = "busy" => batch' # <<>>
  <2>1. CASE batch' \in SetToSeqs(got) /\ pc' = "busy" /\ UNCHANGED faults
    <3>1. got \subseteq DOMAIN cmd /\ IsFiniteSet(DOMAIN cmd)
      BY FS_Interval DEF IInv, TypeOK, Queued
    <3>2. IsFiniteSet(got)
      BY <3>1, FS_Subset
    <3>3. batch' \in Seq(got) /\ batch' # <<>>
      BY <1>1, <2>1, <3>2, OrderOfSet
    <3> QED
      BY <1>3, <2>1, <3>1, <3>3, SeqMonotonic DEF IInv, TypeOK
  <2>2. CASE Fault /\ UNCHANGED <<pc, batch>>
    BY <1>2, <1>4, <2>2, PolicyBounds DEF Fault, IInv, TypeOK
  <2> QED
    BY <1>1, <2>1, <2>2
<1>6. TypeOK'
  <2>1. Assignments' = Assignments /\ Sessions' = Sessions /\ Policy' = Policy
    BY DEF Assignments, Sessions, Policy
  <2> QED
    BY <1>2, <1>4, <1>5, <2>1 DEF IInv, TypeOK
<1>7. SessionsReady' /\ NothingEmpty'
  BY <1>2, <1>5 DEF IInv, SessionsReady, NothingEmpty
<1> QED
  BY <1>4, <1>6, <1>7 DEF IInv

\* A step of the client that leaves the server alone, and only settles more.
LEMMA ClientStep ==
  ASSUME IInv,
         UNCHANGED <<asg, cmd, op>>,
         mem' \in Policy, file' \in Policy,
         pc' \in {"idle", "busy", "sending"}, batch' \in Seq(DOMAIN cmd),
         results' \in Seq(Results), posts' \in SUBSET Seq(PostWrites),
         late' \in 0..MaxLate, faults' \in 0..MaxFaults,
         \A q \in Policy : Settled(q) => Settled(q)'
  PROVE  /\ TypeOK' /\ HasHighest' /\ SessionsReady'
         /\ \A a \in DOMAIN asg' : asg'[a].status = "acknowledged" => Settled(PolicyOf(a))'
         /\ \A r \in ToSet(results) : Sound(r)'
         /\ \A w \in posts : \A r \in ToSet(w) : Sound(r)'
<1>1. /\ Assignments' = Assignments /\ Sessions' = Sessions /\ Policy' = Policy
      /\ Commands' = Commands /\ Results' = Results /\ PostWrites' = PostWrites
  BY DEF Assignments, Sessions, Policy, Commands, Results, PostWrites
<1>2. TypeOK'
  BY <1>1 DEF IInv, TypeOK
<1>3. \A a \in DOMAIN asg : PolicyOf(a)' = PolicyOf(a) /\ PolicyOf(a) \in Policy
  BY AssignmentType DEF PolicyOf, IInv, TypeOK
<1>4. \A a \in DOMAIN asg' : asg'[a].status = "acknowledged" => Settled(PolicyOf(a))'
  BY <1>3 DEF IInv, OKIsSettled, Settled
<1>5. /\ \A r \in ToSet(results) : Sound(r)'
      /\ \A w \in posts : \A r \in ToSet(w) : Sound(r)'
  BY <1>3, RowsGrow DEF IInv
<1> QED
  BY <1>2, <1>4, <1>5 DEF IInv, HasHighest, SessionsReady

LEMMA ToSetAppend ==
  ASSUME NEW S, NEW s \in Seq(S), NEW e \in S
  PROVE  ToSet(Append(s, e)) = ToSet(s) \cup {e}
<1>1. DOMAIN Append(s, e) = DOMAIN s \cup {Len(s) + 1}
  OBVIOUS
<1>2. /\ \A i \in DOMAIN s : Append(s, e)[i] = s[i]
      /\ Append(s, e)[Len(s) + 1] = e
  OBVIOUS
<1> QED
  BY ONLY <1>1, <1>2 DEF ToSet

LEMMA AnswerInv ==
  ASSUME IInv, NEW p \in Policy, NEW ok \in BOOLEAN, Answer(p, ok),
         mem' \in Policy, file' \in Policy, faults' \in 0..MaxFaults,
         FileAhead',
         \A q \in Policy : Settled(q) => Settled(q)',
         ok => Settled(p)'
  PROVE  IInv'
<1> DEFINE r == [cmd |-> Head(batch), ok |-> ok]
<1>1. /\ pc = "busy" /\ batch # <<>> /\ p = PolicyOf(cmd[Head(batch)].asg)
      /\ results' = Append(results, r) /\ batch' = Tail(batch)
      /\ UNCHANGED <<asg, cmd, op, pc, posts, late>>
  BY DEF Answer, serverVars
<1>2. Head(batch) \in DOMAIN cmd /\ Tail(batch) \in Seq(DOMAIN cmd)
  BY <1>1, HeadTailProperties DEF IInv, TypeOK
<1>3. r \in Results /\ r.cmd = Head(batch) /\ r.ok = ok
  BY <1>2 DEF Results
<1> HIDE DEF r
<1>4. results \in Seq(Results) /\ results' \in Seq(Results) /\ results' # <<>>
  <2>1. results \in Seq(Results)
    BY DEF IInv, TypeOK
  <2> QED
    BY <1>1, <1>3, <2>1, AppendProperties
<1>5. /\ TypeOK' /\ HasHighest' /\ SessionsReady'
      /\ \A a \in DOMAIN asg' : asg'[a].status = "acknowledged" => Settled(PolicyOf(a))'
      /\ \A x \in ToSet(results) : Sound(x)'
      /\ \A w \in posts : \A x \in ToSet(w) : Sound(x)'
  BY <1>1, <1>2, <1>4, ClientStep DEF IInv, TypeOK
<1>6. ASSUME NEW x, x = r
      PROVE  Sound(x)'
  <2>1. x.ok = ok /\ cmd'[x.cmd] = cmd[Head(batch)]
    BY <1>1, <1>3, <1>6
  <2>2. PolicyOf(cmd[x.cmd].asg)' = p
    BY <1>1, <2>1 DEF PolicyOf
  <2> QED
    BY <2>1, <2>2 DEF Sound, Settled
<1>7. \A x \in ToSet(results') : Sound(x)'
  <2>1. ToSet(results') = ToSet(results) \cup {r}
    BY <1>1, <1>3, <1>4, ToSetAppend
  <2> QED
    BY <1>5, <1>6, <2>1
<1>8. OKIsSettled'
  BY <1>1, <1>5, <1>7 DEF OKIsSettled
<1>9. NothingEmpty'
  BY <1>1, <1>4 DEF IInv, NothingEmpty
<1> QED
  BY <1>5, <1>8, <1>9 DEF IInv

LEMMA ExecuteInv ==
  ASSUME IInv, Execute
  PROVE  IInv'
<1>1. PICK p \in Policy : ApplyPolicy(p) \/ FailSave(p) \/ Reject(p) \/ FailFetch(p)
  BY AssignmentType DEF Execute, IInv, TypeOK
<1>2. /\ mem \in Policy /\ file \in Policy
      /\ faults \in 0..MaxFaults /\ MaxFaults \in Nat /\ FileAhead
  BY PolicyBounds DEF IInv, TypeOK
<1>3. CASE ApplyPolicy(p)
  <2>1. Answer(p, TRUE) /\ Accepts(p) /\ mem' = p /\ file' = p
    BY <1>3 DEF ApplyPolicy
  <2>2. \A q \in Policy : Settled(q) => Settled(q)'
    BY <1>2, <2>1, AcceptedSettles DEF Settled
  <2>3. FileAhead' /\ Settled(p)'
    BY <2>1 DEF FileAhead, Settled
  <2>4. faults' = faults
    BY <1>2, <1>3 DEF ApplyPolicy
  <2> QED
    BY <1>2, <2>1, <2>2, <2>3, <2>4, AnswerInv
<1>4. CASE FailSave(p)
  <2>1. /\ Answer(p, FALSE) /\ Accepts(p) /\ file' \in {file, p}
        /\ mem' = mem /\ Fault
    BY <1>4 DEF FailSave
  <2>2. FileAhead'
    BY <1>2, <2>1, AcceptedSettles DEF FileAhead
  <2>3. \A q \in Policy : Settled(q) => Settled(q)'
    BY <2>1 DEF Settled
  <2>4. file' \in Policy
    BY <1>2, <2>1
  <2>5. faults' \in 0..MaxFaults
    BY <1>2, <2>1 DEF Fault
  <2> QED
    BY <1>2, <2>1, <2>2, <2>3, <2>4, <2>5, AnswerInv
<1>5. CASE Reject(p) \/ FailFetch(p)
  <2>1. /\ Answer(p, FALSE) /\ UNCHANGED <<mem, file>>
        /\ Fault \/ faults' = faults
    BY <1>5 DEF Reject, FailFetch
  <2>2. FileAhead' /\ \A q \in Policy : Settled(q) => Settled(q)'
    BY <1>2, <2>1 DEF FileAhead, Settled
  <2>3. faults' \in 0..MaxFaults
    BY <1>2, <2>1 DEF Fault
  <2> QED
    BY <1>2, <2>1, <2>2, <2>3, AnswerInv
<1> QED
  BY <1>1, <1>3, <1>4, <1>5

\* A post is written for its results, and says nothing else.
LEMMA WritesFacts ==
  ASSUME NEW rs \in Seq(Results), rs # <<>>
  PROVE  /\ Writes(rs) \in Seq(PostWrites)
         /\ Writes(rs) # <<>>
         /\ \A w \in ToSet(Writes(rs)) : \E r \in ToSet(rs) : w.cmd = r.cmd /\ w.ok = r.ok
<1> DEFINE Part(k) == [i \in DOMAIN rs |-> [write |-> k, cmd |-> rs[i].cmd, ok |-> rs[i].ok]]
<1>1. Len(rs) \in Nat /\ Len(rs) # 0 /\ DOMAIN rs = 1..Len(rs)
  OBVIOUS
<1>2. \A i \in DOMAIN rs : rs[i] \in ToSet(rs) /\ rs[i].cmd \in DOMAIN cmd /\ rs[i].ok \in BOOLEAN
  <2>1. \A i \in DOMAIN rs : rs[i] \in Results
    OBVIOUS
  <2> QED
    BY <2>1 DEF ToSet, Results
<1>3. ASSUME NEW k \in {"status", "ack"}
      PROVE  /\ Part(k) \in Seq(PostWrites)
             /\ Len(Part(k)) = Len(rs)
             /\ \A i \in DOMAIN rs : Part(k)[i].cmd = rs[i].cmd /\ Part(k)[i].ok = rs[i].ok
  <2>1. \A i \in DOMAIN rs : Part(k)[i] \in PostWrites
    BY <1>2 DEF PostWrites
  <2>2. Part(k) \in [1..Len(rs) -> PostWrites]
    BY <1>1, <2>1
  <2>3. Part(k) \in Seq(PostWrites) /\ Len(Part(k)) = Len(rs)
    BY <1>1, <2>2
  <2> QED
    BY <2>3
<1>4. Writes(rs) = Part("status") \o Part("ack")
  BY DEF Writes
<1> HIDE DEF Part
<1>5. /\ Writes(rs) \in Seq(PostWrites)
      /\ Len(Writes(rs)) = Len(rs) + Len(rs)
      /\ \A i \in 1..(Len(rs) + Len(rs)) :
           Writes(rs)[i] = IF i <= Len(rs) THEN Part("status")[i] ELSE Part("ack")[i - Len(rs)]
  <2> DEFINE P == Part("status")
             Q == Part("ack")
  <2>1. P \in Seq(PostWrites) /\ Q \in Seq(PostWrites) /\ Len(P) = Len(rs) /\ Len(Q) = Len(rs)
    BY <1>3
  <2>2. Writes(rs) = P \o Q
    BY <1>4
  <2> HIDE DEF P, Q
  <2>3. /\ P \o Q \in Seq(PostWrites)
        /\ Len(P \o Q) = Len(P) + Len(Q)
        /\ \A i \in 1..(Len(P) + Len(Q)) :
             (P \o Q)[i] = IF i <= Len(P) THEN P[i] ELSE Q[i - Len(P)]
    BY <2>1, ConcatProperties
  <2> QED
    BY <2>1, <2>2, <2>3 DEF P, Q
<1>6. ASSUME NEW i \in DOMAIN Writes(rs)
      PROVE  \E r \in ToSet(rs) : Writes(rs)[i].cmd = r.cmd /\ Writes(rs)[i].ok = r.ok
  <2>1. i \in 1..(Len(rs) + Len(rs))
    BY <1>5
  <2>2. CASE i <= Len(rs)
    <3>1. i \in DOMAIN rs /\ Writes(rs)[i] = Part("status")[i]
      BY <1>1, <1>5, <2>1, <2>2
    <3> QED
      BY <1>2, <1>3, <3>1
  <2>3. CASE ~(i <= Len(rs))
    <3>1. i - Len(rs) \in DOMAIN rs /\ Writes(rs)[i] = Part("ack")[i - Len(rs)]
      BY <1>1, <1>5, <2>1, <2>3
    <3> QED
      BY <1>2, <1>3, <3>1
  <2> QED
    BY <2>2, <2>3
<1>7. Writes(rs) # <<>>
  BY <1>1, <1>5
<1> QED
  BY <1>5, <1>6, <1>7 DEF ToSet

LEMMA SendResultsInv ==
  ASSUME IInv, SendResults
  PROVE  IInv'
<1>1. /\ batch = <<>> /\ pc = "busy" /\ pc' = "sending"
      /\ posts' = posts \cup {Writes(results)}
      /\ UNCHANGED <<asg, cmd, op, mem, file, batch, results, late, faults>>
  BY DEF SendResults, serverVars
<1>2. results \in Seq(Results) /\ results # <<>>
  BY <1>1 DEF IInv, TypeOK, NothingEmpty
<1>3. /\ Writes(results) \in Seq(PostWrites) /\ Writes(results) # <<>>
      /\ \A w \in ToSet(Writes(results)) :
           \E r \in ToSet(results) : w.cmd = r.cmd /\ w.ok = r.ok
  BY <1>2, WritesFacts
<1>4. \A q \in Policy : Settled(q) => Settled(q)'
  BY <1>1 DEF Settled
<1>5. /\ TypeOK' /\ HasHighest' /\ SessionsReady'
      /\ \A a \in DOMAIN asg' : asg'[a].status = "acknowledged" => Settled(PolicyOf(a))'
      /\ \A r \in ToSet(results) : Sound(r)'
      /\ \A w \in posts : \A r \in ToSet(w) : Sound(r)'
  BY <1>1, <1>3, <1>4, ClientStep DEF IInv, TypeOK
<1>6. \A w \in ToSet(Writes(results)) : Sound(w)'
  BY <1>3, <1>5 DEF Sound
<1>7. OKIsSettled'
  BY <1>1, <1>5, <1>6 DEF OKIsSettled
<1>8. FileAhead' /\ NothingEmpty'
  BY <1>1, <1>3 DEF IInv, FileAhead, NothingEmpty
<1> QED
  BY <1>5, <1>7, <1>8 DEF IInv

LEMMA FinishPollInv ==
  ASSUME IInv, FinishPoll
  PROVE  IInv'
<1>1. /\ pc' = "idle" /\ results' = <<>>
      /\ late' = late \/ (late < MaxLate /\ late' = late + 1)
      /\ UNCHANGED <<asg, cmd, op, mem, file, batch, posts, faults>>
  BY DEF FinishPoll, serverVars
<1>2. late' \in 0..MaxLate
  BY <1>1, PolicyBounds DEF IInv, TypeOK
<1>3. /\ TypeOK' /\ HasHighest' /\ SessionsReady'
      /\ \A a \in DOMAIN asg' : asg'[a].status = "acknowledged" => Settled(PolicyOf(a))'
      /\ \A w \in posts : \A r \in ToSet(w) : Sound(r)'
  BY <1>1, <1>2, ClientStep DEF IInv, TypeOK, Settled
<1>4. OKIsSettled'
  BY <1>1, <1>3 DEF OKIsSettled, ToSet
<1> QED
  BY <1>1, <1>3, <1>4 DEF IInv, FileAhead, NothingEmpty

LEMMA RestartInv ==
  ASSUME IInv, Restart
  PROVE  IInv'
<1>1. /\ mem' = file /\ pc' = "idle" /\ batch' = <<>> /\ results' = <<>>
      /\ Fault
      /\ UNCHANGED <<asg, cmd, op, file, posts, late>>
  BY DEF Restart, serverVars
<1>2. faults' \in 0..MaxFaults
  BY <1>1, PolicyBounds DEF Fault, IInv, TypeOK
<1>3. \A q \in Policy : Settled(q) => Settled(q)'
  <2>1. mem.rev \in Nat /\ file.rev \in Nat /\ \A q \in Policy : q.rev \in Nat
    BY DEF IInv, TypeOK, Policy
  <2> QED
    BY <1>1, <2>1 DEF IInv, FileAhead, Settled
<1>4. /\ TypeOK' /\ HasHighest' /\ SessionsReady'
      /\ \A a \in DOMAIN asg' : asg'[a].status = "acknowledged" => Settled(PolicyOf(a))'
      /\ \A w \in posts : \A r \in ToSet(w) : Sound(r)'
  BY <1>1, <1>2, <1>3, ClientStep DEF IInv, TypeOK
<1>5. OKIsSettled'
  BY <1>1, <1>4 DEF OKIsSettled, ToSet
<1> QED
  BY <1>1, <1>4, <1>5 DEF IInv, FileAhead, NothingEmpty

-----------------------------------------------------------------------------
(* The result controller *)

LEMMA LosePostInv ==
  ASSUME IInv, LosePost
  PROVE  IInv'
<1>1. /\ Fault /\ posts' \subseteq posts
      /\ UNCHANGED <<asg, cmd, op, mem, file, pc, batch, results, late>>
  BY DEF LosePost, serverVars, clientVars
<1>2. faults' \in 0..MaxFaults
  BY <1>1, PolicyBounds DEF Fault, IInv, TypeOK
<1>3. /\ TypeOK' /\ HasHighest' /\ SessionsReady'
      /\ \A a \in DOMAIN asg' : asg'[a].status = "acknowledged" => Settled(PolicyOf(a))'
      /\ \A r \in ToSet(results) : Sound(r)'
      /\ \A w \in posts : \A r \in ToSet(w) : Sound(r)'
  BY <1>1, <1>2, ClientStep DEF IInv, TypeOK, Settled
<1>4. OKIsSettled'
  BY <1>1, <1>3 DEF OKIsSettled
<1> QED
  BY <1>1, <1>3, <1>4 DEF IInv, FileAhead, NothingEmpty

\* Recording a sound write keeps the rows typed, named and settled.
LEMMA RecordFacts ==
  ASSUME IInv, NEW w \in PostWrites, Sound(w), Record(w), UNCHANGED <<mem, op>>
  PROVE  /\ asg' \in Seq(Assignments) /\ cmd' \in Seq(Commands') /\ DOMAIN asg' = DOMAIN asg
         /\ \A i \in DOMAIN cmd : i \in DOMAIN cmd' /\ cmd'[i].asg = cmd[i].asg
         /\ \A a \in DOMAIN asg : asg'[a].rev = asg[a].rev /\ PolicyOf(a)' = PolicyOf(a)
         /\ \A a \in DOMAIN asg' : asg'[a].status = "acknowledged" => Settled(PolicyOf(a))'
<1>1. /\ asg \in Seq(Assignments) /\ cmd \in Seq(Commands)
      /\ w.cmd \in DOMAIN cmd /\ w.ok \in BOOLEAN
  BY DEF IInv, TypeOK, PostWrites
<1>2. cmd[w.cmd] \in Commands
  BY <1>1
<1> DEFINE a0 == cmd[w.cmd].asg
<1>3. a0 \in DOMAIN asg
  BY <1>2 DEF Commands
<1>4. CASE w.write = "status"
  <2> DEFINE row == [asg[a0] EXCEPT !.status = IF w.ok THEN "acknowledged" ELSE "failed"]
  <2>1. cmd' = cmd /\ asg' = [asg EXCEPT ![a0] = row]
    BY <1>4 DEF Record
  <2>2. /\ row \in Assignments /\ row.rev = asg[a0].rev /\ row.cmds = asg[a0].cmds
        /\ row.status = "acknowledged" => w.ok
    BY <1>1, <1>3, AssignmentType DEF Assignments
  <2> HIDE DEF row
  <2>3. /\ asg' \in Seq(Assignments) /\ DOMAIN asg' = DOMAIN asg
        /\ asg'[a0] = row /\ \A a \in DOMAIN asg \ {a0} : asg'[a] = asg[a]
    BY <1>1, <1>3, <2>1, <2>2, ExceptSeq
  <2>4. \A a \in DOMAIN asg : asg'[a].rev = asg[a].rev /\ PolicyOf(a)' = PolicyOf(a)
    BY <2>2, <2>3 DEF PolicyOf
  <2>5. Commands' = Commands
    BY <2>3 DEF Commands
  <2>6. \A a \in DOMAIN asg : asg'[a].status = "acknowledged" => Settled(PolicyOf(a))
    BY <2>2, <2>3 DEF IInv, OKIsSettled, Sound
  <2> QED
    BY <1>1, <2>1, <2>3, <2>4, <2>5, <2>6 DEF Settled
<1>5. CASE w.write # "status"
  <2> DEFINE row == [cmd[w.cmd] EXCEPT !.state = "acked"]
  <2>1. asg' = asg /\ cmd' = [cmd EXCEPT ![w.cmd] = row]
    BY <1>5 DEF Record
  <2>2. row \in Commands /\ row.asg = cmd[w.cmd].asg
    BY <1>2 DEF Commands
  <2> HIDE DEF row
  <2>3. /\ cmd' \in Seq(Commands) /\ DOMAIN cmd' = DOMAIN cmd
        /\ \A i \in DOMAIN cmd : cmd'[i].asg = cmd[i].asg
    BY <1>1, <2>1, <2>2, ExceptSeq
  <2>4. Commands' = Commands /\ \A a \in DOMAIN asg : PolicyOf(a)' = PolicyOf(a)
    BY <2>1 DEF Commands, PolicyOf
  <2> QED
    BY <1>1, <2>1, <2>3, <2>4 DEF IInv, OKIsSettled, Settled
<1> QED
  BY <1>4, <1>5

LEMMA TailKeeps ==
  ASSUME NEW S, NEW s \in Seq(S), s # <<>>
  PROVE  /\ Head(s) \in ToSet(s) /\ Tail(s) \in Seq(S)
         /\ ToSet(Tail(s)) \subseteq ToSet(s)
<1>1. Head(s) \in ToSet(s)
  BY DEF ToSet
<1>2. Tail(s) \in Seq(S) /\ DOMAIN Tail(s) = 1..(Len(s) - 1)
  BY HeadTailProperties
<1>3. \A i \in DOMAIN Tail(s) : i + 1 \in DOMAIN s /\ Tail(s)[i] = s[i + 1]
  BY <1>2, HeadTailProperties
<1> QED
  BY <1>1, <1>2, <1>3 DEF ToSet

LEMMA IngestInv ==
  ASSUME IInv, Ingest
  PROVE  IInv'
<1>1. PICK post \in posts :
        /\ Record(Head(post))
        /\ posts' = (posts \ {post}) \cup ({Tail(post)} \ {<<>>})
  BY DEF Ingest
<1>2. UNCHANGED <<op, mem, file, pc, batch, results, late, faults>>
  BY DEF Ingest, clientVars
<1>3. /\ post \in Seq(PostWrites) /\ post # <<>>
      /\ \A r \in ToSet(post) : Sound(r)
  BY DEF IInv, TypeOK, NothingEmpty, OKIsSettled
<1>4. /\ Head(post) \in PostWrites /\ Sound(Head(post))
      /\ Tail(post) \in Seq(PostWrites) /\ ToSet(Tail(post)) \subseteq ToSet(post)
  <2>1. Head(post) \in ToSet(post) /\ Tail(post) \in Seq(PostWrites)
        /\ ToSet(Tail(post)) \subseteq ToSet(post)
    BY <1>3, TailKeeps
  <2> QED
    BY <1>3, <2>1, HeadTailProperties
<1>5. /\ asg' \in Seq(Assignments) /\ cmd' \in Seq(Commands') /\ DOMAIN asg' = DOMAIN asg
      /\ \A i \in DOMAIN cmd : i \in DOMAIN cmd' /\ cmd'[i].asg = cmd[i].asg
      /\ \A a \in DOMAIN asg : asg'[a].rev = asg[a].rev /\ PolicyOf(a)' = PolicyOf(a)
      /\ \A a \in DOMAIN asg' : asg'[a].status = "acknowledged" => Settled(PolicyOf(a))'
  BY <1>1, <1>2, <1>4, RecordFacts
<1>6. \A q \in Policy : Settled(q) => Settled(q)'
  BY <1>2 DEF Settled
<1>7. /\ batch \in Seq(DOMAIN cmd')
      /\ results \in Seq(Results')
      /\ posts \in SUBSET Seq(PostWrites')
      /\ \A r \in ToSet(results) : Sound(r)'
      /\ \A w \in posts : \A r \in ToSet(w) : Sound(r)'
  BY <1>5, <1>6, RowsGrow DEF IInv
<1>8. Tail(post) \in Seq(PostWrites')
  BY <1>3, <1>7, HeadTailProperties
<1>9. posts' \in SUBSET Seq(PostWrites') /\ <<>> \notin posts'
  BY <1>1, <1>7, <1>8 DEF IInv, NothingEmpty
<1>10. TypeOK'
  <2>1. Assignments' = Assignments /\ Sessions' = Sessions /\ Policy' = Policy
    BY DEF Assignments, Sessions, Policy
  <2> QED
    BY <1>2, <1>5, <1>7, <1>9, <2>1 DEF IInv, TypeOK
<1>11. HasHighest'
  <2>1. asg \in Seq(Assignments) /\ (asg' # <<>> => asg # <<>>)
    BY <1>5 DEF IInv, TypeOK
  <2> QED
    BY <1>5, <2>1 DEF IInv, HasHighest
<1>12. SessionsReady' /\ FileAhead' /\ NothingEmpty'
  BY <1>2, <1>5, <1>9 DEF IInv, SessionsReady, FileAhead, NothingEmpty
<1>13. OKIsSettled'
  <2>1. \A w \in posts' : \A r \in ToSet(w) : \E v \in posts : r \in ToSet(v)
    BY <1>1, <1>4
  <2>2. \A w \in posts' : \A r \in ToSet(w) : Sound(r)'
    BY <1>7, <2>1
  <2> QED
    BY <1>2, <1>5, <1>7, <2>2 DEF OKIsSettled
<1> QED
  BY <1>10, <1>11, <1>12, <1>13 DEF IInv

-----------------------------------------------------------------------------
LEMMA InvStep == IInv /\ [Next]_vars => IInv'
<1> SUFFICES ASSUME IInv, [Next]_vars
             PROVE  IInv'
  OBVIOUS
<1>1. CASE UNCHANGED vars
  BY <1>1, SessionStep DEF vars, clientVars, IInv, TypeOK, SessionsReady
<1>2. ASSUME NEW o \in Operators, OperatorStep(o)
      PROVE  IInv'
  BY <1>2, OperatorInv, CreateAssignmentInv, CommitQueueInv DEF OperatorStep
<1>3. CASE Heartbeat \/ Execute \/ SendResults \/ FinishPoll \/ Restart
  BY <1>3, HeartbeatInv, ExecuteInv, SendResultsInv, FinishPollInv, RestartInv
<1>4. CASE Ingest \/ LosePost
  BY <1>4, IngestInv, LosePostInv
<1> QED
  BY <1>1, <1>2, <1>3, <1>4 DEF Next

LEMMA InvHolds == Spec => []IInv
BY InitInv, InvStep, PTL DEF Spec

\* Every reachable state of policy delivery is well typed: a command names an
\* assignment, a result a command, a session what it is about to queue.
THEOREM PolicyTypeCorrect == Spec => []TypeOK
<1>1. IInv => TypeOK
  BY DEF IInv
<1> QED
  BY <1>1, InvHolds, PTL

\* An acknowledged policy is on the device's disk, or a later one is: for any
\* number of operators, assignments, retries, losses, failed saves and restarts.
THEOREM AcknowledgedStaysDurable == Spec => []AcknowledgedIsDurable
<1>1. IInv => AcknowledgedIsDurable
  <2> SUFFICES ASSUME IInv, NEW a \in DOMAIN asg, asg[a].status = "acknowledged"
               PROVE  file.rev > asg[a].rev \/ file = PolicyOf(a)
    BY DEF AcknowledgedIsDurable
  <2>1. PolicyOf(a) \in Policy /\ PolicyOf(a).rev = asg[a].rev
    BY AssignmentType DEF IInv, TypeOK, PolicyOf
  <2>2. mem = PolicyOf(a) \/ mem.rev > asg[a].rev
    BY <2>1 DEF IInv, OKIsSettled, Settled
  <2>3. mem.rev \in Nat /\ file.rev \in Nat /\ asg[a].rev \in Nat
    BY <2>1 DEF IInv, TypeOK, Policy
  <2> QED
    BY <2>1, <2>2, <2>3 DEF IInv, FileAhead
<1> QED
  BY <1>1, InvHolds, PTL

\* The policy in force changes only to one of a higher revision.
THEOREM PolicyNeverGoesBack == Spec => PolicyMovesForward
<1>1. IInv /\ [Next]_vars => [mem' = mem \/ mem'.rev > mem.rev]_mem
  <2> SUFFICES ASSUME IInv, Next
               PROVE  mem' = mem \/ mem'.rev > mem.rev
    BY DEF vars
  <2>1. CASE Execute
    <3>1. PICK p \in Policy : ApplyPolicy(p) \/ FailSave(p) \/ Reject(p) \/ FailFetch(p)
      BY <2>1, AssignmentType DEF Execute, IInv, TypeOK
    <3>2. CASE ApplyPolicy(p)
      BY <3>2, AcceptedSettles DEF ApplyPolicy, IInv, TypeOK
    <3> QED
      BY <3>1, <3>2 DEF FailSave, Reject, FailFetch
  <2>2. CASE Restart
    BY <2>2 DEF Restart, IInv, FileAhead
  <2>3. CASE \E o \in Operators : OperatorStep(o)
    BY <2>3 DEF OperatorStep, BeginAssign, CreateAssignment, Retry, BeginSupersede,
                CommitQueue, Abandon, clientVars
  <2>4. CASE Heartbeat \/ SendResults \/ FinishPoll \/ Ingest \/ LosePost
    BY <2>4 DEF Heartbeat, SendResults, FinishPoll, Ingest, LosePost, clientVars
  <2> QED
    BY <2>1, <2>2, <2>3, <2>4 DEF Next
<1> QED
  BY <1>1, InvHolds, PTL DEF Spec, PolicyMovesForward
=============================================================================
