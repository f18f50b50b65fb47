---------------------------- MODULE CommandPolicy ----------------------------
(***************************************************************************)
(* Delivery of command policies to one device. Operators assign a policy   *)
(* or resend an earlier assignment; the server queues an                   *)
(* apply_command_policy command for the next heartbeat, in a transaction   *)
(* that deletes the ones still queued; the client applies what a heartbeat *)
(* delivers, saves it, and reports results that the server records on the  *)
(* assignment. Transactions run at READ COMMITTED.                         *)
(*                                                                         *)
(* The server names every policy "policy-<revision>", so a policy is its   *)
(* revision and its command map; revision 0 is the local configuration,    *)
(* whose version is the empty string.                                      *)
(***************************************************************************)
EXTENDS Integers, Sequences, FiniteSets, SequencesExt

CONSTANTS
  Operators,   \* LiveView sessions that assign policies
  Policies,    \* command maps an operator may assign, the empty one included
  Local,       \* the command map of the local configuration
  MaxAssigned, \* bound on assignments
  MaxQueued,   \* bound on commands ever queued
  MaxFaults,   \* bound on losses, failed writes, failed fetches and crashes
  MaxLate      \* bound on result posts the client gave up on

ASSUME PolicyAssumption == Local \notin Policies
ASSUME PolicyBounds == {MaxAssigned, MaxQueued, MaxFaults, MaxLate} \subseteq Nat

VARIABLES
  asg,      \* command_policy_assignments: revision, commands, status
  cmd,      \* pending_commands of type apply_command_policy, by id
  op,       \* what an operator's session is doing
  mem,      \* the policy in the handler and in the runtime configuration
  file,     \* /etc/nixstasis/command-policy.json
  pc,       \* where the poll loop is
  batch,    \* commands of the last heartbeat still to execute
  results,  \* results of the ones executed
  posts,    \* result posts at the server: the writes each has left
  late,     \* posts the client gave up on so far
  faults    \* faults so far

serverVars == <<asg, cmd, op>>
clientVars == <<mem, file, pc, batch, results>>
vars == <<asg, cmd, op, mem, file, pc, batch, results, posts, late, faults>>

Policy == [rev : Nat, cmds : Policies \cup {Local}]
Default == [rev |-> 0, cmds |-> Local]

Assignments == [rev : Nat, cmds : Policies, status : {"queued", "acknowledged", "failed"}]
Commands == [asg : DOMAIN asg, state : {"queued", "superseded", "delivered", "acked"}]
Results == [cmd : DOMAIN cmd, ok : BOOLEAN]
PostWrites == [write : {"status", "ack"}, cmd : DOMAIN cmd, ok : BOOLEAN]

\* stage: idle, create (revision computed), queue (assignment created or
\* chosen), commit (queued commands read for deletion).
Sessions == [stage : {"idle", "create", "queue", "commit"}, rev : Nat,
             cmds : Policies \cup {Local}, asg : Nat, seen : SUBSET Nat]

TypeOK ==
  /\ asg \in Seq(Assignments)
  /\ cmd \in Seq(Commands)
  /\ op \in [Operators -> Sessions]
  /\ mem \in Policy
  /\ file \in Policy
  /\ pc \in {"idle", "busy", "sending"}
  /\ batch \in Seq(DOMAIN cmd)
  /\ results \in Seq(Results)
  /\ posts \in SUBSET Seq(PostWrites)
  /\ late \in 0..MaxLate
  /\ faults \in 0..MaxFaults

-----------------------------------------------------------------------------
Idle == [stage |-> "idle", rev |-> 0, cmds |-> Local, asg |-> 0, seen |-> {}]

Init ==
  /\ asg = <<>>
  /\ cmd = <<>>
  /\ op = [o \in Operators |-> Idle]
  /\ mem = Default
  /\ file = Default
  /\ pc = "idle"
  /\ batch = <<>>
  /\ results = <<>>
  /\ posts = {}
  /\ late = 0
  /\ faults = 0

Fault == faults < MaxFaults /\ faults' = faults + 1

PolicyOf(a) == [rev |-> asg[a].rev, cmds |-> asg[a].cmds]

Queued == {i \in DOMAIN cmd : cmd[i].state = "queued"}

\* Rows that an open transaction may have locked: the heartbeat skips those.
Locked == UNION {op[o].seen : o \in Operators}

-----------------------------------------------------------------------------
(* Operators *)

\* The bounds: a session that starts may finish.
Active == {o \in Operators : op[o].stage # "idle"}
MayAssign == Len(asg) + Cardinality({o \in Active : op[o].stage = "create"}) < MaxAssigned
MayQueue == Len(cmd) + Cardinality(Active) < MaxQueued

NextRevision ==
  IF asg = <<>> THEN 1
  ELSE 1 + CHOOSE r \in {asg[a].rev : a \in DOMAIN asg} : \A a \in DOMAIN asg : asg[a].rev <= r

\* "Assign" or "Revoke all": the revision is read before the row is created.
BeginAssign(o) ==
  /\ op[o].stage = "idle" /\ MayAssign /\ MayQueue
  /\ \E p \in Policies :
       op' = [op EXCEPT ![o] = [@ EXCEPT !.stage = "create", !.rev = NextRevision, !.cmds = p]]
  /\ UNCHANGED <<asg, cmd, clientVars, posts, late, faults>>

CreateAssignment(o) ==
  /\ op[o].stage = "create"
  /\ asg' = Append(asg, [rev |-> op[o].rev, cmds |-> op[o].cmds, status |-> "queued"])
  /\ op' = [op EXCEPT ![o] = [Idle EXCEPT !.stage = "queue", !.asg = Len(asg')]]
  /\ UNCHANGED <<cmd, clientVars, posts, late, faults>>

\* "Retry/resend" of any assignment, whatever its status; it stays as it is.
Retry(o) ==
  /\ op[o].stage = "idle" /\ MayQueue
  /\ \E a \in DOMAIN asg : op' = [op EXCEPT ![o] = [Idle EXCEPT !.stage = "queue", !.asg = a]]
  /\ UNCHANGED <<asg, cmd, clientVars, posts, late, faults>>

\* The DELETE of supersede_queued_command_policies sees what is committed now;
\* it removes those rows that are still queued once it holds their locks.
BeginSupersede(o) ==
  /\ op[o].stage = "queue"
  /\ op' = [op EXCEPT ![o] = [@ EXCEPT !.stage = "commit", !.seen = Queued]]
  /\ UNCHANGED <<asg, cmd, clientVars, posts, late, faults>>

QueueReplacement(o) ==
  LET Superseded(i) == i \in op[o].seen /\ cmd[i].state = "queued"
      kept == [i \in DOMAIN cmd |->
                 IF Superseded(i) THEN [cmd[i] EXCEPT !.state = "superseded"] ELSE cmd[i]]
  IN Append(kept, [asg |-> op[o].asg, state |-> "queued"])

CommitQueue(o) ==
  /\ op[o].stage = "commit"
  /\ cmd' = QueueReplacement(o)
  /\ op' = [op EXCEPT ![o] = Idle]
  /\ UNCHANGED <<asg, clientVars, posts, late, faults>>

\* The session or the transaction dies: what is committed stays.
Abandon(o) ==
  /\ op[o].stage # "idle"
  /\ Fault
  /\ op' = [op EXCEPT ![o] = Idle]
  /\ UNCHANGED <<asg, cmd, clientVars, posts, late>>

-----------------------------------------------------------------------------
(* The client *)

\* pop_pending_commands marks the commands delivered and returns them in no
\* particular order. The response may be lost, and with it the commands.
Heartbeat ==
  /\ pc = "idle"
  /\ \E skip \in SUBSET (Queued \cap Locked) :
       LET got == Queued \ skip IN
       /\ got # {}
       /\ cmd' = [i \in DOMAIN cmd |->
                    IF i \in got THEN [cmd[i] EXCEPT !.state = "delivered"] ELSE cmd[i]]
       /\ \/ /\ batch' \in SetToSeqs(got)
             /\ pc' = "busy"
             /\ UNCHANGED faults
          \/ Fault /\ UNCHANGED <<pc, batch>>
  /\ UNCHANGED <<asg, op, mem, file, results, posts, late>>

Stale(p) == p.rev < mem.rev

\* A fault for comparison: the same revision replaces other commands.
NoConflict(p) == FALSE

Conflict(p) == p.rev = mem.rev /\ p.cmds # mem.cmds
Accepts(p) == ~Stale(p) /\ ~Conflict(p)

\* A fault for comparison: the first failure ends the batch.
AnswerUntilFailure(p, ok) ==
  /\ pc = "busy"
  /\ batch # <<>>
  /\ p = PolicyOf(cmd[Head(batch)].asg)
  /\ results' = Append(results, [cmd |-> Head(batch), ok |-> ok])
  /\ batch' = IF ok THEN Tail(batch) ELSE <<>>
  /\ UNCHANGED <<serverVars, pc, posts, late>>

\* The next command of the batch carries policy p and is answered with ok.
Answer(p, ok) ==
  /\ pc = "busy"
  /\ batch # <<>>
  /\ p = PolicyOf(cmd[Head(batch)].asg)
  /\ results' = Append(results, [cmd |-> Head(batch), ok |-> ok])
  /\ batch' = Tail(batch)
  /\ UNCHANGED <<serverVars, pc, posts, late>>

\* A policy that is applied already is saved again.
ApplyPolicy(p) ==
  /\ Answer(p, TRUE)
  /\ Accepts(p)
  /\ mem' = p
  /\ file' = p
  /\ UNCHANGED faults

\* A fault for comparison: the failed save is restored, but only logged.
FailSaveSilently(p) ==
  /\ Answer(p, TRUE)
  /\ Accepts(p)
  /\ file' \in {file, p}
  /\ Fault
  /\ UNCHANGED mem

\* The handler restores the policy in memory. The file is the old one, or the
\* new one when only the directory sync after the rename failed.
FailSave(p) ==
  /\ Answer(p, FALSE)
  /\ Accepts(p)
  /\ file' \in {file, p}
  /\ Fault
  /\ UNCHANGED mem

Reject(p) ==
  /\ Answer(p, FALSE)
  /\ ~Accepts(p)
  /\ UNCHANGED <<mem, file, faults>>

\* A payload delivered by reference cannot be fetched: the handler never runs.
FailFetch(p) ==
  /\ Answer(p, FALSE)
  /\ Fault
  /\ UNCHANGED <<mem, file>>

Execute == \E p \in {PolicyOf(a) : a \in DOMAIN asg} :
             ApplyPolicy(p) \/ FailSave(p) \/ Reject(p) \/ FailFetch(p)

\* Recording a post: the assignment of each result, then each command.
Writes(rs) ==
  [i \in DOMAIN rs |-> [write |-> "status", cmd |-> rs[i].cmd, ok |-> rs[i].ok]]
    \o [i \in DOMAIN rs |-> [write |-> "ack", cmd |-> rs[i].cmd, ok |-> rs[i].ok]]

SendResults ==
  /\ pc = "busy"
  /\ batch = <<>>
  /\ pc' = "sending"
  /\ posts' = posts \cup {Writes(results)}
  /\ UNCHANGED <<serverVars, mem, file, batch, results, late, faults>>

OwnPost(w) == w[Len(w)].cmd = results[Len(results)].cmd

\* SendCommandResults returns, or gives up after ten seconds: an error is only logged.
FinishPoll ==
  /\ pc = "sending"
  /\ \/ ~(\E w \in posts : OwnPost(w)) /\ UNCHANGED late
     \/ (\E w \in posts : OwnPost(w)) /\ late < MaxLate /\ late' = late + 1
  /\ pc' = "idle"
  /\ results' = <<>>
  /\ UNCHANGED <<serverVars, mem, file, batch, posts, faults>>

\* A restart of the poll service loads the saved policy.
Restart ==
  /\ Fault
  /\ mem' = file
  /\ pc' = "idle"
  /\ batch' = <<>>
  /\ results' = <<>>
  /\ UNCHANGED <<serverVars, file, posts, late>>

-----------------------------------------------------------------------------
(* The result controller *)

Record(w) ==
  IF w.write = "status"
  THEN /\ asg' = [asg EXCEPT ![cmd[w.cmd].asg].status = IF w.ok THEN "acknowledged" ELSE "failed"]
       /\ UNCHANGED cmd
  ELSE /\ cmd' = [cmd EXCEPT ![w.cmd].state = "acked"]
       /\ UNCHANGED asg

\* One write of one post, whatever was recorded before.
Ingest ==
  /\ \E post \in posts :
       /\ Record(Head(post))
       /\ posts' = (posts \ {post}) \cup ({Tail(post)} \ {<<>>})
  /\ UNCHANGED <<op, clientVars, late, faults>>

\* The post is lost on its way, or the server dies while it records it.
LosePost ==
  /\ Fault
  /\ \E post \in posts : posts' = posts \ {post}
  /\ UNCHANGED <<serverVars, clientVars, late>>

-----------------------------------------------------------------------------
OperatorStep(o) ==
  \/ BeginAssign(o) \/ CreateAssignment(o) \/ Retry(o)
  \/ BeginSupersede(o) \/ CommitQueue(o) \/ Abandon(o)

Next ==
  \/ \E o \in Operators : OperatorStep(o)
  \/ Heartbeat \/ Execute \/ SendResults \/ FinishPoll \/ Restart
  \/ Ingest \/ LosePost

Spec == Init /\ [][Next]_vars

\* The poll loop goes on after every error, a transaction ends within the
\* database's timeout, and a request that arrived is served.
FairSpec ==
  /\ Spec
  /\ \A o \in Operators : WF_vars(CreateAssignment(o)) /\ WF_vars(BeginSupersede(o)) /\ WF_vars(CommitQueue(o))
  /\ WF_vars(Heartbeat) /\ WF_vars(Execute) /\ WF_vars(SendResults) /\ WF_vars(FinishPoll)
  /\ WF_vars(Ingest)

-----------------------------------------------------------------------------
(* Properties *)

\* What the server shows as acknowledged is on the device's disk, or the disk
\* has a later revision: "a client answers OK only once the policy is saved",
\* whatever was lost, repeated, reordered or restarted in between, and also
\* when two operators were given the same revision.
AcknowledgedIsDurable ==
  \A a \in DOMAIN asg : asg[a].status = "acknowledged" =>
    \/ file.rev > asg[a].rev
    \/ file = PolicyOf(a)

\* The policy that the device enforces is only ever replaced by one of a
\* higher revision, and a revision never changes its commands: out-of-order
\* and repeated deliveries, failed saves and restarts included.
PolicyMovesForward == [][mem' = mem \/ mem'.rev > mem.rev]_mem

\* Once nothing else goes wrong, a queued policy command is answered or a
\* later one replaces it.
CommandsAreAnswered ==
  \A i \in 1..MaxQueued :
    (i \in Queued /\ faults = MaxFaults) ~>
      (i \in DOMAIN cmd /\ cmd[i].state \in {"superseded", "acked"})
=============================================================================
