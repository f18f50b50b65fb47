---------------------------- MODULE OrderedBatch ----------------------------
(***************************************************************************)
(* What the server may assume of the commands it sends with one heartbeat: *)
(* they take effect as if they ran one after another in its order. Reads   *)
(* may overlap each other, and a command may be refused at any time, but   *)
(* nothing that writes runs before the commands ahead of it are answered,  *)
(* and every read is answered with the store the writes ahead of it left.  *)
(***************************************************************************)
EXTENDS Naturals

CONSTANTS
  Slots,    \* positions in a batch
  Stores    \* values of what the commands read and write

VARIABLES
  writes,   \* the positions of the commands that write
  answered, \* positions that have their result
  store,
  seen      \* the store each read was answered with, if it was

vars == <<writes, answered, store, seen>>

Init ==
  /\ writes = {} /\ answered = Slots
  /\ store \in Stores
  /\ seen = [i \in Slots |-> {}]

\* A batch arrives when the one before it is over. Positions it does not fill, or
\* whose payload could not be had, need no answer.
Accept ==
  /\ writes' \in SUBSET Slots /\ answered' \in SUBSET Slots
  /\ seen' = [i \in Slots |-> {}]
  /\ UNCHANGED store

WritesBefore(i) == {j \in writes : j < i}
Before(i) == {j \in Slots : j < i}

Answer(i) == i \in Slots \ answered /\ answered' = answered \cup {i}

Refuse(i) == Answer(i) /\ UNCHANGED <<writes, store, seen>>

Read(i) ==
  /\ i \notin writes /\ WritesBefore(i) \subseteq answered
  /\ Answer(i)
  /\ seen' = [seen EXCEPT ![i] = {store}]
  /\ UNCHANGED <<writes, store>>

Write(i) ==
  /\ i \in writes /\ Before(i) \subseteq answered
  /\ Answer(i)
  /\ store' \in Stores
  /\ UNCHANGED <<writes, seen>>

Next == (answered = Slots /\ Accept) \/ \E i \in Slots : Refuse(i) \/ Read(i) \/ Write(i)

Spec == Init /\ [][Next]_vars
=============================================================================
