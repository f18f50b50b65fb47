--------------------------- MODULE StarlarkValue ----------------------------
(***************************************************************************)
(* The conversion of what a script returns (starlarkConverter in           *)
(* internal/script/runtime.go): it walks the value depth first, charges    *)
(* every node and byte it meets against a budget and refuses cycles. A     *)
(* value is a node of a heap, since lists and dicts may share their parts  *)
(* or contain themselves; written out, it has a place for every path from  *)
(* its root. Operators only: ScriptRun takes the steps of the walk.        *)
(***************************************************************************)
EXTENDS Naturals, Sequences, FiniteSets

CONSTANTS
  MaxDepth,   \* maxStarlarkConversionDepth
  MaxNodes,   \* maxStarlarkConversionNodes
  MaxString,  \* maxStarlarkConversionStringBytes
  MaxBytes    \* maxStarlarkConversionOutputBytes

ASSUME BudgetAssumption ==
  MaxDepth \in Nat /\ MaxNodes \in Nat /\ MaxString \in Nat /\ MaxBytes \in Nat

Containers == {"list", "tuple", "dict"}

\* kind is "string" (None, numbers and Booleans are strings of their width), a
\* container, where a dict's keys are strings of one byte, or "function", which is
\* refused like a dict with other keys.
Value(kind, size, parts) == [kind |-> kind, size |-> size, parts |-> parts]

WellFormed(out) ==
  /\ IsFiniteSet(DOMAIN out.heap) /\ out.root \in DOMAIN out.heap
  /\ \A n \in DOMAIN out.heap :
       /\ out.heap[n].kind \in {"string", "function"} \cup Containers
       /\ out.heap[n].size \in Nat
       /\ out.heap[n].parts \in Seq(DOMAIN out.heap)
       /\ out.heap[n].kind \notin Containers => out.heap[n].parts = <<>>

-----------------------------------------------------------------------------
(* Places: an edge is a container and the index of one of its parts *)

Edges(out) == UNION {{n} \X DOMAIN out.heap[n].parts : n \in DOMAIN out.heap}
Child(out, e) == out.heap[e[1]].parts[e[2]]
Node(out, p) == IF p = <<>> THEN out.root ELSE Child(out, p[Len(p)])
At(out, p) == out.heap[Node(out, p)]

IsPlace(out, p) ==
  \A i \in 1..Len(p) :
    p[i] \in Edges(out) /\ p[i][1] = IF i = 1 THEN out.root ELSE Child(out, p[i - 1])

Places(out) == {p \in UNION {[1..n -> Edges(out)] : n \in 0..MaxDepth + 1} : IsPlace(out, p)}

-----------------------------------------------------------------------------
(* What a place costs; an item of a dict pays for its key *)

Key(out, p) == IF p # <<>> /\ out.heap[p[Len(p)][1]].kind = "dict" THEN 1 ELSE 0

Overhead(v) ==
  LET n == Len(v.parts) IN
  IF n = 0 THEN 2 ELSE IF v.kind = "dict" THEN 2 * n + 1 ELSE n + 1

Nodes(out, p) == 1 + Key(out, p)
Bytes(out, p) ==
  Key(out, p) + IF At(out, p).kind = "string" THEN At(out, p).size ELSE Overhead(At(out, p))

\* reserveNodes: a container's parts must fit before any is looked at.
Reserved(v) == IF v.kind = "dict" THEN 2 * Len(v.parts) ELSE Len(v.parts)

-----------------------------------------------------------------------------
(* The walk *)

Begin(out) == [out |-> out, todo |-> << <<>> >>, seen |-> {}, nodes |-> 0, bytes |-> 0]

\* Fault: the budget is compared before the charge is added.
AffordsBefore(c, nodes, bytes) == c.nodes <= MaxNodes /\ c.bytes <= MaxBytes

Affords(c, nodes, bytes) == c.nodes + nodes <= MaxNodes /\ c.bytes + bytes <= MaxBytes

\* activeLists and activeDicts.
Ancestors(out, p) == {n \in {p[i][1] : i \in 1..Len(p)} : out.heap[n].kind # "tuple"}

\* The next value is converted and not refused.
Accepts(c) ==
  LET p == Head(c.todo)
      v == At(c.out, p)
  IN /\ v.kind # "function"
     /\ Affords(c, Nodes(c.out, p), Bytes(c.out, p))
     /\ v.kind = "string" => v.size <= MaxString
     /\ v.kind \in Containers =>
          /\ Node(c.out, p) \notin Ancestors(c.out, p)
          /\ Len(p) < MaxDepth
          /\ Affords(c, Nodes(c.out, p) + Reserved(v), 0)

Parts(out, p) == [k \in 1..Len(At(out, p).parts) |-> Append(p, <<Node(out, p), k>>)]

\* Fault: what is reserved for the parts is charged, and their nodes once more.
VisitReserving(c) ==
  LET p == Head(c.todo) IN
  [c EXCEPT !.todo = Parts(c.out, p) \o Tail(c.todo), !.seen = @ \cup {p},
            !.nodes = @ + Nodes(c.out, p) + Reserved(At(c.out, p)), !.bytes = @ + Bytes(c.out, p)]

Visit(c) ==
  LET p == Head(c.todo) IN
  [c EXCEPT !.todo = Parts(c.out, p) \o Tail(c.todo), !.seen = @ \cup {p},
            !.nodes = @ + Nodes(c.out, p), !.bytes = @ + Bytes(c.out, p)]

-----------------------------------------------------------------------------
(* The size of a value written out, without a walk *)

NodeCells(out, places) == UNION {{p} \X (1..Nodes(out, p)) : p \in places}
ByteCells(out, places) == UNION {{p} \X (1..Bytes(out, p)) : p \in places}

WithinBudgets(out) ==
  /\ \A p \in Places(out) :
       Len(p) <= MaxDepth /\ (At(out, p).kind = "string" => At(out, p).size <= MaxString)
  /\ Cardinality(NodeCells(out, Places(out))) <= MaxNodes
  /\ Cardinality(ByteCells(out, Places(out))) <= MaxBytes

\* The values that have a conversion.
Convertible(out) ==
  /\ WithinBudgets(out)
  /\ \A p \in Places(out) :
       At(out, p).kind # "function" /\ (At(out, p).kind \in Containers => Len(p) < MaxDepth)
=============================================================================
