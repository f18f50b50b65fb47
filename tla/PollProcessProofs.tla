------------------------- MODULE PollProcessProofs --------------------------
(***************************************************************************)
(* Theorems about what the poll process keeps in memory only: the scripts  *)
(* of a poll (ScriptRun), with the conversion of what they return, and the *)
(* SSH authority's store (SshAuthority).                                   *)
(***************************************************************************)
EXTENDS ScriptRun, SshAuthority, SequenceTheorems, FiniteSetTheorems, WellFoundedInduction, TLAPS

-----------------------------------------------------------------------------
(* The places of a value written out *)

PathsOf(out) == {p \in Seq(Edges(out)) : IsPlace(out, p)}

LEMMA EdgeType ==
  ASSUME NEW out, WellFormed(out), NEW n \in DOMAIN out.heap, NEW k \in 1..Len(out.heap[n].parts)
  PROVE  <<n, k>> \in Edges(out) /\ Child(out, <<n, k>>) = out.heap[n].parts[k]
<1>1. out.heap[n].parts \in Seq(DOMAIN out.heap)
  BY DEF WellFormed
<1>2. k \in DOMAIN out.heap[n].parts
  BY <1>1
<1> QED BY <1>2 DEF Edges, Child

LEMMA ChildType ==
  ASSUME NEW out, WellFormed(out), NEW e \in Edges(out)
  PROVE  /\ e[1] \in DOMAIN out.heap /\ e[2] \in 1..Len(out.heap[e[1]].parts) /\ e = <<e[1], e[2]>>
         /\ Child(out, e) \in DOMAIN out.heap
<1>1. PICK n \in DOMAIN out.heap : e \in {n} \X DOMAIN out.heap[n].parts
  BY DEF Edges
<1>2. out.heap[n].parts \in Seq(DOMAIN out.heap)
  BY DEF WellFormed
<1>3. e[1] = n /\ e[2] \in DOMAIN out.heap[n].parts /\ e = <<e[1], e[2]>>
  BY <1>1
<1>4. DOMAIN out.heap[n].parts = 1..Len(out.heap[n].parts)
  BY <1>2, LenProperties
<1>5. out.heap[n].parts[e[2]] \in DOMAIN out.heap
  BY <1>2, <1>3, <1>4, ElementOfSeq
<1> QED BY <1>3, <1>4, <1>5 DEF Child

\* At a place there is a value of the heap.
LEMMA NodeType ==
  ASSUME NEW out, WellFormed(out), NEW p \in PathsOf(out)
  PROVE  Node(out, p) \in DOMAIN out.heap
<1>1. CASE p = <<>>
  BY <1>1 DEF Node, WellFormed
<1>2. CASE p # <<>>
  <2>1. p[Len(p)] \in Edges(out)
    <3>1. Len(p) \in 1..Len(p)
      BY <1>2, EmptySeq DEF PathsOf
    <3> QED BY <3>1 DEF PathsOf, IsPlace
  <2> QED BY <1>2, <2>1, ChildType DEF Node
<1> QED BY <1>1, <1>2

LEMMA EmptyIsPlace == ASSUME NEW out PROVE <<>> \in PathsOf(out)
BY DEF PathsOf, IsPlace

\* A part of a value at a place has a place, one edge longer.
LEMMA PartIsPlace ==
  ASSUME NEW out, WellFormed(out), NEW p \in PathsOf(out), NEW k \in 1..Len(At(out, p).parts)
  PROVE  /\ <<Node(out, p), k>> \in Edges(out)
         /\ Append(p, <<Node(out, p), k>>) \in PathsOf(out)
         /\ Len(Append(p, <<Node(out, p), k>>)) = Len(p) + 1
<1> DEFINE e == <<Node(out, p), k>>
           q == Append(p, e)
<1>1. e \in Edges(out) /\ e[1] = Node(out, p)
  BY NodeType, EdgeType DEF At
<1>2. p \in Seq(Edges(out)) /\ Len(p) \in Nat
  BY DEF PathsOf
<1> HIDE DEF e
<1>3. /\ q \in Seq(Edges(out)) /\ Len(q) = Len(p) + 1
      /\ q[Len(p) + 1] = e /\ \A i \in 1..Len(p) : q[i] = p[i]
  BY <1>1, <1>2, AppendProperties
<1> HIDE DEF q
<1>4. ASSUME NEW i \in 1..Len(q)
      PROVE  q[i] \in Edges(out) /\ q[i][1] = IF i = 1 THEN out.root ELSE Child(out, q[i - 1])
  <2>1. CASE i \in 1..Len(p)
    <3>1. q[i] = p[i] /\ (i # 1 => q[i - 1] = p[i - 1])
      BY <1>2, <1>3, <2>1
    <3> QED BY <2>1, <3>1 DEF PathsOf, IsPlace
  <2>2. CASE i = Len(p) + 1
    <3>1. i = 1 <=> p = <<>>
      BY <1>2, <2>2, EmptySeq
    <3>2. i # 1 => q[i - 1] = p[Len(p)]
      BY <1>2, <1>3, <2>2
    <3> QED BY <1>1, <1>3, <2>2, <3>1, <3>2 DEF Node
  <2> QED BY <1>2, <1>3, <2>1, <2>2
<1>5. q \in PathsOf(out)
  BY <1>3, <1>4 DEF PathsOf, IsPlace
<1> QED BY <1>1, <1>3, <1>5 DEF e, q

\* Every place but the root's is the place of a part of a value at a place.
LEMMA PlaceIsPart ==
  ASSUME NEW out, WellFormed(out), NEW q \in PathsOf(out), q # <<>>
  PROVE  \E p \in PathsOf(out) : \E k \in 1..Len(At(out, p).parts) :
           q = Append(p, <<Node(out, p), k>>)
<1>1. PICK p \in Seq(Edges(out)), e \in Edges(out) : q = Append(p, e)
  BY SequenceEmptyOrAppend DEF PathsOf
<1>2. Len(p) \in Nat /\ Len(q) = Len(p) + 1 /\ q[Len(p) + 1] = e /\ \A i \in 1..Len(p) : q[i] = p[i]
  BY <1>1, AppendProperties
<1>3. p \in PathsOf(out)
  <2> SUFFICES ASSUME NEW i \in 1..Len(p)
               PROVE  p[i] \in Edges(out) /\ p[i][1] = IF i = 1 THEN out.root ELSE Child(out, p[i - 1])
    BY <1>1 DEF PathsOf, IsPlace
  <2>1. i \in 1..Len(q) /\ p[i] = q[i] /\ (i # 1 => p[i - 1] = q[i - 1])
    BY <1>2
  <2> QED BY <2>1 DEF PathsOf, IsPlace
<1>4. e[1] = Node(out, p)
  <2>1. Len(p) + 1 \in 1..Len(q)
    BY <1>2
  <2>2. e[1] = IF Len(p) + 1 = 1 THEN out.root ELSE Child(out, q[Len(p)])
    BY <1>2, <2>1 DEF PathsOf, IsPlace
  <2>3. p = <<>> <=> Len(p) + 1 = 1
    BY <1>1, <1>2, EmptySeq
  <2>4. p # <<>> => q[Len(p)] = p[Len(p)]
    BY <1>2, <2>3
  <2> QED BY <2>2, <2>3, <2>4 DEF Node
<1>5. e[2] \in 1..Len(At(out, p).parts) /\ e = <<Node(out, p), e[2]>>
  BY <1>1, <1>4, ChildType DEF At
<1> QED BY <1>1, <1>3, <1>5

\* A set of places that has the root and, with a place, those of its parts, has
\* them all: one that were missing with no shorter one missing would be a part of
\* one that is not.
LEMMA ClosedIsWhole ==
  ASSUME NEW out, WellFormed(out), NEW S \in SUBSET PathsOf(out), <<>> \in S,
         \A p \in S : \A k \in 1..Len(At(out, p).parts) : Append(p, <<Node(out, p), k>>) \in S
  PROVE  PathsOf(out) \subseteq S
<1> DEFINE missing == {Len(q) : q \in PathsOf(out) \ S}
<1> SUFFICES ASSUME missing # {} PROVE FALSE
  OBVIOUS
<1>1. missing \subseteq Nat
  BY DEF PathsOf
<1>2. PICK n \in missing : \A m \in missing : ~(<<m, n>> \in OpToRel(<, Nat))
  <2> HIDE DEF missing
  <2> QED BY <1>1, NatLessThanWellFounded, WFMin
<1>3. \A m \in missing : ~(m < n)
  BY <1>1, <1>2 DEF OpToRel
<1>4. PICK q \in PathsOf(out) \ S : n = Len(q)
  OBVIOUS
<1>5. PICK p \in PathsOf(out) : \E k \in 1..Len(At(out, p).parts) : q = Append(p, <<Node(out, p), k>>)
  BY <1>4, PlaceIsPart
<1>6. Len(p) \in Nat /\ Len(p) < n
  BY <1>4, <1>5, PartIsPlace DEF PathsOf
<1>7. p \in S
  BY <1>3, <1>6
<1> QED BY <1>4, <1>5, <1>7

LEMMA PlacesArePaths ==
  ASSUME NEW out
  PROVE  Places(out) \subseteq PathsOf(out)
<1> SUFFICES ASSUME NEW p \in Places(out) PROVE p \in PathsOf(out)
  OBVIOUS
<1>1. PICK n \in 0..MaxDepth + 1 : p \in [1..n -> Edges(out)]
  BY DEF Places
<1>2. p \in Seq(Edges(out))
  BY <1>1, BudgetAssumption
<1> QED BY <1>2 DEF Places, PathsOf

\* Without a limit on the depth: the places of the module, when none is deeper.
LEMMA PlacesAreShort ==
  ASSUME NEW out, \A p \in PathsOf(out) : Len(p) <= MaxDepth
  PROVE  Places(out) = PathsOf(out)
<1>1. MaxDepth \in Nat
  BY BudgetAssumption
<1>2. ASSUME NEW p \in Places(out) PROVE p \in PathsOf(out)
  BY PlacesArePaths
<1>3. ASSUME NEW p \in PathsOf(out) PROVE p \in Places(out)
  <2>1. p \in [1..Len(p) -> Edges(out)] /\ Len(p) \in 0..MaxDepth + 1
    BY <1>1 DEF PathsOf
  <2> QED BY <2>1 DEF PathsOf, Places
<1> QED BY <1>2, <1>3

\* What a place adds to the size of those that are counted without it.
LEMMA CellsAdded ==
  ASSUME NEW S, IsFiniteSet(S), NEW p, \A x \in S : x[1] # p, NEW n \in Nat
  PROVE  /\ IsFiniteSet(S \cup ({p} \X (1..n)))
         /\ Cardinality(S \cup ({p} \X (1..n))) = Cardinality(S) + n
<1> DEFINE T == {p} \X (1..n)
<1>1. IsFiniteSet(1..n) /\ Cardinality(1..n) = n
  BY FS_Interval
<1>2. IsFiniteSet({p}) /\ Cardinality({p}) = 1
  BY FS_Singleton
<1>3. IsFiniteSet(T) /\ Cardinality(T) = n
  BY <1>1, <1>2, FS_Product
<1>4. S \cap T = {} /\ Cardinality(S \cap T) = 0
  BY FS_EmptySet
<1>5. Cardinality(S) \in Nat
  BY FS_CardinalityType
<1> HIDE DEF T
<1>6. IsFiniteSet(S \cup T) /\ Cardinality(S \cup T) = Cardinality(S) + n
  BY <1>3, <1>4, <1>5, FS_Union
<1> QED BY <1>6 DEF T

-----------------------------------------------------------------------------
(* The conversion *)

Items(s) == {s[i] : i \in 1..Len(s)}
Distinct(s) == \A i, j \in 1..Len(s) : s[i] = s[j] => i = j

LEMMA JoinedItems ==
  ASSUME NEW S, NEW s \in Seq(S), NEW t \in Seq(S)
  PROVE  /\ s \o t \in Seq(S) /\ Items(s \o t) = Items(s) \cup Items(t)
         /\ Distinct(s) /\ Distinct(t) /\ Items(s) \cap Items(t) = {} => Distinct(s \o t)
<1> DEFINE u == s \o t
<1>1. u \in Seq(S) /\ Len(u) = Len(s) + Len(t) /\ Len(s) \in Nat /\ Len(t) \in Nat
  OBVIOUS
<1>2. /\ \A i \in 1..Len(s) : i \in 1..Len(u) /\ u[i] = s[i]
      /\ \A i \in 1..Len(t) : i + Len(s) \in 1..Len(u) /\ u[i + Len(s)] = t[i]
  BY <1>1
<1>3. \A i \in 1..Len(u) :
        \/ i \in 1..Len(s) /\ u[i] = s[i]
        \/ i - Len(s) \in 1..Len(t) /\ u[i] = t[i - Len(s)]
  <2> SUFFICES ASSUME NEW i \in 1..Len(u), i \notin 1..Len(s)
               PROVE  i - Len(s) \in 1..Len(t) /\ u[i] = t[i - Len(s)]
    BY <1>2
  <2>1. i - Len(s) \in 1..Len(t) /\ i = (i - Len(s)) + Len(s)
    BY <1>1
  <2> QED BY <1>2, <2>1
<1> HIDE DEF u
<1>4. Items(u) = Items(s) \cup Items(t)
  <2>1. Items(u) \subseteq Items(s) \cup Items(t)
    BY <1>3 DEF Items
  <2>2. Items(s) \subseteq Items(u) /\ Items(t) \subseteq Items(u)
    BY <1>2 DEF Items
  <2> QED BY <2>1, <2>2
<1>5. ASSUME Distinct(s), Distinct(t), Items(s) \cap Items(t) = {},
             NEW i \in 1..Len(u), NEW j \in 1..Len(u), u[i] = u[j]
      PROVE  i = j
  <2>1. \A k \in 1..Len(s), l \in 1..Len(t) : s[k] # t[l]
    BY <1>5 DEF Items
  <2>2. CASE i \in 1..Len(s) /\ u[i] = s[i]
    <3>1. j \in 1..Len(s) /\ u[j] = s[j]
      BY <1>3, <1>5, <2>1, <2>2
    <3> QED BY <1>5, <2>2, <3>1 DEF Distinct
  <2>3. CASE i - Len(s) \in 1..Len(t) /\ u[i] = t[i - Len(s)]
    <3>1. j - Len(s) \in 1..Len(t) /\ u[j] = t[j - Len(s)]
      BY <1>3, <1>5, <2>1, <2>3
    <3>2. i - Len(s) = j - Len(s)
      BY <1>5, <2>3, <3>1 DEF Distinct
    <3> QED BY <1>1, <3>2
  <2> QED BY <1>3, <2>2, <2>3
<1> QED BY <1>1, <1>4, <1>5 DEF Distinct, u

LEMMA HeadAndTail ==
  ASSUME NEW S, NEW s \in Seq(S), s # <<>>
  PROVE  /\ Head(s) \in S /\ Tail(s) \in Seq(S) /\ Items(s) = {Head(s)} \cup Items(Tail(s))
         /\ Distinct(s) => Distinct(Tail(s)) /\ Head(s) \notin Items(Tail(s))
<1>1. /\ Head(s) \in S /\ Tail(s) \in Seq(S) /\ Len(Tail(s)) = Len(s) - 1 /\ Len(s) \in Nat \ {0}
      /\ \A i \in 1..Len(Tail(s)) : Tail(s)[i] = s[i + 1]
  BY HeadTailProperties, EmptySeq
<1>2. Head(s) = s[1]
  OBVIOUS
<1>3. /\ \A i \in 1..Len(s) : i = 1 \/ (i - 1 \in 1..Len(Tail(s)) /\ Tail(s)[i - 1] = s[i])
      /\ \A i \in 1..Len(Tail(s)) : i + 1 \in 1..Len(s) /\ Tail(s)[i] = s[i + 1]
      /\ 1 \in 1..Len(s)
  BY <1>1
<1>4. Items(s) = {Head(s)} \cup Items(Tail(s))
  BY <1>2, <1>3 DEF Items
<1>5. Distinct(s) => Distinct(Tail(s)) /\ Head(s) \notin Items(Tail(s))
  <2> SUFFICES ASSUME Distinct(s) PROVE Distinct(Tail(s)) /\ Head(s) \notin Items(Tail(s))
    OBVIOUS
  <2>1. ASSUME NEW i \in 1..Len(Tail(s)), NEW j \in 1..Len(Tail(s)), Tail(s)[i] = Tail(s)[j]
        PROVE  i = j
    <3>1. i + 1 = j + 1
      BY <1>3, <2>1 DEF Distinct
    <3> QED BY <3>1
  <2>2. ASSUME NEW i \in 1..Len(Tail(s)) PROVE Tail(s)[i] # Head(s)
    <3>1. i + 1 # 1
      OBVIOUS
    <3> QED BY <1>2, <1>3, <3>1 DEF Distinct
  <2> QED BY <2>1, <2>2 DEF Distinct, Items
<1> QED BY <1>1, <1>4, <1>5

\* What a walk knows of the value: which places it has seen and has still to see,
\* none twice and none before what it is a part of, and what the seen ones cost.
Walked(c) ==
  /\ c = [out |-> c.out, todo |-> c.todo, seen |-> c.seen, nodes |-> c.nodes, bytes |-> c.bytes]
  /\ WellFormed(c.out)
  /\ c.seen \subseteq PathsOf(c.out) /\ c.todo \in Seq(PathsOf(c.out))
  /\ Distinct(c.todo)
  /\ c.seen \cap Items(c.todo) = {}

Reached(c) ==
  /\ <<>> \in c.seen \cup Items(c.todo)
  /\ \A p \in c.seen : \A k \in 1..Len(At(c.out, p).parts) :
       Append(p, <<Node(c.out, p), k>>) \in c.seen \cup Items(c.todo)
  /\ \A p \in PathsOf(c.out) : \A k \in 1..Len(At(c.out, p).parts) :
       Append(p, <<Node(c.out, p), k>>) \in c.seen \cup Items(c.todo) => p \in c.seen

Charged(c) ==
  /\ \A p \in c.seen \cup Items(c.todo) : Len(p) <= MaxDepth
  /\ \A p \in c.seen : At(c.out, p).kind = "string" => At(c.out, p).size <= MaxString
  /\ IsFiniteSet(NodeCells(c.out, c.seen)) /\ Cardinality(NodeCells(c.out, c.seen)) = c.nodes
  /\ IsFiniteSet(ByteCells(c.out, c.seen)) /\ Cardinality(ByteCells(c.out, c.seen)) = c.bytes
  /\ c.nodes \in 0..MaxNodes /\ c.bytes \in 0..MaxBytes

Walk(c) == Walked(c) /\ Reached(c) /\ Charged(c)

LEMMA WalkBegins ==
  ASSUME NEW out, WellFormed(out)
  PROVE  Walk(Begin(out)) /\ Begin(out).out = out /\ Begin(out).todo # <<>>
<1> DEFINE c == Begin(out)
<1>1. /\ c = [out |-> out, todo |-> << <<>> >>, seen |-> {}, nodes |-> 0, bytes |-> 0]
      /\ c.out = out /\ c.todo = << <<>> >> /\ c.seen = {} /\ c.nodes = 0 /\ c.bytes = 0
  BY DEF Begin
<1>2. Len(c.todo) = 1 /\ c.todo[1] = <<>> /\ c.todo \in Seq(PathsOf(out)) /\ c.todo # <<>>
  BY <1>1, EmptyIsPlace
<1>3. Items(c.todo) = {<<>>} /\ Distinct(c.todo)
  BY <1>2 DEF Items, Distinct
<1> HIDE DEF c
<1>4. Walked(c)
  BY <1>1, <1>2, <1>3 DEF Walked
<1>5. Reached(c)
  <2> SUFFICES ASSUME NEW p \in PathsOf(out), NEW k \in 1..Len(At(out, p).parts)
               PROVE  Append(p, <<Node(out, p), k>>) # <<>>
    BY <1>1, <1>3 DEF Reached
  <2>1. <<Node(out, p), k>> \in Edges(out) /\ p \in Seq(Edges(out))
    BY PartIsPlace DEF PathsOf
  <2> QED BY <2>1, AppendProperties
<1>6. Charged(c)
  <2>1. NodeCells(out, {}) = {} /\ ByteCells(out, {}) = {}
    BY DEF NodeCells, ByteCells
  <2>2. Len(<<>>) = 0 /\ c.seen \cup Items(c.todo) = {<<>>} /\ c.seen = {}
    BY <1>1, <1>3
  <2>3. IsFiniteSet({}) /\ Cardinality({}) = 0
    BY FS_EmptySet
  <2>4. /\ IsFiniteSet(NodeCells(c.out, c.seen)) /\ Cardinality(NodeCells(c.out, c.seen)) = 0
        /\ IsFiniteSet(ByteCells(c.out, c.seen)) /\ Cardinality(ByteCells(c.out, c.seen)) = 0
    BY <1>1, <2>1, <2>3
  <2>5. c.nodes \in 0..MaxNodes /\ c.bytes \in 0..MaxBytes /\ \A p \in {<<>>} : Len(p) <= MaxDepth
    BY <1>1, <2>2, BudgetAssumption
  <2> QED BY <1>1, <2>2, <2>4, <2>5 DEF Charged
<1> QED BY <1>1, <1>2, <1>4, <1>5, <1>6 DEF Walk, c

LEMMA CostsAreNaturals ==
  ASSUME NEW out, WellFormed(out), NEW p \in PathsOf(out)
  PROVE  Nodes(out, p) \in Nat /\ Bytes(out, p) \in Nat
<1>1. Key(out, p) \in Nat
  BY DEF Key
<1>2. At(out, p).size \in Nat /\ At(out, p).parts \in Seq(DOMAIN out.heap)
  BY NodeType DEF At, WellFormed
<1>3. Overhead(At(out, p)) \in Nat
  BY <1>2 DEF Overhead
<1> QED BY <1>1, <1>2, <1>3 DEF Nodes, Bytes

\* The cells of one more place.
LEMMA CellsOfPlace ==
  ASSUME NEW out, WellFormed(out), NEW S \in SUBSET PathsOf(out), NEW p \in PathsOf(out) \ S,
         IsFiniteSet(NodeCells(out, S)), IsFiniteSet(ByteCells(out, S))
  PROVE  /\ Nodes(out, p) \in Nat /\ Bytes(out, p) \in Nat
         /\ IsFiniteSet(NodeCells(out, S \cup {p}))
         /\ Cardinality(NodeCells(out, S \cup {p})) = Cardinality(NodeCells(out, S)) + Nodes(out, p)
         /\ IsFiniteSet(ByteCells(out, S \cup {p}))
         /\ Cardinality(ByteCells(out, S \cup {p})) = Cardinality(ByteCells(out, S)) + Bytes(out, p)
<1>1. Nodes(out, p) \in Nat /\ Bytes(out, p) \in Nat
  BY CostsAreNaturals
<1>2. /\ NodeCells(out, S \cup {p}) = NodeCells(out, S) \cup ({p} \X (1..Nodes(out, p)))
      /\ ByteCells(out, S \cup {p}) = ByteCells(out, S) \cup ({p} \X (1..Bytes(out, p)))
  BY DEF NodeCells, ByteCells
<1>3. /\ \A x \in NodeCells(out, S) : x[1] # p
      /\ \A x \in ByteCells(out, S) : x[1] # p
  BY DEF NodeCells, ByteCells
<1>4. /\ IsFiniteSet(NodeCells(out, S) \cup ({p} \X (1..Nodes(out, p))))
      /\ Cardinality(NodeCells(out, S) \cup ({p} \X (1..Nodes(out, p))))
           = Cardinality(NodeCells(out, S)) + Nodes(out, p)
  BY <1>1, <1>3, CellsAdded
<1>5. /\ IsFiniteSet(ByteCells(out, S) \cup ({p} \X (1..Bytes(out, p))))
      /\ Cardinality(ByteCells(out, S) \cup ({p} \X (1..Bytes(out, p))))
           = Cardinality(ByteCells(out, S)) + Bytes(out, p)
  BY <1>1, <1>3, CellsAdded
<1> QED BY <1>1, <1>2, <1>4, <1>5

LEMMA PartsOf ==
  ASSUME NEW out, WellFormed(out), NEW p \in PathsOf(out)
  PROVE  /\ Parts(out, p) \in Seq(PathsOf(out)) /\ Len(Parts(out, p)) = Len(At(out, p).parts)
         /\ Len(At(out, p).parts) \in Nat
         /\ \A k \in 1..Len(Parts(out, p)) : Parts(out, p)[k] = Append(p, <<Node(out, p), k>>)
         /\ Distinct(Parts(out, p))
<1>1. Len(At(out, p).parts) \in Nat
  BY NodeType DEF At, WellFormed
<1>2. /\ Parts(out, p) \in Seq(PathsOf(out)) /\ Len(Parts(out, p)) = Len(At(out, p).parts)
      /\ \A k \in 1..Len(Parts(out, p)) : Parts(out, p)[k] = Append(p, <<Node(out, p), k>>)
  BY <1>1, PartIsPlace DEF Parts
<1>3. ASSUME NEW j \in 1..Len(Parts(out, p)), NEW k \in 1..Len(Parts(out, p)),
             Append(p, <<Node(out, p), j>>) = Append(p, <<Node(out, p), k>>)
      PROVE  j = k
  <2>1. /\ <<Node(out, p), j>> \in Edges(out) /\ <<Node(out, p), k>> \in Edges(out)
        /\ p \in Seq(Edges(out))
    BY <1>2, PartIsPlace DEF PathsOf
  <2>2. <<Node(out, p), j>> = <<Node(out, p), k>>
    BY <1>3, <2>1, AppendInjective
  <2> QED BY <2>2
<1> QED BY <1>1, <1>2, <1>3 DEF Distinct

LEMMA VisitIs ==
  ASSUME NEW c, Walked(c)
  PROVE  /\ Visit(c) = [out |-> c.out, todo |-> Parts(c.out, Head(c.todo)) \o Tail(c.todo),
                        seen |-> c.seen \cup {Head(c.todo)},
                        nodes |-> c.nodes + Nodes(c.out, Head(c.todo)),
                        bytes |-> c.bytes + Bytes(c.out, Head(c.todo))]
         /\ Visit(c).out = c.out /\ Visit(c).todo = Parts(c.out, Head(c.todo)) \o Tail(c.todo)
         /\ Visit(c).seen = c.seen \cup {Head(c.todo)}
         /\ Visit(c).nodes = c.nodes + Nodes(c.out, Head(c.todo))
         /\ Visit(c).bytes = c.bytes + Bytes(c.out, Head(c.todo))
<1> DEFINE todo == Parts(c.out, Head(c.todo)) \o Tail(c.todo)
           seen == c.seen \cup {Head(c.todo)}
           nodes == c.nodes + Nodes(c.out, Head(c.todo))
           bytes == c.bytes + Bytes(c.out, Head(c.todo))
<1>1. Visit(c) = [c EXCEPT !.todo = todo, !.seen = seen, !.nodes = nodes, !.bytes = bytes]
  BY DEF Visit
<1>2. c = [out |-> c.out, todo |-> c.todo, seen |-> c.seen, nodes |-> c.nodes, bytes |-> c.bytes]
  BY DEF Walked
<1> HIDE DEF todo, seen, nodes, bytes
<1>3. Visit(c) = [out |-> c.out, todo |-> todo, seen |-> seen, nodes |-> nodes, bytes |-> bytes]
  BY <1>1, <1>2
<1>4. /\ Visit(c).out = c.out /\ Visit(c).todo = todo /\ Visit(c).seen = seen
      /\ Visit(c).nodes = nodes /\ Visit(c).bytes = bytes
  BY <1>3
<1> QED BY <1>3, <1>4 DEF todo, seen, nodes, bytes

\* A step of the conversion that accepts the next value keeps what the walk knows,
\* and its charges are within the budgets.
LEMMA WalkGoesOn ==
  ASSUME NEW c, Walk(c), c.todo # <<>>, Accepts(c)
  PROVE  Walk(Visit(c)) /\ Visit(c).out = c.out
<1> DEFINE p == Head(c.todo)
           rest == Tail(c.todo)
           parts == Parts(c.out, p)
           d == Visit(c)
<1>1. /\ d = [out |-> c.out, todo |-> parts \o rest, seen |-> c.seen \cup {p},
              nodes |-> c.nodes + Nodes(c.out, p), bytes |-> c.bytes + Bytes(c.out, p)]
      /\ d.out = c.out /\ d.todo = parts \o rest /\ d.seen = c.seen \cup {p}
      /\ d.nodes = c.nodes + Nodes(c.out, p) /\ d.bytes = c.bytes + Bytes(c.out, p)
  BY VisitIs DEF Walk
<1>2. /\ WellFormed(c.out) /\ c.seen \subseteq PathsOf(c.out) /\ c.seen \cap Items(c.todo) = {}
      /\ c.todo \in Seq(PathsOf(c.out)) /\ Distinct(c.todo)
  BY DEF Walk, Walked
<1>3. /\ p \in PathsOf(c.out) /\ rest \in Seq(PathsOf(c.out)) /\ Items(c.todo) = {p} \cup Items(rest)
      /\ Distinct(rest) /\ p \notin Items(rest)
  BY <1>2, HeadAndTail
<1>4. /\ parts \in Seq(PathsOf(c.out)) /\ Len(parts) = Len(At(c.out, p).parts) /\ Len(parts) \in Nat
      /\ \A k \in 1..Len(parts) : parts[k] = Append(p, <<Node(c.out, p), k>>)
      /\ Distinct(parts)
  BY <1>2, <1>3, PartsOf
<1> HIDE DEF p, rest, parts, d
\* The parts are new: whatever the walk has met is the root or a part of what it has seen.
<1>5. ASSUME NEW k \in 1..Len(parts)
      PROVE  parts[k] \notin c.seen \cup Items(c.todo) /\ Len(parts[k]) = Len(p) + 1 /\ Len(p) \in Nat
  <2>1. k \in 1..Len(At(c.out, p).parts) /\ parts[k] = Append(p, <<Node(c.out, p), k>>)
    BY <1>4
  <2>2. p \notin c.seen
    BY <1>2, <1>3
  <2>3. parts[k] \notin c.seen \cup Items(c.todo)
    BY <1>3, <2>1, <2>2 DEF Walk, Reached
  <2> QED BY <1>2, <1>3, <2>1, <2>3, PartIsPlace DEF PathsOf
<1>6. Items(parts) \cap (c.seen \cup Items(c.todo)) = {}
  BY <1>5 DEF Items
<1>7. Items(d.todo) = Items(parts) \cup Items(rest) /\ d.todo \in Seq(PathsOf(c.out)) /\ Distinct(d.todo)
  BY <1>1, <1>3, <1>4, <1>6, JoinedItems
<1>8. Walked(d)
  <2>1. d.seen \subseteq PathsOf(c.out) /\ d.seen \cap Items(d.todo) = {}
    BY <1>1, <1>2, <1>3, <1>6, <1>7
  <2> QED BY <1>1, <1>2, <1>7, <2>1 DEF Walked
<1>9. Reached(d)
  <2>1. c.seen \cup Items(c.todo) \subseteq d.seen \cup Items(d.todo)
    BY <1>1, <1>3, <1>7
  <2>2. <<>> \in d.seen \cup Items(d.todo)
    BY <2>1 DEF Walk, Reached
  <2>3. ASSUME NEW q \in d.seen, NEW k \in 1..Len(At(c.out, q).parts)
        PROVE  Append(q, <<Node(c.out, q), k>>) \in d.seen \cup Items(d.todo)
    <3>1. CASE q \in c.seen
      BY <2>1, <3>1 DEF Walk, Reached
    <3>2. CASE q = p
      <4>1. k \in 1..Len(parts) /\ Append(q, <<Node(c.out, q), k>>) = parts[k]
        BY <1>4, <3>2
      <4> QED BY <1>7, <4>1 DEF Items
    <3> QED BY <1>1, <3>1, <3>2
  <2>4. ASSUME NEW q \in PathsOf(c.out), NEW k \in 1..Len(At(c.out, q).parts),
               Append(q, <<Node(c.out, q), k>>) \in d.seen \cup Items(d.todo)
        PROVE  q \in d.seen
    <3>1. CASE Append(q, <<Node(c.out, q), k>>) \in c.seen \cup Items(c.todo)
      BY <1>1, <3>1 DEF Walk, Reached
    <3>2. CASE Append(q, <<Node(c.out, q), k>>) \notin c.seen \cup Items(c.todo)
      <4>1. PICK j \in 1..Len(parts) : Append(q, <<Node(c.out, q), k>>) = Append(p, <<Node(c.out, p), j>>)
        <5>1. Append(q, <<Node(c.out, q), k>>) \in Items(parts)
          BY <1>1, <1>3, <1>7, <2>4, <3>2
        <5> QED BY <1>4, <5>1 DEF Items
      <4>2. /\ <<Node(c.out, q), k>> \in Edges(c.out) /\ <<Node(c.out, p), j>> \in Edges(c.out)
            /\ p \in Seq(Edges(c.out)) /\ q \in Seq(Edges(c.out))
        BY <1>2, <1>3, <1>4, PartIsPlace DEF PathsOf
      <4>3. q = p
        BY <4>1, <4>2, AppendInjective
      <4> QED BY <1>1, <4>3
    <3> QED BY <3>1, <3>2
  <2> QED BY <1>1, <2>2, <2>3, <2>4 DEF Reached
<1>10. Charged(d)
  <2>1. /\ At(c.out, p).kind # "function" /\ c.nodes + Nodes(c.out, p) <= MaxNodes
        /\ c.bytes + Bytes(c.out, p) <= MaxBytes
        /\ At(c.out, p).kind = "string" => At(c.out, p).size <= MaxString
        /\ At(c.out, p).kind \in Containers => Len(p) < MaxDepth
    BY DEF Accepts, Affords, p
  <2>2. Len(parts) > 0 => At(c.out, p).kind \in Containers
    <3>1. Node(c.out, p) \in DOMAIN c.out.heap
      BY <1>2, <1>3, NodeType
    <3>2. At(c.out, p).kind \notin Containers => At(c.out, p).parts = <<>>
      BY <1>2, <3>1 DEF At, WellFormed
    <3> QED BY <1>4, <3>2
  <2>3. /\ \A q \in c.seen \cup Items(c.todo) : Len(q) <= MaxDepth
        /\ \A q \in c.seen : At(c.out, q).kind = "string" => At(c.out, q).size <= MaxString
        /\ IsFiniteSet(NodeCells(c.out, c.seen)) /\ Cardinality(NodeCells(c.out, c.seen)) = c.nodes
        /\ IsFiniteSet(ByteCells(c.out, c.seen)) /\ Cardinality(ByteCells(c.out, c.seen)) = c.bytes
        /\ c.nodes \in Nat /\ c.bytes \in Nat
    BY BudgetAssumption DEF Walk, Charged
  <2>4. \A q \in d.seen \cup Items(d.todo) : Len(q) <= MaxDepth
    <3>1. ASSUME NEW k \in 1..Len(parts) PROVE Len(parts[k]) <= MaxDepth
      <4>1. Len(p) \in Nat /\ Len(p) < MaxDepth /\ MaxDepth \in Nat
        BY <1>4, <1>5, <2>1, <2>2, BudgetAssumption
      <4> QED BY <1>5, <4>1
    <3>2. \A q \in Items(parts) : Len(q) <= MaxDepth
      BY <3>1 DEF Items
    <3> QED BY <1>1, <1>3, <1>7, <2>3, <3>2
  <2>5. /\ Nodes(c.out, p) \in Nat /\ Bytes(c.out, p) \in Nat
        /\ IsFiniteSet(NodeCells(c.out, d.seen)) /\ IsFiniteSet(ByteCells(c.out, d.seen))
        /\ Cardinality(NodeCells(c.out, d.seen)) = d.nodes /\ Cardinality(ByteCells(c.out, d.seen)) = d.bytes
    <3>1. p \in PathsOf(c.out) \ c.seen
      BY <1>2, <1>3
    <3>2. /\ Nodes(c.out, p) \in Nat /\ Bytes(c.out, p) \in Nat
          /\ IsFiniteSet(NodeCells(c.out, c.seen \cup {p}))
          /\ Cardinality(NodeCells(c.out, c.seen \cup {p})) = c.nodes + Nodes(c.out, p)
          /\ IsFiniteSet(ByteCells(c.out, c.seen \cup {p}))
          /\ Cardinality(ByteCells(c.out, c.seen \cup {p})) = c.bytes + Bytes(c.out, p)
      BY <1>2, <2>3, <3>1, CellsOfPlace
    <3> QED BY <1>1, <3>2
  <2>6. d.nodes \in 0..MaxNodes /\ d.bytes \in 0..MaxBytes
    BY <1>1, <2>1, <2>3, <2>5, BudgetAssumption
  <2>7. \A q \in d.seen : At(c.out, q).kind = "string" => At(c.out, q).size <= MaxString
    BY <1>1, <2>1, <2>3
  <2> QED BY <1>1, <2>4, <2>5, <2>6, <2>7 DEF Charged
<1> QED BY <1>1, <1>8, <1>9, <1>10 DEF Walk, d

\* When nothing is left to see, all of the value has been charged.
LEMMA WalkEnds ==
  ASSUME NEW c, Walk(c), c.todo = <<>>
  PROVE  WithinBudgets(c.out)
<1>1. Items(c.todo) = {}
  BY DEF Items
<1>2. c.seen \subseteq PathsOf(c.out) /\ WellFormed(c.out)
  BY DEF Walk, Walked
<1>3. /\ <<>> \in c.seen
      /\ \A p \in c.seen : \A k \in 1..Len(At(c.out, p).parts) :
           Append(p, <<Node(c.out, p), k>>) \in c.seen
  BY <1>1 DEF Walk, Reached
<1>4. c.seen = PathsOf(c.out)
  BY <1>2, <1>3, ClosedIsWhole
<1>5. Places(c.out) = c.seen
  BY <1>4, PlacesAreShort DEF Walk, Charged
<1> QED BY <1>5, BudgetAssumption DEF Walk, Charged, WithinBudgets

-----------------------------------------------------------------------------
(* The conversion is exact: it refuses nothing that can be converted *)

\* What a function has for a finite domain is finite, and so is its union.
LEMMA FiniteRange ==
  ASSUME NEW f, f = [x \in DOMAIN f |-> f[x]], IsFiniteSet(DOMAIN f)
  PROVE  /\ IsFiniteSet({f[x] : x \in DOMAIN f})
         /\ (\A x \in DOMAIN f : IsFiniteSet(f[x])) => IsFiniteSet(UNION {f[x] : x \in DOMAIN f})
<1> DEFINE T == {f[x] : x \in DOMAIN f}
<1>1. f \in Surjection(DOMAIN f, T)
  BY DEF Surjection
<1>2. IsFiniteSet(T)
  BY <1>1, FS_Surjection
<1>3. ASSUME \A x \in DOMAIN f : IsFiniteSet(f[x]) PROVE IsFiniteSet(UNION T)
  <2>1. \A U \in T : IsFiniteSet(U)
    BY <1>3
  <2> QED BY <1>2, <2>1, FS_UNION
<1> QED BY <1>2, <1>3

LEMMA FiniteFunctions ==
  ASSUME NEW n \in Nat, NEW E, IsFiniteSet(E)
  PROVE  IsFiniteSet([1..n -> E])
<1> DEFINE graph == [p \in [1..n -> E] |-> {<<i, p[i]>> : i \in 1..n}]
           T == SUBSET ((1..n) \X E)
<1>1. IsFiniteSet(1..n)
  BY FS_Interval
<1>2. IsFiniteSet(T)
  BY <1>1, FS_Product, FS_SUBSET
<1>3. graph \in [[1..n -> E] -> T]
  OBVIOUS
<1>4. ASSUME NEW p \in [1..n -> E], NEW q \in [1..n -> E], graph[p] = graph[q]
      PROVE  p = q
  <2>1. ASSUME NEW i \in 1..n PROVE p[i] = q[i]
    <3>1. <<i, p[i]>> \in graph[p]
      OBVIOUS
    <3>2. PICK j \in 1..n : <<i, p[i]>> = <<j, q[j]>>
      BY <1>4, <3>1
    <3> QED BY <3>2
  <2> QED BY <2>1
<1>5. graph \in Injection([1..n -> E], T)
  <2>1. graph \in [[1..n -> E] -> T] /\ DOMAIN graph = [1..n -> E]
    BY <1>3
  <2> HIDE DEF graph, T
  <2> QED BY <1>4, <2>1 DEF Injection, IsInjective
<1> QED BY <1>2, <1>5, FS_Injection

\* Of a heap that is finite only finitely much is written out, up to the depth.
LEMMA PlacesAreFinite ==
  ASSUME NEW out, WellFormed(out)
  PROVE  IsFiniteSet(Places(out))
<1> DEFINE E == [n \in DOMAIN out.heap |-> {n} \X DOMAIN out.heap[n].parts]
           F == [n \in 0..MaxDepth + 1 |-> [1..n -> Edges(out)]]
<1>1. IsFiniteSet(Edges(out))
  <2>1. ASSUME NEW n \in DOMAIN out.heap PROVE IsFiniteSet(E[n])
    <3>1. Len(out.heap[n].parts) \in Nat /\ DOMAIN out.heap[n].parts = 1..Len(out.heap[n].parts)
      BY DEF WellFormed
    <3>2. IsFiniteSet(DOMAIN out.heap[n].parts)
      BY <3>1, FS_Interval
    <3>3. IsFiniteSet({n})
      BY FS_Singleton
    <3>4. IsFiniteSet({n} \X DOMAIN out.heap[n].parts)
      BY <3>2, <3>3, FS_Product
    <3> QED BY <3>4
  <2>2. IsFiniteSet(DOMAIN E) /\ DOMAIN E = DOMAIN out.heap
    BY DEF WellFormed
  <2>3. Edges(out) = UNION {E[n] : n \in DOMAIN E}
    BY DEF Edges
  <2>4. E = [n \in DOMAIN E |-> E[n]]
    OBVIOUS
  <2> HIDE DEF E
  <2>5. IsFiniteSet(UNION {E[n] : n \in DOMAIN E})
    BY <2>1, <2>2, <2>4, FiniteRange
  <2> QED BY <2>3, <2>5
<1>2. IsFiniteSet(UNION {F[n] : n \in DOMAIN F})
  <2>1. \A n \in DOMAIN F : IsFiniteSet(F[n])
    BY <1>1, FiniteFunctions
  <2>2. IsFiniteSet(DOMAIN F)
    BY FS_Interval, BudgetAssumption
  <2>3. F = [n \in DOMAIN F |-> F[n]]
    OBVIOUS
  <2> HIDE DEF F
  <2> QED BY <2>1, <2>2, <2>3, FiniteRange
<1>3. Places(out) \in SUBSET UNION {F[n] : n \in DOMAIN F}
  BY DEF Places
<1> HIDE DEF F
<1> QED BY <1>2, <1>3, FS_Subset

LEMMA CellsAreFinite ==
  ASSUME NEW out, WellFormed(out)
  PROVE  IsFiniteSet(NodeCells(out, Places(out))) /\ IsFiniteSet(ByteCells(out, Places(out)))
<1> DEFINE N == [p \in Places(out) |-> {p} \X (1..Nodes(out, p))]
           B == [p \in Places(out) |-> {p} \X (1..Bytes(out, p))]
<1>1. ASSUME NEW p \in Places(out)
      PROVE  IsFiniteSet({p} \X (1..Nodes(out, p))) /\ IsFiniteSet({p} \X (1..Bytes(out, p)))
  <2>1. Nodes(out, p) \in Int /\ Bytes(out, p) \in Int
    BY PlacesArePaths, CostsAreNaturals
  <2>2. IsFiniteSet({p}) /\ IsFiniteSet(1..Nodes(out, p)) /\ IsFiniteSet(1..Bytes(out, p))
    <3> DEFINE n == Nodes(out, p)
               b == Bytes(out, p)
    <3>1. n \in Int /\ b \in Int /\ 1 \in Int
      BY <2>1
    <3> HIDE DEF n, b
    <3>2. IsFiniteSet(1..n) /\ IsFiniteSet(1..b)
      BY <3>1, FS_Interval
    <3>3. IsFiniteSet({p})
      BY FS_Singleton
    <3> QED BY <3>2, <3>3 DEF n, b
  <2> QED BY <2>2, FS_Product
<1>2. /\ IsFiniteSet(DOMAIN N) /\ N = [p \in DOMAIN N |-> N[p]]
      /\ \A p \in DOMAIN N : IsFiniteSet(N[p])
  BY <1>1, PlacesAreFinite
<1>4. /\ IsFiniteSet(DOMAIN B) /\ B = [p \in DOMAIN B |-> B[p]]
      /\ \A p \in DOMAIN B : IsFiniteSet(B[p])
  BY <1>1, PlacesAreFinite
<1>3. /\ NodeCells(out, Places(out)) = UNION {N[p] : p \in DOMAIN N}
      /\ ByteCells(out, Places(out)) = UNION {B[p] : p \in DOMAIN B}
  BY DEF NodeCells, ByteCells
<1> HIDE DEF N, B
<1>5. IsFiniteSet(UNION {N[p] : p \in DOMAIN N})
  BY <1>2, FiniteRange
<1>6. IsFiniteSet(UNION {B[p] : p \in DOMAIN B})
  BY <1>4, FiniteRange
<1> QED BY <1>3, <1>5, <1>6

\* A value none of whose places is too deep has no deeper ones.
LEMMA ShortIsWhole ==
  ASSUME NEW out, WellFormed(out), \A p \in Places(out) : Len(p) <= MaxDepth
  PROVE  PathsOf(out) = Places(out)
<1>1. MaxDepth \in Nat
  BY BudgetAssumption
<1>2. ASSUME NEW p \in PathsOf(out), Len(p) <= MaxDepth + 1 PROVE p \in Places(out)
  <2>1. p \in [1..Len(p) -> Edges(out)] /\ Len(p) \in 0..MaxDepth + 1
    BY <1>1, <1>2 DEF PathsOf
  <2> QED BY <2>1 DEF PathsOf, Places
<1>3. <<>> \in Places(out)
  <2>1. Len(<<>>) = 0
    OBVIOUS
  <2> QED BY <1>1, <1>2, <2>1, EmptyIsPlace
<1>4. ASSUME NEW p \in Places(out), NEW k \in 1..Len(At(out, p).parts)
      PROVE  Append(p, <<Node(out, p), k>>) \in Places(out)
  <2>1. p \in PathsOf(out) /\ Len(p) \in Nat
    BY PlacesArePaths DEF PathsOf
  <2> DEFINE q == Append(p, <<Node(out, p), k>>)
  <2>2. q \in PathsOf(out) /\ Len(q) = Len(p) + 1
    BY <2>1, PartIsPlace
  <2>3. Len(p) <= MaxDepth
    OBVIOUS
  <2> HIDE DEF q
  <2>4. Len(q) <= MaxDepth + 1
    BY <1>1, <2>1, <2>2, <2>3
  <2>5. q \in Places(out)
    BY <1>2, <2>2, <2>4
  <2> QED BY <2>5 DEF q
<1>5. PathsOf(out) \subseteq Places(out)
  BY <1>3, <1>4, PlacesArePaths, ClosedIsWhole
<1> QED BY <1>5, PlacesArePaths

\* A value that contains itself has places of any depth: from a node of the cycle
\* one always gets to the next.
LEMMA NoCycle ==
  ASSUME NEW out, WellFormed(out), \A q \in PathsOf(out) : Len(q) <= MaxDepth,
         NEW p \in PathsOf(out)
  PROVE  Node(out, p) \notin Ancestors(out, p)
<1> SUFFICES ASSUME Node(out, p) \in Ancestors(out, p) PROVE FALSE
  OBVIOUS
<1>1. PICK i \in 1..Len(p) : p[i][1] = Node(out, p)
  BY DEF Ancestors
<1> DEFINE cycle == {p[j][1] : j \in i..Len(p)}
           left_ == {MaxDepth - Len(q) : q \in {r \in PathsOf(out) : Node(out, r) \in cycle}}
<1>2. p \in Seq(Edges(out)) /\ Len(p) \in Nat /\ MaxDepth \in Nat
  BY BudgetAssumption DEF PathsOf
<1>3. left_ \subseteq Nat
  <2>1. \A q \in PathsOf(out) : Len(q) \in Nat /\ Len(q) <= MaxDepth
    BY DEF PathsOf
  <2> QED BY <1>2, <2>1
<1>4. left_ # {}
  <2>1. i \in i..Len(p)
    BY <1>2
  <2> QED BY <1>1, <2>1
<1>5. PICK n \in left_ : \A m \in left_ : ~(m < n)
  <2>1. PICK n \in left_ : \A m \in left_ : ~(<<m, n>> \in OpToRel(<, Nat))
    <3> HIDE DEF left_
    <3> QED BY <1>3, <1>4, NatLessThanWellFounded, WFMin
  <2> QED BY <1>3, <2>1 DEF OpToRel
<1>6. PICK q \in PathsOf(out) : Node(out, q) \in cycle /\ n = MaxDepth - Len(q)
  OBVIOUS
<1>7. PICK j \in i..Len(p) : Node(out, q) = p[j][1]
  BY <1>6
<1>8. j \in 1..Len(p) /\ p[j] \in Edges(out)
  BY <1>2, <1>7
\* The next node of the cycle is a part of that at q.
<1>9. Child(out, p[j]) \in cycle
  <2>1. CASE j = Len(p)
    <3>1. p # <<>>
      BY <1>1, <1>2, EmptySeq
    <3>2. Child(out, p[j]) = p[i][1] /\ i \in i..Len(p)
      BY <1>1, <1>2, <2>1, <3>1 DEF Node
    <3> QED BY <3>2
  <2>2. CASE j # Len(p)
    <3>1. j + 1 \in 1..Len(p) /\ j + 1 # 1 /\ j + 1 \in i..Len(p) /\ (j + 1) - 1 = j
      BY <1>2, <1>8, <2>2
    <3>2. p[j + 1][1] = Child(out, p[j])
      BY <3>1 DEF PathsOf, IsPlace
    <3> QED BY <3>1, <3>2
  <2> QED BY <2>1, <2>2
<1>10. p[j] = <<Node(out, q), p[j][2]>> /\ p[j][2] \in 1..Len(At(out, q).parts)
  BY <1>7, <1>8, ChildType DEF At
<1> DEFINE r == Append(q, p[j])
<1>11. r \in PathsOf(out) /\ Len(r) = Len(q) + 1 /\ Len(q) \in Nat
  <2> DEFINE k == p[j][2]
  <2>1. p[j] = <<Node(out, q), k>> /\ k \in 1..Len(At(out, q).parts)
    BY <1>10
  <2> HIDE DEF k
  <2>2. /\ Append(q, <<Node(out, q), k>>) \in PathsOf(out)
        /\ Len(Append(q, <<Node(out, q), k>>)) = Len(q) + 1
    BY <2>1, PartIsPlace
  <2> QED BY <2>1, <2>2 DEF PathsOf
<1>12. Node(out, r) = Child(out, p[j])
  <2>1. q \in Seq(Edges(out))
    BY DEF PathsOf
  <2>2. r # <<>> /\ r[Len(r)] = p[j]
    BY <1>8, <1>11, <2>1, AppendProperties
  <2> HIDE DEF r
  <2> QED BY <2>2 DEF Node
<1>13. MaxDepth - Len(r) \in left_ /\ MaxDepth - Len(r) < n
  <2>1. MaxDepth - Len(r) < n
    BY <1>2, <1>6, <1>11
  <2> HIDE DEF r, cycle
  <2> QED BY <1>9, <1>11, <1>12, <2>1
<1> QED BY <1>5, <1>13

\* The parts of a container cost what is reserved for them.
LEMMA PartsCost ==
  ASSUME NEW out, WellFormed(out), NEW S \in SUBSET PathsOf(out), NEW p \in PathsOf(out),
         Items(Parts(out, p)) \cap S = {}, IsFiniteSet(NodeCells(out, S)), At(out, p).kind \in Containers
  PROVE  Cardinality(NodeCells(out, S \cup Items(Parts(out, p))))
           = Cardinality(NodeCells(out, S)) + Reserved(At(out, p))
<1> DEFINE parts == Parts(out, p)
           K == Items(parts)
           m == IF At(out, p).kind = "dict" THEN 2 ELSE 1
<1>1. /\ parts \in Seq(PathsOf(out)) /\ Len(parts) = Len(At(out, p).parts) /\ Len(parts) \in Nat
      /\ \A k \in 1..Len(parts) : parts[k] = Append(p, <<Node(out, p), k>>)
      /\ Distinct(parts)
  BY PartsOf
<1> HIDE DEF parts
<1>2. IsFiniteSet(K) /\ Cardinality(K) = Len(parts)
  <2>1. parts \in Bijection(1..Len(parts), K)
    <3>1. parts \in [1..Len(parts) -> K] /\ DOMAIN parts = 1..Len(parts)
      BY <1>1 DEF Items
    <3>2. parts \in Injection(1..Len(parts), K)
      BY <1>1, <3>1 DEF Injection, IsInjective, Distinct
    <3>3. parts \in Surjection(1..Len(parts), K)
      BY <3>1 DEF Surjection, Items
    <3> QED BY <3>2, <3>3 DEF Bijection
  <2>2. IsFiniteSet(1..Len(parts)) /\ Cardinality(1..Len(parts)) = Len(parts)
    <3> DEFINE n == Len(parts)
    <3>1. n \in Nat /\ 1 \in Int /\ n \in Int
      BY <1>1
    <3> HIDE DEF n
    <3>2. IsFiniteSet(1..n) /\ Cardinality(1..n) = IF 1 > n THEN 0 ELSE n - 1 + 1
      BY <3>1, FS_Interval
    <3>3. Cardinality(1..n) = n
      BY <3>1, <3>2
    <3> QED BY <3>2, <3>3 DEF n
  <2> QED BY <2>1, <2>2, FS_Bijection DEF ExistsBijection
<1>3. ASSUME NEW k \in 1..Len(parts) PROVE Nodes(out, parts[k]) = m
  <2>1. <<Node(out, p), k>> \in Edges(out) /\ p \in Seq(Edges(out))
    BY <1>1, PartIsPlace DEF PathsOf
  <2>2. parts[k] # <<>> /\ parts[k][Len(parts[k])] = <<Node(out, p), k>>
    BY <1>1, <2>1, AppendProperties
  <2>3. Key(out, parts[k]) = IF At(out, p).kind = "dict" THEN 1 ELSE 0
    BY <2>2 DEF Key, At
  <2> QED BY <2>3 DEF Nodes
<1>4. \A q \in K : Nodes(out, q) = m
  BY <1>3 DEF Items
<1>5. /\ NodeCells(out, S \cup K) = NodeCells(out, S) \cup (K \X (1..m))
      /\ NodeCells(out, S) \cap (K \X (1..m)) = {}
  <2>1. NodeCells(out, S \cup K) = NodeCells(out, S) \cup UNION {{q} \X (1..Nodes(out, q)) : q \in K}
    BY DEF NodeCells
  <2>2. UNION {{q} \X (1..Nodes(out, q)) : q \in K} = K \X (1..m)
    BY <1>4
  <2>3. \A x \in NodeCells(out, S) : x[1] \in S
    BY DEF NodeCells
  <2>4. \A x \in K \X (1..m) : x[1] \in K
    OBVIOUS
  <2>5. K \cap S = {}
    BY DEF parts
  <2> HIDE DEF K, m
  <2> QED BY <2>1, <2>2, <2>3, <2>4, <2>5
<1>6. IsFiniteSet(K \X (1..m)) /\ Cardinality(K \X (1..m)) = Len(parts) * m
  <2>1. IsFiniteSet(1..m) /\ Cardinality(1..m) = m
    BY FS_Interval
  <2> DEFINE M == 1..m
  <2>2. IsFiniteSet(M) /\ Cardinality(M) = m
    BY <2>1
  <2> HIDE DEF K, m, M
  <2>3. IsFiniteSet(K \X M) /\ Cardinality(K \X M) = Cardinality(K) * Cardinality(M)
    BY <1>2, <2>2, FS_Product
  <2>4. Cardinality(K \X M) = Len(parts) * m
    BY <1>2, <2>2, <2>3
  <2> QED BY <2>3, <2>4 DEF M
<1>7. Len(parts) * m = Reserved(At(out, p)) /\ Len(parts) * m \in Nat
  <2>1. CASE At(out, p).kind = "dict"
    BY <1>1, <2>1 DEF Reserved
  <2>2. CASE At(out, p).kind # "dict"
    BY <1>1, <2>2 DEF Reserved
  <2> QED BY <2>1, <2>2
<1>8. Cardinality(NodeCells(out, S) \cup (K \X (1..m))) = Cardinality(NodeCells(out, S)) + Len(parts) * m
  <2>1. Cardinality(NodeCells(out, S) \cap (K \X (1..m))) = 0
    BY <1>5, FS_EmptySet
  <2>2. Cardinality(NodeCells(out, S)) \in Nat /\ Len(parts) * m \in Nat
    BY <1>7, FS_CardinalityType
  <2> DEFINE C == NodeCells(out, S)
             D == K \X (1..m)
             n == Len(parts) * m
  <2>3. /\ IsFiniteSet(C) /\ IsFiniteSet(D) /\ Cardinality(C \cap D) = 0
        /\ Cardinality(C) \in Nat /\ n \in Nat /\ Cardinality(D) = n
    BY <1>6, <2>1, <2>2
  <2> HIDE DEF C, D, n
  <2>4. Cardinality(C \cup D) = Cardinality(C) + Cardinality(D) - Cardinality(C \cap D)
    BY <2>3, FS_Union
  <2>5. Cardinality(C \cup D) = Cardinality(C) + n
    BY <2>3, <2>4
  <2> QED BY <2>5 DEF C, D, n
<1> QED BY <1>5, <1>7, <1>8 DEF parts

\* The walk of a value that can be converted is never stopped by the value.
LEMMA WalkIsNotRefused ==
  ASSUME NEW c, Walk(c), c.todo # <<>>, Convertible(c.out)
  PROVE  Accepts(c)
<1> DEFINE p == Head(c.todo)
           v == At(c.out, p)
           S == c.seen \cup {p}
           parts == Parts(c.out, p)
<1>1. /\ WellFormed(c.out) /\ c.seen \subseteq PathsOf(c.out) /\ c.seen \cap Items(c.todo) = {}
      /\ c.todo \in Seq(PathsOf(c.out)) /\ Distinct(c.todo)
      /\ c.nodes \in Nat /\ c.bytes \in Nat
  BY BudgetAssumption DEF Walk, Walked, Charged
<1>2. p \in PathsOf(c.out) /\ p \in Items(c.todo) /\ p \notin c.seen
  BY <1>1, HeadAndTail
<1>3. PathsOf(c.out) = Places(c.out) /\ \A q \in PathsOf(c.out) : Len(q) <= MaxDepth
  BY <1>1, ShortIsWhole DEF Convertible, WithinBudgets
<1> HIDE DEF p
<1>4. /\ v.kind # "function" /\ (v.kind = "string" => v.size <= MaxString)
      /\ (v.kind \in Containers => Len(p) < MaxDepth)
  BY <1>2, <1>3 DEF Convertible, WithinBudgets
<1>5. Node(c.out, p) \notin Ancestors(c.out, p)
  BY <1>1, <1>2, <1>3, NoCycle
<1>6. /\ Nodes(c.out, p) \in Nat /\ Bytes(c.out, p) \in Nat
      /\ IsFiniteSet(NodeCells(c.out, S)) /\ Cardinality(NodeCells(c.out, S)) = c.nodes + Nodes(c.out, p)
      /\ IsFiniteSet(ByteCells(c.out, S)) /\ Cardinality(ByteCells(c.out, S)) = c.bytes + Bytes(c.out, p)
  <2>1. p \in PathsOf(c.out) \ c.seen
    BY <1>2
  <2>2. /\ IsFiniteSet(NodeCells(c.out, c.seen)) /\ Cardinality(NodeCells(c.out, c.seen)) = c.nodes
        /\ IsFiniteSet(ByteCells(c.out, c.seen)) /\ Cardinality(ByteCells(c.out, c.seen)) = c.bytes
    BY DEF Walk, Charged
  <2> QED BY <1>1, <2>1, <2>2, CellsOfPlace
<1> HIDE DEF v, S, parts
\* Whatever the walk knows of is part of what the budgets allow.
<1>7. ASSUME NEW T \in SUBSET PathsOf(c.out)
      PROVE  /\ Cardinality(NodeCells(c.out, T)) <= MaxNodes
             /\ Cardinality(ByteCells(c.out, T)) <= MaxBytes
             /\ IsFiniteSet(NodeCells(c.out, T))
  <2>1. IsFiniteSet(NodeCells(c.out, Places(c.out))) /\ IsFiniteSet(ByteCells(c.out, Places(c.out)))
    BY <1>1, CellsAreFinite
  <2>2. /\ NodeCells(c.out, T) \in SUBSET NodeCells(c.out, Places(c.out))
        /\ ByteCells(c.out, T) \in SUBSET ByteCells(c.out, Places(c.out))
    BY <1>3 DEF NodeCells, ByteCells
  <2>3. /\ Cardinality(NodeCells(c.out, T)) <= Cardinality(NodeCells(c.out, Places(c.out)))
        /\ Cardinality(ByteCells(c.out, T)) <= Cardinality(ByteCells(c.out, Places(c.out)))
        /\ IsFiniteSet(NodeCells(c.out, T)) /\ IsFiniteSet(ByteCells(c.out, T))
    BY <2>1, <2>2, FS_Subset
  <2>4. /\ Cardinality(NodeCells(c.out, Places(c.out))) <= MaxNodes
        /\ Cardinality(ByteCells(c.out, Places(c.out))) <= MaxBytes
    BY DEF Convertible, WithinBudgets
  <2>5. /\ Cardinality(NodeCells(c.out, T)) \in Nat /\ Cardinality(ByteCells(c.out, T)) \in Nat
        /\ Cardinality(NodeCells(c.out, Places(c.out))) \in Nat
        /\ Cardinality(ByteCells(c.out, Places(c.out))) \in Nat /\ MaxNodes \in Nat /\ MaxBytes \in Nat
    BY <2>1, <2>3, FS_CardinalityType, BudgetAssumption
  <2> QED BY <2>3, <2>4, <2>5
<1>8. S \in SUBSET PathsOf(c.out)
  BY <1>1, <1>2 DEF S
<1>9. Affords(c, Nodes(c.out, p), Bytes(c.out, p))
  BY <1>6, <1>7, <1>8 DEF Affords
<1>10. ASSUME v.kind \in Containers PROVE Affords(c, Nodes(c.out, p) + Reserved(v), 0)
  <2>1. /\ parts \in Seq(PathsOf(c.out)) /\ Len(parts) = Len(v.parts) /\ Len(v.parts) \in Nat
        /\ \A k \in 1..Len(parts) : parts[k] = Append(p, <<Node(c.out, p), k>>)
    BY <1>1, <1>2, PartsOf DEF parts, v
  <2>2. Items(parts) \subseteq PathsOf(c.out)
    BY <2>1 DEF Items
  <2>3. Items(parts) \cap S = {}
    <3>1. ASSUME NEW k \in 1..Len(parts) PROVE parts[k] \notin c.seen \cup Items(c.todo)
      <4>1. k \in 1..Len(At(c.out, p).parts) /\ parts[k] = Append(p, <<Node(c.out, p), k>>)
        BY <2>1 DEF v
      <4> QED BY <1>2, <4>1 DEF Walk, Reached
    <3> QED BY <1>2, <3>1 DEF Items, S
  <2>4. Cardinality(NodeCells(c.out, S \cup Items(parts))) = Cardinality(NodeCells(c.out, S)) + Reserved(v)
    BY <1>1, <1>2, <1>6, <1>8, <1>10, <2>3, PartsCost DEF parts, v
  <2>5. Cardinality(NodeCells(c.out, S \cup Items(parts))) <= MaxNodes
    BY <1>7, <1>8, <2>2
  <2>6. Reserved(v) \in Nat
    BY <2>1 DEF Reserved
  <2>7. c.bytes + 0 <= MaxBytes
    BY <1>1, BudgetAssumption DEF Walk, Charged
  <2> QED BY <1>1, <1>6, <2>4, <2>5, <2>6, <2>7 DEF Affords
<1> QED BY <1>4, <1>5, <1>9, <1>10 DEF Accepts, p, v
-----------------------------------------------------------------------------
(* The inductive invariant of ScriptRun *)

\* The results tell how far the poll is: a script has one when it is done.
Reported ==
  /\ phase = "idle" => \A s \in Scripts : stage[s] = "done" /\ result[s] = "none"
  /\ phase = "run" => \A s \in Scripts : (stage[s] = "done") = (result[s] # "none")
  /\ phase = "send" => \A s \in Scripts : stage[s] = "done" /\ result[s] # "none"

\* A script that no worker has leaves nothing behind: no value, and no context.
Idle(s) == stage[s] \in {"queued", "done"} => ctx[s] = "live" /\ value[s] = "none" /\ s \notin cut

\* A script's value tells how it ended, and only a canceled one was given part of
\* a command's output.
Ended(s) ==
  /\ stage[s] = "over" => value[s] # "none"
  /\ value[s] # "none" => stage[s] \in {"unsubscribe", "over"}
  /\ value[s] = "output" => stage[s] = "over" /\ s \notin cut
  /\ s \in cut => ctx[s] = "canceled"

\* The conversion: what has been charged so far, and what is kept of it.
Converted(s) ==
  /\ stage[s] = "convert" => Walk(conv[s]) /\ conv[s].todo # <<>>
  /\ output[s] # {} => value[s] = "output"
  /\ \A out \in output[s] : WithinBudgets(out)

\* One call at a time works with the connection.
HasCall == UsesBroker \cup {"exec", "sem"}
Holds(s) ==
  /\ stage[s] \in UsesBroker => busy = s
  /\ stage[s] \in HasCall => left[s] # <<>>

Breaker == missed = failures

RunIInv ==
  /\ RunTypeOK /\ Reported /\ Breaker
  /\ \A s \in Scripts : Idle(s) /\ Ended(s) /\ Converted(s) /\ Holds(s)

LEMMA RunInitInv == RunInit => RunIInv
<1> SUFFICES ASSUME RunInit PROVE RunIInv
  OBVIOUS
<1>1. RunTypeOK
  <2>1. left \in [Scripts -> Seq({"exec", "ask", "tell"})]
    BY EmptySeq DEF RunInit, All
  <2>2. failures \in 0..MaxAttempts /\ missed \in Nat /\ dialing \in Nat /\ stray \in Nat /\ dialing + stray <= MaxStray
    BY ScriptAssumption DEF RunInit
  <2> QED BY <2>1, <2>2 DEF RunInit, RunTypeOK, All
<1>2. Reported /\ Breaker
  BY DEF RunInit, Reported, Breaker, All
<1>3. ASSUME NEW s \in Scripts PROVE Idle(s) /\ Ended(s) /\ Converted(s) /\ Holds(s)
  BY DEF RunInit, All, Idle, Ended, Converted, Holds, UsesBroker, HasCall
<1> QED BY <1>1, <1>2, <1>3 DEF RunIInv

\* A worker takes a job, and may be done with it at once.
LEMMA JobInv ==
  ASSUME RunIInv, NEW s \in Scripts, Cancel(s) \/ Unreadable(s) \/ Execute(s)
  PROVE  RunIInv'
<1> USE DEF RunIInv, RunTypeOK, Goto, Answer, poll, built, broker
<1>1. CASE Cancel(s)
  <2>1. RunTypeOK'
    BY <1>1, ScriptAssumption DEF Cancel
  <2>2. Reported' /\ Breaker'
    BY <1>1 DEF Cancel, Reported, Breaker
  <2>3. ASSUME NEW t \in Scripts PROVE (Idle(t) /\ Ended(t) /\ Converted(t) /\ Holds(t))'
    BY <1>1, ScriptAssumption DEF Cancel, Idle, Ended, Converted, Holds, UsesBroker, HasCall
  <2> QED BY <2>1, <2>2, <2>3
<1>2. CASE Unreadable(s)
  <2>1. RunTypeOK'
    BY <1>2, ScriptAssumption DEF Unreadable
  <2>2. Reported' /\ Breaker'
    BY <1>2 DEF Unreadable, Reported, Breaker
  <2>3. ASSUME NEW t \in Scripts PROVE (Idle(t) /\ Ended(t) /\ Converted(t) /\ Holds(t))'
    BY <1>2, ScriptAssumption DEF Unreadable, Idle, Ended, Converted, Holds, UsesBroker, HasCall
  <2> QED BY <2>1, <2>2, <2>3
<1>3. CASE Execute(s)
  <2>1. RunTypeOK'
    BY <1>3, ScriptAssumption DEF Execute
  <2>2. Reported' /\ Breaker'
    BY <1>3 DEF Execute, Reported, Breaker
  <2>3. ASSUME NEW t \in Scripts PROVE (Idle(t) /\ Ended(t) /\ Converted(t) /\ Holds(t))'
    BY <1>3, ScriptAssumption DEF Execute, Idle, Ended, Converted, Holds, UsesBroker, HasCall
  <2> QED BY <2>1, <2>2, <2>3
<1> QED BY <1>1, <1>2, <1>3

LEMMA ConcludeInv ==
  ASSUME RunIInv, NEW s \in Scripts, Conclude(s)
  PROVE  RunIInv'
<1>1. \E v \in {"success", "error", "timeout"} : result' = [result EXCEPT ![s] = v]
  <2>1. stage[s] = "over" /\ value[s] \in {"output", "error", "timeout"}
    BY DEF RunIInv, RunTypeOK, Ended, Conclude, Goto
  <2> QED BY <2>1 DEF Conclude, Answer
<1>2. /\ stage[s] = "over" /\ stage' = [stage EXCEPT ![s] = "done"]
      /\ ctx' = [ctx EXCEPT ![s] = "live"] /\ left' = [left EXCEPT ![s] = <<>>]
      /\ value' = [value EXCEPT ![s] = "none"] /\ output' = [output EXCEPT ![s] = {}] /\ cut' = cut \ {s}
      /\ UNCHANGED <<phase, stopping, conv, busy, conn, failures, missed, dialing, stray, sub, reply>>
  BY DEF Conclude, Goto, Leave, poll, broker
<1>3. RunTypeOK'
  BY <1>1, <1>2 DEF RunIInv, RunTypeOK
<1>4. Reported' /\ Breaker'
  BY <1>1, <1>2 DEF RunIInv, RunTypeOK, Reported, Breaker
<1>5. ASSUME NEW t \in Scripts PROVE (Idle(t) /\ Ended(t) /\ Converted(t) /\ Holds(t))'
  BY <1>1, <1>2 DEF RunIInv, RunTypeOK, Idle, Ended, Converted, Holds, UsesBroker, HasCall
<1> QED BY <1>3, <1>4, <1>5 DEF RunIInv

\* The script's own steps, up to a call's turn with the connection.
LEMMA CodeInv ==
  ASSUME RunIInv, NEW s \in Scripts,
         \/ Abort(s) \/ StartCommand(s) \/ CommandFails(s)
         \/ Ask(s) \/ AskTooLate(s) \/ Acquire(s)
  PROVE  RunIInv'
<1> USE DEF RunIInv, RunTypeOK, Goto, Leave, Fail, Calling, Done, poll, built, broker
<1>1. CASE Abort(s)
  <2>1. RunTypeOK'
    BY <1>1, ScriptAssumption DEF Abort
  <2>2. Reported' /\ Breaker'
    BY <1>1 DEF Abort, Reported, Breaker
  <2>3. ASSUME NEW t \in Scripts PROVE (Idle(t) /\ Ended(t) /\ Converted(t) /\ Holds(t))'
    BY <1>1, ScriptAssumption DEF Abort, Idle, Ended, Converted, Holds, UsesBroker, HasCall
  <2> QED BY <2>1, <2>2, <2>3
<1>2. CASE StartCommand(s)
  <2>1. RunTypeOK'
    BY <1>2, ScriptAssumption DEF StartCommand
  <2>2. Reported' /\ Breaker'
    BY <1>2 DEF StartCommand, Reported, Breaker
  <2>3. ASSUME NEW t \in Scripts PROVE (Idle(t) /\ Ended(t) /\ Converted(t) /\ Holds(t))'
    BY <1>2, ScriptAssumption DEF StartCommand, Idle, Ended, Converted, Holds, UsesBroker, HasCall
  <2> QED BY <2>1, <2>2, <2>3
<1>3. CASE CommandFails(s)
  <2>1. RunTypeOK'
    BY <1>3, ScriptAssumption DEF CommandFails
  <2>2. Reported' /\ Breaker'
    BY <1>3 DEF CommandFails, Reported, Breaker
  <2>3. ASSUME NEW t \in Scripts PROVE (Idle(t) /\ Ended(t) /\ Converted(t) /\ Holds(t))'
    BY <1>3, ScriptAssumption DEF CommandFails, Idle, Ended, Converted, Holds, UsesBroker, HasCall
  <2> QED BY <2>1, <2>2, <2>3
<1>4. CASE Ask(s)
  <2>1. RunTypeOK'
    BY <1>4, ScriptAssumption DEF Ask, MQTT
  <2>2. Reported' /\ Breaker'
    BY <1>4 DEF Ask, MQTT, Reported, Breaker
  <2>3. ASSUME NEW t \in Scripts PROVE (Idle(t) /\ Ended(t) /\ Converted(t) /\ Holds(t))'
    BY <1>4, ScriptAssumption DEF Ask, MQTT, Idle, Ended, Converted, Holds, UsesBroker, HasCall
  <2> QED BY <2>1, <2>2, <2>3
<1>5. CASE AskTooLate(s)
  <2>1. RunTypeOK'
    BY <1>5, ScriptAssumption DEF AskTooLate, MQTT
  <2>2. Reported' /\ Breaker'
    BY <1>5 DEF AskTooLate, MQTT, Reported, Breaker
  <2>3. ASSUME NEW t \in Scripts PROVE (Idle(t) /\ Ended(t) /\ Converted(t) /\ Holds(t))'
    BY <1>5, ScriptAssumption DEF AskTooLate, MQTT, Idle, Ended, Converted, Holds, UsesBroker, HasCall
  <2> QED BY <2>1, <2>2, <2>3
<1>6. CASE Acquire(s)
  <2>1. RunTypeOK'
    BY <1>6, ScriptAssumption DEF Acquire
  <2>2. Reported' /\ Breaker'
    BY <1>6 DEF Acquire, Reported, Breaker
  <2>3. ASSUME NEW t \in Scripts PROVE (Idle(t) /\ Ended(t) /\ Converted(t) /\ Holds(t))'
    BY <1>6, ScriptAssumption DEF Acquire, Idle, Ended, Converted, Holds, UsesBroker, HasCall
  <2> QED BY <2>1, <2>2, <2>3
<1> QED BY <1>1, <1>2, <1>3, <1>4, <1>5, <1>6

LEMMA CommandEndsInv ==
  ASSUME RunIInv, NEW s \in Scripts, CommandEnds(s)
  PROVE  RunIInv'
<1>1. /\ stage[s] = "exec" /\ stage' = [stage EXCEPT ![s] = "code"]
      /\ left' = [left EXCEPT ![s] = Tail(left[s])]
      /\ cut' = cut \/ (ctx[s] = "canceled" /\ cut' = cut \cup {s})
      /\ UNCHANGED <<phase, stopping, ctx, value, conv, output, result, busy,
                     conn, failures, missed, dialing, stray, sub, reply>>
  BY DEF CommandEnds, Goto, Called, poll, built, broker
<1>2. left' \in [Scripts -> Seq({"exec", "ask", "tell"})]
  <2>1. left \in [Scripts -> Seq({"exec", "ask", "tell"})] /\ left[s] # <<>>
    BY <1>1 DEF RunIInv, RunTypeOK, Holds, HasCall
  <2>2. Tail(left[s]) \in Seq({"exec", "ask", "tell"})
    BY <2>1
  <2> QED BY <1>1, <2>1, <2>2
<1>3. RunTypeOK'
  BY <1>1, <1>2 DEF RunIInv, RunTypeOK
<1>4. Reported' /\ Breaker'
  BY <1>1 DEF RunIInv, RunTypeOK, Reported, Breaker
<1>5. ASSUME NEW t \in Scripts PROVE (Idle(t) /\ Ended(t) /\ Converted(t) /\ Holds(t))'
  BY <1>1 DEF RunIInv, RunTypeOK, Idle, Ended, Converted, Holds, UsesBroker, HasCall
<1> QED BY <1>3, <1>4, <1>5 DEF RunIInv

LEMMA ReturnInv ==
  ASSUME RunIInv, NEW s \in Scripts, Return(s)
  PROVE  RunIInv'
<1>1. PICK out \in Values[s] : conv' = [conv EXCEPT ![s] = Begin(out)]
  BY DEF Return
<1>2. /\ Walk(Begin(out)) /\ Begin(out).out = out /\ Begin(out).todo # <<>>
      /\ Begin(out).nodes \in 0..MaxNodes /\ Begin(out).bytes \in 0..MaxBytes
  BY WalkBegins, ScriptAssumption DEF Walk, Charged
<1>3. /\ stage[s] = "code" /\ stage' = [stage EXCEPT ![s] = "convert"]
      /\ UNCHANGED <<phase, stopping, left, ctx, value, output, cut, result, busy,
                     conn, failures, missed, dialing, stray, sub, reply>>
  BY DEF Return, Goto, poll, broker
<1>4. DOMAIN conv' = Scripts /\ \A t \in Scripts : conv'[t] = IF t = s THEN Begin(out) ELSE conv[t]
  BY <1>1 DEF RunIInv, RunTypeOK
<1>5. RunTypeOK'
  BY <1>2, <1>3, <1>4 DEF RunIInv, RunTypeOK
<1>6. Reported' /\ Breaker'
  BY <1>3 DEF RunIInv, RunTypeOK, Reported, Breaker
<1>7. ASSUME NEW t \in Scripts PROVE (Idle(t) /\ Ended(t) /\ Converted(t) /\ Holds(t))'
  BY <1>2, <1>3, <1>4 DEF RunIInv, RunTypeOK, Idle, Ended, Converted, Holds, UsesBroker, HasCall
<1> QED BY <1>5, <1>6, <1>7 DEF RunIInv

\* One value of the walk. The last one leaves an output that is within the budgets,
\* and of a script whose context is live and that was given no part of an output.
LEMMA ConvertInv ==
  ASSUME RunIInv, NEW s \in Scripts, Convert(s)
  PROVE  RunIInv'
<1> DEFINE c == Visit(conv[s])
<1>1. stage[s] = "convert" /\ ctx[s] = "live" /\ Accepts(conv[s]) /\ s \notin cut
  BY DEF RunIInv, Ended, Convert, Done
<1>2. Walk(conv[s]) /\ conv[s].todo # <<>> /\ conv[s].out \in Values[s] /\ value[s] = "none" /\ output[s] = {}
  BY <1>1 DEF RunIInv, RunTypeOK, Converted, Ended
<1>3. Walk(c) /\ c.out \in Values[s]
  BY <1>1, <1>2, WalkGoesOn
<1>4. c.nodes \in 0..MaxNodes /\ c.bytes \in 0..MaxBytes /\ (c.todo = <<>> => WithinBudgets(c.out))
  BY <1>3, WalkEnds DEF Walk, Charged
<1>5. UNCHANGED <<phase, stopping, left, ctx, cut, result, busy, conn, failures, missed, dialing, stray, sub, reply>>
  BY DEF Convert, poll, broker
<1>6. \/ c.todo # <<>> /\ conv' = [conv EXCEPT ![s] = c] /\ UNCHANGED <<stage, value, output>>
      \/ /\ c.todo = <<>> /\ conv' = [conv EXCEPT ![s] = NoConversion]
         /\ stage' = [stage EXCEPT ![s] = "over"]
         /\ value' = [value EXCEPT ![s] = "output"] /\ output' = [output EXCEPT ![s] = {c.out}]
  BY DEF Convert, Leave
<1> HIDE DEF c
<1>7. CASE c.todo # <<>> /\ conv' = [conv EXCEPT ![s] = c] /\ UNCHANGED <<stage, value, output>>
  <2>1. DOMAIN conv' = Scripts /\ \A t \in Scripts : conv'[t] = IF t = s THEN c ELSE conv[t]
    BY <1>7 DEF RunIInv, RunTypeOK
  <2>2. RunTypeOK'
    BY <1>1, <1>3, <1>4, <1>5, <1>7, <2>1 DEF RunIInv, RunTypeOK
  <2>3. Reported' /\ Breaker'
    BY <1>5, <1>7 DEF RunIInv, Reported, Breaker
  <2>4. ASSUME NEW t \in Scripts PROVE (Idle(t) /\ Ended(t) /\ Converted(t) /\ Holds(t))'
    BY <1>3, <1>5, <1>7, <2>1 DEF RunIInv, Idle, Ended, Converted, Holds
  <2> QED BY <2>2, <2>3, <2>4 DEF RunIInv
<1>8. CASE /\ c.todo = <<>> /\ conv' = [conv EXCEPT ![s] = NoConversion]
           /\ stage' = [stage EXCEPT ![s] = "over"]
           /\ value' = [value EXCEPT ![s] = "output"] /\ output' = [output EXCEPT ![s] = {c.out}]
  <2>1. /\ DOMAIN conv' = Scripts /\ \A t \in Scripts : conv'[t] = IF t = s THEN NoConversion ELSE conv[t]
        /\ DOMAIN output' = Scripts /\ \A t \in Scripts : output'[t] = IF t = s THEN {c.out} ELSE output[t]
    BY <1>8 DEF RunIInv, RunTypeOK
  <2>2. RunTypeOK'
    BY <1>3, <1>5, <1>8, <2>1 DEF RunIInv, RunTypeOK
  <2>3. Reported' /\ Breaker'
    BY <1>1, <1>5, <1>8 DEF RunIInv, RunTypeOK, Reported, Breaker
  <2>4. ASSUME NEW t \in Scripts PROVE (Idle(t) /\ Ended(t) /\ Converted(t) /\ Holds(t))'
    BY <1>1, <1>4, <1>5, <1>8, <2>1 DEF RunIInv, RunTypeOK, Idle, Ended, Converted, Holds, UsesBroker, HasCall
  <2> QED BY <2>2, <2>3, <2>4 DEF RunIInv
<1> QED BY <1>6, <1>7, <1>8

LEMMA ConvertFailsInv ==
  ASSUME RunIInv, NEW s \in Scripts, ConvertFails(s)
  PROVE  RunIInv'
<1> USE DEF RunIInv, RunTypeOK, Goto, Leave, Done, poll, broker
<1>1. RunTypeOK'
  BY ScriptAssumption DEF ConvertFails
<1>2. Reported' /\ Breaker'
  BY DEF ConvertFails, Reported, Breaker
<1>3. ASSUME NEW t \in Scripts PROVE (Idle(t) /\ Ended(t) /\ Converted(t) /\ Holds(t))'
  BY ScriptAssumption DEF ConvertFails, Idle, Ended, Converted, Holds, UsesBroker, HasCall
<1> QED BY <1>1, <1>2, <1>3

\* The connection: whoever takes these steps holds the semaphore.
LEMMA ConnectInv ==
  ASSUME RunIInv, NEW s \in Scripts, Refuse(s) \/ Reuse(s) \/ Connect(s) \/ ConnectFails(s)
  PROVE  RunIInv'
<1> USE DEF RunIInv, RunTypeOK, Goto, Leave, Fail, Release, Done, poll, built, broker
<1>1. CASE Refuse(s)
  <2>1. RunTypeOK'
    BY <1>1, ScriptAssumption DEF Refuse
  <2>2. Reported' /\ Breaker'
    BY <1>1 DEF Refuse, Reported, Breaker
  <2>3. ASSUME NEW t \in Scripts PROVE (Idle(t) /\ Ended(t) /\ Converted(t) /\ Holds(t))'
    BY <1>1, ScriptAssumption DEF Refuse, Idle, Ended, Converted, Holds, UsesBroker, HasCall
  <2> QED BY <2>1, <2>2, <2>3
<1>2. CASE Reuse(s)
  <2>1. RunTypeOK'
    BY <1>2, ScriptAssumption DEF Reuse
  <2>2. Reported' /\ Breaker'
    BY <1>2 DEF Reuse, Reported, Breaker
  <2>3. ASSUME NEW t \in Scripts PROVE (Idle(t) /\ Ended(t) /\ Converted(t) /\ Holds(t))'
    BY <1>2, ScriptAssumption DEF Reuse, Idle, Ended, Converted, Holds, UsesBroker, HasCall
  <2> QED BY <2>1, <2>2, <2>3
<1>3. CASE Connect(s)
  <2>1. RunTypeOK'
    BY <1>3, ScriptAssumption DEF Connect, Dials
  <2>2. Reported' /\ Breaker'
    BY <1>3 DEF Connect, Dials, Reported, Breaker
  <2>3. ASSUME NEW t \in Scripts PROVE (Idle(t) /\ Ended(t) /\ Converted(t) /\ Holds(t))'
    BY <1>3, ScriptAssumption DEF Connect, Dials, Idle, Ended, Converted, Holds, UsesBroker, HasCall
  <2> QED BY <2>1, <2>2, <2>3
<1>4. CASE ConnectFails(s)
  <2>1. RunTypeOK'
    <3>1. /\ dialing \in Nat /\ stray \in Nat /\ MaxStray \in Nat /\ dialing + stray <= MaxStray
          /\ dialing' = dialing \/ (dialing + stray < MaxStray /\ dialing' = dialing + 1)
      BY <1>4, ScriptAssumption DEF ConnectFails
    <3>2. dialing' \in Nat /\ dialing' + stray <= MaxStray
      BY <3>1
    <3>3. /\ failures \in 0..MaxAttempts /\ MaxAttempts \in Nat /\ missed \in Nat
          /\ failures < MaxAttempts /\ failures' = failures + 1 /\ missed' = missed + 1
      BY <1>4, ScriptAssumption DEF ConnectFails, Dials
    <3>4. failures' \in 0..MaxAttempts /\ missed' \in Nat
      BY <3>3
    <3>5. /\ UNCHANGED <<phase, stopping, left, ctx, conv, output, cut, result, conn, stray, sub, reply>>
          /\ stage' = [stage EXCEPT ![s] = "over"] /\ value' = [value EXCEPT ![s] = "error"] /\ busy' = NoScript
      BY <1>4 DEF ConnectFails
    <3>6. stage[s] = "connect"
      BY <1>4 DEF ConnectFails, Dials
    <3> QED BY <3>2, <3>4, <3>5, <3>6
  <2>2. Reported' /\ Breaker'
    BY <1>4 DEF ConnectFails, Dials, Reported, Breaker
  <2>3. ASSUME NEW t \in Scripts PROVE (Idle(t) /\ Ended(t) /\ Converted(t) /\ Holds(t))'
    BY <1>4, ScriptAssumption DEF ConnectFails, Dials, Idle, Ended, Converted, Holds, UsesBroker, HasCall
  <2> QED BY <2>1, <2>2, <2>3
<1> QED BY <1>1, <1>2, <1>3, <1>4

LEMMA RequestInv ==
  ASSUME RunIInv, NEW s \in Scripts,
         \/ Subscribe(s) \/ SubscribeFails(s) \/ Publish(s)
         \/ PublishFails(s) \/ TakeReply(s) \/ StopWaiting(s)
  PROVE  RunIInv'
<1> USE DEF RunIInv, RunTypeOK, Goto, Leave, Fail, Release, Done, poll, built, broker
<1>1. CASE Subscribe(s)
  <2>1. RunTypeOK'
    BY <1>1, ScriptAssumption DEF Subscribe
  <2>2. Reported' /\ Breaker'
    BY <1>1 DEF Subscribe, Reported, Breaker
  <2>3. ASSUME NEW t \in Scripts PROVE (Idle(t) /\ Ended(t) /\ Converted(t) /\ Holds(t))'
    BY <1>1, ScriptAssumption DEF Subscribe, Idle, Ended, Converted, Holds, UsesBroker, HasCall
  <2> QED BY <2>1, <2>2, <2>3
<1>2. CASE SubscribeFails(s)
  <2>1. RunTypeOK'
    BY <1>2, ScriptAssumption DEF SubscribeFails
  <2>2. Reported' /\ Breaker'
    BY <1>2 DEF SubscribeFails, Reported, Breaker
  <2>3. ASSUME NEW t \in Scripts PROVE (Idle(t) /\ Ended(t) /\ Converted(t) /\ Holds(t))'
    BY <1>2, ScriptAssumption DEF SubscribeFails, Idle, Ended, Converted, Holds, UsesBroker, HasCall
  <2> QED BY <2>1, <2>2, <2>3
<1>3. CASE Publish(s)
  <2>1. RunTypeOK'
    BY <1>3, ScriptAssumption DEF Publish
  <2>2. Reported' /\ Breaker'
    BY <1>3 DEF Publish, Reported, Breaker
  <2>3. ASSUME NEW t \in Scripts PROVE (Idle(t) /\ Ended(t) /\ Converted(t) /\ Holds(t))'
    BY <1>3, ScriptAssumption DEF Publish, Idle, Ended, Converted, Holds, UsesBroker, HasCall
  <2> QED BY <2>1, <2>2, <2>3
<1>4. CASE PublishFails(s)
  <2>1. RunTypeOK'
    BY <1>4, ScriptAssumption DEF PublishFails
  <2>2. Reported' /\ Breaker'
    BY <1>4 DEF PublishFails, Reported, Breaker
  <2>3. ASSUME NEW t \in Scripts PROVE (Idle(t) /\ Ended(t) /\ Converted(t) /\ Holds(t))'
    BY <1>4, ScriptAssumption DEF PublishFails, Idle, Ended, Converted, Holds, UsesBroker, HasCall
  <2> QED BY <2>1, <2>2, <2>3
<1>5. CASE TakeReply(s)
  <2>1. RunTypeOK'
    BY <1>5, ScriptAssumption DEF TakeReply
  <2>2. Reported' /\ Breaker'
    BY <1>5 DEF TakeReply, Reported, Breaker
  <2>3. ASSUME NEW t \in Scripts PROVE (Idle(t) /\ Ended(t) /\ Converted(t) /\ Holds(t))'
    BY <1>5, ScriptAssumption DEF TakeReply, Idle, Ended, Converted, Holds, UsesBroker, HasCall
  <2> QED BY <2>1, <2>2, <2>3
<1>6. CASE StopWaiting(s)
  <2>1. RunTypeOK'
    BY <1>6, ScriptAssumption DEF StopWaiting
  <2>2. Reported' /\ Breaker'
    BY <1>6 DEF StopWaiting, Reported, Breaker
  <2>3. ASSUME NEW t \in Scripts PROVE (Idle(t) /\ Ended(t) /\ Converted(t) /\ Holds(t))'
    BY <1>6, ScriptAssumption DEF StopWaiting, Idle, Ended, Converted, Holds, UsesBroker, HasCall
  <2> QED BY <2>1, <2>2, <2>3
<1> QED BY <1>1, <1>2, <1>3, <1>4, <1>5, <1>6

LEMMA UnsubscribeInv ==
  ASSUME RunIInv, NEW s \in Scripts, Unsubscribe(s)
  PROVE  RunIInv'
<1>1. /\ stage[s] = "unsubscribe" /\ left' = [left EXCEPT ![s] = Tail(left[s])]
      /\ stage' = [stage EXCEPT ![s] = IF value[s] = "none" THEN "code" ELSE "over"]
      /\ sub' = NoScript /\ reply' = [reply EXCEPT ![s] = "none"] /\ busy' = NoScript /\ busy = s
      /\ UNCHANGED <<phase, stopping, ctx, value, conv, output, cut, result,
                     conn, failures, missed, dialing, stray>>
  BY DEF Unsubscribe, Called, Release, poll, built, RunIInv, Holds, UsesBroker
<1>2. left' \in [Scripts -> Seq({"exec", "ask", "tell"})]
  <2>1. left \in [Scripts -> Seq({"exec", "ask", "tell"})] /\ left[s] # <<>>
    BY <1>1 DEF RunIInv, RunTypeOK, Holds, HasCall, UsesBroker
  <2>2. Tail(left[s]) \in Seq({"exec", "ask", "tell"})
    BY <2>1
  <2> QED BY <1>1, <2>1, <2>2
<1>3. RunTypeOK'
  BY <1>1, <1>2 DEF RunIInv, RunTypeOK
<1>4. Reported' /\ Breaker'
  BY <1>1 DEF RunIInv, RunTypeOK, Reported, Breaker
<1>5. ASSUME NEW t \in Scripts PROVE (Idle(t) /\ Ended(t) /\ Converted(t) /\ Holds(t))'
  BY <1>1, ScriptAssumption DEF RunIInv, RunTypeOK, Idle, Ended, Converted, Holds, UsesBroker, HasCall
<1> QED BY <1>3, <1>4, <1>5 DEF RunIInv

LEMMA ContextInv ==
  ASSUME RunIInv, (\E s \in Scripts : Deadline(s)) \/ Stop
  PROVE  RunIInv'
<1>1. /\ UNCHANGED <<phase, stage, left, value, conv, output, cut, result, busy,
                     conn, failures, missed, dialing, stray, sub, reply>>
      /\ stopping' \in BOOLEAN
  BY DEF RunIInv, RunTypeOK, Deadline, Stop, poll, built, broker
<1>2. /\ ctx' \in [Scripts -> {"live", "deadline", "canceled"}]
      /\ \A t \in Scripts : ctx'[t] # ctx[t] => ctx[t] = "live" /\ stage[t] \notin {"queued", "done"}
  <2>1. ctx \in [Scripts -> {"live", "deadline", "canceled"}]
    BY DEF RunIInv, RunTypeOK
  <2>2. CASE \E s \in Scripts : Deadline(s)
    BY <2>1, <2>2 DEF Deadline, Active, Done
  <2>3. CASE Stop
    <3>1. ctx' = [t \in Scripts |-> IF t \in Active /\ ~Done(t) THEN "canceled" ELSE ctx[t]]
      BY <2>3 DEF Stop
    <3> QED BY <2>1, <3>1 DEF Active, Done
  <2> QED BY <2>2, <2>3
<1>3. RunTypeOK'
  BY <1>1, <1>2 DEF RunIInv, RunTypeOK
<1>4. Reported' /\ Breaker'
  BY <1>1 DEF RunIInv, Reported, Breaker
<1>5. ASSUME NEW t \in Scripts PROVE (Idle(t) /\ Ended(t) /\ Converted(t) /\ Holds(t))'
  BY <1>1, <1>2 DEF RunIInv, Idle, Ended, Converted, Holds
<1> QED BY <1>3, <1>4, <1>5 DEF RunIInv

LEMMA PollInv ==
  ASSUME RunIInv, BeginPoll \/ CloseRuntime \/ Heartbeat \/ Restart
  PROVE  RunIInv'
<1> USE DEF RunIInv, RunTypeOK, All, script, built, broker
<1>1. CASE BeginPoll
  <2>1. RunTypeOK'
    BY <1>1, ScriptAssumption DEF BeginPoll, Reported
  <2>2. Reported' /\ Breaker'
    BY <1>1 DEF BeginPoll, Reported, Breaker
  <2>3. ASSUME NEW t \in Scripts PROVE (Idle(t) /\ Ended(t) /\ Converted(t) /\ Holds(t))'
    BY <1>1, ScriptAssumption DEF BeginPoll, Reported, Idle, Ended, Converted, Holds, UsesBroker, HasCall
  <2> QED BY <2>1, <2>2, <2>3
<1>2. CASE CloseRuntime
  <2>1. RunTypeOK'
    BY <1>2, ScriptAssumption DEF CloseRuntime
  <2>2. Reported' /\ Breaker'
    BY <1>2 DEF CloseRuntime, Reported, Breaker
  <2>3. ASSUME NEW t \in Scripts PROVE (Idle(t) /\ Ended(t) /\ Converted(t) /\ Holds(t))'
    BY <1>2, ScriptAssumption DEF CloseRuntime, Reported, Idle, Ended, Converted, Holds, UsesBroker, HasCall
  <2> QED BY <2>1, <2>2, <2>3
<1>3. CASE Heartbeat
  <2>1. RunTypeOK'
    BY <1>3, ScriptAssumption DEF Heartbeat
  <2>2. Reported' /\ Breaker'
    BY <1>3 DEF Heartbeat, Reported, Breaker
  <2>3. ASSUME NEW t \in Scripts PROVE (Idle(t) /\ Ended(t) /\ Converted(t) /\ Holds(t))'
    BY <1>3, ScriptAssumption DEF Heartbeat, Reported, Idle, Ended, Converted, Holds, UsesBroker, HasCall
  <2> QED BY <2>1, <2>2, <2>3
<1>4. CASE Restart
  <2>1. RunTypeOK'
    <3>1. left' \in [Scripts -> Seq({"exec", "ask", "tell"})]
      BY <1>4, EmptySeq DEF Restart
    <3>2. failures' \in 0..MaxAttempts /\ missed' \in Nat /\ dialing' \in Nat /\ stray' \in Nat
          /\ dialing' + stray' <= MaxStray
      BY <1>4, ScriptAssumption DEF Restart
    <3> QED BY <1>4, <3>1, <3>2 DEF Restart
  <2>2. Reported' /\ Breaker'
    BY <1>4 DEF Restart, Reported, Breaker
  <2>3. ASSUME NEW t \in Scripts PROVE (Idle(t) /\ Ended(t) /\ Converted(t) /\ Holds(t))'
    BY <1>4, ScriptAssumption DEF Restart, Reported, Idle, Ended, Converted, Holds, UsesBroker, HasCall
  <2> QED BY <2>1, <2>2, <2>3
<1> QED BY <1>1, <1>2, <1>3, <1>4

LEMMA BrokerInv ==
  ASSUME RunIInv, Lost \/ LateAnswer \/ \E r \in Replies : Message(r)
  PROVE  RunIInv'
<1>1. UNCHANGED <<phase, stopping, stage, left, ctx, value, conv, output, cut, result, busy, failures, missed>>
  BY DEF Lost, LateAnswer, Message, poll, script, built, broker
<1>2. /\ conn' \in {"none", "up", "down"} /\ sub' \in Scripts \cup {NoScript}
      /\ dialing' \in Nat /\ stray' \in Nat /\ dialing' + stray' <= MaxStray
      /\ reply' \in [Scripts -> {"none"} \cup Replies]
  <2>1. CASE Lost \/ \E r \in Replies : Message(r)
    BY <2>1 DEF RunIInv, RunTypeOK, Lost, Message, broker
  <2>2. CASE LateAnswer
    <3>1. /\ dialing \in Nat /\ stray \in Nat /\ dialing + stray <= MaxStray /\ MaxStray \in Nat
          /\ dialing > 0 /\ dialing' = dialing - 1 /\ (stray' = stray \/ stray' = stray + 1)
      BY <2>2, ScriptAssumption DEF RunIInv, RunTypeOK, LateAnswer
    <3>2. dialing' \in Nat /\ stray' \in Nat /\ dialing' + stray' <= MaxStray
      BY <3>1
    <3>3. conn' = conn /\ sub' = sub /\ reply' = reply
      BY <2>2 DEF LateAnswer
    <3> QED BY <3>2, <3>3 DEF RunIInv, RunTypeOK
  <2> QED BY <2>1, <2>2
<1>3. Reported' /\ Breaker'
  BY <1>1 DEF RunIInv, Reported, Breaker
<1>4. ASSUME NEW t \in Scripts PROVE (Idle(t) /\ Ended(t) /\ Converted(t) /\ Holds(t))'
  BY <1>1 DEF RunIInv, Idle, Ended, Converted, Holds
<1>5. RunTypeOK'
  BY <1>1, <1>2 DEF RunIInv, RunTypeOK
<1> QED BY <1>3, <1>4, <1>5 DEF RunIInv

LEMMA RunStutterInv == RunIInv /\ UNCHANGED runVars => RunIInv'
BY DEF runVars, poll, script, built, broker, RunIInv, RunTypeOK, Reported, Breaker,
  Idle, Ended, Converted, Holds

LEMMA RunNextInv == RunIInv /\ [RunNext]_runVars => RunIInv'
<1> SUFFICES ASSUME RunIInv, [RunNext]_runVars PROVE RunIInv'
  OBVIOUS
<1>1. CASE BeginPoll \/ CloseRuntime \/ Heartbeat \/ Restart
  BY <1>1, PollInv
<1>2. CASE Stop \/ \E s \in Scripts : Deadline(s)
  BY <1>2, ContextInv
<1>3. CASE Lost \/ LateAnswer \/ \E r \in Replies : Message(r)
  BY <1>3, BrokerInv
<1>4. ASSUME NEW s \in Scripts, Work(s) PROVE RunIInv'
  BY <1>4, JobInv, ConcludeInv, CodeInv, CommandEndsInv, ReturnInv, ConvertInv, ConvertFailsInv,
    ConnectInv, RequestInv, UnsubscribeInv DEF Work
<1>5. CASE UNCHANGED runVars
  BY <1>5, RunStutterInv
<1> QED BY <1>1, <1>2, <1>3, <1>4, <1>5 DEF RunNext

-----------------------------------------------------------------------------
(* The theorems about ScriptRun *)

\* The state of the scripts, the conversion and the broker keeps its types, and
\* with them the conversion's counts stay within their budgets at every step.
THEOREM RunTypeCorrect == RunSpec => []RunTypeOK
<1>1. RunIInv => RunTypeOK
  BY DEF RunIInv
<1> QED BY <1>1, RunInitInv, RunNextInv, PTL DEF RunSpec

\* The heartbeat has a result for every script, also for those that the service's
\* end caught in the queue: ExecuteScripts.
THEOREM EveryScriptIsReported == RunSpec => []EveryScriptAnswers
<1>1. RunIInv => EveryScriptAnswers
  BY DEF RunIInv, Reported, EveryScriptAnswers
<1> QED BY <1>1, RunInitInv, RunNextInv, PTL DEF RunSpec

\* A poll makes no more attempts in a row than maxMQTTConnectAttempts, whether the
\* broker refuses them or does not answer.
THEOREM BreakerIsRespected == RunSpec => []BreakerHolds
<1>1. RunIInv => BreakerHolds
  BY ScriptAssumption DEF RunIInv, RunTypeOK, Breaker, BreakerHolds
<1> QED BY <1>1, RunInitInv, RunNextInv, PTL DEF RunSpec

\* Whatever a script returns, shared, nested or cyclic, what starlarkValueToGo
\* hands over is no larger, written out, than its budgets.
THEOREM BudgetsHold == RunSpec => []OutputWithinBudgets
<1>1. RunIInv => OutputWithinBudgets
  BY DEF RunIInv, RunTypeOK, Converted, OutputWithinBudgets, Small
<1> QED BY <1>1, RunInitInv, RunNextInv, PTL DEF RunSpec

\* A script fails with the value it returned only when that has no conversion, and
\* never because its parts are shared or because the walk meets them in one order
\* rather than another.
THEOREM RefusalsAreDue == RunSpec => RefusalIsDue
<1> DEFINE A == \A s \in Scripts :
                  stage[s] = "convert" /\ value'[s] = "error" => ~Convertible(conv[s].out)
<1>1. RunIInv /\ [RunNext]_runVars => [A]_runVars
  <2> SUFFICES ASSUME RunIInv, RunNext, NEW s \in Scripts, stage[s] = "convert", value'[s] = "error"
               PROVE  ~Convertible(conv[s].out)
    OBVIOUS
  <2>1. /\ value[s] = "none" /\ Walk(conv[s]) /\ conv[s].todo # <<>>
        /\ value \in [Scripts -> {"none", "output", "error", "timeout"}]
    BY DEF RunIInv, RunTypeOK, Ended, Converted
  <2>2. CASE ConvertFails(s)
    <3>1. ~Accepts(conv[s])
      BY <2>1, <2>2 DEF ConvertFails, Leave
    <3> QED BY <2>1, <3>1, WalkIsNotRefused
  <2>3. ASSUME NEW t \in Scripts, value' = [value EXCEPT ![t] = "error"], stage[t] # "convert"
        PROVE  FALSE
    BY <2>1, <2>3
  <2>4. CASE value' = value
    BY <2>1, <2>4
  <2>5. CASE \E t \in Scripts : \E v \in {"none", "output", "timeout"} : value' = [value EXCEPT ![t] = v]
    BY <2>1, <2>5
  <2>6. ASSUME NEW t \in Scripts, Work(t)
        PROVE  \/ ConvertFails(t)
               \/ value' = [value EXCEPT ![t] = "error"] /\ stage[t] # "convert"
               \/ value' = value
               \/ \E v \in {"none", "output", "timeout"} : value' = [value EXCEPT ![t] = v]
    BY <2>6 DEF Work, Cancel, Unreadable, Execute, Conclude, Abort, Return, Convert, StartCommand,
      CommandFails, CommandEnds, Ask, AskTooLate, Acquire, Refuse, Reuse, Connect, ConnectFails,
      Subscribe, SubscribeFails, Publish, PublishFails, TakeReply, StopWaiting, Unsubscribe,
      Goto, Leave, Fail, Dials
  <2>7. ASSUME NEW t \in Scripts, ConvertFails(t), t # s PROVE value' = value \/ value'[s] = value[s]
    BY <2>1, <2>7 DEF ConvertFails, Leave
  <2>8. value' = value \/ \E t \in Scripts : Work(t)
    BY DEF RunNext, BeginPoll, CloseRuntime, Heartbeat, Stop, Restart, Lost, LateAnswer, Message,
      Deadline, script, All
  <2> QED BY <2>1, <2>2, <2>3, <2>4, <2>5, <2>6, <2>7, <2>8
<1> QED BY <1>1, RunInitInv, RunNextInv, PTL DEF RunSpec, RefusalIsDue

\* A script that was given the front of an output, because the service's end closed
\* the command's pipe, is not reported as a success: the conversion's context check.
THEOREM NoCutSuccess == RunSpec => SuccessIsWhole
<1> DEFINE A == \A s \in Scripts : result[s] = "none" /\ result'[s] = "success" => s \notin cut
<1>1. RunIInv /\ [RunNext]_runVars => [A]_runVars
  <2> SUFFICES ASSUME RunIInv, RunNext, NEW s \in Scripts, result[s] = "none", result'[s] = "success"
               PROVE  s \notin cut
    OBVIOUS
  <2>1. CASE \E t \in Scripts : Conclude(t)
    <3> PICK t \in Scripts : Conclude(t)
      BY <2>1
    <3>1. t = s /\ value[s] = "output"
      BY DEF RunIInv, RunTypeOK, Conclude, Answer
    <3> QED BY <3>1 DEF RunIInv, Ended
  <2>2. CASE \E t \in Scripts : Cancel(t) \/ Unreadable(t)
    BY <2>2 DEF RunIInv, RunTypeOK, Cancel, Unreadable, Answer
  <2>3. CASE Heartbeat \/ Restart
    BY <2>3 DEF Heartbeat, Restart, All
  <2>4. CASE UNCHANGED result
    BY <2>4
  <2>5. Heartbeat \/ Restart \/ (\E t \in Scripts : Cancel(t) \/ Unreadable(t) \/ Conclude(t)) \/ UNCHANGED result
    BY DEF RunNext, Work, BeginPoll, CloseRuntime, Stop, Lost, LateAnswer, Message, Deadline, Execute,
      Abort, Return, Convert, ConvertFails, StartCommand, CommandFails, CommandEnds, Ask, AskTooLate,
      Acquire, Refuse, Reuse, Connect, ConnectFails, Subscribe, SubscribeFails, Publish, PublishFails,
      TakeReply, StopWaiting, Unsubscribe, script
  <2> QED BY <2>1, <2>2, <2>3, <2>4, <2>5
<1> QED BY <1>1, RunInitInv, RunNextInv, PTL DEF RunSpec, SuccessIsWhole

\* While a call waits for its reply over a connection that stays up, no other call
\* subscribes or unsubscribes: pubAndGetSem.
THEOREM SubscriptionLasts == RunSpec => SubscriptionIsKept
<1> DEFINE A == \A s \in Scripts :
                  stage[s] = "await" /\ stage'[s] = "await" /\ sub = s /\ conn' = conn => sub' = s
<1>1. RunIInv /\ [RunNext]_runVars => [A]_runVars
  <2> SUFFICES ASSUME RunIInv, RunNext, NEW s \in Scripts,
                      stage[s] = "await", stage'[s] = "await", sub = s, conn' = conn
               PROVE  sub' = s
    OBVIOUS
  <2>1. busy = s
    BY DEF RunIInv, Holds, UsesBroker
  <2>2. CASE \E t \in Scripts : Connect(t) \/ Subscribe(t) \/ SubscribeFails(t) \/ Unsubscribe(t)
    <3> PICK t \in Scripts : Connect(t) \/ Subscribe(t) \/ SubscribeFails(t) \/ Unsubscribe(t)
      BY <2>2
    <3>1. stage[t] \in UsesBroker \ {"await"}
      BY DEF Connect, Subscribe, SubscribeFails, Unsubscribe, Goto, UsesBroker
    <3>2. busy = t
      BY <3>1 DEF RunIInv, Holds
    <3> QED BY <2>1, <3>1, <3>2
  <2>3. CASE CloseRuntime \/ Restart \/ Lost
    BY <2>3 DEF CloseRuntime, Restart, Lost, All
  <2>4. CASE UNCHANGED sub
    BY <2>4
  <2>5. \/ CloseRuntime \/ Restart \/ Lost \/ UNCHANGED sub
        \/ \E t \in Scripts : Connect(t) \/ Subscribe(t) \/ SubscribeFails(t) \/ Unsubscribe(t)
    BY DEF RunNext, Work, BeginPoll, Heartbeat, Stop, LateAnswer, Message, Deadline, Cancel, Unreadable,
      Execute, Conclude, Abort, Return, Convert, ConvertFails, StartCommand, CommandFails, CommandEnds,
      Ask, AskTooLate, Acquire, Refuse, Reuse, ConnectFails, Publish, PublishFails,
      TakeReply, StopWaiting, broker
  <2> QED BY <2>2, <2>3, <2>4, <2>5
<1> QED BY <1>1, RunInitInv, RunNextInv, PTL DEF RunSpec, SubscriptionIsKept

-----------------------------------------------------------------------------
(* No poll of ScriptRun hangs: what holds of PollEnds without fairness *)

\* The semaphore is released on every way out of pub_and_get.
Released == busy # NoScript => stage[busy] \in UsesBroker

LEMMA ReleasedNext ==
  ASSUME RunIInv, Released, [RunNext]_runVars
  PROVE  Released'
<1>1. /\ stage \in [Scripts -> {"queued", "code", "exec", "sem", "connect", "subscribe", "publish",
                               "await", "unsubscribe", "convert", "over", "done"}]
      /\ NoScript \notin Scripts /\ busy \in Scripts \cup {NoScript}
  BY ScriptAssumption DEF RunIInv, RunTypeOK
<1>2. ASSUME NEW s \in Scripts, Work(s) PROVE Released'
  <2>1. CASE Acquire(s)
    BY <1>1, <2>1 DEF Acquire, Goto, Released, UsesBroker
  <2>2. CASE stage[s] \notin UsesBroker /\ ~Acquire(s)
    <3>1. busy' = busy /\ \A t \in Scripts \ {s} : stage'[t] = stage[t]
      BY <1>1, <1>2, <2>2 DEF Work, Cancel, Unreadable, Execute, Conclude, Abort, Return, Convert,
        ConvertFails, StartCommand, CommandFails, CommandEnds, Ask, AskTooLate, Refuse, Reuse, Connect,
        ConnectFails, Subscribe, SubscribeFails, Publish, PublishFails, TakeReply, StopWaiting,
        Unsubscribe, Goto, Fail, Dials, UsesBroker
    <3>2. busy # s
      BY <1>1, <2>2 DEF Released
    <3> QED BY <1>1, <3>1, <3>2 DEF Released
  <2>3. CASE stage[s] \in UsesBroker
    <3>1. busy' = NoScript \/ (busy' = busy /\ stage'[s] \in UsesBroker)
      BY <1>1, <1>2, <2>3 DEF Work, Cancel, Unreadable, Execute, Conclude, Abort, Return, Convert,
        ConvertFails, StartCommand, CommandFails, CommandEnds, Ask, AskTooLate, Acquire, Refuse, Reuse,
        Connect, ConnectFails, Subscribe, SubscribeFails, Publish, PublishFails, TakeReply, StopWaiting,
        Unsubscribe, Goto, Fail, Release, Dials, UsesBroker
    <3>2. busy = s
      BY <2>3 DEF RunIInv, Holds
    <3> QED BY <3>1, <3>2 DEF Released
  <2> QED BY <2>1, <2>2, <2>3
<1>3. CASE BeginPoll
  <2>1. busy = NoScript
    BY <1>1, <1>3 DEF BeginPoll, Released, RunIInv, Reported, UsesBroker
  <2> QED BY <1>3, <2>1 DEF BeginPoll, Released
<1>4. CASE UNCHANGED <<busy, stage>>
  BY <1>4 DEF Released
<1>5. CASE Restart
  BY <1>5 DEF Restart, Released
<1>6. \/ BeginPoll \/ Restart \/ UNCHANGED <<busy, stage>>
      \/ \E s \in Scripts : Work(s)
  BY DEF RunNext, CloseRuntime, Heartbeat, Stop, Lost, LateAnswer, Message, Deadline, runVars, script
<1> QED BY <1>2, <1>3, <1>4, <1>5, <1>6

LEMMA ReleasedInit == RunInit => Released
BY DEF RunInit, Released

\* pubAndGetSem: its holder is a call that works with the connection. Whatever
\* way a call ends, with an error, a timeout or the end of the service, no other
\* call waits for it any longer.
THEOREM SemaphoreIsReleased == RunSpec => []Released
BY RunInitInv, RunNextInv, ReleasedInit, ReleasedNext, PTL DEF RunSpec

\* The results channel has room for whoever has yet to answer.
LEMMA RoomForEveryone ==
  ASSUME RunIInv, phase = "run", NEW s \in Scripts, stage[s] # "done"
  PROVE  Room
<1> DEFINE R == {t \in Scripts : result[t] # "none"}
<1>1. IsFiniteSet(Scripts)
  BY ScriptAssumption
<1>2. R \subseteq Scripts /\ R # Scripts
  BY DEF RunIInv, Reported
<1> HIDE DEF R
<1>3. Cardinality(R) < Cardinality(Scripts)
  <2>1. /\ Cardinality(R) <= Cardinality(Scripts) /\ IsFiniteSet(R)
        /\ Cardinality(R) = Cardinality(Scripts) => R = Scripts
    BY <1>1, <1>2, FS_Subset
  <2>2. Cardinality(R) \in Nat /\ Cardinality(Scripts) \in Nat
    BY <1>1, <2>1, FS_CardinalityType
  <2> QED BY <1>2, <2>1, <2>2
<1> QED BY <1>3 DEF R, Room

\* While a poll runs and some script has no result, some script can take a step:
\* the workers, the semaphore and the results channel never wait for one another.
THEOREM NobodyWaitsForAll == RunSpec => []SomebodyGoesOn
<1>1. RunIInv /\ Released => SomebodyGoesOn
  <2> SUFFICES ASSUME RunIInv, Released, phase = "run", NEW s \in Scripts, stage[s] # "done",
                      \A t \in Scripts : ~CanWork(t)
               PROVE  FALSE
    BY DEF SomebodyGoesOn
  <2>1. stage \in [Scripts -> {"queued", "code", "exec", "sem", "connect", "subscribe", "publish",
                               "await", "unsubscribe", "convert", "over", "done"}]
        /\ busy \in Scripts \cup {NoScript}
    BY DEF RunIInv, RunTypeOK
  <2>2. busy = NoScript
    BY <2>1 DEF Released, CanWork
  <2>3. \A t \in Scripts : stage[t] \in {"queued", "done"}
    <3> SUFFICES ASSUME NEW t \in Scripts, stage[t] \notin {"queued", "done"} PROVE FALSE
      OBVIOUS
    <3>1. stage[t] = "over" \/ stage[t] = "sem"
      BY <2>1 DEF CanWork, UsesBroker
    <3>2. Room
      BY RoomForEveryone
    <3> QED BY <2>2, <3>1, <3>2 DEF CanWork
  <2>4. Active = {}
    BY <2>3 DEF Active
  <2>5. Cardinality(Active) < MaxConcurrent
    BY <2>4, FS_EmptySet, ScriptAssumption
  <2> QED BY <2>3, <2>5 DEF CanWork
<1> QED BY <1>1, RunInitInv, RunNextInv, ReleasedInit, ReleasedNext, PTL DEF RunSpec

\* A bound on the steps a script has yet to take: eight for a call, one for every
\* node the conversion may still charge.
Turn == [queued |-> 9, code |-> 8, exec |-> 7, sem |-> 7, connect |-> 6, subscribe |-> 5,
         publish |-> 4, await |-> 3, unsubscribe |-> 2]

Steps(where, calls, c) ==
  CASE where = "done" -> 0
    [] where = "over" -> 1
    [] where = "convert" -> MaxNodes - c.nodes + 2
    [] OTHER -> 8 * Len(calls) + MaxNodes + Turn[where]
StepsLeft(s) == Steps(stage[s], left[s], conv[s])

\* Within a poll no step costs a script any of its progress, and every step of its
\* own is one of those it has left.
ScriptsGetOn ==
  [][phase = "run" /\ phase' = "run" =>
       \A s \in Scripts :
         /\ StepsLeft(s) \in Nat /\ StepsLeft(s)' <= StepsLeft(s)
         /\ Work(s) => StepsLeft(s)' < StepsLeft(s)]_runVars

Stages == {"queued", "code", "exec", "sem", "connect", "subscribe", "publish", "await",
           "unsubscribe", "convert", "over", "done"}

Counts(calls, c) ==
  /\ Len(calls) \in Nat
  /\ Steps("done", calls, c) = 0
  /\ Steps("over", calls, c) = 1
  /\ Steps("convert", calls, c) = MaxNodes - c.nodes + 2
  /\ Steps("queued", calls, c) = 8 * Len(calls) + MaxNodes + 9
  /\ Steps("code", calls, c) = 8 * Len(calls) + MaxNodes + 8
  /\ Steps("exec", calls, c) = 8 * Len(calls) + MaxNodes + 7
  /\ Steps("sem", calls, c) = 8 * Len(calls) + MaxNodes + 7
  /\ Steps("connect", calls, c) = 8 * Len(calls) + MaxNodes + 6
  /\ Steps("subscribe", calls, c) = 8 * Len(calls) + MaxNodes + 5
  /\ Steps("publish", calls, c) = 8 * Len(calls) + MaxNodes + 4
  /\ Steps("await", calls, c) = 8 * Len(calls) + MaxNodes + 3
  /\ Steps("unsubscribe", calls, c) = 8 * Len(calls) + MaxNodes + 2

LEMMA StepsCount ==
  ASSUME NEW c, NEW calls \in Seq({"exec", "ask", "tell"})
  PROVE  Counts(calls, c)
BY DEF Counts, Steps, Turn

LEMMA StepsType ==
  ASSUME NEW from \in Stages, NEW calls \in Seq({"exec", "ask", "tell"}), NEW c,
         from = "convert" => c.nodes \in 0..MaxNodes
  PROVE  Steps(from, calls, c) \in Nat
<1>1. MaxNodes \in Nat /\ Counts(calls, c)
  BY BudgetAssumption, StepsCount
<1>2. CASE from = "convert"
  BY <1>1, <1>2 DEF Counts
<1>3. CASE from # "convert"
  BY <1>1, <1>3 DEF Counts, Stages
<1> QED BY <1>2, <1>3

LEMMA WorkTakesAStep ==
  ASSUME RunIInv, NEW s \in Scripts, Work(s)
  PROVE  StepsLeft(s)' < StepsLeft(s)
<1> DEFINE calls == left[s]
           calls2 == left'[s]
           c == conv[s]
           c2 == conv'[s]
           from == stage[s]
           to == stage'[s]
           n == Len(calls)
<1>1. /\ calls \in Seq({"exec", "ask", "tell"}) /\ n \in Nat /\ MaxNodes \in Nat
      /\ from = "convert" => c.nodes \in 0..MaxNodes
      /\ calls # <<>> => Tail(calls) \in Seq({"exec", "ask", "tell"}) /\ Len(Tail(calls)) = n - 1 /\ n > 0
  <2>1. calls \in Seq({"exec", "ask", "tell"}) /\ MaxNodes \in Nat
    BY BudgetAssumption DEF RunIInv, RunTypeOK
  <2>2. from = "convert" => c.nodes \in 0..MaxNodes
    BY DEF RunIInv, RunTypeOK
  <2> HIDE DEF calls
  <2>3. calls # <<>> => Tail(calls) \in Seq({"exec", "ask", "tell"}) /\ Len(Tail(calls)) = n - 1 /\ n > 0
    BY <2>1, HeadTailProperties, EmptySeq
  <2> QED BY <2>1, <2>2, <2>3
<1>2. stage \in [Scripts -> {"queued", "code", "exec", "sem", "connect", "subscribe", "publish",
                             "await", "unsubscribe", "convert", "over", "done"}]
      /\ DOMAIN left = Scripts /\ DOMAIN conv = Scripts
  BY DEF RunIInv, RunTypeOK
<1>3. from \in HasCall => calls # <<>>
  BY DEF RunIInv, Holds
<1>4. StepsLeft(s) = Steps(from, calls, c) /\ StepsLeft(s)' = Steps(to, calls2, c2)
  BY DEF StepsLeft, Steps, Turn
<1>5. CASE Cancel(s) \/ Unreadable(s)
  <2>1. from = "queued" /\ to = "done" /\ calls2 = <<>>
    BY <1>2, <1>5 DEF Cancel, Unreadable, Goto
  <2> HIDE DEF calls, calls2, c, c2, from, to
  <2>2. calls2 \in Seq({"exec", "ask", "tell"})
    BY <2>1
  <2>3. Counts(calls, c) /\ Counts(calls2, c2)
    BY <1>1, <2>2, StepsCount
  <2> QED BY <1>1, <1>4, <2>1, <2>3 DEF Counts
<1>6. CASE Conclude(s)
  <2>1. from = "over" /\ to = "done" /\ calls2 = <<>>
    BY <1>2, <1>6 DEF Conclude, Goto
  <2> HIDE DEF calls, calls2, c, c2, from, to
  <2>2. calls2 \in Seq({"exec", "ask", "tell"})
    BY <2>1
  <2>3. Counts(calls, c) /\ Counts(calls2, c2)
    BY <1>1, <2>2, StepsCount
  <2> QED BY <1>1, <1>4, <2>1, <2>3 DEF Counts
\* To the next stage of the same call, or out of it.
<1>7. CASE \/ Execute(s) \/ Abort(s) \/ StartCommand(s) \/ CommandFails(s) \/ Ask(s) \/ AskTooLate(s)
           \/ Acquire(s) \/ Refuse(s) \/ Reuse(s) \/ Connect(s) \/ ConnectFails(s) \/ Subscribe(s)
           \/ SubscribeFails(s) \/ Publish(s) \/ PublishFails(s) \/ TakeReply(s) \/ StopWaiting(s)
  <2>1. calls2 = calls
    BY <1>7 DEF Execute, Abort, StartCommand, CommandFails, Ask, AskTooLate, Acquire, Refuse, Reuse,
      Connect, ConnectFails, Subscribe, SubscribeFails, Publish, PublishFails, TakeReply, StopWaiting
  <2>2. \/ from = "queued" /\ to = "code"
        \/ from = "code" /\ to \in {"over", "exec", "sem"}
        \/ from = "exec" /\ to = "over"
        \/ from = "sem" /\ to \in {"over", "connect"}
        \/ from = "connect" /\ to \in {"over", "subscribe"}
        \/ from = "subscribe" /\ to \in {"over", "publish"}
        \/ from = "publish" /\ to \in {"await", "unsubscribe"}
        \/ from = "await" /\ to = "unsubscribe"
    BY <1>2, <1>7 DEF Execute, Abort, StartCommand, CommandFails, Ask, AskTooLate, Acquire, Refuse, Reuse,
      Connect, ConnectFails, Subscribe, SubscribeFails, Publish, PublishFails, TakeReply, StopWaiting,
      Goto, Fail, Dials
  <2> HIDE DEF calls, calls2, c, c2, from, to
  <2>3. Counts(calls, c) /\ Counts(calls, c2)
    BY <1>1, StepsCount
  <2> QED BY <1>1, <1>4, <2>1, <2>2, <2>3 DEF Counts
\* The call is over, and the script goes on with the next.
<1>8. CASE CommandEnds(s) \/ Unsubscribe(s)
  <2>1. calls2 = Tail(calls)
    BY <1>2, <1>8 DEF CommandEnds, Unsubscribe, Called
  <2>2. from \in {"exec", "unsubscribe"} /\ to \in {"code", "over"}
    BY <1>2, <1>8 DEF CommandEnds, Unsubscribe, Goto
  <2>3. calls # <<>>
    BY <1>3, <2>2 DEF HasCall, UsesBroker
  <2> HIDE DEF calls, calls2, c, c2, from, to
  <2>4. calls2 \in Seq({"exec", "ask", "tell"}) /\ Len(calls2) = n - 1 /\ n > 0
    BY <1>1, <2>1, <2>3
  <2>5. Counts(calls, c) /\ Counts(calls2, c2)
    BY <1>1, <2>4, StepsCount
  <2> QED BY <1>1, <1>4, <2>2, <2>4, <2>5 DEF Counts
<1>9. CASE Return(s)
  <2>1. from = "code" /\ to = "convert" /\ calls2 = calls /\ c2.nodes = 0
    BY <1>2, <1>9 DEF Return, Goto, Begin
  <2> HIDE DEF calls, calls2, c, c2, from, to
  <2>2. Counts(calls, c) /\ Counts(calls, c2)
    BY <1>1, StepsCount
  <2> QED BY <1>1, <1>4, <2>1, <2>2 DEF Counts
<1>10. CASE ConvertFails(s)
  <2>1. from = "convert" /\ to = "over" /\ calls2 = calls
    BY <1>2, <1>10 DEF ConvertFails, Goto
  <2> HIDE DEF calls, calls2, c, c2, from, to
  <2>2. Counts(calls, c) /\ Counts(calls, c2)
    BY <1>1, StepsCount
  <2> QED BY <1>1, <1>4, <2>1, <2>2 DEF Counts
<1>11. CASE Convert(s)
  <2>1. from = "convert" /\ calls2 = calls
    BY <1>11 DEF Convert
  <2>2. \/ to = "over"
        \/ to = "convert" /\ c2 = Visit(c)
    BY <1>2, <1>11 DEF Convert
  <2>3. CASE to = "over"
    <3> HIDE DEF calls, calls2, c, c2, from, to
    <3>1. Counts(calls, c) /\ Counts(calls, c2)
      BY <1>1, StepsCount
    <3> QED BY <1>1, <1>4, <2>1, <2>3, <3>1 DEF Counts
  <2>4. CASE to = "convert" /\ c2 = Visit(c)
    <3>1. Walk(c) /\ c.todo # <<>>
      BY <2>1 DEF RunIInv, Converted
    <3> HIDE DEF calls, calls2, c, c2, from, to
    <3>2. c2.nodes = c.nodes + Nodes(c.out, Head(c.todo))
      BY <2>4, <3>1 DEF Visit, Walk, Walked
    <3>3. Nodes(c.out, Head(c.todo)) \in {1, 2}
      BY DEF Nodes, Key
    <3>4. Counts(calls, c) /\ Counts(calls, c2)
      BY <1>1, StepsCount
    <3> QED BY <1>1, <1>4, <2>1, <2>4, <3>2, <3>3, <3>4 DEF Counts
  <2> QED BY <2>2, <2>3, <2>4
<1> QED BY <1>5, <1>6, <1>7, <1>8, <1>9, <1>10, <1>11 DEF Work

\* ScriptRun's poll is over after a bounded number of steps of its scripts,
\* whatever they call and return, a value that contains itself included: no call is
\* made twice, and the conversion charges at least a node for every value it visits.
THEOREM StepsRunOut == RunSpec => ScriptsGetOn
<1> DEFINE A == phase = "run" /\ phase' = "run" =>
                  \A s \in Scripts :
                    /\ StepsLeft(s) \in Nat /\ StepsLeft(s)' <= StepsLeft(s)
                    /\ Work(s) => StepsLeft(s)' < StepsLeft(s)
<1>1. RunIInv /\ [RunNext]_runVars => [A]_runVars
  <2> SUFFICES ASSUME RunIInv, RunNext, phase = "run", phase' = "run", NEW s \in Scripts
               PROVE  /\ StepsLeft(s) \in Nat /\ StepsLeft(s)' <= StepsLeft(s)
                      /\ Work(s) => StepsLeft(s)' < StepsLeft(s)
    OBVIOUS
  <2>1. RunIInv'
    BY RunNextInv
  <2>2. StepsLeft(s) \in Nat
    BY StepsType DEF StepsLeft, RunIInv, RunTypeOK, Stages
  <2>3. Work(s) => StepsLeft(s)' < StepsLeft(s)
    BY WorkTakesAStep
  <2>4. StepsLeft(s)' <= StepsLeft(s)
    <3>1. CASE Work(s)
      <4>1. StepsLeft(s)' \in Nat
        <5>1. StepsLeft(s)' = Steps(stage'[s], left'[s], conv'[s])
          BY DEF StepsLeft, Steps, Turn
        <5>2. /\ stage'[s] \in Stages /\ left'[s] \in Seq({"exec", "ask", "tell"})
              /\ stage'[s] = "convert" => conv'[s].nodes \in 0..MaxNodes
          BY <2>1 DEF RunIInv, RunTypeOK, Stages
        <5> QED BY <5>1, <5>2, StepsType
      <4> QED BY <2>2, <2>3, <3>1, <4>1
    <3>2. CASE stage'[s] = stage[s] /\ left'[s] = left[s] /\ conv'[s] = conv[s]
      <4>1. StepsLeft(s)' = StepsLeft(s)
        BY <3>2 DEF StepsLeft, Steps, Turn
      <4> QED BY <2>2, <4>1
    <3>3. ASSUME NEW t \in Scripts, t # s, Work(t)
          PROVE  stage'[s] = stage[s] /\ left'[s] = left[s] /\ conv'[s] = conv[s]
      BY <3>3 DEF RunIInv, RunTypeOK, Work, Cancel, Unreadable, Execute, Conclude, Abort, Return, Convert,
        ConvertFails, StartCommand, CommandFails, CommandEnds, Ask, AskTooLate, Acquire, Refuse, Reuse,
        Connect, ConnectFails, Subscribe, SubscribeFails, Publish, PublishFails, TakeReply, StopWaiting,
        Unsubscribe, Goto, Fail, Called, built
    <3>4. \/ \E t \in Scripts : Work(t)
          \/ stage'[s] = stage[s] /\ left'[s] = left[s] /\ conv'[s] = conv[s]
      BY DEF RunNext, BeginPoll, CloseRuntime, Heartbeat, Stop, Restart, Lost, LateAnswer, Message,
        Deadline, script, built
    <3> QED BY <3>1, <3>2, <3>3, <3>4
  <2> QED BY <2>2, <2>3, <2>4
<1> QED BY <1>1, RunInitInv, RunNextInv, PTL DEF RunSpec, ScriptsGetOn

-----------------------------------------------------------------------------
(* The inductive invariant of SshAuthority *)

\* A key is held by an entry that was added for it and is not over.
HeldIsCurrent ==
  \A k \in Keys : held[k] # None => held[k] \in Added \ over /\ log[held[k]].key = k

\* Each entry has its timer, which runs or waits for the lock, and no timer runs
\* for an entry that is not held.
HeldIsTimed ==
  \A k \in Keys :
    /\ armed[k] # None => armed[k] = held[k]
    /\ held[k] # None => armed[k] = held[k] \/ held[k] \in fired

\* A timer's function runs when the ttl has passed.
FiredIsDue == \A e \in fired : e \in Added /\ log[e].until <= time

\* What a lookup counts as over at its beginning stays over.
LateIsOver ==
  \A l \in Lookups : \A e \in late[l] : e \in Added /\ (e \in over \/ log[e].until < time)

\* A lookup that is under way has a key, and its answer names an entry that was
\* not over when it began.
AnswerIsCurrent ==
  \A l \in Lookups :
    /\ at[l] \in {"sent", "clock", "answered", "printed"} => asked[l] \in Keys
    /\ gave[l] # None => gave[l] \in Added \ late[l]
    /\ at[l] \in {"idle", "sent", "clock"} => gave[l] = None
    /\ at[l] = "printed" => gave[l] # None /\ log[gave[l]].key = asked[l]

IInv ==
  /\ TypeOK
  /\ over \subseteq Added
  /\ HeldIsCurrent
  /\ HeldIsTimed
  /\ HeldWithinTtl
  /\ FiredIsDue
  /\ LateIsOver
  /\ AnswerIsCurrent

-----------------------------------------------------------------------------
LEMMA InitInv == Init => IInv
BY AuthorityAssumption DEF Init, IInv, TypeOK, Added, HeldIsCurrent, HeldIsTimed, HeldWithinTtl,
  FiredIsDue, LateIsOver, AnswerIsCurrent

\* The entries that are left when some are removed, and their timers.
LEMMA Removal ==
  ASSUME TypeOK, HeldIsTimed, NEW gone
  PROVE  /\ Without(gone) \in [Keys -> Entries \cup {None}]
         /\ Stopped(gone) \in [Keys -> Entries \cup {None}]
         /\ \A k \in Keys : Without(gone)[k] \in {None, held[k]}
         /\ \A k \in Keys : Without(gone)[k] # None => held[k] \notin gone
         /\ \A k \in Keys : Stopped(gone)[k] # None => Stopped(gone)[k] = Without(gone)[k]
         /\ \A k \in Keys : Without(gone)[k] # None =>
              Stopped(gone)[k] = Without(gone)[k] \/ Without(gone)[k] \in fired
BY DEF TypeOK, HeldIsTimed, Without, Stopped

\* A lookup's own steps, except the answer.
LEMMA LookupInv ==
  ASSUME IInv, NEW l \in Lookups,
         (\E k \in Keys : Query(l, k)) \/ ReadClock(l) \/ PrintKey(l) \/ End(l)
  PROVE  IInv'
<1>1. TypeOK'
  <2>1. CASE \E k \in Keys : Query(l, k)
    BY <2>1 DEF IInv, TypeOK, Query, store, Added
  <2>2. CASE ReadClock(l)
    BY <2>2 DEF IInv, TypeOK, ReadClock, store
  <2>3. CASE PrintKey(l) \/ End(l)
    BY <2>3 DEF IInv, TypeOK, PrintKey, End, store
  <2> QED BY <2>1, <2>2, <2>3
<1>2. /\ UNCHANGED <<held, armed, fired, log, over, time>>
      /\ (over \subseteq Added)' /\ HeldIsCurrent' /\ HeldIsTimed' /\ HeldWithinTtl' /\ FiredIsDue'
  BY DEF IInv, Query, ReadClock, PrintKey, End, store, Added, HeldIsCurrent, HeldIsTimed,
    HeldWithinTtl, FiredIsDue
<1>3. LateIsOver'
  <2>1. CASE \E k \in Keys : Query(l, k)
    BY <2>1, <1>2 DEF IInv, TypeOK, Query, LateIsOver, Added
  <2>2. CASE ReadClock(l) \/ PrintKey(l) \/ End(l)
    BY <2>2, <1>2 DEF IInv, TypeOK, ReadClock, PrintKey, End, LateIsOver, Added
  <2> QED BY <2>1, <2>2
<1>4. AnswerIsCurrent'
  <2>1. CASE \E k \in Keys : Query(l, k)
    <3> PICK k \in Keys : Query(l, k)
      BY <2>1
    <3>1. gave[l] = None
      BY DEF IInv, AnswerIsCurrent, Query
    <3> QED BY <3>1, <1>2 DEF IInv, TypeOK, Query, AnswerIsCurrent, Added
  <2>2. CASE ReadClock(l)
    BY <2>2, <1>2 DEF IInv, TypeOK, ReadClock, AnswerIsCurrent, Added
  <2>3. CASE PrintKey(l)
    BY <2>3, <1>2 DEF IInv, TypeOK, PrintKey, AnswerIsCurrent, Added
  <2>4. CASE End(l)
    BY <2>4, <1>2 DEF IInv, TypeOK, End, AnswerIsCurrent, Added
  <2> QED BY <2>1, <2>2, <2>3, <2>4
<1> QED BY <1>1, <1>2, <1>3, <1>4 DEF IInv

LEMMA AuthorizeInv ==
  ASSUME IInv, NEW l \in Lookups, Authorize(l)
  PROVE  IInv'
<1> DEFINE gone == Expired(clock[l])
<1>1. /\ held' = Without(gone) /\ armed' = Stopped(gone) /\ asked[l] \in Keys
      /\ at' = [at EXCEPT ![l] = "answered"] /\ gave' = [gave EXCEPT ![l] = held'[asked[l]]]
      /\ UNCHANGED <<time, wall, server, fired, log, over, asked, clock, late, faults>>
  BY DEF IInv, AnswerIsCurrent, Authorize
<1>2. /\ held' \in [Keys -> Entries \cup {None}] /\ armed' \in [Keys -> Entries \cup {None}]
      /\ \A k \in Keys : held'[k] \in {None, held[k]}
      /\ \A k \in Keys : armed'[k] # None => armed'[k] = held'[k]
      /\ \A k \in Keys : held'[k] # None => armed'[k] = held'[k] \/ held'[k] \in fired
  BY <1>1, Removal DEF IInv
<1>3. TypeOK'
  BY <1>1, <1>2 DEF IInv, TypeOK
<1>4. (over \subseteq Added)' /\ HeldIsCurrent' /\ HeldIsTimed' /\ HeldWithinTtl' /\ FiredIsDue'
      /\ LateIsOver'
  BY <1>1, <1>2 DEF IInv, Added, HeldIsCurrent, HeldIsTimed, HeldWithinTtl, FiredIsDue, LateIsOver
<1>5. held'[asked[l]] # None => held'[asked[l]] \in Added \ late[l]
  <2> SUFFICES ASSUME held'[asked[l]] # None
               PROVE  held'[asked[l]] \in Added \ late[l]
    OBVIOUS
  <2>1. held[asked[l]] # None /\ held'[asked[l]] = held[asked[l]]
    BY <1>1, <1>2
  <2>2. held[asked[l]] \in Added \ over /\ time <= log[held[asked[l]]].until
    BY <1>1, <2>1 DEF IInv, HeldIsCurrent, HeldWithinTtl
  <2>3. time \in Nat /\ log[held[asked[l]]].until \in Nat
    BY <2>2 DEF IInv, TypeOK, Added, Entry
  <2> QED BY <2>1, <2>2, <2>3 DEF IInv, LateIsOver
<1>6. AnswerIsCurrent'
  BY <1>1, <1>5 DEF IInv, TypeOK, AnswerIsCurrent, Added
<1> QED BY <1>1, <1>3, <1>4, <1>6 DEF IInv

LEMMA AddInv ==
  ASSUME IInv, NEW k \in Keys, NEW s \in Sessions, NEW ttl \in Ttls, Add(k, s, ttl)
  PROVE  IInv'
<1> DEFINE gone == Expired(wall)
<1> PICK e \in Entries \ Added :
      /\ log' = [log EXCEPT ![e] = [key |-> k, session |-> s, expires |-> wall + ttl, until |-> time + ttl]]
      /\ held' = [Without(gone) EXCEPT ![k] = e]
      /\ armed' = [Stopped(gone) EXCEPT ![k] = e]
  BY DEF Add
<1> DEFINE new == [key |-> k, session |-> s, expires |-> wall + ttl, until |-> time + ttl]
<1>1. UNCHANGED <<time, wall, server, fired, over, at, asked, clock, gave, late, faults>>
  BY DEF Add, lookup
<1>2. ttl \in Nat /\ ttl > 0 /\ ttl <= MaxTtl /\ MaxTtl \in Nat /\ time \in Nat /\ wall \in Nat
  BY AuthorityAssumption DEF Add, Acceptable, IInv, TypeOK
<1>3. new \in Entry /\ new # None
  BY <1>2, EntryAssumption DEF Entry
<1>4. log' \in [Entries -> Entry \cup {None}] /\ Added' = Added \cup {e}
      /\ \A x \in Added : log'[x] = log[x]
  <2>1. log \in [Entries -> Entry \cup {None}]
    BY DEF IInv, TypeOK
  <2>2. log' = [log EXCEPT ![e] = new]
    OBVIOUS
  <2> HIDE DEF new
  <2> QED BY <2>1, <2>2, <1>3 DEF Added
<1>5. log'[e].key = k /\ log'[e].until = time + ttl
  BY DEF IInv, TypeOK
<1>6. /\ Without(gone) \in [Keys -> Entries \cup {None}] /\ Stopped(gone) \in [Keys -> Entries \cup {None}]
      /\ \A j \in Keys : Without(gone)[j] \in {None, held[j]}
      /\ \A j \in Keys : Stopped(gone)[j] # None => Stopped(gone)[j] = Without(gone)[j]
      /\ \A j \in Keys : Without(gone)[j] # None =>
           Stopped(gone)[j] = Without(gone)[j] \/ Without(gone)[j] \in fired
  BY Removal DEF IInv
<1>7. /\ held'[k] = e /\ armed'[k] = e
      /\ \A j \in Keys \ {k} : held'[j] = Without(gone)[j] /\ armed'[j] = Stopped(gone)[j]
      /\ held' \in [Keys -> Entries \cup {None}] /\ armed' \in [Keys -> Entries \cup {None}]
  BY <1>6
<1> HIDE DEF gone, new
<1>8. TypeOK'
  BY <1>1, <1>4, <1>7 DEF IInv, TypeOK
<1>9. e # None /\ e \notin Added /\ e \notin over
  BY AuthorityAssumption DEF IInv
<1>10. (over \subseteq Added)' /\ HeldIsCurrent'
  BY <1>1, <1>4, <1>5, <1>6, <1>7, <1>9 DEF IInv, HeldIsCurrent
<1>11. HeldIsTimed'
  BY <1>1, <1>6, <1>7 DEF IInv, HeldIsTimed
<1>12. HeldWithinTtl'
  BY <1>1, <1>2, <1>4, <1>5, <1>6, <1>7 DEF IInv, HeldWithinTtl, HeldIsCurrent
<1>13. FiredIsDue' /\ LateIsOver'
  BY <1>1, <1>4 DEF IInv, FiredIsDue, LateIsOver
<1>14. AnswerIsCurrent'
  BY <1>1, <1>4, <1>9 DEF IInv, AnswerIsCurrent
<1> QED BY <1>8, <1>10, <1>11, <1>12, <1>13, <1>14 DEF IInv

\* Entries are revoked, or removed by their timer.
LEMMA RevokeInv ==
  ASSUME IInv, NEW s \in Sessions, RevokeSession(s)
  PROVE  IInv'
<1>1. /\ held' = Without(OfSession(s)) /\ armed' = Stopped(OfSession(s))
      /\ over' = over \cup OfSession(s) /\ OfSession(s) \subseteq Added
      /\ UNCHANGED <<time, wall, server, fired, log, at, asked, clock, gave, late, faults>>
  BY DEF RevokeSession, OfSession, lookup
<1>2. /\ held' \in [Keys -> Entries \cup {None}] /\ armed' \in [Keys -> Entries \cup {None}]
      /\ \A k \in Keys : held'[k] \in {None, held[k]}
      /\ \A k \in Keys : held'[k] # None => held'[k] \notin OfSession(s)
      /\ \A k \in Keys : armed'[k] # None => armed'[k] = held'[k]
      /\ \A k \in Keys : held'[k] # None => armed'[k] = held'[k] \/ held'[k] \in fired
  BY <1>1, Removal DEF IInv
<1>3. TypeOK'
  BY <1>1, <1>2 DEF IInv, TypeOK, Added
<1>4. (over \subseteq Added)' /\ HeldIsCurrent' /\ HeldIsTimed' /\ HeldWithinTtl'
  BY <1>1, <1>2 DEF IInv, Added, HeldIsCurrent, HeldIsTimed, HeldWithinTtl
<1>5. FiredIsDue' /\ LateIsOver' /\ AnswerIsCurrent'
  BY <1>1 DEF IInv, Added, FiredIsDue, LateIsOver, AnswerIsCurrent
<1> QED BY <1>3, <1>4, <1>5 DEF IInv

LEMMA ExpireInv ==
  ASSUME IInv, NEW e \in Entries, Expire(e)
  PROVE  IInv'
<1>1. /\ held' = Without({e}) /\ armed' = Stopped({e}) /\ fired' = fired \ {e}
      /\ UNCHANGED <<time, wall, server, log, over, at, asked, clock, gave, late, faults>>
  BY DEF Expire, lookup
<1>2. /\ held' \in [Keys -> Entries \cup {None}] /\ armed' \in [Keys -> Entries \cup {None}]
      /\ \A k \in Keys : held'[k] \in {None, held[k]}
      /\ \A k \in Keys : held'[k] # None => held'[k] # e
      /\ \A k \in Keys : armed'[k] # None => armed'[k] = held'[k]
      /\ \A k \in Keys : held'[k] # None => armed'[k] = held'[k] \/ held'[k] \in fired
  BY <1>1, Removal DEF IInv
<1>3. TypeOK'
  BY <1>1, <1>2 DEF IInv, TypeOK
<1>4. (over \subseteq Added)' /\ HeldIsCurrent' /\ HeldIsTimed' /\ HeldWithinTtl'
  BY <1>1, <1>2 DEF IInv, Added, HeldIsCurrent, HeldIsTimed, HeldWithinTtl
<1>5. FiredIsDue' /\ LateIsOver' /\ AnswerIsCurrent'
  BY <1>1 DEF IInv, Added, FiredIsDue, LateIsOver, AnswerIsCurrent
<1> QED BY <1>3, <1>4, <1>5 DEF IInv

LEMMA FireInv ==
  ASSUME IInv, NEW k \in Keys, Fire(k)
  PROVE  IInv'
<1>1. /\ armed[k] # None /\ log[armed[k]].until <= time /\ armed[k] = held[k] /\ armed[k] \in Added
      /\ fired' = fired \cup {armed[k]} /\ armed' = [armed EXCEPT ![k] = None]
      /\ UNCHANGED <<time, wall, server, held, log, over, at, asked, clock, gave, late, faults>>
  BY DEF IInv, HeldIsTimed, HeldIsCurrent, Fire, lookup
<1>2. TypeOK'
  BY <1>1 DEF IInv, TypeOK, Added
<1>3. (over \subseteq Added)' /\ HeldIsCurrent' /\ HeldWithinTtl' /\ FiredIsDue'
  BY <1>1 DEF IInv, Added, HeldIsCurrent, HeldWithinTtl, FiredIsDue
<1>4. HeldIsTimed'
  BY <1>1 DEF IInv, TypeOK, HeldIsTimed
<1>5. LateIsOver' /\ AnswerIsCurrent'
  BY <1>1 DEF IInv, Added, LateIsOver, AnswerIsCurrent
<1> QED BY <1>2, <1>3, <1>4, <1>5 DEF IInv

\* Time passes only when no timer is due: this is where a set clock cannot
\* lengthen an authorization.
LEMMA TickInv ==
  ASSUME IInv, Tick
  PROVE  IInv'
<1>1. /\ time' = time + 1 /\ wall' = wall + 1 /\ time \in Nat /\ wall \in Nat /\ MaxTtl \in Nat
      /\ UNCHANGED <<server, held, armed, fired, log, over, at, asked, clock, gave, late, faults>>
  BY AuthorityAssumption DEF IInv, TypeOK, Tick, store, lookup
<1>2. \A e \in Added : log[e].until \in Nat
  BY DEF IInv, TypeOK, Added, Entry
<1>3. \A k \in Keys : held[k] # None => held[k] \in Added /\ log[held[k]].until > time
  BY DEF IInv, HeldIsTimed, HeldIsCurrent, Tick
<1>4. TypeOK'
  BY <1>1 DEF IInv, TypeOK
<1>5. HeldWithinTtl'
  BY <1>1, <1>2, <1>3 DEF IInv, HeldWithinTtl
<1>6. FiredIsDue' /\ LateIsOver'
  BY <1>1, <1>2 DEF IInv, Added, FiredIsDue, LateIsOver
<1>7. (over \subseteq Added)' /\ HeldIsCurrent' /\ HeldIsTimed' /\ AnswerIsCurrent'
  BY <1>1 DEF IInv, Added, HeldIsCurrent, HeldIsTimed, AnswerIsCurrent
<1> QED BY <1>4, <1>5, <1>6, <1>7 DEF IInv

LEMMA ProcessInv ==
  ASSUME IInv, SetClock \/ Close \/ Start
  PROVE  IInv'
<1>1. UNCHANGED <<time, held, armed, fired, log, over, at, asked, clock, gave, late>>
  BY DEF SetClock, Close, Start, store, lookup
<1>2. TypeOK'
  BY <1>1, AuthorityAssumption DEF IInv, TypeOK, SetClock, Close, Start
<1>3. (over \subseteq Added)' /\ HeldIsCurrent' /\ HeldIsTimed' /\ HeldWithinTtl' /\ FiredIsDue'
      /\ LateIsOver' /\ AnswerIsCurrent'
  BY <1>1 DEF IInv, Added, HeldIsCurrent, HeldIsTimed, HeldWithinTtl, FiredIsDue, LateIsOver,
    AnswerIsCurrent
<1> QED BY <1>2, <1>3 DEF IInv

LEMMA ExitInv ==
  ASSUME IInv, Exit
  PROVE  IInv'
<1>1. TypeOK'
  <2>1. /\ held' \in [Keys -> Entries \cup {None}] /\ armed' \in [Keys -> Entries \cup {None}]
        /\ fired' \in SUBSET Entries /\ over' \in SUBSET Entries /\ server' = "down"
        /\ UNCHANGED <<time, wall, log, asked, clock, gave, late>>
    BY DEF Exit, Added
  <2>2. faults' \in 0..MaxFaults
    BY AuthorityAssumption DEF IInv, TypeOK, Exit
  <2>3. at' \in [Lookups -> {"idle", "sent", "clock", "answered", "printed", "lost"}]
    BY DEF IInv, TypeOK, Exit
  <2> QED BY <2>1, <2>2, <2>3 DEF IInv, TypeOK
<1>2. (over \subseteq Added)' /\ HeldIsCurrent' /\ HeldIsTimed' /\ HeldWithinTtl' /\ FiredIsDue'
  BY DEF Exit, Added, HeldIsCurrent, HeldIsTimed, HeldWithinTtl, FiredIsDue
<1>3. LateIsOver'
  BY DEF IInv, Exit, Added, LateIsOver
<1>4. AnswerIsCurrent'
  BY DEF IInv, TypeOK, Exit, Added, AnswerIsCurrent
<1> QED BY <1>1, <1>2, <1>3, <1>4 DEF IInv

LEMMA StutterInv == IInv /\ UNCHANGED vars => IInv'
BY DEF vars, store, lookup, IInv, TypeOK, Added, HeldIsCurrent, HeldIsTimed, HeldWithinTtl,
  FiredIsDue, LateIsOver, AnswerIsCurrent

LEMMA NextInv == IInv /\ [Next]_vars => IInv'
<1> SUFFICES ASSUME IInv, [Next]_vars PROVE IInv'
  OBVIOUS
<1>1. CASE Tick
  BY <1>1, TickInv
<1>2. CASE SetClock \/ Close \/ Start
  BY <1>2, ProcessInv
<1>3. CASE Exit
  BY <1>3, ExitInv
<1>4. CASE \E k \in Keys, s \in Sessions, ttl \in Ttls : Add(k, s, ttl)
  BY <1>4, AddInv
<1>5. CASE \E s \in Sessions : RevokeSession(s)
  BY <1>5, RevokeInv
<1>6. CASE \E k \in Keys : Fire(k)
  BY <1>6, FireInv
<1>7. CASE \E e \in Entries : Expire(e)
  BY <1>7, ExpireInv
<1>8. CASE \E l \in Lookups : (\E k \in Keys : Query(l, k)) \/ ReadClock(l) \/ PrintKey(l) \/ End(l)
  BY <1>8, LookupInv
<1>9. CASE \E l \in Lookups : Authorize(l)
  BY <1>9, AuthorizeInv
<1>10. CASE UNCHANGED vars
  BY <1>10, StutterInv
<1> QED BY <1>1, <1>2, <1>3, <1>4, <1>5, <1>6, <1>7, <1>8, <1>9, <1>10 DEF Next

-----------------------------------------------------------------------------
(* The theorems about SshAuthority *)

\* The state of the store, its timers and the lookups keeps its types.
THEOREM TypeCorrect == Spec => []TypeOK
<1>1. IInv => TypeOK
  BY DEF IInv
<1> QED BY <1>1, InitInv, NextInv, PTL DEF Spec

\* No entry is held longer than its ttl, however the clock is set: expire and the
\* timers that Add starts.
THEOREM TtlHolds == Spec => []HeldWithinTtl
<1>1. IInv => HeldWithinTtl
  BY DEF IInv
<1> QED BY <1>1, InitInv, NextInv, PTL DEF Spec

\* sshd never gets a key on account of an authorization that was over when it
\* asked: RevokeSession, the expiry and a restart.
THEOREM PrintsCurrent == Spec => []PrintedIsCurrent
<1>1. IInv => PrintedIsCurrent
  BY DEF IInv, AnswerIsCurrent, PrintedIsCurrent
<1> QED BY <1>1, InitInv, NextInv, PTL DEF Spec

\* What one removal of entries of gone does to a key.
LEMMA Kept ==
  ASSUME TypeOK, NEW gone, NEW k \in Keys, Without(gone)[k] # held[k]
  PROVE  held[k] \in gone
BY DEF TypeOK, Without

\* Only a revoke, a newer authorization, its own end or the end of the process
\* removes an entry, and never the timer of an earlier one: expire's comparison.
THEOREM NewerIsKept == Spec => NewerSurvives
<1> DEFINE A ==
      \A k \in Keys :
        held[k] # None /\ held'[k] # held[k] /\ server' # "down" =>
          \/ held[k] \in over' \/ held'[k] # None
          \/ log[held[k]].until <= time \/ log[held[k]].expires <= wall
          \/ \E l \in Lookups : log[held[k]].expires <= clock[l]
<1>1. IInv /\ [Next]_vars => [A]_vars
  <2> SUFFICES ASSUME IInv, Next, NEW k \in Keys,
                      held[k] # None, held'[k] # held[k], server' # "down"
               PROVE  \/ held[k] \in over' \/ held'[k] # None
                      \/ log[held[k]].until <= time \/ log[held[k]].expires <= wall
                      \/ \E l \in Lookups : log[held[k]].expires <= clock[l]
    OBVIOUS
  <2>1. CASE Exit
    BY <2>1 DEF Exit
  <2>2. CASE \E j \in Keys, s \in Sessions, ttl \in Ttls : Add(j, s, ttl)
    <3>1. PICK j \in Keys, e \in Entries : held' = [Without(Expired(wall)) EXCEPT ![j] = e]
      BY <2>2 DEF Add
    <3>2. Without(Expired(wall)) \in [Keys -> Entries \cup {None}]
      BY Removal DEF IInv
    <3>3. CASE j = k
      BY <3>1, <3>2, <3>3, AuthorityAssumption
    <3>4. CASE j # k
      <4>1. held'[k] = Without(Expired(wall))[k]
        BY <3>1, <3>2, <3>4
      <4> QED BY <4>1, Kept DEF IInv, Expired
    <3> QED BY <3>3, <3>4
  <2>3. CASE \E s \in Sessions : RevokeSession(s)
    BY <2>3, Kept DEF IInv, RevokeSession
  <2>4. CASE \E e \in Entries : Expire(e)
    <3> PICK e \in Entries : Expire(e)
      BY <2>4
    <3>1. held[k] = e
      BY Kept DEF IInv, Expire
    <3> QED BY <3>1 DEF IInv, FiredIsDue, Expire
  <2>5. CASE \E l \in Lookups : Authorize(l)
    <3> PICK l \in Lookups : Authorize(l)
      BY <2>5
    <3>1. held[k] \in Expired(clock[l])
      BY Kept DEF IInv, Authorize
    <3> QED BY <3>1 DEF Expired
  <2>6. CASE \/ Tick \/ SetClock \/ Close \/ Start \/ \E j \in Keys : Fire(j)
             \/ \E l \in Lookups : (\E j \in Keys : Query(l, j)) \/ ReadClock(l) \/ PrintKey(l) \/ End(l)
    BY <2>6 DEF Tick, SetClock, Close, Start, Fire, Query, ReadClock, PrintKey, End, store
  <2> QED BY <2>1, <2>2, <2>3, <2>4, <2>5, <2>6 DEF Next
<1> QED BY <1>1, InitInv, NextInv, PTL DEF Spec, NewerSurvives
=============================================================================
