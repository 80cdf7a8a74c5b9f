------------------------------- MODULE BomProofs -------------------------------
(***************************************************************************)
(* Three facts about the expansion of bills of material, for any items,    *)
(* any tables, any order of their rows and any order of a customer.        *)
(*                                                                         *)
(* It stays within as many levels as there are items, with cycles or       *)
(* without: a branch carries the items above it, expands none of them      *)
(* again, and so names no item twice.  It ends, cycles or not: a node      *)
(* weighs more than its children can together.                             *)
(*                                                                         *)
(* And when the tables hold no cycle it computes what the reference, level *)
(* by level, says is needed.  The argument: the map and what the nodes to  *)
(* visit still need are together what the lines taken need.  A visit       *)
(* trades a node for its children, which ask for exactly what one level    *)
(* makes of it; what an amount needs is itself, where it has no rows, and  *)
(* what the level below it needs; and no path of rows comes back to an     *)
(* item, so that nothing is cut.                                           *)
(*                                                                         *)
(* A sum is taken as the number of its units, which does not depend on the *)
(* order the fold chooses.  What is recursive is proved of the sets of     *)
(* numbers, or of subsets, that have the property, by the order on them    *)
(* being well founded.                                                     *)
(***************************************************************************)
EXTENDS Bom, FiniteSetTheorems, SequenceTheorems, TLAPS

NodeType == [sku : Skus, qty : Nat, above : Seq(Skus)]

\* The tables and the nodes to visit have their types.
Typed ==
    /\ rows \in Seq(Row(Skus)) /\ offers \in Seq(Row(Products))
    /\ listed \in [DOMAIN listed -> SoldQtys]
    /\ stack \in Seq(NodeType)

\* No two of the items above a node are the same.
Simple(path) == \A i, j \in DOMAIN path : path[i] = path[j] => i = j

\* The invariant of the stack.
Inv == Typed /\ \A i \in DOMAIN stack : Simple(stack[i].above)

-----------------------------------------------------------------------------
(* Rows and nodes *)

\* NULL and zero count as one.
LEMMA OrOneType == ASSUME NEW n \in Nat PROVE OrOne(n) \in Nat
  BY DEF OrOne

\* A node is what it was made of.
LEMMA NodeIs ==
  ASSUME NEW s \in Skus, NEW n \in Nat, NEW path \in Seq(Skus)
  PROVE  /\ Node(s, n, path) \in NodeType
         /\ Node(s, n, path).sku = s /\ Node(s, n, path).above = path
  BY DEF Node, NodeType

\* A table's rows for an item are rows of the table, in some order.
LEMMA OfType ==
  ASSUME NEW R, NEW table \in Seq(R), NEW s, NEW own \in Of(table, s)
  PROVE  /\ own \in Seq(R)
         /\ Len(own) \in Nat /\ DOMAIN own = 1..Len(own)
         /\ \A i \in DOMAIN own : own[i] \in R
<1> DEFINE I == {i \in DOMAIN table : table[i].of = s}
<1>1. PICK ids \in SetToSeqs(I) : own = [k \in DOMAIN ids |-> table[ids[k]]]
  BY DEF Of
<1>2. Len(table) \in Nat /\ DOMAIN table = 1..Len(table) /\ table \in [1..Len(table) -> R]
  BY LenProperties
<1>3. IsFiniteSet(I) /\ Cardinality(I) \in Nat
  <2>1. IsFiniteSet(1..Len(table))
    BY <1>2, FS_Interval
  <2>2. I \in SUBSET (1..Len(table))
    BY <1>2
  <2> QED  BY <2>1, <2>2, FS_Subset, FS_CardinalityType
<1>4. ids \in [1..Cardinality(I) -> I]
  BY DEF SetToSeqs
<1>5. own \in [1..Cardinality(I) -> R]
  <2>1. ASSUME NEW k \in 1..Cardinality(I) PROVE table[ids[k]] \in R
    BY <1>2, <1>4
  <2> QED  BY <1>1, <1>4, <2>1
<1> HIDE DEF I
<1>6. own \in Seq(R)
  BY <1>3, <1>5
<1> QED  BY <1>6, LenProperties, ElementOfSeq

\* Nodes that share the path above them.
LEMMA Siblings ==
  ASSUME NEW n \in Nat, NEW path \in Seq(Skus), Simple(path),
         NEW f, f \in [1..n -> NodeType], \A i \in 1..n : f[i].above = path
  PROVE  f \in Seq(NodeType) /\ \A i \in DOMAIN f : Simple(f[i].above)
<1>1. f \in Seq(NodeType) /\ DOMAIN f = 1..n
  OBVIOUS
<1> QED  BY <1>1

\* The path below an item that is not cut names it once more, and no other.
LEMMA PathGrows ==
  ASSUME NEW path \in Seq(Skus), Simple(path), NEW s \in Skus,
         \A i \in DOMAIN path : path[i] # s
  PROVE  Append(path, s) \in Seq(Skus) /\ Simple(Append(path, s))
<1>1. /\ Append(path, s) \in Seq(Skus) /\ Len(Append(path, s)) = Len(path) + 1
      /\ \A i \in 1..Len(path) : Append(path, s)[i] = path[i]
      /\ Append(path, s)[Len(path) + 1] = s
  BY AppendProperties
<1>2. Len(path) \in Nat /\ DOMAIN path = 1..Len(path)
  BY LenProperties
<1>3. DOMAIN Append(path, s) = 1..(Len(path) + 1)
  BY <1>1, LenProperties
<1>4. ASSUME NEW i \in 1..(Len(path) + 1), NEW j \in 1..(Len(path) + 1),
             Append(path, s)[i] = Append(path, s)[j]
      PROVE  i = j
  <2>1. CASE i \in 1..Len(path) /\ j \in 1..Len(path)
    BY <1>1, <1>2, <1>4, <2>1 DEF Simple
  <2>2. CASE i = Len(path) + 1 /\ j \in 1..Len(path)
    BY <1>1, <1>2, <1>4, <2>2
  <2>3. CASE i \in 1..Len(path) /\ j = Len(path) + 1
    BY <1>1, <1>2, <1>4, <2>3
  <2> QED  BY <1>2, <2>1, <2>2, <2>3
<1> QED  BY <1>1, <1>3, <1>4 DEF Simple

\* The children of a node are nodes below it.
LEMMA ChildrenGood ==
  ASSUME Typed, NEW node \in NodeType, Simple(node.above), NEW own \in Of(rows, node.sku)
  PROVE  /\ Children(node, own) \in Seq(NodeType)
         /\ \A i \in DOMAIN Children(node, own) : Simple(Children(node, own)[i].above)
<1>1. node.sku \in Skus /\ node.qty \in Nat /\ node.above \in Seq(Skus)
  BY DEF NodeType
<1>2. CASE Cut(node)
  <2>1. Children(node, own) = <<>>
    BY <1>2 DEF Children
  <2> QED  BY <2>1
<1>3. CASE ~Cut(node)
  <2> DEFINE path == Append(node.above, node.sku)
             f == [i \in DOMAIN own |-> Node(own[i].part, own[i].qty * node.qty, path)]
  <2>1. path \in Seq(Skus) /\ Simple(path)
    BY <1>1, <1>3, PathGrows DEF Cut
  <2>2. Children(node, own) = f
    BY <1>3 DEF Children
  <2>3. /\ Len(own) \in Nat /\ DOMAIN own = 1..Len(own)
        /\ \A i \in DOMAIN own : own[i] \in Row(Skus)
    BY OfType DEF Typed
  <2>4. ASSUME NEW i \in DOMAIN own
        PROVE  own[i].part \in Skus /\ own[i].qty * node.qty \in Nat
    <3>1. own[i].part \in Skus /\ own[i].qty \in Nat
      BY <2>3, BomAssumption DEF Row
    <3> QED  BY <1>1, <3>1
  <2> HIDE DEF path
  <2>5. \A i \in DOMAIN own : f[i] \in NodeType /\ f[i].above = path
    BY <2>1, <2>4, NodeIs
  <2>6. f \in [1..Len(own) -> NodeType] /\ \A i \in 1..Len(own) : f[i].above = path
    BY <2>3, <2>5
  <2> HIDE DEF f
  <2> QED  BY <2>1, <2>2, <2>3, <2>6, Siblings
<1> QED  BY <1>2, <1>3

-----------------------------------------------------------------------------
(* One lemma per action *)

\* A line of the order puts down a node with nothing above it, or the rows of
\* its listing, or nothing.
LEMMA TakeKeeps == ASSUME Inv, NEW l \in Line, Take(l) PROVE Inv'
<1>1. /\ rows' = rows /\ offers' = offers /\ listed' = listed /\ stack = <<>>
  BY DEF Take, tables
<1>2. <<>> \in Seq(Skus) /\ Simple(<<>>)
  BY DEF Simple
<1>3. ASSUME stack' \in Seq(NodeType), \A i \in DOMAIN stack' : Simple(stack'[i].above)
      PROVE  Inv'
  BY <1>1, <1>3 DEF Inv, Typed
<1>4. OrOne(l.qty) \in Nat /\ l.sku \in Skus
  BY OrOneType, BomAssumption DEF Line
<1>5. CASE l.product \in DOMAIN listed /\ Listing(l)
  <2> DEFINE n == OrOne(l.qty) * OrOne(listed[l.product])
  <2>1. n \in Nat
    <3>1. listed[l.product] \in Nat
      BY <1>5, BomAssumption DEF Inv, Typed
    <3>2. OrOne(listed[l.product]) \in Nat
      BY <3>1, OrOneType
    <3> QED  BY <1>4, <3>2
  <2>2. PICK own \in Of(offers, l.product) :
          stack' = [i \in DOMAIN own |-> Node(own[i].part, OrOne(own[i].qty) * n, <<>>)]
    BY <1>5 DEF Listing
  <2>3. /\ Len(own) \in Nat /\ DOMAIN own = 1..Len(own)
        /\ \A i \in DOMAIN own : own[i] \in Row(Products)
    BY OfType DEF Inv, Typed
  <2> HIDE DEF n
  <2>4. ASSUME NEW i \in DOMAIN own
        PROVE  own[i].part \in Skus /\ OrOne(own[i].qty) * n \in Nat
    <3>1. own[i].part \in Skus /\ own[i].qty \in Nat
      BY <2>3, BomAssumption DEF Row
    <3>2. OrOne(own[i].qty) \in Nat
      BY <3>1, OrOneType
    <3> QED  BY <2>1, <3>1, <3>2
  <2>5. \A i \in DOMAIN own : stack'[i] \in NodeType /\ stack'[i].above = <<>>
    BY <1>2, <2>2, <2>4, NodeIs
  <2>6. stack' \in [1..Len(own) -> NodeType] /\ \A i \in 1..Len(own) : stack'[i].above = <<>>
    BY <2>2, <2>3, <2>5
  <2> QED  BY <1>2, <1>3, <2>3, <2>6, Siblings
<1>6. CASE stack' = <<Node(l.sku, OrOne(l.qty), <<>>)>>
  <2>1. Node(l.sku, OrOne(l.qty), <<>>) \in NodeType /\ Node(l.sku, OrOne(l.qty), <<>>).above = <<>>
    BY <1>2, <1>4, NodeIs
  <2>2. PICK f \in [1..1 -> NodeType] : f = stack' /\ \A i \in 1..1 : f[i].above = <<>>
    BY <1>6, <2>1
  <2> QED  BY <1>2, <1>3, <2>2, Siblings
<1>7. CASE stack' = stack
  BY <1>3, <1>7 DEF Inv, Typed
<1> QED  BY <1>5, <1>6, <1>7 DEF Take

\* A visited node gives way to its children.
LEMMA VisitKeeps == ASSUME Inv, Visit PROVE Inv'
<1> DEFINE node == Head(stack)
           rest == Tail(stack)
<1>1. /\ rows' = rows /\ offers' = offers /\ listed' = listed /\ stack # <<>>
  BY DEF Visit, tables
<1>2. PICK own \in Of(rows, node.sku) : stack' = Children(node, own) \o rest
  BY DEF Visit
<1>3. stack \in Seq(NodeType) /\ \A i \in DOMAIN stack : Simple(stack[i].above)
  BY DEF Inv, Typed
<1>4. Len(stack) \in Nat /\ DOMAIN stack = 1..Len(stack) /\ Len(stack) > 0
  BY <1>1, <1>3, EmptySeq, LenProperties
<1>5. /\ node \in NodeType /\ rest \in Seq(NodeType) /\ Len(rest) = Len(stack) - 1
      /\ \A i \in 1..Len(rest) : rest[i] = stack[i+1]
  BY <1>1, <1>3, HeadTailProperties
<1>6. Simple(node.above)
  BY <1>3, <1>4
<1>7. \A i \in 1..Len(rest) : Simple(rest[i].above)
  BY <1>3, <1>4, <1>5
<1> DEFINE kids == Children(node, own)
<1> HIDE DEF node, rest
<1>8. kids \in Seq(NodeType) /\ \A i \in DOMAIN kids : Simple(kids[i].above)
  BY <1>5, <1>6, ChildrenGood DEF Inv
<1> HIDE DEF kids
<1>9. stack' = kids \o rest
  BY <1>2 DEF kids
<1>10. /\ stack' \in Seq(NodeType) /\ Len(stack') = Len(kids) + Len(rest)
       /\ \A i \in 1..(Len(kids) + Len(rest)) :
             stack'[i] = IF i <= Len(kids) THEN kids[i] ELSE rest[i - Len(kids)]
  BY <1>5, <1>8, <1>9, ConcatProperties
<1>11. Len(kids) \in Nat /\ DOMAIN kids = 1..Len(kids) /\ Len(rest) \in Nat
  BY <1>5, <1>8, LenProperties
<1>12. DOMAIN stack' = 1..(Len(kids) + Len(rest))
  BY <1>10, LenProperties
<1>13. ASSUME NEW i \in 1..(Len(kids) + Len(rest)) PROVE Simple(stack'[i].above)
  <2>1. CASE i <= Len(kids)
    BY <1>8, <1>10, <1>11, <2>1
  <2>2. CASE i > Len(kids)
    <3>1. i - Len(kids) \in 1..Len(rest)
      BY <1>11, <2>2
    <3>2. stack'[i] = rest[i - Len(kids)]
      BY <1>10, <1>11, <2>2
    <3> QED  BY <1>7, <3>1, <3>2
  <2> QED  BY <1>11, <2>1, <2>2
<1> QED  BY <1>1, <1>10, <1>12, <1>13 DEF Inv, Typed

-----------------------------------------------------------------------------
(* Depth *)

\* The invariant holds in every state.
LEMMA Invariance == Spec => []Inv
<1>1. Init => Inv
  <2> SUFFICES ASSUME Init PROVE Inv
    OBVIOUS
  <2>1. \A S : \A n \in Nat : BoundedSeq(S, n) \subseteq Seq(S)
    BY DEF BoundedSeq, SeqOf
  <2>2. rows \in Seq(Row(Skus)) /\ offers \in Seq(Row(Products))
    BY <2>1, BomAssumption DEF Init
  <2>3. listed \in [DOMAIN listed -> SoldQtys] /\ stack = <<>>
    BY DEF Init
  <2>4. stack \in Seq(NodeType) /\ DOMAIN stack = {}
    BY <2>3
  <2> QED  BY <2>2, <2>3, <2>4 DEF Inv, Typed
<1>2. Inv /\ [Next]_vars => Inv'
  <2> SUFFICES ASSUME Inv, [Next]_vars PROVE Inv'
    OBVIOUS
  <2>1. CASE Answer \/ UNCHANGED vars
    <3>1. UNCHANGED <<rows, offers, listed, stack>>
      BY <2>1 DEF Answer, vars, tables
    <3> QED  BY <3>1 DEF Inv, Typed
  <2> QED  BY <2>1, TakeKeeps, VisitKeeps DEF Next
<1> QED  BY <1>1, <1>2, PTL DEF Spec

\* A path that names no item twice is no longer than there are items.
LEMMA PathBounded ==
  ASSUME NEW path \in Seq(Skus), Simple(path)
  PROVE  Len(path) <= Deepest
<1>1. Len(path) \in Nat /\ DOMAIN path = 1..Len(path) /\ path \in [1..Len(path) -> Skus]
  BY LenProperties
<1>2. path \in Injection(1..Len(path), Skus)
  BY <1>1 DEF Injection, IsInjective, Simple
<1>3. Cardinality(1..Len(path)) <= Cardinality(Skus)
  BY <1>2, FS_Injection, BomAssumption
<1>4. Cardinality(1..Len(path)) = Len(path)
  <2>1. 1 \in Int /\ Len(path) \in Int
    BY <1>1
  <2>2. Cardinality(1..Len(path)) = IF 1 > Len(path) THEN 0 ELSE Len(path) - 1 + 1
    BY <2>1, FS_Interval
  <2> QED  BY <1>1, <2>2
<1> QED  BY <1>3, <1>4 DEF Deepest

\* Whatever cycles the tables hold, get_standard_bom_node_internal never calls
\* itself deeper than there are items, however many rows the tables have.
THEOREM ExpansionBounded == Spec => []RecursionBounded
<1>1. Inv => RecursionBounded
  <2> SUFFICES ASSUME Inv, NEW i \in DOMAIN stack
               PROVE  Len(stack[i].above) <= Deepest
    BY DEF RecursionBounded
  <2>1. stack[i] \in NodeType
    BY LenProperties, ElementOfSeq DEF Inv, Typed
  <2>2. stack[i].above \in Seq(Skus) /\ Simple(stack[i].above)
    BY <2>1 DEF Inv, NodeType
  <2> QED  BY <2>2, PathBounded
<1> QED  BY <1>1, Invariance, PTL

-----------------------------------------------------------------------------
(* Sums over finite sets *)

\* Induction over the subsets of a finite set, stated of a set of them: W holds
\* all if it holds each set whose smaller ones it holds.
LEMMA SubsetInduction ==
  ASSUME NEW S, IsFiniteSet(S), NEW W,
         \A A \in SUBSET S : (\A x \in A : A \ {x} \in W) => A \in W
  PROVE  S \in W
<1> DEFINE T == {A \in SUBSET S : A \notin W}
<1>1. SUFFICES ASSUME T # {} PROVE FALSE
  OBVIOUS
<1>2. IsWellFoundedOn(StrictSubsetOrdering(S), SUBSET S)
  BY FS_FiniteSubsetsOfFinite, FS_StrictSubsetOrderingWellFounded
<1>3. T \subseteq SUBSET S
  OBVIOUS
<1>4. PICK A \in T : \A B \in T : <<B, A>> \notin StrictSubsetOrdering(S)
  <2> HIDE DEF T
  <2> QED  BY <1>1, <1>2, <1>3, WFMin
<1>5. ASSUME NEW x \in A PROVE A \ {x} \in W
  <2>1. <<A \ {x}, A>> \in StrictSubsetOrdering(S)
    BY DEF StrictSubsetOrdering
  <2> QED  BY <1>4, <2>1
<1> QED  BY <1>5

\* A sum of natural numbers counts units, f[x] for each x.
Units(f, S) == UNION {{x} \X (1..f[x]) : x \in S}

\* One more number is so many more units.
LEMMA UnitsGrow ==
  ASSUME NEW f, NEW S, NEW x, x \notin S, f[x] \in Nat, IsFiniteSet(Units(f, S))
  PROVE  /\ IsFiniteSet(Units(f, S \union {x}))
         /\ Cardinality(Units(f, S \union {x})) = f[x] + Cardinality(Units(f, S))
<1> DEFINE U == Units(f, S)
           E == {x} \X (1..f[x])
           n == f[x]
<1>1. Units(f, S \union {x}) = U \union E
  BY DEF Units
<1>2. U \intersect E = {}
  BY DEF Units
<1>3. IsFiniteSet(E) /\ Cardinality(E) = n
  <2>1. IsFiniteSet({x}) /\ Cardinality({x}) = 1
    BY FS_Singleton
  <2>2. IsFiniteSet(1..n) /\ Cardinality(1..n) = n
    <3>1. 1 \in Int /\ n \in Int
      OBVIOUS
    <3> HIDE DEF n
    <3>2. IsFiniteSet(1..n) /\ Cardinality(1..n) = IF 1 > n THEN 0 ELSE n - 1 + 1
      BY <3>1, FS_Interval
    <3>3. n \in Nat
      BY DEF n
    <3> QED  BY <3>2, <3>3
  <2>3. IsFiniteSet(E) /\ Cardinality(E) = Cardinality({x}) * Cardinality(1..n)
    BY <2>1, <2>2, FS_Product
  <2> QED  BY <2>1, <2>2, <2>3
<1>4. IsFiniteSet(U) /\ Cardinality(U) \in Nat
  BY FS_CardinalityType
<1> HIDE DEF U, E, n
<1>5. Cardinality(U \intersect E) = 0
  BY <1>2, FS_EmptySet
<1>6. /\ IsFiniteSet(U \union E)
      /\ Cardinality(U \union E) = Cardinality(U) + Cardinality(E) - Cardinality(U \intersect E)
  BY <1>3, <1>4, FS_Union
<1>7. n \in Nat
  BY DEF n
<1>8. Cardinality(U \union E) = n + Cardinality(U)
  BY <1>3, <1>4, <1>5, <1>6, <1>7
<1> QED  BY <1>1, <1>6, <1>8 DEF U, n

\* The function that the fold of a sum chooses.
Chosen(s) == CHOOSE x \in s : TRUE
Adds(g, f, S) ==
    g = [s \in SUBSET S |-> IF s = {} THEN 0 ELSE f[Chosen(s)] + g[s \ {Chosen(s)}]]

\* A sum is the number of its units, whatever order the fold takes.
LEMMA SumCounts ==
  ASSUME NEW f, NEW S, IsFiniteSet(S), \A x \in S : f[x] \in Nat
  PROVE  /\ IsFiniteSet(Units(f, S))
         /\ SumFunctionOnSet(f, S) = Cardinality(Units(f, S))
<1>1. ASSUME NEW A \in SUBSET S PROVE IsFiniteSet(Units(f, A))
  <2> DEFINE W == {B \in SUBSET A : IsFiniteSet(Units(f, B))}
  <2>1. IsFiniteSet(A)
    BY FS_Subset
  <2>2. ASSUME NEW B \in SUBSET A, \A x \in B : B \ {x} \in W PROVE B \in W
    <3>1. CASE B = {}
      <4>1. Units(f, B) = {}
        BY <3>1 DEF Units
      <4> QED  BY <4>1, FS_EmptySet
    <3>2. ASSUME NEW x \in B PROVE B \in W
      <4>1. IsFiniteSet(Units(f, B \ {x})) /\ f[x] \in Nat
        BY <2>2
      <4>2. IsFiniteSet(Units(f, (B \ {x}) \union {x}))
        BY <4>1, UnitsGrow
      <4>3. (B \ {x}) \union {x} = B
        OBVIOUS
      <4> QED  BY <4>2, <4>3
    <3> QED  BY <3>1, <3>2
  <2>3. A \in W
    <3> HIDE DEF W
    <3> QED  BY <2>1, <2>2, SubsetInduction
  <2> QED  BY <2>3
<1>2. ASSUME NEW A \in SUBSET S, A # {}
      PROVE  /\ Chosen(A) \in A /\ A \ {Chosen(A)} \in SUBSET S
             /\ Cardinality(Units(f, A)) =
                  f[Chosen(A)] + Cardinality(Units(f, A \ {Chosen(A)}))
  <2>1. Chosen(A) \in A
    BY <1>2 DEF Chosen
  <2>2. (A \ {Chosen(A)}) \union {Chosen(A)} = A /\ f[Chosen(A)] \in Nat
    BY <2>1
  <2>3. IsFiniteSet(Units(f, A \ {Chosen(A)}))
    BY <1>1
  <2>4. Cardinality(Units(f, (A \ {Chosen(A)}) \union {Chosen(A)})) =
          f[Chosen(A)] + Cardinality(Units(f, A \ {Chosen(A)}))
    BY <2>2, <2>3, UnitsGrow
  <2> QED  BY <2>1, <2>2, <2>4
<1>3. Cardinality(Units(f, {})) = 0
  <2>1. Units(f, {}) = {}
    BY DEF Units
  <2> QED  BY <2>1, FS_EmptySet
<1> DEFINE g == [s \in SUBSET S |-> Cardinality(Units(f, s))]
           h == CHOOSE k : Adds(k, f, S)
<1>4. Adds(g, f, S)
  <2>1. ASSUME NEW s \in SUBSET S
        PROVE  Cardinality(Units(f, s)) =
                 IF s = {} THEN 0 ELSE f[Chosen(s)] + g[s \ {Chosen(s)}]
    <3>1. CASE s = {}
      BY <1>3, <3>1
    <3>2. CASE s # {}
      BY <1>2, <3>2
    <3> QED  BY <3>1, <3>2
  <2> QED  BY <2>1 DEF Adds
<1>5. Adds(h, f, S)
  BY <1>4
<1> HIDE DEF h
<1>6. \A s \in SUBSET S : h[s] = IF s = {} THEN 0 ELSE f[Chosen(s)] + h[s \ {Chosen(s)}]
  BY <1>5 DEF Adds
<1> DEFINE V == {s \in SUBSET S : h[s] = Cardinality(Units(f, s))}
<1>7. ASSUME NEW A \in SUBSET S, \A x \in A : A \ {x} \in V PROVE A \in V
  <2>1. CASE A = {}
    BY <1>3, <1>6, <2>1
  <2>2. CASE A # {}
    <3>1. h[A] = f[Chosen(A)] + h[A \ {Chosen(A)}]
      BY <1>6, <2>2
    <3>2. A \ {Chosen(A)} \in V
      BY <1>2, <1>7, <2>2
    <3> QED  BY <1>2, <2>2, <3>1, <3>2
  <2> QED  BY <2>1, <2>2
<1>8. S \in V
  <2> HIDE DEF V
  <2> QED  BY <1>7, SubsetInduction
<1>9. SumFunctionOnSet(f, S) = h[S]
  BY DEF SumFunctionOnSet, FoldFunctionOnSet, MapThenFoldSet, Adds, Chosen, h
<1> QED  BY <1>1, <1>8, <1>9

\* Nothing to add.
LEMMA SumEmpty == ASSUME NEW f PROVE SumFunctionOnSet(f, {}) = 0
<1>1. Units(f, {}) = {}
  BY DEF Units
<1> QED  BY <1>1, SumCounts, FS_EmptySet

\* A sum is a natural number.
LEMMA SumType ==
  ASSUME NEW f, NEW S, IsFiniteSet(S), \A x \in S : f[x] \in Nat
  PROVE  SumFunctionOnSet(f, S) \in Nat
BY SumCounts, FS_CardinalityType

\* One more number, whichever it is.
LEMMA SumGrows ==
  ASSUME NEW f, NEW S, IsFiniteSet(S), NEW x, x \notin S, \A y \in S \union {x} : f[y] \in Nat
  PROVE  SumFunctionOnSet(f, S \union {x}) = f[x] + SumFunctionOnSet(f, S)
<1>1. IsFiniteSet(S \union {x})
  BY FS_AddElement
<1>2. /\ IsFiniteSet(Units(f, S)) /\ SumFunctionOnSet(f, S) = Cardinality(Units(f, S))
      /\ SumFunctionOnSet(f, S \union {x}) = Cardinality(Units(f, S \union {x}))
  BY <1>1, SumCounts
<1>3. f[x] \in Nat
  OBVIOUS
<1>4. Cardinality(Units(f, S \union {x})) = f[x] + Cardinality(Units(f, S))
  BY <1>2, <1>3, UnitsGrow
<1> QED  BY <1>2, <1>4

\* What is left out counts nothing.
LEMMA SumPart ==
  ASSUME NEW S, IsFiniteSet(S), NEW T \in SUBSET S, NEW f, NEW g,
         \A x \in T : f[x] = g[x] /\ g[x] \in Nat, \A x \in S \ T : g[x] = 0
  PROVE  SumFunctionOnSet(f, T) = SumFunctionOnSet(g, S)
<1>1. Units(f, T) = Units(g, S)
  <2>1. \A x \in S \ T : 1..g[x] = {}
    OBVIOUS
  <2> QED  BY <2>1 DEF Units
<1>2. IsFiniteSet(T) /\ \A x \in T : f[x] \in Nat
  BY FS_Subset
<1>3. \A x \in S : g[x] \in Nat
  OBVIOUS
<1> QED  BY <1>1, <1>2, <1>3, SumCounts

\* The sum of two sums.
LEMMA SumPlus ==
  ASSUME NEW S, IsFiniteSet(S), NEW f, NEW g, NEW h,
         \A x \in S : f[x] \in Nat /\ g[x] \in Nat /\ h[x] = f[x] + g[x]
  PROVE  SumFunctionOnSet(h, S) = SumFunctionOnSet(f, S) + SumFunctionOnSet(g, S)
<1> DEFINE W == {A \in SUBSET S :
                   SumFunctionOnSet(h, A) = SumFunctionOnSet(f, A) + SumFunctionOnSet(g, A)}
<1>1. ASSUME NEW A \in SUBSET S, \A x \in A : A \ {x} \in W PROVE A \in W
  <2>1. CASE A = {}
    BY <2>1, SumEmpty
  <2>2. ASSUME NEW x \in A PROVE A \in W
    <3> DEFINE B == A \ {x}
    <3>1. IsFiniteSet(B) /\ x \notin B /\ B \union {x} = A
      BY FS_Subset
    <3>2. \A y \in B \union {x} : f[y] \in Nat /\ g[y] \in Nat /\ h[y] \in Nat
      OBVIOUS
    <3>3. SumFunctionOnSet(h, B) = SumFunctionOnSet(f, B) + SumFunctionOnSet(g, B)
      BY <1>1
    <3> HIDE DEF B
    <3>4. /\ SumFunctionOnSet(f, A) = f[x] + SumFunctionOnSet(f, B)
          /\ SumFunctionOnSet(g, A) = g[x] + SumFunctionOnSet(g, B)
          /\ SumFunctionOnSet(h, A) = h[x] + SumFunctionOnSet(h, B)
      BY <3>1, <3>2, SumGrows
    <3>5. /\ SumFunctionOnSet(f, B) \in Nat /\ SumFunctionOnSet(g, B) \in Nat
          /\ f[x] \in Nat /\ g[x] \in Nat /\ h[x] = f[x] + g[x]
      BY <3>1, <3>2, SumType
    <3> QED  BY <3>3, <3>4, <3>5
  <2> QED  BY <2>1, <2>2
<1>2. S \in W
  <2> HIDE DEF W
  <2> QED  BY <1>1, SubsetInduction
<1> QED  BY <1>2

\* Numbers distribute over a sum.
LEMMA Distributes ==
  ASSUME NEW a \in Nat, NEW b \in Nat, NEW c \in Nat
  PROVE  c * (a + b) = c * a + c * b /\ c * a \in Nat
  OBVIOUS

\* A multiple of a sum.
LEMMA SumTimes ==
  ASSUME NEW S, IsFiniteSet(S), NEW f, NEW h, NEW c \in Nat,
         \A x \in S : f[x] \in Nat /\ h[x] = c * f[x]
  PROVE  SumFunctionOnSet(h, S) = c * SumFunctionOnSet(f, S)
<1> DEFINE W == {A \in SUBSET S : SumFunctionOnSet(h, A) = c * SumFunctionOnSet(f, A)}
<1>1. ASSUME NEW A \in SUBSET S, \A x \in A : A \ {x} \in W PROVE A \in W
  <2>1. CASE A = {}
    BY <2>1, SumEmpty
  <2>2. ASSUME NEW x \in A PROVE A \in W
    <3> DEFINE B == A \ {x}
    <3>1. IsFiniteSet(B) /\ x \notin B /\ B \union {x} = A
      BY FS_Subset
    <3>2. \A y \in B \union {x} : f[y] \in Nat /\ h[y] \in Nat
      BY Distributes
    <3>3. SumFunctionOnSet(h, B) = c * SumFunctionOnSet(f, B)
      BY <1>1
    <3> HIDE DEF B
    <3>4. /\ SumFunctionOnSet(f, A) = f[x] + SumFunctionOnSet(f, B)
          /\ SumFunctionOnSet(h, A) = h[x] + SumFunctionOnSet(h, B)
      BY <3>1, <3>2, SumGrows
    <3>5. SumFunctionOnSet(f, B) \in Nat /\ f[x] \in Nat /\ h[x] = c * f[x]
      BY <3>1, <3>2, SumType
    <3>6. c * (f[x] + SumFunctionOnSet(f, B)) = c * f[x] + c * SumFunctionOnSet(f, B)
      BY <3>5, Distributes
    <3>7. SumFunctionOnSet(h, A) = c * SumFunctionOnSet(f, A)
      BY <3>3, <3>4, <3>5, <3>6
    <3> QED  BY <3>7
  <2> QED  BY <2>1, <2>2
<1>2. S \in W
  <2> HIDE DEF W
  <2> QED  BY <1>1, SubsetInduction
<1> QED  BY <1>2

\* The same numbers under other names.
LEMMA SumMoves ==
  ASSUME NEW S, IsFiniteSet(S), NEW T, NEW b \in Bijection(S, T),
         NEW f, NEW h, \A x \in S : h[x] = f[b[x]] /\ h[x] \in Nat
  PROVE  SumFunctionOnSet(h, S) = SumFunctionOnSet(f, T)
<1>0. /\ b \in [S -> T] /\ \A x, y \in S : b[x] = b[y] => x = y
      /\ \A z \in T : \E x \in S : b[x] = z
  BY DEF Bijection, Injection, Surjection, IsInjective
<1> DEFINE Im(A) == {b[x] : x \in A}
           W == {A \in SUBSET S : /\ IsFiniteSet(Im(A))
                                  /\ SumFunctionOnSet(h, A) = SumFunctionOnSet(f, Im(A))}
<1>1. ASSUME NEW A \in SUBSET S, \A x \in A : A \ {x} \in W PROVE A \in W
  <2>1. CASE A = {}
    <3>1. Im(A) = {}
      BY <2>1
    <3> QED  BY <2>1, <3>1, SumEmpty, FS_EmptySet
  <2>2. ASSUME NEW x \in A PROVE A \in W
    <3> DEFINE B == A \ {x}
               C == Im(B)
               z == b[x]
    <3>1. IsFiniteSet(B) /\ x \notin B /\ B \union {x} = A
      BY FS_Subset
    <3>2. Im(A) = C \union {z} /\ z \notin C
      BY <1>0
    <3>3. IsFiniteSet(C) /\ SumFunctionOnSet(h, B) = SumFunctionOnSet(f, C)
      BY <1>1
    <3>4. (\A y \in B \union {x} : h[y] \in Nat) /\ h[x] = f[z]
      OBVIOUS
    <3>5. \A y \in C \union {z} : f[y] \in Nat
      OBVIOUS
    <3> HIDE DEF B, C, z
    <3>6. /\ SumFunctionOnSet(h, A) = h[x] + SumFunctionOnSet(h, B)
          /\ SumFunctionOnSet(f, C \union {z}) = f[z] + SumFunctionOnSet(f, C)
      BY <3>1, <3>2, <3>3, <3>4, <3>5, SumGrows
    <3>7. IsFiniteSet(C \union {z})
      BY <3>3, FS_AddElement
    <3>8. IsFiniteSet(Im(A)) /\ SumFunctionOnSet(h, A) = SumFunctionOnSet(f, Im(A))
      BY <3>2, <3>3, <3>4, <3>6, <3>7
    <3> QED  BY <3>8
  <2> QED  BY <2>1, <2>2
<1>2. S \in W
  <2> HIDE DEF W
  <2> QED  BY <1>1, SubsetInduction
<1>3. Im(S) = T
  BY <1>0
<1> QED  BY <1>2, <1>3

\* The sum along a sequence of what w gives each element.
Along(w, q) == SumFunctionOnSet([i \in DOMAIN q |-> w[q[i]]], DOMAIN q)

\* An interval of numbers is finite.
LEMMA UpToFinite == ASSUME NEW n \in Nat PROVE IsFiniteSet(1..n) /\ IsFiniteSet(0..n)
<1>1. 0 \in Int /\ 1 \in Int /\ n \in Int
  OBVIOUS
<1> QED  BY <1>1, FS_Interval

\* The sum along a sequence is a natural number, and 0 along none.
LEMMA AlongType ==
  ASSUME NEW R, NEW w \in [R -> Nat], NEW q \in Seq(R)
  PROVE  Along(w, q) \in Nat /\ (q = <<>> => Along(w, q) = 0)
<1>1. Len(q) \in Nat /\ DOMAIN q = 1..Len(q) /\ q \in [1..Len(q) -> R]
  BY LenProperties
<1>2. \A i \in DOMAIN q : [j \in DOMAIN q |-> w[q[j]]][i] \in Nat
  BY <1>1
<1>3. Along(w, q) \in Nat
  BY <1>1, <1>2, UpToFinite, SumType DEF Along
<1>4. CASE q = <<>>
  <2>1. DOMAIN q = {}
    BY <1>4
  <2>2. Along(w, q) = 0
    BY <2>1, SumEmpty DEF Along
  <2> QED  BY <1>3, <2>2
<1> QED  BY <1>3, <1>4

\* Along two sequences, one after the other.
LEMMA AlongConcat ==
  ASSUME NEW R, NEW w \in [R -> Nat], NEW p \in Seq(R), NEW q \in Seq(R)
  PROVE  Along(w, p \o q) = Along(w, p) + Along(w, q)
<1> DEFINE m == Len(p)
           n == Len(q)
           D == 1..(m + n)
           P == 1..m
           Q == 1..n
           f == [i \in D |-> IF i <= m THEN w[p[i]] ELSE 0]
           g == [i \in D |-> IF i <= m THEN 0 ELSE w[q[i - m]]]
           h == [i \in DOMAIN (p \o q) |-> w[(p \o q)[i]]]
           fp == [i \in DOMAIN p |-> w[p[i]]]
           gq == [i \in DOMAIN q |-> w[q[i]]]
           b == [j \in Q |-> m + j]
<1>1. /\ m \in Nat /\ DOMAIN p = 1..m /\ p \in [1..m -> R]
      /\ n \in Nat /\ DOMAIN q = 1..n /\ q \in [1..n -> R]
  BY LenProperties
<1>2. /\ p \o q \in Seq(R) /\ Len(p \o q) = m + n
      /\ \A i \in D : (p \o q)[i] = IF i <= m THEN p[i] ELSE q[i - m]
  BY ConcatProperties
<1>3. DOMAIN (p \o q) = D
  BY <1>2, LenProperties
<1>4. (\A i \in P : w[p[i]] \in Nat) /\ (\A i \in Q : w[q[i]] \in Nat)
  BY <1>1
<1>5. /\ Along(w, p) = SumFunctionOnSet(fp, P)
      /\ Along(w, q) = SumFunctionOnSet(gq, Q)
      /\ Along(w, p \o q) = SumFunctionOnSet(h, D)
  BY <1>1, <1>3 DEF Along
<1> HIDE DEF m, n
<1>6. IsFiniteSet(D) /\ IsFiniteSet(P) /\ IsFiniteSet(Q)
  BY <1>1, UpToFinite
<1>7. \A i \in D : f[i] \in Nat /\ g[i] \in Nat /\ h[i] = f[i] + g[i]
  <2> SUFFICES ASSUME NEW i \in D PROVE f[i] \in Nat /\ g[i] \in Nat /\ h[i] = f[i] + g[i]
    OBVIOUS
  <2>1. CASE i <= m
    <3>1. i \in P
      BY <1>1, <2>1
    <3>2. f[i] = w[p[i]] /\ g[i] = 0
      BY <2>1
    <3>3. (p \o q)[i] = p[i] /\ h[i] = w[(p \o q)[i]]
      BY <1>2, <1>3, <2>1
    <3>4. w[p[i]] \in Nat
      BY <1>4, <3>1
    <3> HIDE DEF f, g, h, D
    <3> QED  BY <3>2, <3>3, <3>4
  <2>2. CASE ~(i <= m)
    <3>1. i - m \in Q
      BY <1>1, <2>2
    <3>2. f[i] = 0 /\ g[i] = w[q[i - m]]
      BY <2>2
    <3>3. (p \o q)[i] = q[i - m] /\ h[i] = w[(p \o q)[i]]
      BY <1>2, <1>3, <2>2
    <3>4. w[q[i - m]] \in Nat
      BY <1>4, <3>1
    <3> HIDE DEF f, g, h, D
    <3> QED  BY <3>2, <3>3, <3>4
  <2> QED  BY <2>1, <2>2
<1>8. SumFunctionOnSet(h, D) = SumFunctionOnSet(f, D) + SumFunctionOnSet(g, D)
  <2> HIDE DEF f, g, h, D
  <2> QED  BY <1>6, <1>7, SumPlus
<1>9. SumFunctionOnSet(fp, P) = SumFunctionOnSet(f, D)
  <2>1. P \in SUBSET D
    BY <1>1
  <2>2. ASSUME NEW i \in P PROVE fp[i] = f[i] /\ f[i] \in Nat
    <3>1. i \in D /\ i <= m /\ i \in DOMAIN p
      BY <1>1, <2>1
    <3>2. f[i] = w[p[i]] /\ fp[i] = w[p[i]]
      BY <3>1
    <3> QED  BY <1>4, <3>2
  <2>3. \A i \in D \ P : f[i] = 0
    BY <1>1
  <2> HIDE DEF f, D, P, fp
  <2> QED  BY <1>6, <2>1, <2>2, <2>3, SumPart
<1>10. SumFunctionOnSet(gq, Q) = SumFunctionOnSet(g, D)
  <2> DEFINE T == {m + j : j \in Q}
  <2>1. T \in SUBSET D /\ \A i \in D \ T : i <= m
    <3>1. T \in SUBSET D
      BY <1>1
    <3>2. ASSUME NEW i \in D, i \notin T PROVE i <= m
      <4>1. CASE ~(i <= m)
        <5>1. i - m \in Q /\ m + (i - m) = i
          BY <1>1, <4>1
        <5> QED  BY <3>2, <5>1
      <4> QED  BY <4>1
    <3> QED  BY <3>1, <3>2
  <2>2. b \in [Q -> T] /\ (\A j \in Q : b[j] = m + j) /\ \A z \in T : \E j \in Q : b[j] = z
    OBVIOUS
  <2>3. \A i, j \in Q : b[i] = b[j] => i = j
    BY <1>1, <2>2
  <2>4. ASSUME NEW j \in Q PROVE gq[j] = g[b[j]] /\ gq[j] \in Nat
    <3>1. b[j] \in D /\ ~(b[j] <= m) /\ b[j] - m = j
      BY <1>1, <2>1, <2>2
    <3>2. g[b[j]] = w[q[b[j] - m]]
      <4> HIDE DEF b
      <4> QED  BY <3>1
    <3>3. gq[j] = w[q[j]] /\ w[q[j]] \in Nat
      BY <1>1, <1>4
    <3> QED  BY <3>1, <3>2, <3>3
  <2> HIDE DEF b, gq, g
  <2>5. SumFunctionOnSet(gq, Q) = SumFunctionOnSet(g, T)
    <3> HIDE DEF T, Q
    <3>1. b \in Bijection(Q, T)
      BY <2>2, <2>3 DEF Bijection, Injection, Surjection, IsInjective
    <3>2. \A j \in Q : gq[j] = g[b[j]] /\ gq[j] \in Nat
      BY <2>4
    <3> QED  BY <1>6, <3>1, <3>2, SumMoves
  <2>6. \A i \in T : g[i] \in Nat
    BY <1>7, <2>1
  <2>7. \A i \in D \ T : g[i] = 0
    BY <2>1 DEF g
  <2>8. SumFunctionOnSet(g, T) = SumFunctionOnSet(g, D)
    <3> HIDE DEF T, D
    <3> QED  BY <1>6, <2>1, <2>6, <2>7, SumPart
  <2> QED  BY <2>5, <2>8
<1> QED  BY <1>5, <1>8, <1>9, <1>10

\* Along one element.
LEMMA AlongOne ==
  ASSUME NEW R, NEW w \in [R -> Nat], NEW e \in R
  PROVE  Along(w, <<e>>) = w[e]
<1> DEFINE f == [i \in DOMAIN <<e>> |-> w[<<e>>[i]]]
<1>1. DOMAIN <<e>> = {} \union {1} /\ f[1] = w[e] /\ w[e] \in Nat
  OBVIOUS
<1>2. \A i \in {} \union {1} : f[i] \in Nat
  BY <1>1
<1> HIDE DEF f
<1>3. SumFunctionOnSet(f, {} \union {1}) = f[1] + SumFunctionOnSet(f, {})
  BY <1>2, SumGrows, FS_EmptySet
<1>4. SumFunctionOnSet(f, {}) = 0
  BY SumEmpty
<1>5. Along(w, <<e>>) = SumFunctionOnSet(f, {} \union {1})
  BY <1>1 DEF Along, f
<1> QED  BY <1>1, <1>3, <1>4, <1>5

\* The rows of an item, and what w gives each row of a table.
OwnRows(table, s) == {i \in DOMAIN table : table[i].of = s}
Weights(w, table) == [i \in DOMAIN table |-> w[table[i]]]

\* Along the rows of an item, in whatever order the query returned them.
LEMMA AlongOf ==
  ASSUME NEW R, NEW w \in [R -> Nat], NEW table \in Seq(R), NEW s, NEW own \in Of(table, s)
  PROVE  /\ own \in Seq(R)
         /\ Along(w, own) = SumFunctionOnSet(Weights(w, table), OwnRows(table, s))
<1> DEFINE I == {i \in DOMAIN table : table[i].of = s}
           K == 1..Cardinality(I)
           f == [i \in DOMAIN table |-> w[table[i]]]
           h == [k \in DOMAIN own |-> w[own[k]]]
<1>1. PICK ids \in SetToSeqs(I) : own = [k \in DOMAIN ids |-> table[ids[k]]]
  BY DEF Of
<1>2. Len(table) \in Nat /\ DOMAIN table = 1..Len(table) /\ table \in [1..Len(table) -> R]
  BY LenProperties
<1>3. IsFiniteSet(I) /\ Cardinality(I) \in Nat
  <2>1. IsFiniteSet(1..Len(table))
    BY <1>2, UpToFinite
  <2>2. I \in SUBSET (1..Len(table))
    BY <1>2
  <2> QED  BY <2>1, <2>2, FS_Subset, FS_CardinalityType
<1>4. ids \in [K -> I] /\ \A i, j \in K : ids[i] = ids[j] => i = j
  BY DEF SetToSeqs
<1>5. ids \in Injection(K, I)
  BY <1>4 DEF Injection, IsInjective
<1>6. IsFiniteSet(K) /\ Cardinality(K) = Cardinality(I)
  <2> DEFINE n == Cardinality(I)
  <2>1. 1 \in Int /\ n \in Int /\ n \in Nat
    BY <1>3
  <2> HIDE DEF n
  <2>2. IsFiniteSet(1..n) /\ Cardinality(1..n) = IF 1 > n THEN 0 ELSE n - 1 + 1
    BY <2>1, FS_Interval
  <2>3. IsFiniteSet(1..n) /\ Cardinality(1..n) = n
    BY <2>1, <2>2
  <2> QED  BY <2>3 DEF n
<1>7. ids \in Bijection(K, I)
  <2> HIDE DEF K, I
  <2> QED  BY <1>3, <1>5, <1>6, FS_Injection DEF Bijection
<1>8. DOMAIN own = K /\ \A k \in K : own[k] = table[ids[k]] /\ ids[k] \in I
  BY <1>1, <1>4
<1>9. \A k \in K : h[k] = f[ids[k]] /\ h[k] \in Nat
  <2> SUFFICES ASSUME NEW k \in K PROVE h[k] = f[ids[k]] /\ h[k] \in Nat
    OBVIOUS
  <2>1. ids[k] \in DOMAIN table /\ table[ids[k]] \in R
    BY <1>2, <1>8
  <2>2. w[table[ids[k]]] \in Nat
    BY <2>1
  <2> HIDE DEF K, I
  <2> QED  BY <1>8, <2>1, <2>2
<1>10. own \in Seq(R)
  BY OfType
<1>11. Along(w, own) = SumFunctionOnSet(h, K)
  BY <1>8 DEF Along
<1>12. SumFunctionOnSet(h, K) = SumFunctionOnSet(f, I)
  <2> HIDE DEF K, I, f, h
  <2> QED  BY <1>6, <1>7, <1>9, SumMoves
<1> QED  BY <1>10, <1>11, <1>12 DEF OwnRows, Weights

-----------------------------------------------------------------------------
(* Recursion over numbers *)

\* What holds of 0 and of each next number holds up to n.
LEMMA UpToInduction ==
  ASSUME NEW n \in Nat, NEW W, 0 \in W, \A k \in 0..n : k \in W /\ k < n => k + 1 \in W
  PROVE  n \in W
<1> DEFINE T == {k \in 0..n : k \notin W}
<1>1. SUFFICES ASSUME n \notin W PROVE FALSE
  OBVIOUS
<1>2. n \in T /\ T \subseteq Nat
  BY <1>1
<1>3. PICK k \in T : \A j \in T : <<j, k>> \notin OpToRel(<, Nat)
  <2> HIDE DEF T
  <2> QED  BY <1>2, WFMin, NatLessThanWellFounded
<1>4. k # 0 /\ k \in 0..n /\ k \notin W
  OBVIOUS
<1>5. k - 1 \in 0..n /\ k - 1 < k /\ k - 1 < n /\ k - 1 \in Nat /\ k \in Nat
  BY <1>4
<1>6. k - 1 \in W
  <2>1. <<k - 1, k>> \in OpToRel(<, Nat)
    BY <1>5 DEF OpToRel
  <2> QED  BY <1>3, <1>5, <2>1
<1>7. (k - 1) + 1 \in W
  BY <1>5, <1>6
<1> QED  BY <1>4, <1>5, <1>7

\* The function that begins with a and goes on with next.
Iterates(h, X, a, next, n) ==
    h \in [0..n -> X] /\ h[0] = a /\ \A k \in 1..n : h[k] = next[h[k - 1]]

\* A function can be defined by its first value and by each next one.
LEMMA Recursion ==
  ASSUME NEW X, NEW a \in X, NEW next \in [X -> X], NEW n \in Nat
  PROVE  \E h : Iterates(h, X, a, next, n)
<1> DEFINE Fits(h, m) == Iterates(h, X, a, next, m)
           W == {m \in 0..n : \E h : Fits(h, m)}
<1>1. 0 \in W
  <2>1. Fits([k \in 0..0 |-> a], 0)
    BY DEF Iterates
  <2>2. 0 \in 0..n
    OBVIOUS
  <2> HIDE DEF Fits
  <2> QED  BY <2>1, <2>2
<1>2. ASSUME NEW m \in 0..n, m \in W, m < n PROVE m + 1 \in W
  <2>0. PICK h : Fits(h, m)
    BY <1>2
  <2>1. h \in [0..m -> X] /\ h[0] = a /\ \A k \in 1..m : h[k] = next[h[k - 1]]
    BY <2>0 DEF Iterates
  <2> DEFINE g == [k \in 0..(m + 1) |-> IF k <= m THEN h[k] ELSE next[h[m]]]
  <2>2. m \in 0..m /\ h[m] \in X
    BY <2>1
  <2>3. \A k \in 0..(m + 1) : g[k] \in X
    BY <2>1, <2>2
  <2>4. g[0] = a
    BY <2>1
  <2>5. ASSUME NEW k \in 1..(m + 1) PROVE g[k] = next[g[k - 1]]
    <3>1. k - 1 \in 0..(m + 1) /\ k \in 0..(m + 1) /\ k - 1 <= m
      OBVIOUS
    <3>2. g[k - 1] = h[k - 1]
      BY <3>1
    <3>3. CASE k <= m
      <4>1. k \in 1..m
        BY <3>3
      <4> QED  BY <2>1, <3>1, <3>2, <3>3, <4>1
    <3>4. CASE k = m + 1
      <4>1. k - 1 = m
        BY <3>4
      <4> QED  BY <3>1, <3>2, <3>4, <4>1
    <3> QED  BY <3>3, <3>4
  <2>6. Fits(g, m + 1)
    BY <2>3, <2>4, <2>5 DEF Iterates
  <2>7. m + 1 \in 0..n
    BY <1>2
  <2> HIDE DEF Fits, g
  <2> QED  BY <2>6, <2>7
<1>3. n \in W
  <2> HIDE DEF W
  <2> QED  BY <1>1, <1>2, UpToInduction
<1> QED  BY <1>3

-----------------------------------------------------------------------------
(* Levels *)

\* A quantity of each item, none of any, the sum of two, and what the rows make
\* of one a level further down.
Amounts == [Skus -> Nat]
Nothing == [t \in Skus |-> 0]
Plus(a, b) == [s \in Skus |-> a[s] + b[s]]
Using(s) == {i \in DOMAIN rows : rows[i].part = s}
Times(v) == [i \in DOMAIN rows |-> v[rows[i].of] * rows[i].qty]
Below(v) == [s \in Skus |-> SumFunctionOnSet(Times(v), Using(s))]

\* The product of two numbers, which the provers do not multiply further.
LEMMA ProductType == ASSUME NEW a \in Nat, NEW b \in Nat PROVE a * b \in Nat
  OBVIOUS

\* The rows of the bills of material.
LEMMA RowsAre ==
  ASSUME Typed
  PROVE  /\ IsFiniteSet(DOMAIN rows) /\ \A s : IsFiniteSet(Using(s))
         /\ \A i \in DOMAIN rows :
              rows[i].of \in Skus /\ rows[i].part \in Skus /\ rows[i].qty \in Nat
         /\ \A v \in Amounts : \A i \in DOMAIN rows : Times(v)[i] \in Nat
<1>1. Len(rows) \in Nat /\ DOMAIN rows = 1..Len(rows) /\ rows \in [1..Len(rows) -> Row(Skus)]
  BY LenProperties DEF Typed
<1>2. IsFiniteSet(DOMAIN rows)
  BY <1>1, UpToFinite
<1>3. \A s : Using(s) \in SUBSET DOMAIN rows
  BY DEF Using
<1>4. \A i \in DOMAIN rows : rows[i].of \in Skus /\ rows[i].part \in Skus /\ rows[i].qty \in Nat
  BY <1>1, BomAssumption DEF Row
<1>5. ASSUME NEW v \in Amounts, NEW i \in DOMAIN rows PROVE Times(v)[i] \in Nat
  <2>1. v[rows[i].of] \in Nat /\ rows[i].qty \in Nat
    BY <1>4 DEF Amounts
  <2>2. v[rows[i].of] * rows[i].qty \in Nat
    BY <2>1, ProductType
  <2> QED  BY <2>2 DEF Times
<1> QED  BY <1>2, <1>3, <1>4, <1>5, FS_Subset

\* Quantities stay natural numbers on the way down.
LEMMA BelowType == ASSUME Typed, NEW v \in Amounts PROVE Below(v) \in Amounts
<1>1. ASSUME NEW s \in Skus PROVE SumFunctionOnSet(Times(v), Using(s)) \in Nat
  <2>1. IsFiniteSet(Using(s)) /\ \A i \in Using(s) : Times(v)[i] \in Nat
    BY RowsAre DEF Using
  <2> QED  BY <2>1, SumType
<1> QED  BY <1>1 DEF Below, Amounts

\* A sum of natural numbers is one.
LEMMA PlusType == ASSUME NEW a \in Amounts, NEW b \in Amounts PROVE Plus(a, b) \in Amounts
  BY DEF Plus, Amounts

\* What two quantities need is what each of them needs.
LEMMA BelowPlus ==
  ASSUME Typed, NEW a \in Amounts, NEW b \in Amounts
  PROVE  Below(Plus(a, b)) = Plus(Below(a), Below(b))
<1> DEFINE c == Plus(a, b)
<1>1. c \in Amounts
  BY PlusType
<1>2. ASSUME NEW i \in DOMAIN rows
      PROVE  /\ Times(a)[i] \in Nat /\ Times(b)[i] \in Nat
             /\ Times(c)[i] = Times(a)[i] + Times(b)[i]
  <2> DEFINE o == rows[i].of
             q == rows[i].qty
  <2>1. o \in Skus /\ q \in Nat /\ a[o] \in Nat /\ b[o] \in Nat
    BY RowsAre DEF Amounts
  <2>2. c[o] = a[o] + b[o]
    BY <2>1 DEF Plus
  <2>3. /\ Times(a)[i] = a[o] * q /\ Times(b)[i] = b[o] * q /\ Times(c)[i] = c[o] * q
    BY DEF Times
  <2> HIDE DEF o, q, c
  <2>4. (a[o] + b[o]) * q = a[o] * q + b[o] * q /\ a[o] * q \in Nat /\ b[o] * q \in Nat
    <3>1. q * (a[o] + b[o]) = q * a[o] + q * b[o] /\ q * a[o] \in Nat /\ q * b[o] \in Nat
      BY <2>1, Distributes
    <3> QED  BY <2>1, <3>1
  <2> QED  BY <2>2, <2>3, <2>4
<1>3. ASSUME NEW s \in Skus
      PROVE  SumFunctionOnSet(Times(c), Using(s)) =
               SumFunctionOnSet(Times(a), Using(s)) + SumFunctionOnSet(Times(b), Using(s))
  <2>1. IsFiniteSet(Using(s)) /\ Using(s) \subseteq DOMAIN rows
    BY RowsAre DEF Using
  <2> HIDE DEF c
  <2> QED  BY <1>2, <2>1, SumPlus
<1> QED  BY <1>3 DEF Below, Plus

\* Items that no quantity above uses are not needed.
LEMMA BelowNothing ==
  ASSUME Typed, NEW v \in Amounts, NEW s \in Skus, \A i \in Using(s) : v[rows[i].of] = 0
  PROVE  Below(v)[s] = 0
<1>1. ASSUME NEW i \in Using(s) PROVE Times(v)[i] = 0
  <2>1. i \in DOMAIN rows /\ rows[i].qty \in Nat
    BY RowsAre DEF Using
  <2>2. 0 * rows[i].qty = 0
    BY <2>1
  <2> QED  BY <2>1, <2>2 DEF Times
<1>2. IsFiniteSet(Using(s)) /\ {} \in SUBSET Using(s)
  BY RowsAre
<1>3. SumFunctionOnSet(Times(v), {}) = SumFunctionOnSet(Times(v), Using(s))
  BY <1>1, <1>2, SumPart
<1> QED  BY <1>3, SumEmpty DEF Below

\* The number of items is a natural number.
LEMMA DeepestType == Deepest \in Nat /\ IsFiniteSet(0..Deepest)
<1>1. Deepest \in Nat
  BY FS_CardinalityType, BomAssumption DEF Deepest
<1> QED  BY <1>1, UpToFinite

\* The levels are one below the other.
LEMMA LevelsAre ==
  ASSUME Typed, NEW top \in Amounts
  PROVE  /\ Levels(top) \in [0..Deepest -> Amounts] /\ Levels(top)[0] = top
         /\ \A k \in 1..Deepest : Levels(top)[k] = Below(Levels(top)[k - 1])
<1> DEFINE next == [v \in Amounts |-> Below(v)]
           Is(h) == h = [k \in 0..Deepest |-> IF k = 0 THEN top ELSE Below(h[k - 1])]
<1>1. next \in [Amounts -> Amounts]
  BY BelowType
<1>2. PICK h : /\ h \in [0..Deepest -> Amounts] /\ h[0] = top
               /\ \A k \in 1..Deepest : h[k] = next[h[k - 1]]
  <2>1. \E h : Iterates(h, Amounts, top, next, Deepest)
    <3> HIDE DEF next
    <3> QED  BY <1>1, DeepestType, Recursion
  <2> QED  BY <2>1 DEF Iterates
<1>3. ASSUME NEW k \in 0..Deepest PROVE h[k] = IF k = 0 THEN top ELSE Below(h[k - 1])
  <2>1. CASE k = 0
    BY <1>2, <2>1
  <2>2. CASE k # 0
    <3>1. k \in 1..Deepest /\ k - 1 \in 0..Deepest
      BY <2>2, DeepestType
    <3>2. h[k - 1] \in Amounts /\ h[k] = next[h[k - 1]]
      BY <1>2, <3>1
    <3> QED  BY <2>2, <3>2
  <2> QED  BY <2>1, <2>2
<1>4. Is(h)
  BY <1>2, <1>3
<1>5. Levels(top) = CHOOSE g : Is(g)
  BY DEF Levels, Below, Times, Using
<1>6. Is(Levels(top))
  <2> HIDE DEF Is
  <2> QED  BY <1>4, <1>5
<1> DEFINE L == Levels(top)
<1>7. /\ DOMAIN L = 0..Deepest
      /\ \A k \in 0..Deepest : L[k] = IF k = 0 THEN top ELSE Below(L[k - 1])
  <2> HIDE DEF L
  <2>1. L = [k \in 0..Deepest |-> IF k = 0 THEN top ELSE Below(L[k - 1])]
    BY <1>6 DEF L
  <2> QED  BY <2>1
<1> HIDE DEF L
<1>8. L[0] = top /\ \A k \in 1..Deepest : L[k] = Below(L[k - 1])
  <2>1. 0 \in 0..Deepest
    BY DeepestType
  <2> QED  BY <1>7, <2>1
<1>9. ASSUME NEW n \in 0..Deepest PROVE L[n] \in Amounts
  <2> DEFINE W == {k \in 0..Deepest : L[k] \in Amounts}
  <2>1. 0 \in W
    BY <1>8, DeepestType
  <2>2. ASSUME NEW k \in 0..n, k \in W, k < n PROVE k + 1 \in W
    <3>1. k + 1 \in 1..Deepest /\ (k + 1) - 1 = k /\ L[k] \in Amounts
      BY <2>2, DeepestType
    <3>2. L[k + 1] = Below(L[k])
      BY <1>8, <3>1
    <3>3. L[k + 1] \in Amounts
      BY <3>1, <3>2, BelowType
    <3> QED  BY <3>1, <3>3
  <2>3. n \in W
    <3> HIDE DEF W
    <3> QED  BY <2>1, <2>2, UpToInduction, DeepestType
  <2> QED  BY <2>3
<1>10. L = [k \in 0..Deepest |-> L[k]]
  <2>1. L = [k \in 0..Deepest |-> IF k = 0 THEN top ELSE Below(L[k - 1])]
    BY <1>6 DEF L
  <2> QED  BY <2>1
<1> QED  BY <1>8, <1>9, <1>10 DEF L

\* A level further down of what is one level down.
LEMMA LevelsShift ==
  ASSUME Typed, NEW v \in Amounts, NEW n \in 0..Deepest
  PROVE  Levels(Below(v))[n] = Below(Levels(v)[n])
<1> DEFINE L == Levels(v)
           M == Levels(Below(v))
           W == {k \in 0..Deepest : M[k] = Below(L[k])}
<1>1. /\ L[0] = v /\ M[0] = Below(v)
      /\ \A k \in 1..Deepest : L[k] = Below(L[k - 1]) /\ M[k] = Below(M[k - 1])
  BY LevelsAre, BelowType
<1> HIDE DEF L, M
<1>2. 0 \in W
  BY <1>1, DeepestType
<1>3. ASSUME NEW k \in 0..n, k \in W, k < n PROVE k + 1 \in W
  <2>1. k + 1 \in 1..Deepest /\ (k + 1) - 1 = k /\ M[k] = Below(L[k])
    BY <1>3, DeepestType
  <2>2. L[k + 1] = Below(L[k]) /\ M[k + 1] = Below(M[k])
    BY <1>1, <2>1
  <2> QED  BY <2>1, <2>2
<1>4. n \in W
  <2> HIDE DEF W
  <2>1. n \in Nat
    BY DeepestType
  <2> QED  BY <1>2, <1>3, <2>1, UpToInduction
<1> QED  BY <1>4 DEF L, M

\* The levels of two quantities are the sums of theirs.
LEMMA LevelsPlus ==
  ASSUME Typed, NEW a \in Amounts, NEW b \in Amounts, NEW n \in 0..Deepest
  PROVE  Levels(Plus(a, b))[n] = Plus(Levels(a)[n], Levels(b)[n])
<1> DEFINE K == Levels(a)
           L == Levels(b)
           M == Levels(Plus(a, b))
           W == {k \in 0..Deepest : M[k] = Plus(K[k], L[k])}
<1>1. /\ K[0] = a /\ L[0] = b /\ M[0] = Plus(a, b)
      /\ \A k \in 1..Deepest : /\ K[k] = Below(K[k - 1]) /\ L[k] = Below(L[k - 1])
                               /\ M[k] = Below(M[k - 1])
      /\ \A k \in 0..Deepest : K[k] \in Amounts /\ L[k] \in Amounts
  BY LevelsAre, PlusType
<1> HIDE DEF K, L, M
<1>2. 0 \in W
  BY <1>1, DeepestType
<1>3. ASSUME NEW k \in 0..n, k \in W, k < n PROVE k + 1 \in W
  <2>1. k + 1 \in 1..Deepest /\ (k + 1) - 1 = k /\ M[k] = Plus(K[k], L[k]) /\ k \in 0..Deepest
    BY <1>3, DeepestType
  <2>2. K[k + 1] = Below(K[k]) /\ L[k + 1] = Below(L[k]) /\ M[k + 1] = Below(M[k])
    BY <1>1, <2>1
  <2>3. Below(Plus(K[k], L[k])) = Plus(Below(K[k]), Below(L[k]))
    BY <1>1, <2>1, BelowPlus
  <2> QED  BY <2>1, <2>2, <2>3
<1>4. n \in W
  <2> HIDE DEF W
  <2>1. n \in Nat
    BY DeepestType
  <2> QED  BY <1>2, <1>3, <2>1, UpToInduction
<1> QED  BY <1>4 DEF K, L, M

\* Without a cycle there are sets of items, each the parts of the one before,
\* that end with none.
LEMMA AcyclicIs ==
  ASSUME Typed
  PROVE  \E B : /\ B[0] = Skus /\ (Acyclic <=> B[Deepest] = {})
                /\ \A k \in 1..Deepest :
                     B[k] = {rows[i].part : i \in {j \in DOMAIN rows : rows[j].of \in B[k - 1]}}
<1> DEFINE Parts(Z) == {rows[i].part : i \in {j \in DOMAIN rows : rows[j].of \in Z}}
           X == SUBSET Skus
           next == [Z \in X |-> Parts(Z)]
           Is(h) == h = [k \in 0..Deepest |-> IF k = 0 THEN Skus ELSE Parts(h[k - 1])]
<1>1. next \in [X -> X]
  BY RowsAre
<1>2. PICK h : /\ h \in [0..Deepest -> X] /\ h[0] = Skus
               /\ \A k \in 1..Deepest : h[k] = next[h[k - 1]]
  <2>1. \E h : Iterates(h, X, Skus, next, Deepest)
    <3>1. Skus \in X
      OBVIOUS
    <3> HIDE DEF next, X
    <3> QED  BY <1>1, <3>1, DeepestType, Recursion
  <2> QED  BY <2>1 DEF Iterates
<1>3. ASSUME NEW k \in 0..Deepest PROVE h[k] = IF k = 0 THEN Skus ELSE Parts(h[k - 1])
  <2>1. CASE k = 0
    BY <1>2, <2>1
  <2>2. CASE k # 0
    <3>1. k \in 1..Deepest /\ k - 1 \in 0..Deepest
      BY <2>2, DeepestType
    <3>2. h[k - 1] \in X /\ h[k] = next[h[k - 1]]
      BY <1>2, <3>1
    <3>3. next[h[k - 1]] = Parts(h[k - 1])
      BY <3>2
    <3> HIDE DEF Parts, next
    <3> QED  BY <2>2, <3>2, <3>3
  <2> QED  BY <2>1, <2>2
<1>4. Is(h)
  BY <1>2, <1>3
<1> DEFINE B == CHOOSE g : Is(g)
<1>5. Acyclic <=> B[Deepest] = {}
  BY DEF Acyclic
<1>6. Is(B)
  <2> HIDE DEF Is
  <2> QED  BY <1>4
<1> HIDE DEF B
<1>7. \A k \in 0..Deepest : B[k] = IF k = 0 THEN Skus ELSE Parts(B[k - 1])
  BY <1>6
<1>8. B[0] = Skus /\ \A k \in 1..Deepest : B[k] = Parts(B[k - 1])
  <2>1. 0 \in 0..Deepest /\ \A k \in 1..Deepest : k \in 0..Deepest /\ k # 0
    BY DeepestType
  <2> HIDE DEF Parts
  <2> QED  BY <1>7, <2>1
<1> QED  BY <1>5, <1>8

\* Without a cycle nothing is needed on the last level.
LEMMA AcyclicEnds ==
  ASSUME Typed, Acyclic, NEW v \in Amounts, NEW s \in Skus
  PROVE  Levels(v)[Deepest][s] = 0
<1>1. PICK B : /\ B[0] = Skus /\ (Acyclic <=> B[Deepest] = {})
               /\ \A k \in 1..Deepest :
                    B[k] = {rows[i].part : i \in {j \in DOMAIN rows : rows[j].of \in B[k - 1]}}
  BY AcyclicIs
<1> DEFINE L == Levels(v)
           W == {k \in 0..Deepest : \A t \in Skus : t \notin B[k] => L[k][t] = 0}
<1>2. /\ L[0] = v /\ \A k \in 1..Deepest : L[k] = Below(L[k - 1])
      /\ \A k \in 0..Deepest : L[k] \in Amounts
  BY LevelsAre
<1> HIDE DEF L
<1>3. 0 \in W
  BY <1>1, DeepestType
<1>4. ASSUME NEW k \in 0..Deepest, k \in W, k < Deepest PROVE k + 1 \in W
  <2>1. k + 1 \in 1..Deepest /\ (k + 1) - 1 = k /\ k + 1 \in 0..Deepest
    BY <1>4, DeepestType
  <2>2. L[k + 1] = Below(L[k]) /\ L[k] \in Amounts
    BY <1>2, <2>1
  <2>3. ASSUME NEW t \in Skus, t \notin B[k + 1] PROVE L[k + 1][t] = 0
    <3>1. B[k + 1] = {rows[i].part : i \in {j \in DOMAIN rows : rows[j].of \in B[k]}}
      BY <1>1, <2>1
    <3>2. ASSUME NEW i \in Using(t) PROVE L[k][rows[i].of] = 0
      <4>1. i \in DOMAIN rows /\ rows[i].part = t /\ rows[i].of \in Skus
        BY RowsAre DEF Using
      <4>2. rows[i].of \notin B[k]
        BY <2>3, <3>1, <4>1
      <4> QED  BY <1>4, <4>1, <4>2
    <3>3. Below(L[k])[t] = 0
      BY <2>2, <3>2, BelowNothing
    <3> QED  BY <2>2, <3>3
  <2> QED  BY <2>1, <2>3
<1>5. Deepest \in W
  <2> HIDE DEF W
  <2> QED  BY <1>3, <1>4, DeepestType, UpToInduction
<1> QED  BY <1>1, <1>5 DEF L

-----------------------------------------------------------------------------
(* What is needed *)

\* The quantities of item s on all levels.
Column(v, s) == [k \in 0..Deepest |-> Levels(v)[k][s]]

\* What is needed of an item without rows is its sum over the levels.
LEMMA NeededIs ==
  ASSUME Typed, NEW v \in Amounts, NEW s \in Skus
  PROVE  /\ \A k \in 0..Deepest : Column(v, s)[k] \in Nat /\ Column(v, s)[k] = Levels(v)[k][s]
         /\ Needed(v)[s] = IF HasRows(s) THEN 0 ELSE SumFunctionOnSet(Column(v, s), 0..Deepest)
         /\ Needed(v)[s] \in Nat
<1>1. \A k \in 0..Deepest : Levels(v)[k] \in Amounts
  BY LevelsAre
<1>2. \A k \in 0..Deepest : Column(v, s)[k] \in Nat /\ Column(v, s)[k] = Levels(v)[k][s]
  BY <1>1 DEF Column, Amounts
<1>3. Needed(v)[s] = IF HasRows(s) THEN 0 ELSE SumFunctionOnSet(Column(v, s), 0..Deepest)
  BY DEF Needed, Column
<1>4. SumFunctionOnSet(Column(v, s), 0..Deepest) \in Nat
  BY <1>2, DeepestType, SumType
<1> QED  BY <1>2, <1>3, <1>4

\* What two orders need together is what they need one by one.
LEMMA NeededPlus ==
  ASSUME Typed, NEW a \in Amounts, NEW b \in Amounts, NEW s \in Skus
  PROVE  Needed(Plus(a, b))[s] = Needed(a)[s] + Needed(b)[s]
<1> DEFINE c == Plus(a, b)
<1>1. c \in Amounts
  BY PlusType
<1>2. ASSUME NEW k \in 0..Deepest
      PROVE  Column(c, s)[k] = Column(a, s)[k] + Column(b, s)[k]
  <2>1. Levels(c)[k] = Plus(Levels(a)[k], Levels(b)[k])
    BY LevelsPlus
  <2>2. Levels(c)[k][s] = Levels(a)[k][s] + Levels(b)[k][s]
    BY <2>1 DEF Plus
  <2> QED  BY <2>2 DEF Column
<1> HIDE DEF c
<1> DEFINE D == 0..Deepest
<1>3. SumFunctionOnSet(Column(c, s), D) =
        SumFunctionOnSet(Column(a, s), D) + SumFunctionOnSet(Column(b, s), D)
  <2>1. \A k \in D : /\ Column(a, s)[k] \in Nat /\ Column(b, s)[k] \in Nat
                     /\ Column(c, s)[k] = Column(a, s)[k] + Column(b, s)[k]
    BY <1>2, NeededIs
  <2>2. IsFiniteSet(D)
    BY DeepestType
  <2> HIDE DEF D
  <2> QED  BY <2>1, <2>2, SumPlus
<1>4. CASE HasRows(s)
  BY <1>1, <1>4, NeededIs DEF c
<1>5. CASE ~HasRows(s)
  BY <1>1, <1>3, <1>5, NeededIs DEF c
<1> QED  BY <1>4, <1>5

\* Without a cycle an item without rows is needed as often as it was asked for,
\* and as often as the parts of what was asked for need it.
LEMMA NeededBelow ==
  ASSUME Typed, Acyclic, NEW v \in Amounts, NEW s \in Skus
  PROVE  Needed(v)[s] = (IF HasRows(s) THEN 0 ELSE v[s]) + Needed(Below(v))[s]
<1> DEFINE D == 0..Deepest
           E == 1..Deepest
           f == Column(v, s)
           g == Column(Below(v), s)
           next == [k \in D |-> k + 1]
<1>1. Below(v) \in Amounts /\ Deepest \in Nat
  BY BelowType, DeepestType
<1>2. /\ \A k \in D : f[k] \in Nat /\ f[k] = Levels(v)[k][s]
      /\ \A k \in D : g[k] \in Nat /\ g[k] = Levels(Below(v))[k][s]
  BY <1>1, NeededIs
<1>3. f[0] = v[s]
  BY <1>1, <1>2, LevelsAre
<1>4. ASSUME NEW k \in D, k < Deepest PROVE g[k] = f[k + 1]
  <2>1. k + 1 \in 1..Deepest /\ (k + 1) - 1 = k /\ k + 1 \in D
    BY <1>1, <1>4
  <2>2. Levels(v)[k + 1] = Below(Levels(v)[k])
    BY <2>1, LevelsAre
  <2>3. Levels(Below(v))[k] = Below(Levels(v)[k])
    BY LevelsShift
  <2> QED  BY <1>2, <2>1, <2>2, <2>3
<1>5. g[Deepest] = 0
  BY <1>1, <1>2, AcyclicEnds
<1> HIDE DEF f, g
\* The levels above the last, moved one level down.
<1> DEFINE C == 0..(Deepest - 1)
           b == [k \in C |-> k + 1]
<1>6. SumFunctionOnSet(g, C) = SumFunctionOnSet(f, E)
  <2>1. IsFiniteSet(C)
    <3>1. C \in SUBSET D
      BY <1>1
    <3> QED  BY <3>1, DeepestType, FS_Subset
  <2>2. b \in Bijection(C, E)
    <3>1. (\A k \in C : k + 1 \in E) /\ (\A j, k \in C : j + 1 = k + 1 => j = k)
      BY <1>1
    <3>2. ASSUME NEW e \in E PROVE \E k \in C : b[k] = e
      <4>1. e - 1 \in C /\ (e - 1) + 1 = e
        BY <1>1
      <4>2. b[e - 1] = e
        BY <4>1
      <4> QED  BY <4>1, <4>2
    <3> QED  BY <3>1, <3>2 DEF Bijection, Injection, Surjection, IsInjective
  <2>3. ASSUME NEW k \in C PROVE g[k] = f[b[k]] /\ g[k] \in Nat
    <3>1. k \in D /\ k < Deepest /\ b[k] = k + 1
      BY <1>1
    <3> QED  BY <1>2, <1>4, <3>1
  <2> HIDE DEF C, E, b
  <2> QED  BY <2>1, <2>2, <2>3, SumMoves
<1>7. SumFunctionOnSet(g, C) = SumFunctionOnSet(g, D)
  <2>1. C \in SUBSET D /\ \A k \in D \ C : k = Deepest
    BY <1>1
  <2>2. (\A k \in C : g[k] \in Nat) /\ (\A k \in D \ C : g[k] = 0)
    BY <1>2, <1>5, <2>1
  <2>3. IsFiniteSet(D)
    BY DeepestType
  <2> HIDE DEF C, D
  <2> QED  BY <2>1, <2>2, <2>3, SumPart
<1>8. SumFunctionOnSet(f, D) = f[0] + SumFunctionOnSet(f, E)
  <2>1. D = E \union {0} /\ 0 \notin E /\ IsFiniteSet(E)
    BY <1>1, UpToFinite
  <2>2. \A k \in E \union {0} : f[k] \in Nat
    BY <1>2, <2>1
  <2> HIDE DEF D, E
  <2> QED  BY <2>1, <2>2, SumGrows
<1>9. CASE HasRows(s)
  BY <1>1, <1>9, NeededIs
<1>10. CASE ~HasRows(s)
  <2>1. Needed(v)[s] = SumFunctionOnSet(f, D) /\ Needed(Below(v))[s] = SumFunctionOnSet(g, D)
    BY <1>1, <1>10, NeededIs DEF f, g
  <2> HIDE DEF C, D, E
  <2> QED  BY <1>3, <1>6, <1>7, <1>8, <1>10, <2>1
<1> QED  BY <1>9, <1>10

\* Nothing needs nothing.
LEMMA NeededNothing ==
  ASSUME Typed, NEW s \in Skus
  PROVE  Needed(Nothing)[s] = 0
<1> DEFINE z == Nothing
<1>1. z \in Amounts /\ Plus(z, z) = z
  BY DEF Amounts, Plus, Nothing
<1> HIDE DEF z
<1>2. Needed(Plus(z, z))[s] = Needed(z)[s] + Needed(z)[s]
  BY <1>1, NeededPlus
<1>3. Needed(z)[s] \in Nat
  BY <1>1, NeededIs
<1>4. Needed(z)[s] = 0
  <2>1. Needed(z)[s] = Needed(z)[s] + Needed(z)[s]
    BY <1>1, <1>2
  <2> DEFINE n == Needed(z)[s]
  <2>2. n \in Nat /\ n = n + n
    BY <1>3, <2>1
  <2> HIDE DEF n
  <2>3. n = 0
    BY <2>2
  <2> QED  BY <2>3 DEF n
<1> QED  BY <1>4 DEF z

-----------------------------------------------------------------------------
(* What the nodes to visit ask for *)

\* So many of one item.
One(s, n) == [t \in Skus |-> IF t = s THEN n ELSE 0]

\* Of each item, what the nodes still to visit ask for.
Ask(s) == [n \in NodeType |-> IF n.sku = s THEN n.qty ELSE 0]
Asked(nodes) == [s \in Skus |-> Along(Ask(s), nodes)]

\* A node asks for natural numbers.
LEMMA AskType == \A s : Ask(s) \in [NodeType -> Nat]
<1>1. \A n \in NodeType : n.qty \in Nat
  BY DEF NodeType
<1> QED  BY <1>1 DEF Ask

\* One item is an amount, and so is nothing.
LEMMA OneType ==
  /\ Nothing \in Amounts
  /\ \A s : \A n \in Nat : One(s, n) \in Amounts
  BY DEF Nothing, One, Amounts

\* Nodes ask for what the first of them and the others ask for; no nodes for
\* nothing; one node for its item.
LEMMA AskedIs ==
  /\ \A p \in Seq(NodeType) : Asked(p) \in Amounts
  /\ \A p, q \in Seq(NodeType) : Asked(p \o q) = Plus(Asked(p), Asked(q))
  /\ Asked(<<>>) = Nothing
  /\ \A n \in NodeType : Asked(<<n>>) = One(n.sku, n.qty)
<1>1. ASSUME NEW p \in Seq(NodeType) PROVE Asked(p) \in Amounts
  <2>1. \A s \in Skus : Along(Ask(s), p) \in Nat
    BY AskType, AlongType
  <2> QED  BY <2>1 DEF Asked, Amounts
<1>2. ASSUME NEW p \in Seq(NodeType), NEW q \in Seq(NodeType)
      PROVE  Asked(p \o q) = Plus(Asked(p), Asked(q))
  <2>1. \A s \in Skus : Along(Ask(s), p \o q) = Along(Ask(s), p) + Along(Ask(s), q)
    BY AskType, AlongConcat
  <2> QED  BY <2>1 DEF Asked, Plus
<1>3. Asked(<<>>) = Nothing
  <2>1. <<>> \in Seq(NodeType)
    OBVIOUS
  <2>2. \A s \in Skus : Along(Ask(s), <<>>) = 0
    BY <2>1, AskType, AlongType
  <2> QED  BY <2>2 DEF Asked, Nothing
<1>4. ASSUME NEW n \in NodeType PROVE Asked(<<n>>) = One(n.sku, n.qty)
  <2>1. \A s \in Skus : Along(Ask(s), <<n>>) = Ask(s)[n]
    BY AskType, AlongOne
  <2>2. \A s \in Skus : Ask(s)[n] = IF s = n.sku THEN n.qty ELSE 0
    BY DEF Ask
  <2> QED  BY <2>1, <2>2 DEF Asked, One
<1> QED  BY <1>1, <1>2, <1>3, <1>4

\* A sequence without positions is empty.
LEMMA NoneIs == ASSUME NEW S, NEW q \in Seq(S) PROVE q = <<>> <=> DOMAIN q = {}
<1>1. Len(q) \in Nat /\ DOMAIN q = 1..Len(q)
  BY LenProperties
<1>2. DOMAIN q = {} => Len(q) = 0
  BY <1>1
<1>3. DOMAIN q = {} => q = <<>>
  BY <1>1, <1>2, EmptySeq
<1> QED  BY <1>3

\* Whether a query returned no rows.
LEMMA OfNone ==
  ASSUME NEW R, NEW table \in Seq(R), NEW s, NEW own \in Of(table, s)
  PROVE  own = <<>> <=> \A i \in DOMAIN table : table[i].of # s
<1> DEFINE I == {i \in DOMAIN table : table[i].of = s}
<1>1. PICK ids \in SetToSeqs(I) : own = [k \in DOMAIN ids |-> table[ids[k]]]
  BY DEF Of
<1>2. Len(table) \in Nat /\ DOMAIN table = 1..Len(table)
  BY LenProperties
<1>3. IsFiniteSet(I) /\ Cardinality(I) \in Nat
  <2>1. IsFiniteSet(1..Len(table))
    BY <1>2, UpToFinite
  <2>2. I \in SUBSET (1..Len(table))
    BY <1>2
  <2> QED  BY <2>1, <2>2, FS_Subset, FS_CardinalityType
<1>4. DOMAIN own = 1..Cardinality(I)
  BY <1>1 DEF SetToSeqs
<1>5. own \in Seq(R)
  BY OfType
<1>6. own = <<>> <=> DOMAIN own = {}
  BY <1>5, NoneIs
<1>7. DOMAIN own = {} <=> Cardinality(I) = 0
  <2> DEFINE n == Cardinality(I)
  <2>1. n \in Nat /\ DOMAIN own = 1..n
    BY <1>3, <1>4
  <2> HIDE DEF n
  <2>2. DOMAIN own = {} <=> n = 0
    BY <2>1
  <2> QED  BY <2>2 DEF n
<1>8. Cardinality(I) = 0 <=> I = {}
  <2> HIDE DEF I
  <2> QED  BY <1>3, FS_EmptySet
<1> QED  BY <1>6, <1>7, <1>8

\* The children of a node ask for what the rows make of it.
LEMMA AskedChildren ==
  ASSUME Typed, NEW node \in NodeType, NEW own \in Of(rows, node.sku), ~Cut(node)
  PROVE  Asked(Children(node, own)) = Below(One(node.sku, node.qty))
<1> DEFINE n == node.sku
           q == node.qty
           path == Append(node.above, node.sku)
           kids == [i \in DOMAIN own |-> Node(own[i].part, own[i].qty * q, path)]
<1>1. n \in Skus /\ q \in Nat /\ path \in Seq(Skus) /\ rows \in Seq(Row(Skus))
  <2>1. node.sku \in Skus /\ node.qty \in Nat /\ node.above \in Seq(Skus)
    BY DEF NodeType
  <2>2. path \in Seq(Skus)
    BY <2>1, AppendProperties
  <2> QED  BY <2>1, <2>2 DEF Typed
<1>2. Children(node, own) = kids
  BY DEF Children
<1>3. \A i \in DOMAIN own : own[i] \in Row(Skus)
  BY <1>1, OfType
<1>4. \A r \in Row(Skus) : r.part \in Skus /\ r.qty \in Nat
  BY BomAssumption DEF Row
<1> HIDE DEF n, path
<1>5. ASSUME NEW s \in Skus
      PROVE  Along(Ask(s), kids) = SumFunctionOnSet(Times(One(n, q)), Using(s))
  <2> DEFINE w == [r \in Row(Skus) |-> IF r.part = s THEN r.qty * q ELSE 0]
             D == DOMAIN rows
             T == {i \in DOMAIN rows : rows[i].of = n}
             f == [i \in DOMAIN rows |-> w[rows[i]]]
             h == [i \in DOMAIN rows |->
                     IF rows[i].of = n /\ rows[i].part = s THEN rows[i].qty * q ELSE 0]
  <2>1. w \in [Row(Skus) -> Nat]
    <3>1. ASSUME NEW r \in Row(Skus) PROVE r.qty * q \in Nat
      BY <1>1, <1>4, ProductType
    <3> QED  BY <3>1
  <2>2. ASSUME NEW i \in DOMAIN own PROVE Ask(s)[kids[i]] = w[own[i]]
    <3>1. own[i].part \in Skus /\ own[i].qty * q \in Nat
      BY <1>1, <1>3, <1>4, ProductType
    <3>2. kids[i] = Node(own[i].part, own[i].qty * q, path)
      OBVIOUS
    <3>3. kids[i] \in NodeType
      BY <1>1, <3>1, <3>2, NodeIs
    <3>4. kids[i].sku = own[i].part /\ kids[i].qty = own[i].qty * q
      BY <3>2 DEF Node
    <3>5. Ask(s)[kids[i]] = IF own[i].part = s THEN own[i].qty * q ELSE 0
      <4> HIDE DEF kids
      <4> QED  BY <3>3, <3>4 DEF Ask
    <3> QED  BY <1>3, <3>5
  <2>3. Along(Ask(s), kids) = Along(w, own)
    <3>1. DOMAIN kids = DOMAIN own
      OBVIOUS
    <3> HIDE DEF w, kids
    <3> QED  BY <2>2, <3>1 DEF Along
  <2>4. Along(w, own) = SumFunctionOnSet(f, T)
    <3>1. own \in Of(rows, n)
      BY DEF n
    <3> HIDE DEF w
    <3>2. Along(w, own) = SumFunctionOnSet(Weights(w, rows), OwnRows(rows, n))
      BY <1>1, <2>1, <3>1, AlongOf
    <3> QED  BY <3>2 DEF Weights, OwnRows
  <2>5. /\ IsFiniteSet(D)
        /\ \A i \in D : rows[i] \in Row(Skus) /\ rows[i].qty \in Nat /\ rows[i].of \in Skus
    <3>1. \A i \in DOMAIN rows : rows[i] \in Row(Skus)
      BY <1>1, LenProperties
    <3> QED  BY <3>1, RowsAre
  <2>6. \A i \in D : h[i] \in Nat
    <3>1. \A i \in D : rows[i].qty * q \in Nat
      BY <1>1, <2>5, ProductType
    <3> QED  BY <3>1
  <2>7. SumFunctionOnSet(f, T) = SumFunctionOnSet(h, D)
    <3>1. T \in SUBSET D
      OBVIOUS
    <3>2. ASSUME NEW i \in T PROVE f[i] = h[i] /\ h[i] \in Nat
      <4>1. i \in D /\ rows[i].of = n
        OBVIOUS
      <4>2. f[i] = IF rows[i].part = s THEN rows[i].qty * q ELSE 0
        BY <2>5, <4>1
      <4> QED  BY <2>6, <4>1, <4>2
    <3>3. \A i \in D \ T : h[i] = 0
      OBVIOUS
    <3> HIDE DEF D, T, f, h
    <3> QED  BY <2>5, <3>1, <3>2, <3>3, SumPart
  <2> DEFINE U == Using(s)
             g == Times(One(n, q))
  <2>8. SumFunctionOnSet(g, U) = SumFunctionOnSet(h, D)
    <3>1. U \in SUBSET D
      BY DEF Using
    <3>2. ASSUME NEW i \in U PROVE g[i] = h[i] /\ h[i] \in Nat
      <4>1. i \in D /\ rows[i].part = s
        BY DEF Using
      <4>2. g[i] = (IF rows[i].of = n THEN q ELSE 0) * rows[i].qty
        BY <2>5, <4>1 DEF Times, One
      <4>3. h[i] = IF rows[i].of = n THEN rows[i].qty * q ELSE 0
        BY <4>1
      <4>4. 0 * rows[i].qty = 0 /\ q * rows[i].qty = rows[i].qty * q
        BY <1>1, <2>5, <4>1
      <4> HIDE DEF g, h
      <4> QED  BY <2>6, <4>1, <4>2, <4>3, <4>4
    <3>3. \A i \in D \ U : h[i] = 0
      BY DEF Using
    <3> HIDE DEF D, U, g, h
    <3> QED  BY <2>5, <3>1, <3>2, <3>3, SumPart
  <2> QED  BY <2>3, <2>4, <2>7, <2>8
<1> HIDE DEF kids
<1> QED  BY <1>2, <1>5 DEF Asked, Below, n

\* The nodes of a listing ask for what its line does.
LEMMA AskedListing ==
  ASSUME Typed, NEW l \in Line, l.product \in DOMAIN listed, NEW n,
         n = OrOne(l.qty) * OrOne(listed[l.product]), NEW own \in Of(offers, l.product)
  PROVE  /\ Asked([i \in DOMAIN own |-> Node(own[i].part, OrOne(own[i].qty) * n, <<>>)]) = Top(l)
         /\ Top(l) \in Amounts
<1> DEFINE p == l.product
           nodes == [i \in DOMAIN own |-> Node(own[i].part, OrOne(own[i].qty) * n, <<>>)]
<1>1. n \in Nat
  <2>1. l.qty \in Nat /\ listed[l.product] \in Nat
    BY BomAssumption DEF Line, Typed
  <2>2. OrOne(l.qty) \in Nat /\ OrOne(listed[l.product]) \in Nat
    BY <2>1, OrOneType
  <2> QED  BY <2>2, ProductType
<1>2. offers \in Seq(Row(Products)) /\ <<>> \in Seq(Skus)
  BY DEF Typed
<1>3. \A i \in DOMAIN own : own[i] \in Row(Products)
  BY <1>2, OfType
<1>4. \A r \in Row(Products) : r.part \in Skus /\ OrOne(r.qty) \in Nat
  <2>1. \A r \in Row(Products) : r.part \in Skus /\ r.qty \in Nat
    BY BomAssumption DEF Row
  <2> QED  BY <2>1, OrOneType
<1>5. ASSUME NEW s \in Skus
      PROVE  /\ Along(Ask(s), nodes) =
                  n * SumFunctionOnSet([i \in DOMAIN offers |-> OrOne(offers[i].qty)],
                        {i \in DOMAIN offers : offers[i].of = p /\ offers[i].part = s})
             /\ Along(Ask(s), nodes) \in Nat
  <2> DEFINE w == [r \in Row(Products) |-> IF r.part = s THEN OrOne(r.qty) * n ELSE 0]
             S == {i \in DOMAIN offers : offers[i].of = p}
             T == {i \in DOMAIN offers : offers[i].of = p /\ offers[i].part = s}
             f == [i \in DOMAIN offers |-> w[offers[i]]]
             g == [i \in DOMAIN offers |-> OrOne(offers[i].qty)]
             h == [i \in DOMAIN offers |-> n * OrOne(offers[i].qty)]
  <2>1. w \in [Row(Products) -> Nat]
    <3>1. ASSUME NEW r \in Row(Products) PROVE OrOne(r.qty) * n \in Nat
      BY <1>1, <1>4, ProductType
    <3> QED  BY <3>1
  <2>2. ASSUME NEW i \in DOMAIN own PROVE Ask(s)[nodes[i]] = w[own[i]]
    <3>1. own[i].part \in Skus /\ OrOne(own[i].qty) * n \in Nat
      BY <1>1, <1>3, <1>4, ProductType
    <3>2. nodes[i] = Node(own[i].part, OrOne(own[i].qty) * n, <<>>)
      OBVIOUS
    <3>3. nodes[i] \in NodeType
      BY <1>2, <3>1, <3>2, NodeIs
    <3>4. nodes[i].sku = own[i].part /\ nodes[i].qty = OrOne(own[i].qty) * n
      BY <3>2 DEF Node
    <3>5. Ask(s)[nodes[i]] = IF own[i].part = s THEN OrOne(own[i].qty) * n ELSE 0
      <4> HIDE DEF nodes
      <4> QED  BY <3>3, <3>4 DEF Ask
    <3> QED  BY <1>3, <3>5
  <2>3. Along(Ask(s), nodes) = Along(w, own)
    <3>1. DOMAIN nodes = DOMAIN own
      OBVIOUS
    <3> HIDE DEF w, nodes
    <3> QED  BY <2>2, <3>1 DEF Along
  <2>4. Along(w, own) = SumFunctionOnSet(f, S) /\ own \in Seq(Row(Products))
    <3> HIDE DEF w
    <3>1. /\ Along(w, own) = SumFunctionOnSet(Weights(w, offers), OwnRows(offers, p))
          /\ own \in Seq(Row(Products))
      BY <1>2, <2>1, AlongOf
    <3> QED  BY <3>1 DEF Weights, OwnRows
  <2>5. Along(w, own) \in Nat
    <3> HIDE DEF w
    <3> QED  BY <2>1, <2>4, AlongType
  <2>6. /\ IsFiniteSet(S) /\ IsFiniteSet(T) /\ T \in SUBSET S
        /\ \A i \in S : offers[i] \in Row(Products)
    <3>1. Len(offers) \in Nat /\ DOMAIN offers = 1..Len(offers)
          /\ \A i \in DOMAIN offers : offers[i] \in Row(Products)
      BY <1>2, LenProperties
    <3>2. IsFiniteSet(DOMAIN offers)
      BY <3>1, UpToFinite
    <3>3. S \in SUBSET DOMAIN offers /\ T \in SUBSET S
      OBVIOUS
    <3>4. \A i \in S : offers[i] \in Row(Products)
      BY <3>1
    <3> HIDE DEF S, T
    <3> QED  BY <3>2, <3>3, <3>4, FS_Subset
  <2>7. \A i \in T : h[i] \in Nat /\ h[i] = n * g[i] /\ g[i] \in Nat
    <3> SUFFICES ASSUME NEW i \in T PROVE h[i] \in Nat /\ h[i] = n * g[i] /\ g[i] \in Nat
      OBVIOUS
    <3>1. i \in DOMAIN offers /\ OrOne(offers[i].qty) \in Nat
      BY <1>4, <2>6
    <3>2. n * OrOne(offers[i].qty) \in Nat
      BY <1>1, <3>1, ProductType
    <3> QED  BY <3>1, <3>2
  <2>8. SumFunctionOnSet(h, T) = SumFunctionOnSet(f, S)
    <3>1. ASSUME NEW i \in T PROVE h[i] = f[i] /\ f[i] \in Nat
      <4>1. i \in DOMAIN offers /\ offers[i] \in Row(Products) /\ offers[i].part = s
        BY <2>6
      <4>2. f[i] = OrOne(offers[i].qty) * n /\ h[i] = n * OrOne(offers[i].qty)
        BY <4>1
      <4>3. OrOne(offers[i].qty) \in Nat
        BY <1>4, <4>1
      <4>4. OrOne(offers[i].qty) * n = n * OrOne(offers[i].qty)
        BY <1>1, <4>3
      <4>5. h[i] \in Nat
        BY <2>7
      <4> HIDE DEF f, h
      <4> QED  BY <4>2, <4>4, <4>5
    <3>2. ASSUME NEW i \in S \ T PROVE f[i] = 0
      <4>1. i \in DOMAIN offers /\ offers[i] \in Row(Products) /\ offers[i].part # s
        BY <2>6
      <4> QED  BY <4>1
    <3> HIDE DEF S, T, f, h
    <3> QED  BY <2>6, <3>1, <3>2, SumPart
  <2>9. SumFunctionOnSet(h, T) = n * SumFunctionOnSet(g, T)
    <3> HIDE DEF T, g, h
    <3> QED  BY <1>1, <2>6, <2>7, SumTimes
  <2> HIDE DEF f, h, S, w
  <2> QED  BY <2>3, <2>4, <2>5, <2>8, <2>9
<1>6. Asked(nodes) = Top(l)
  <2> HIDE DEF nodes
  <2> QED  BY <1>5 DEF Asked, Top
<1>7. Asked(nodes) \in Amounts
  <2> HIDE DEF nodes
  <2> QED  BY <1>5 DEF Asked, Amounts
<1> QED  BY <1>6, <1>7

-----------------------------------------------------------------------------
(* Cycles *)

\* One item's bill of material has a row for another; each item of a path has
\* one for the next; the path to a node ends with its item.
Edge(s, t) == \E i \in DOMAIN rows : rows[i].of = s /\ rows[i].part = t
Linked(p) == \A j \in 1..(Len(p) - 1) : Edge(p[j], p[j + 1])
Path(n) == Append(n.above, n.sku)

\* A path with one more item, and where it ends.
LEMMA AppendIs ==
  ASSUME NEW p \in Seq(Skus), NEW s \in Skus
  PROVE  /\ Append(p, s) \in Seq(Skus) /\ Len(p) \in Nat /\ Len(Append(p, s)) = Len(p) + 1
         /\ DOMAIN p = 1..Len(p)
         /\ \A i \in 1..Len(p) : Append(p, s)[i] = p[i]
         /\ Append(p, s)[Len(p) + 1] = s
  BY AppendProperties, LenProperties

\* A path goes on with a part of the item it ends with.
LEMMA LinkedGrows ==
  ASSUME NEW p \in Seq(Skus), NEW s \in Skus, NEW t \in Skus,
         Linked(Append(p, s)), Edge(s, t)
  PROVE  Linked(Append(Append(p, s), t))
<1> DEFINE q == Append(p, s)
           r == Append(q, t)
           n == Len(p)
<1>1. /\ q \in Seq(Skus) /\ n \in Nat /\ Len(q) = n + 1 /\ q[n + 1] = s
  BY AppendIs
<1>2. /\ Len(r) = n + 2 /\ r[n + 2] = t /\ \A i \in 1..(n + 1) : r[i] = q[i]
  <2>1. /\ Len(r) = Len(q) + 1 /\ r[Len(q) + 1] = t /\ \A i \in 1..Len(q) : r[i] = q[i]
    BY <1>1, AppendIs
  <2> HIDE DEF n, q, r
  <2>2. Len(q) + 1 = n + 2
    BY <1>1
  <2> QED  BY <1>1, <2>1, <2>2
<1>3. \A j \in 1..(Len(q) - 1) : Edge(q[j], q[j + 1])
  BY DEF Linked
<1> HIDE DEF n, q, r
<1>4. ASSUME NEW j \in 1..(Len(r) - 1) PROVE Edge(r[j], r[j + 1])
  <2>1. CASE j = n + 1
    <3>1. r[j] = s /\ j + 1 = n + 2
      BY <1>1, <1>2, <2>1
    <3> QED  BY <1>2, <3>1
  <2>2. CASE j # n + 1
    <3>1. j \in 1..(Len(q) - 1) /\ j \in 1..(n + 1) /\ j + 1 \in 1..(n + 1)
      BY <1>1, <1>2, <2>2
    <3> QED  BY <1>2, <1>3, <3>1
  <2> QED  BY <2>1, <2>2
<1> QED  BY <1>4 DEF Linked, q, r

\* Without a cycle no path comes back to an item.
LEMMA NoWayBack ==
  ASSUME Typed, Acyclic, NEW p \in Seq(Skus), NEW s \in Skus, Linked(Append(p, s)),
         NEW i \in DOMAIN p, p[i] = s
  PROVE  FALSE
<1> DEFINE q == Append(p, s)
           n == Len(p)
           Z == {q[k] : k \in (i + 1)..(n + 1)}
<1>1. /\ q \in Seq(Skus) /\ n \in Nat /\ Len(q) = n + 1 /\ i \in 1..n
      /\ q[i] = s /\ q[n + 1] = s
  BY AppendIs
<1>2. \A k \in 1..(n + 1) : q[k] \in Skus
  <2>1. DOMAIN q = 1..Len(q) /\ \A k \in 1..Len(q) : q[k] \in Skus
    BY <1>1, ElementOfSeq, LenProperties
  <2> HIDE DEF q, n
  <2> QED  BY <1>1, <2>1
<1>3. \A j \in 1..n : Edge(q[j], q[j + 1])
  <2>1. \A j \in 1..(Len(q) - 1) : Edge(q[j], q[j + 1])
    BY DEF Linked
  <2> HIDE DEF q, n
  <2> QED  BY <1>1, <2>1
<1> HIDE DEF q, n
<1>4. Z \subseteq Skus /\ s \in Z
  BY <1>1, <1>2
\* Each of them is a part of another.
<1>5. ASSUME NEW z \in Z PROVE \E y \in Z : Edge(y, z)
  <2>1. PICK k \in (i + 1)..(n + 1) : z = q[k]
    OBVIOUS
  <2>2. k - 1 \in 1..n /\ (k - 1) + 1 = k
    BY <1>1, <2>1
  <2>3. Edge(q[k - 1], z)
    BY <1>3, <2>1, <2>2
  <2>4. q[k - 1] \in Z
    <3>1. CASE k - 1 = i
      BY <1>1, <1>4, <3>1
    <3>2. CASE k - 1 # i
      <4>1. k - 1 \in (i + 1)..(n + 1)
        BY <1>1, <2>1, <3>2
      <4> QED  BY <4>1
    <3> QED  BY <3>1, <3>2
  <2> QED  BY <2>3, <2>4
<1>6. PICK B : /\ B[0] = Skus /\ (Acyclic <=> B[Deepest] = {})
               /\ \A k \in 1..Deepest :
                    B[k] = {rows[j].part : j \in {m \in DOMAIN rows : rows[m].of \in B[k - 1]}}
  BY AcyclicIs
<1> DEFINE W == {k \in 0..Deepest : Z \subseteq B[k]}
<1> HIDE DEF Z
<1>7. 0 \in W
  BY <1>4, <1>6, DeepestType
<1>8. ASSUME NEW k \in 0..Deepest, k \in W, k < Deepest PROVE k + 1 \in W
  <2>1. k + 1 \in 1..Deepest /\ (k + 1) - 1 = k /\ k + 1 \in 0..Deepest
    BY <1>8, DeepestType
  <2>2. B[k + 1] = {rows[j].part : j \in {m \in DOMAIN rows : rows[m].of \in B[k]}}
    BY <1>6, <2>1
  <2>3. ASSUME NEW z \in Z PROVE z \in B[k + 1]
    <3>1. PICK y \in Z : Edge(y, z)
      BY <1>5
    <3>2. y \in B[k]
      BY <1>8
    <3> QED  BY <2>2, <3>1, <3>2 DEF Edge
  <2> QED  BY <2>1, <2>3
<1>9. Deepest \in W
  <2> HIDE DEF W
  <2> QED  BY <1>7, <1>8, DeepestType, UpToInduction
<1> QED  BY <1>4, <1>6, <1>9

-----------------------------------------------------------------------------
(* The invariant of the totals *)

\* What the lines need of an item.
LineNeeds(s) == [l \in Line |-> Needed(Top(l))[s]]

\* What the map holds and what the nodes to visit still need is what the lines
\* taken need.
Balance ==
    Acyclic => \A s \in Skus :
        parts[s] + Needed(Asked(stack))[s] = Along(LineNeeds(s), taken)

\* Only items with a header have rows; the lines and the map have their types;
\* each node was reached along the rows.
Sound ==
    /\ \A i \in DOMAIN rows : rows[i].of \in headers
    /\ taken \in Seq(Line)
    /\ parts \in [Skus \union Products -> Nat]
    /\ \A i \in DOMAIN stack : Linked(Path(stack[i]))

\* A line asks for natural numbers.
LEMMA TopType ==
  ASSUME Typed
  PROVE  /\ \A l \in Line : Top(l) \in Amounts
         /\ \A l \in Line : l.product \notin DOMAIN listed => Top(l) = One(l.sku, OrOne(l.qty))
<1>1. ASSUME NEW l \in Line, l.product \in DOMAIN listed PROVE Top(l) \in Amounts
  <2> DEFINE T(s) == {i \in DOMAIN offers : offers[i].of = l.product /\ offers[i].part = s}
             g == [i \in DOMAIN offers |-> OrOne(offers[i].qty)]
             n == OrOne(l.qty) * OrOne(listed[l.product])
  <2>1. n \in Nat
    <3>1. l.qty \in Nat /\ listed[l.product] \in Nat
      BY <1>1, BomAssumption DEF Line, Typed
    <3>2. OrOne(l.qty) \in Nat /\ OrOne(listed[l.product]) \in Nat
      BY <3>1, OrOneType
    <3> QED  BY <3>2, ProductType
  <2>2. /\ Len(offers) \in Nat /\ DOMAIN offers = 1..Len(offers)
        /\ \A i \in DOMAIN offers : offers[i] \in Row(Products)
    BY LenProperties DEF Typed
  <2>3. \A i \in DOMAIN offers : g[i] \in Nat
    <3>1. \A i \in DOMAIN offers : offers[i].qty \in Nat
      BY <2>2, BomAssumption DEF Row
    <3> QED  BY <3>1, OrOneType
  <2> HIDE DEF n
  <2>4. ASSUME NEW s \in Skus PROVE n * SumFunctionOnSet(g, T(s)) \in Nat
    <3>1. T(s) \in SUBSET DOMAIN offers
      OBVIOUS
    <3>2. IsFiniteSet(DOMAIN offers)
      BY <2>2, UpToFinite
    <3> DEFINE U == T(s)
    <3> HIDE DEF U, g
    <3>3. IsFiniteSet(U) /\ \A i \in U : g[i] \in Nat
      BY <2>3, <3>1, <3>2, FS_Subset DEF U
    <3>4. SumFunctionOnSet(g, U) \in Nat
      BY <3>3, SumType
    <3>5. n * SumFunctionOnSet(g, U) \in Nat
      BY <2>1, <3>4, ProductType
    <3> QED  BY <3>5 DEF U
  <2>5. Top(l) = [s \in Skus |-> n * SumFunctionOnSet(g, T(s))]
    BY <1>1 DEF Top, n
  <2> HIDE DEF g, T
  <2> QED  BY <2>4, <2>5 DEF Amounts
<1>2. ASSUME NEW l \in Line, l.product \notin DOMAIN listed
      PROVE  Top(l) = One(l.sku, OrOne(l.qty)) /\ Top(l) \in Amounts
  <2>1. Top(l) = One(l.sku, OrOne(l.qty))
    BY <1>2 DEF Top, One
  <2>2. OrOne(l.qty) \in Nat
    <3>1. l.qty \in Nat
      BY BomAssumption DEF Line
    <3> QED  BY <3>1, OrOneType
  <2> QED  BY <2>1, <2>2, OneType
<1> QED  BY <1>1, <1>2

\* Lines need natural numbers.
LEMMA LineNeedsType ==
  ASSUME Typed, NEW s \in Skus
  PROVE  LineNeeds(s) \in [Line -> Nat] /\ \A l \in Line : LineNeeds(s)[l] = Needed(Top(l))[s]
<1>1. \A l \in Line : Needed(Top(l))[s] \in Nat
  BY TopType, NeededIs
<1> QED  BY <1>1 DEF LineNeeds

-----------------------------------------------------------------------------
(* What each action does to the balance *)

\* The tables do not change, and so neither does what they say is needed.
LEMMA BalanceKept ==
  ASSUME UNCHANGED tables,
         Acyclic => \A s \in Skus :
           parts'[s] + Needed(Asked(stack'))[s] = Along(LineNeeds(s), taken')
  PROVE  Balance'
<1>1. rows' = rows /\ listed' = listed /\ offers' = offers
  BY DEF tables
<1>2. Acyclic' <=> Acyclic
  BY <1>1 DEF Acyclic
<1>3. ASSUME NEW v PROVE Needed(v)' = Needed(v)
  BY <1>1 DEF Needed, Levels, HasRows
<1>4. ASSUME NEW s PROVE LineNeeds(s)' = LineNeeds(s)
  BY <1>1 DEF LineNeeds, Top, Needed, Levels, HasRows
<1>5. Needed(Asked(stack))' = Needed(Asked(stack'))
  BY <1>1 DEF Needed, Levels, HasRows
<1>6. ASSUME NEW s PROVE Along(LineNeeds(s), taken)' = Along(LineNeeds(s), taken')
  BY <1>4
<1> QED  BY <1>2, <1>5, <1>6 DEF Balance

\* What a node needs that is not cut: itself, if it has no children, and what
\* they need.
LEMMA NodeNeeds ==
  ASSUME Typed, Acyclic, NEW node \in NodeType, Simple(node.above), ~Cut(node),
         NEW own \in Of(rows, node.sku), NEW s \in Skus
  PROVE  LET kids == Children(node, own) IN
         Needed(One(node.sku, node.qty))[s] =
           (IF kids = <<>> /\ s = node.sku THEN node.qty ELSE 0) + Needed(Asked(kids))[s]
<1> DEFINE n == node.sku
           v == One(n, node.qty)
           kids == Children(node, own)
<1>1. n \in Skus /\ node.qty \in Nat
  BY DEF NodeType
<1>2. v \in Amounts /\ v[s] = IF s = n THEN node.qty ELSE 0
  BY <1>1, OneType DEF One
<1>3. Needed(v)[s] = (IF HasRows(s) THEN 0 ELSE v[s]) + Needed(Below(v))[s]
  BY <1>2, NeededBelow
<1>4. Asked(kids) = Below(v)
  BY AskedChildren
<1>5. kids = <<>> <=> ~HasRows(n)
  <2>1. own = <<>> <=> \A i \in DOMAIN rows : rows[i].of # n
    <3>1. rows \in Seq(Row(Skus))
      BY DEF Typed
    <3> QED  BY <3>1, OfNone
  <2>2. kids = [i \in DOMAIN own |-> Node(own[i].part, own[i].qty * node.qty,
                                         Append(node.above, node.sku))]
    BY DEF Children
  <2>3. DOMAIN kids = DOMAIN own
    BY <2>2
  <2>4. kids \in Seq(NodeType) /\ own \in Seq(Row(Skus))
    BY ChildrenGood, OfType DEF Typed
  <2> HIDE DEF kids, n
  <2>5. kids = <<>> <=> own = <<>>
    BY <2>3, <2>4, NoneIs
  <2> QED  BY <2>1, <2>5 DEF HasRows
<1> HIDE DEF n, v, kids
<1>6. (IF HasRows(s) THEN 0 ELSE v[s]) = IF kids = <<>> /\ s = n THEN node.qty ELSE 0
  BY <1>2, <1>5
<1> QED  BY <1>3, <1>4, <1>6 DEF n, v, kids

\* Adding to the map.
LEMMA AddIs ==
  ASSUME parts \in [Skus \union Products -> Nat], NEW s \in Skus \union Products, NEW n \in Nat,
         Add(s, n)
  PROVE  /\ parts' \in [Skus \union Products -> Nat]
         /\ \A t \in Skus \union Products : parts'[t] = IF t = s THEN parts[t] + n ELSE parts[t]
<1>1. parts[s] + n \in Nat
  OBVIOUS
<1> QED  BY <1>1 DEF Add

\* A visited node gives way to its children, which need what it did.
LEMMA VisitBalances ==
  ASSUME Inv, Sound, Balance, Visit
  PROVE  Sound' /\ Balance'
<1> DEFINE node == Head(stack)
           rest == Tail(stack)
<1>1. /\ UNCHANGED tables /\ taken' = taken /\ stack # <<>> /\ stack \in Seq(NodeType) /\ Typed
      /\ headers' = headers /\ rows' = rows
  BY DEF Visit, Inv, Typed, tables
<1>2. PICK own \in Of(rows, node.sku) :
        /\ stack' = Children(node, own) \o rest
        /\ IF Children(node, own) = <<>> THEN Add(node.sku, node.qty) ELSE UNCHANGED parts
  BY DEF Visit
<1>3. /\ node \in NodeType /\ rest \in Seq(NodeType) /\ stack = <<node>> \o rest
      /\ Len(rest) = Len(stack) - 1 /\ \A i \in 1..Len(rest) : rest[i] = stack[i + 1]
  BY <1>1, HeadTailProperties
<1>4. Len(stack) \in Nat /\ DOMAIN stack = 1..Len(stack) /\ Len(stack) > 0 /\ node = stack[1]
  BY <1>1, EmptySeq, LenProperties
<1>5. Linked(Path(node)) /\ \A i \in 1..Len(rest) : Linked(Path(rest[i]))
  BY <1>3, <1>4 DEF Sound
<1>6. Simple(node.above)
  BY <1>4 DEF Inv
<1> DEFINE kids == Children(node, own)
<1>7. kids \in Seq(NodeType)
  BY <1>1, <1>3, <1>6, ChildrenGood
<1> HIDE DEF node, rest
<1>8. node.sku \in Skus /\ node.qty \in Nat /\ node.above \in Seq(Skus)
  BY <1>3 DEF NodeType
<1>9. ASSUME NEW i \in DOMAIN kids PROVE Linked(Path(kids[i]))
  <2>1. ~Cut(node)
    BY <1>9 DEF Children
  <2>2. kids = [k \in DOMAIN own |-> Node(own[k].part, own[k].qty * node.qty,
                                         Append(node.above, node.sku))]
    BY <2>1 DEF Children
  <2>3. i \in DOMAIN own /\ kids[i].sku = own[i].part
        /\ kids[i].above = Append(node.above, node.sku)
    BY <2>2 DEF Node
  <2>4. own[i].part \in Skus /\ Edge(node.sku, own[i].part)
    <3> DEFINE I == {k \in DOMAIN rows : rows[k].of = node.sku}
    <3>1. PICK ids \in SetToSeqs(I) : own = [k \in DOMAIN ids |-> rows[ids[k]]]
      BY DEF Of
    <3>2. ids[i] \in I /\ own[i] = rows[ids[i]]
      BY <2>3, <3>1 DEF SetToSeqs
    <3> QED  BY <1>1, <3>2, RowsAre DEF Edge
  <2>5. Linked(Append(Append(node.above, node.sku), own[i].part))
    BY <1>5, <1>8, <2>4, LinkedGrows DEF Path
  <2> HIDE DEF kids
  <2> QED  BY <2>3, <2>5 DEF Path
<1> HIDE DEF kids
<1>10. /\ parts' \in [Skus \union Products -> Nat]
       /\ \A s \in Skus :
            parts'[s] = parts[s] + IF kids = <<>> /\ s = node.sku THEN node.qty ELSE 0
  <2>1. parts \in [Skus \union Products -> Nat] /\ \A s \in Skus : parts[s] \in Nat
    BY DEF Sound
  <2>2. CASE kids = <<>>
    <3>1. Add(node.sku, node.qty)
      BY <1>2, <2>2 DEF kids
    <3>2. node.sku \in Skus \union Products
      BY <1>8
    <3> QED  BY <1>8, <2>1, <2>2, <3>1, <3>2, AddIs
  <2>3. CASE kids # <<>>
    <3>1. parts' = parts
      BY <1>2, <2>3 DEF kids
    <3> QED  BY <2>1, <2>3, <3>1
  <2> QED  BY <2>2, <2>3
<1>11. Sound'
  <2>1. stack' = kids \o rest
    BY <1>2 DEF kids
  <2>2. /\ stack' \in Seq(NodeType) /\ Len(stack') = Len(kids) + Len(rest)
        /\ \A i \in 1..(Len(kids) + Len(rest)) :
              stack'[i] = IF i <= Len(kids) THEN kids[i] ELSE rest[i - Len(kids)]
    BY <1>3, <1>7, <2>1, ConcatProperties
  <2>3. Len(kids) \in Nat /\ DOMAIN kids = 1..Len(kids) /\ Len(rest) \in Nat
        /\ DOMAIN stack' = 1..(Len(kids) + Len(rest))
    BY <1>3, <1>7, <2>2, LenProperties
  <2>4. ASSUME NEW i \in DOMAIN stack' PROVE Linked(Path(stack'[i]))
    <3>1. CASE i <= Len(kids)
      BY <1>9, <2>2, <2>3, <3>1
    <3>2. CASE i > Len(kids)
      <4>1. i - Len(kids) \in 1..Len(rest) /\ stack'[i] = rest[i - Len(kids)]
        BY <2>2, <2>3, <3>2
      <4> QED  BY <1>5, <4>1
    <3> QED  BY <2>3, <3>1, <3>2
  <2>5. \A i \in DOMAIN stack' : Linked(Path(stack[i]))'
    BY <1>1, <2>4 DEF Linked, Edge
  <2> QED  BY <1>1, <1>10, <2>5 DEF Sound
<1>12. ASSUME Acyclic, NEW s \in Skus
       PROVE  parts'[s] + Needed(Asked(stack'))[s] = Along(LineNeeds(s), taken')
  <2> DEFINE top == One(node.sku, node.qty)
             x == IF kids = <<>> /\ s = node.sku THEN node.qty ELSE 0
             k == Needed(Asked(kids))[s]
             r == Needed(Asked(rest))[s]
  <2>1. /\ Asked(stack) = Plus(top, Asked(rest)) /\ Asked(stack') = Plus(Asked(kids), Asked(rest))
        /\ top \in Amounts /\ Asked(kids) \in Amounts /\ Asked(rest) \in Amounts
    <3>1. <<node>> \in Seq(NodeType) /\ Asked(<<node>>) = top
      BY <1>3, AskedIs
    <3>2. stack' = kids \o rest
      BY <1>2 DEF kids
    <3>3. Asked(stack) = Plus(Asked(<<node>>), Asked(rest))
      BY <1>3, <3>1, AskedIs
    <3>4. Asked(stack') = Plus(Asked(kids), Asked(rest))
      BY <1>3, <1>7, <3>2, AskedIs
    <3>5. top \in Amounts
      BY <1>8, OneType
    <3>6. Asked(kids) \in Amounts /\ Asked(rest) \in Amounts
      BY <1>3, <1>7, AskedIs
    <3> QED  BY <3>1, <3>3, <3>4, <3>5, <3>6
  <2>2. ~Cut(node)
    <3> SUFFICES ASSUME Cut(node) PROVE FALSE
      OBVIOUS
    <3>1. PICK i \in DOMAIN node.above : node.above[i] = node.sku
      BY DEF Cut
    <3>2. Linked(Append(node.above, node.sku))
      BY <1>5 DEF Path
    <3> QED  BY <1>1, <1>8, <1>12, <3>1, <3>2, NoWayBack
  <2>3. Needed(top)[s] = x + k
    BY <1>1, <1>3, <1>6, <1>12, <2>2, NodeNeeds DEF kids
  <2>4. Needed(Asked(stack))[s] = Needed(top)[s] + r /\ Needed(Asked(stack'))[s] = k + r
    BY <1>1, <2>1, NeededPlus
  <2>5. k \in Nat /\ r \in Nat /\ x \in Nat /\ parts[s] \in Nat
    <3>1. k \in Nat /\ r \in Nat
      BY <1>1, <2>1, NeededIs
    <3>2. x \in Nat
      BY <1>8
    <3>3. parts[s] \in Nat
      BY DEF Sound
    <3> QED  BY <3>1, <3>2, <3>3
  <2>6. parts'[s] = parts[s] + x
    BY <1>10
  <2>7. parts[s] + Needed(Asked(stack))[s] = Along(LineNeeds(s), taken)
    BY <1>12 DEF Balance
  <2>8. Along(LineNeeds(s), taken') = Along(LineNeeds(s), taken)
    BY <1>1
  <2> HIDE DEF top, x, k, r
  <2> QED  BY <2>3, <2>4, <2>5, <2>6, <2>7, <2>8
<1>13. Balance'
  BY <1>1, <1>12, BalanceKept
<1> QED  BY <1>11, <1>13

\* What one more line needs is put on the stack, or into the map.
LEMMA TakeBalances ==
  ASSUME Inv, Sound, Balance, NEW l \in Line, Take(l)
  PROVE  Sound' /\ Balance'
<1> DEFINE n == OrOne(l.qty)
<1>1. /\ UNCHANGED tables /\ stack = <<>> /\ taken' = Append(taken, l) /\ Typed
      /\ headers' = headers /\ rows' = rows
  BY DEF Take, Inv, tables
<1>2. n \in Nat /\ l.sku \in Skus /\ l.product \in Products
  <2>1. l.qty \in Nat /\ l.sku \in Skus /\ l.product \in Products
    BY BomAssumption DEF Line
  <2> QED  BY <2>1, OrOneType
<1>3. /\ taken \in Seq(Line) /\ parts \in [Skus \union Products -> Nat]
      /\ \A s \in Skus : parts[s] \in Nat
  BY DEF Sound
<1>4. taken' \in Seq(Line)
  BY <1>1, <1>3, AppendProperties
<1> HIDE DEF n
\* The sum over the lines grows by what this one needs.
<1>5. ASSUME NEW s \in Skus
      PROVE  Along(LineNeeds(s), taken') = Along(LineNeeds(s), taken) + Needed(Top(l))[s]
  <2>1. LineNeeds(s) \in [Line -> Nat] /\ LineNeeds(s)[l] = Needed(Top(l))[s]
    BY <1>1, LineNeedsType
  <2>2. taken' = taken \o <<l>> /\ <<l>> \in Seq(Line)
    BY <1>1, <1>3
  <2>3. Along(LineNeeds(s), taken \o <<l>>) =
          Along(LineNeeds(s), taken) + Along(LineNeeds(s), <<l>>)
    BY <1>3, <2>1, <2>2, AlongConcat
  <2>4. Along(LineNeeds(s), <<l>>) = LineNeeds(s)[l]
    BY <2>1, AlongOne
  <2> QED  BY <2>1, <2>2, <2>3, <2>4
\* So it is enough that the nodes and the map take up what the line needs.
<1>6. ASSUME parts' \in [Skus \union Products -> Nat],
             \A i \in DOMAIN stack' : Linked(Path(stack'[i])),
             Acyclic => \A s \in Skus :
               parts'[s] + Needed(Asked(stack'))[s] = parts[s] + Needed(Top(l))[s]
      PROVE  Sound' /\ Balance'
  <2>1. Sound'
    <3>1. \A i \in DOMAIN stack' : Linked(Path(stack[i]))'
      BY <1>1, <1>6 DEF Linked, Edge
    <3> QED  BY <1>1, <1>4, <1>6, <3>1 DEF Sound
  <2>2. ASSUME Acyclic, NEW s \in Skus
        PROVE  parts'[s] + Needed(Asked(stack'))[s] = Along(LineNeeds(s), taken')
    <3>1. parts[s] + Needed(Asked(stack))[s] = Along(LineNeeds(s), taken)
      BY <2>2 DEF Balance
    <3>2. Needed(Asked(stack))[s] = 0
      BY <1>1, AskedIs, NeededNothing
    <3>3. parts[s] = Along(LineNeeds(s), taken)
      BY <1>3, <3>1, <3>2
    <3> QED  BY <1>5, <1>6, <2>2, <3>3
  <2>3. Balance'
    BY <1>1, <2>2, BalanceKept
  <2> QED  BY <2>1, <2>3
<1>7. \A s \in Skus : s # l.product
  BY <1>2, BomAssumption
<1>8. <<>> \in Seq(Skus)
  OBVIOUS
\* A node with nothing above it was reached along no row.
<1>9. \A k : k.above = <<>> => Linked(Path(k))
  <2> SUFFICES ASSUME NEW k, k.above = <<>> PROVE Linked(Path(k))
    OBVIOUS
  <2>1. Path(k) = <<k.sku>>
    BY DEF Path
  <2>2. Len(<<k.sku>>) = 1
    OBVIOUS
  <2> QED  BY <2>1, <2>2 DEF Linked
<1>10. CASE l.product \in DOMAIN listed /\ Listing(l)
  <2> DEFINE m == n * OrOne(listed[l.product])
  <2>1. PICK own \in Of(offers, l.product) :
          /\ stack' = [i \in DOMAIN own |-> Node(own[i].part, OrOne(own[i].qty) * m, <<>>)]
          /\ IF own = <<>> THEN Add(l.product, m) ELSE UNCHANGED parts
    BY <1>10 DEF Listing, n
  <2>2. m \in Nat
    <3>1. listed[l.product] \in Nat
      BY <1>1, <1>10, BomAssumption DEF Typed
    <3>2. OrOne(listed[l.product]) \in Nat
      BY <3>1, OrOneType
    <3> QED  BY <1>2, <3>2, ProductType
  <2>3. Asked(stack') = Top(l)
    <3>1. m = OrOne(l.qty) * OrOne(listed[l.product])
      BY DEF n
    <3> HIDE DEF m
    <3>2. Asked([i \in DOMAIN own |-> Node(own[i].part, OrOne(own[i].qty) * m, <<>>)]) = Top(l)
      BY <1>1, <1>10, <3>1, AskedListing
    <3> QED  BY <2>1, <3>2
  <2> HIDE DEF m
  <2>4. parts' \in [Skus \union Products -> Nat] /\ \A s \in Skus : parts'[s] = parts[s]
    <3>1. CASE own = <<>>
      <4>1. Add(l.product, m) /\ l.product \in Skus \union Products
        BY <1>2, <2>1, <3>1
      <4>2. /\ parts' \in [Skus \union Products -> Nat]
            /\ \A t \in Skus \union Products :
                 parts'[t] = IF t = l.product THEN parts[t] + m ELSE parts[t]
        BY <1>3, <2>2, <4>1, AddIs
      <4> QED  BY <1>7, <4>2
    <3>2. CASE own # <<>>
      BY <1>3, <2>1, <3>2
    <3> QED  BY <3>1, <3>2
  <2>5. ASSUME NEW i \in DOMAIN stack' PROVE Linked(Path(stack'[i]))
    <3>1. stack'[i].above = <<>>
      BY <2>1 DEF Node
    <3> QED  BY <1>9, <3>1
  <2> QED  BY <1>6, <2>3, <2>4, <2>5
<1>11. CASE l.product \notin DOMAIN listed /\ l.sku \in headers
  <2> DEFINE node == Node(l.sku, n, <<>>)
  <2>1. stack' = <<node>> /\ parts' = parts
    BY <1>11 DEF Take, Listing, n
  <2>2. node \in NodeType /\ node.sku = l.sku /\ node.qty = n /\ node.above = <<>>
    <3>1. node.qty = n
      BY DEF Node
    <3> QED  BY <1>2, <1>8, <3>1, NodeIs
  <2>3. Top(l) = One(l.sku, n)
    BY <1>1, <1>11, TopType DEF n
  <2> HIDE DEF node
  <2>4. Asked(stack') = Top(l)
    BY <2>1, <2>2, <2>3, AskedIs
  <2>5. ASSUME NEW i \in DOMAIN stack' PROVE Linked(Path(stack'[i]))
    <3>1. stack'[i] = node
      BY <2>1
    <3> QED  BY <1>9, <2>2, <3>1
  <2> QED  BY <1>3, <1>6, <2>1, <2>4, <2>5
<1>12. CASE l.product \notin DOMAIN listed /\ l.sku \notin headers
  <2>1. Add(l.sku, n) /\ stack' = stack
    BY <1>12 DEF Take, Listing, n
  <2> DEFINE top == One(l.sku, n)
  <2>2. Top(l) = top /\ top \in Amounts /\ \A s \in Skus : top[s] = IF s = l.sku THEN n ELSE 0
    <3>1. Top(l) = top
      BY <1>1, <1>12, TopType DEF n
    <3> QED  BY <1>2, <3>1, OneType DEF One
  <2>3. /\ parts' \in [Skus \union Products -> Nat]
        /\ \A t \in Skus \union Products :
             parts'[t] = IF t = l.sku THEN parts[t] + n ELSE parts[t]
    BY <1>2, <1>3, <2>1, AddIs
  <2> HIDE DEF top
  <2>4. \A i \in DOMAIN rows : rows[i].of # l.sku /\ rows[i].of \in Skus
    BY <1>1, <1>12, RowsAre DEF Sound
  <2>5. Below(top) = Nothing
    <3>1. \A s \in Skus : Below(top)[s] = 0
      <4>1. \A i \in DOMAIN rows : top[rows[i].of] = 0
        BY <2>2, <2>4
      <4> QED  BY <1>1, <2>2, <4>1, BelowNothing DEF Using
    <3> QED  BY <3>1 DEF Below, Nothing
  <2>6. ASSUME Acyclic, NEW s \in Skus
        PROVE  parts'[s] + Needed(Asked(stack'))[s] = parts[s] + Needed(Top(l))[s]
    <3>1. Needed(Asked(stack'))[s] = 0
      BY <1>1, <2>1, AskedIs, NeededNothing
    <3>2. Needed(top)[s] = (IF HasRows(s) THEN 0 ELSE top[s]) + Needed(Below(top))[s]
      BY <1>1, <2>2, <2>6, NeededBelow
    <3>3. Needed(Below(top))[s] = 0
      BY <1>1, <2>5, NeededNothing
    <3>4. (IF HasRows(s) THEN 0 ELSE top[s]) = IF s = l.sku THEN n ELSE 0
      BY <2>2, <2>4 DEF HasRows
    <3>5. parts'[s] = IF s = l.sku THEN parts[s] + n ELSE parts[s]
      BY <2>3
    <3> QED  BY <1>2, <1>3, <2>2, <3>1, <3>2, <3>3, <3>4, <3>5
  <2>7. \A i \in DOMAIN stack' : Linked(Path(stack'[i]))
    BY <1>1, <2>1
  <2> QED  BY <1>6, <2>3, <2>6, <2>7
<1> QED  BY <1>10, <1>11, <1>12 DEF Take

\* Before the first line and after an answer nothing is needed.
LEMMA NoneBalances ==
  ASSUME Typed, stack = <<>>, taken = <<>>, parts = [s \in Skus \union Products |-> 0]
  PROVE  Balance
<1>1. ASSUME NEW s \in Skus
      PROVE  parts[s] + Needed(Asked(stack))[s] = Along(LineNeeds(s), taken)
  <2>1. Needed(Asked(stack))[s] = 0
    BY AskedIs, NeededNothing
  <2>2. Along(LineNeeds(s), taken) = 0
    <3>1. taken \in Seq(Line)
      OBVIOUS
    <3> QED  BY <3>1, LineNeedsType, AlongType
  <2>3. parts[s] = 0
    OBVIOUS
  <2> QED  BY <2>1, <2>2, <2>3
<1> QED  BY <1>1 DEF Balance

\* The totals stay in balance.
LEMMA Balanced == Spec => [](Sound /\ Balance)
<1>1. Init /\ Inv => Sound /\ Balance
  <2> SUFFICES ASSUME Init, Inv PROVE Sound /\ Balance
    OBVIOUS
  <2>1. /\ stack = <<>> /\ taken = <<>> /\ parts = [s \in Skus \union Products |-> 0] /\ Typed
        /\ \A i \in DOMAIN rows : rows[i].of \in headers
    BY DEF Init, Inv
  <2>2. Sound
    <3>1. taken \in Seq(Line) /\ DOMAIN stack = {} /\ parts \in [Skus \union Products -> Nat]
      BY <2>1
    <3> QED  BY <2>1, <3>1 DEF Sound
  <2> QED  BY <2>1, <2>2, NoneBalances
<1>2. Inv /\ Inv' /\ Sound /\ Balance /\ [Next]_vars => Sound' /\ Balance'
  <2> SUFFICES ASSUME Inv, Inv', Sound, Balance, [Next]_vars PROVE Sound' /\ Balance'
    OBVIOUS
  <2>1. CASE Answer
    <3>1. /\ UNCHANGED tables /\ headers' = headers /\ rows' = rows /\ stack' = stack
          /\ stack = <<>> /\ taken' = <<>> /\ parts' = [s \in Skus \union Products |-> 0]
          /\ Typed
      BY <2>1 DEF Answer, tables, Inv
    <3>2. Sound'
      <4>1. taken' \in Seq(Line) /\ DOMAIN stack' = {} /\ parts' \in [Skus \union Products -> Nat]
        BY <3>1
      <4> QED  BY <3>1, <4>1 DEF Sound
    <3>3. ASSUME NEW s \in Skus
          PROVE  parts'[s] + Needed(Asked(stack'))[s] = Along(LineNeeds(s), taken')
      <4>1. Needed(Asked(stack'))[s] = 0
        BY <3>1, AskedIs, NeededNothing
      <4>2. Along(LineNeeds(s), taken') = 0
        <5>1. taken' \in Seq(Line)
          BY <3>1
        <5> QED  BY <3>1, <5>1, LineNeedsType, AlongType
      <4>3. parts'[s] = 0
        BY <3>1
      <4> QED  BY <4>1, <4>2, <4>3
    <3>4. Balance'
      BY <3>1, <3>3, BalanceKept
    <3> QED  BY <3>2, <3>4
  <2>2. CASE UNCHANGED vars
    <3>1. /\ UNCHANGED tables /\ headers' = headers /\ rows' = rows /\ stack' = stack
          /\ parts' = parts /\ taken' = taken
      BY <2>2 DEF vars, tables
    <3>2. Sound'
      <4>1. \A i \in DOMAIN stack' : Linked(Path(stack[i]))'
        BY <3>1 DEF Sound, Linked, Edge
      <4> QED  BY <3>1, <4>1 DEF Sound
    <3>3. Acyclic => \A s \in Skus :
            parts'[s] + Needed(Asked(stack'))[s] = Along(LineNeeds(s), taken')
      BY <3>1 DEF Balance
    <3>4. Balance'
      BY <3>1, <3>3, BalanceKept
    <3> QED  BY <3>2, <3>4
  <2> QED  BY <2>1, <2>2, TakeBalances, VisitBalances DEF Next
<1> QED  BY <1>1, <1>2, Invariance, PTL DEF Spec

\* When the tables hold no cycle, build_shopee_order_response answers with
\* what the lines need of each warehouse item, however the bills of material
\* share their sub-assemblies and in whatever order their rows come.
THEOREM TotalsAreRight == Spec => []TotalsRight
<1>1. Inv /\ Sound /\ Balance => TotalsRight
  <2> SUFFICES ASSUME Inv, Sound, Balance, Acyclic, stack = <<>>, NEW s \in Skus
               PROVE  parts[s] = SumFunctionOnSet(
                        [i \in DOMAIN taken |-> Needed(Top(taken[i]))[s]], DOMAIN taken)
    BY DEF TotalsRight
  <2>1. Typed /\ parts[s] \in Nat /\ taken \in Seq(Line)
    BY DEF Inv, Sound
  <2>2. parts[s] + Needed(Asked(stack))[s] = Along(LineNeeds(s), taken)
    BY DEF Balance
  <2>3. Needed(Asked(stack))[s] = 0
    BY <2>1, AskedIs, NeededNothing
  <2>4. parts[s] = Along(LineNeeds(s), taken)
    BY <2>1, <2>2, <2>3
  <2>5. ASSUME NEW i \in DOMAIN taken PROVE LineNeeds(s)[taken[i]] = Needed(Top(taken[i]))[s]
    <3>1. taken[i] \in Line
      BY <2>1, LenProperties, ElementOfSeq
    <3> QED  BY <2>1, <3>1, LineNeedsType
  <2>6. [i \in DOMAIN taken |-> LineNeeds(s)[taken[i]]] =
          [i \in DOMAIN taken |-> Needed(Top(taken[i]))[s]]
    BY <2>5
  <2> QED  BY <2>4, <2>6 DEF Along
<1> QED  BY <1>1, Invariance, Balanced, PTL

\* The guard against cycles cuts nothing when the tables hold none: the set of
\* visited items is each branch's own, so an item used twice is expanded twice.
THEOREM GuardCutsOnlyCycles == Spec => [](Acyclic => \A i \in DOMAIN stack : ~Cut(stack[i]))
<1>1. Inv /\ Sound => (Acyclic => \A i \in DOMAIN stack : ~Cut(stack[i]))
  <2> SUFFICES ASSUME Inv, Sound, Acyclic, NEW i \in DOMAIN stack, Cut(stack[i]) PROVE FALSE
    OBVIOUS
  <2> DEFINE node == stack[i]
  <2>1. node \in NodeType /\ Typed
    BY LenProperties, ElementOfSeq DEF Inv, Typed
  <2>2. node.sku \in Skus /\ node.above \in Seq(Skus)
    BY <2>1 DEF NodeType
  <2>3. Linked(Append(node.above, node.sku))
    BY DEF Sound, Path
  <2>4. PICK k \in DOMAIN node.above : node.above[k] = node.sku
    BY DEF Cut
  <2> HIDE DEF node
  <2> QED  BY <2>1, <2>2, <2>3, <2>4, NoWayBack
<1> QED  BY <1>1, Invariance, Balanced, PTL

-----------------------------------------------------------------------------
(* The expansion ends *)

\* Visits a node may take, itself and those below it, by the levels left; the
\* visits all the nodes may take.
Weight == LET w[d \in 0..Deepest] == IF d = 0 THEN 1 ELSE 1 + Len(rows) * w[d - 1] IN w
ShortNode == {n \in NodeType : Len(n.above) <= Deepest}
Cost == [n \in ShortNode |-> Weight[Deepest - Len(n.above)]]
Remaining == Along(Cost, stack)

\* As many times the same number.
LEMMA SumSame ==
  ASSUME NEW S, IsFiniteSet(S), NEW c \in Nat, NEW f, \A x \in S : f[x] = c
  PROVE  SumFunctionOnSet(f, S) = c * Cardinality(S)
<1> DEFINE W == {A \in SUBSET S : SumFunctionOnSet(f, A) = c * Cardinality(A)}
<1>1. ASSUME NEW A \in SUBSET S, \A x \in A : A \ {x} \in W PROVE A \in W
  <2>1. CASE A = {}
    <3>1. c * 0 = 0
      OBVIOUS
    <3> QED  BY <2>1, <3>1, SumEmpty, FS_EmptySet
  <2>2. ASSUME NEW x \in A PROVE A \in W
    <3> DEFINE B == A \ {x}
               n == Cardinality(B)
    <3>1. IsFiniteSet(B) /\ x \notin B /\ B \union {x} = A
      BY FS_Subset
    <3>2. \A y \in B \union {x} : f[y] \in Nat
      OBVIOUS
    <3>3. SumFunctionOnSet(f, B) = c * n
      BY <1>1
    <3> HIDE DEF B
    <3>4. SumFunctionOnSet(f, A) = f[x] + SumFunctionOnSet(f, B)
      BY <3>1, <3>2, SumGrows
    <3>5. n \in Nat /\ Cardinality(A) = n + 1
      BY <3>1, FS_CardinalityType, FS_AddElement
    <3>6. f[x] = c
      OBVIOUS
    <3> HIDE DEF n
    <3>7. c * (n + 1) = c * n + c * 1 /\ c * 1 = c /\ c * n \in Nat
      BY <3>5, Distributes
    <3>8. SumFunctionOnSet(f, A) = c * Cardinality(A)
      BY <3>3, <3>4, <3>5, <3>6, <3>7
    <3> QED  BY <3>8
  <2> QED  BY <2>1, <2>2
<1>2. S \in W
  <2> HIDE DEF W
  <2> QED  BY <1>1, SubsetInduction
<1> QED  BY <1>2

\* The weights are those of the definition.
LEMMA WeightIs ==
  ASSUME Typed
  PROVE  /\ \A d \in 0..Deepest : Weight[d] \in Nat /\ Weight[d] > 0
         /\ \A d \in 1..Deepest : Weight[d] = 1 + Len(rows) * Weight[d - 1]
<1> DEFINE r == Len(rows)
           X == Nat \ {0}
           next == [w \in X |-> 1 + r * w]
           Is(h) == h = [d \in 0..Deepest |-> IF d = 0 THEN 1 ELSE 1 + r * h[d - 1]]
<1>1. r \in Nat
  BY LenProperties DEF Typed
<1>2. next \in [X -> X]
  <2>1. ASSUME NEW w \in X PROVE 1 + r * w \in X
    <3>1. r * w \in Nat
      BY <1>1, ProductType
    <3> QED  BY <3>1
  <2> QED  BY <2>1
<1> HIDE DEF r
<1>3. PICK h : /\ h \in [0..Deepest -> X] /\ h[0] = 1
               /\ \A k \in 1..Deepest : h[k] = next[h[k - 1]]
  <2>1. \E h : Iterates(h, X, 1, next, Deepest)
    <3>1. 1 \in X
      OBVIOUS
    <3> HIDE DEF next, X
    <3> QED  BY <1>2, <3>1, DeepestType, Recursion
  <2> QED  BY <2>1 DEF Iterates
<1>4. ASSUME NEW k \in 1..Deepest PROVE h[k] = 1 + r * h[k - 1]
  <2>1. k - 1 \in 0..Deepest
    BY DeepestType
  <2>2. h[k - 1] \in X /\ h[k] = next[h[k - 1]]
    BY <1>3, <2>1
  <2> QED  BY <2>2
<1>5. Is(h)
  <2>1. \A d \in 0..Deepest : d = 0 \/ d \in 1..Deepest
    BY DeepestType
  <2>2. \A d \in 0..Deepest : h[d] = IF d = 0 THEN 1 ELSE 1 + r * h[d - 1]
    BY <1>3, <1>4, <2>1
  <2> QED  BY <1>3, <2>2
<1> DEFINE V == Weight
<1>6. Is(V)
  <2>1. V = CHOOSE g : Is(g)
    BY DEF Weight, r
  <2> HIDE DEF Is, V
  <2> QED  BY <1>5, <2>1
<1> HIDE DEF V
<1>7. \A d \in 0..Deepest : V[d] = IF d = 0 THEN 1 ELSE 1 + r * V[d - 1]
  BY <1>6
<1>8. V[0] = 1 /\ \A d \in 1..Deepest : V[d] = 1 + r * V[d - 1]
  <2>1. 0 \in 0..Deepest /\ \A d \in 1..Deepest : d \in 0..Deepest /\ d # 0
    BY DeepestType
  <2> QED  BY <1>7, <2>1
<1>9. ASSUME NEW n \in 0..Deepest PROVE V[n] \in X
  <2> DEFINE W == {k \in 0..Deepest : V[k] \in X}
  <2>1. 0 \in W
    BY <1>8, DeepestType
  <2>2. ASSUME NEW k \in 0..n, k \in W, k < n PROVE k + 1 \in W
    <3>1. k + 1 \in 1..Deepest /\ (k + 1) - 1 = k /\ V[k] \in X /\ k + 1 \in 0..Deepest
      BY <2>2, DeepestType
    <3>2. V[k + 1] = 1 + r * V[k] /\ r * V[k] \in Nat
      BY <1>1, <1>8, <3>1, ProductType
    <3> QED  BY <3>1, <3>2
  <2>3. n \in W
    <3> HIDE DEF W
    <3> QED  BY <2>1, <2>2, UpToInduction, DeepestType
  <2> QED  BY <2>3
<1> QED  BY <1>8, <1>9 DEF V, r

\* No node is deeper than there are items.
LEMMA StackShort ==
  ASSUME Inv
  PROVE  stack \in Seq(ShortNode) /\ Cost \in [ShortNode -> Nat]
<1>1. \A n \in ShortNode : Deepest - Len(n.above) \in 0..Deepest
  <2>1. \A n \in ShortNode : Len(n.above) \in Nat /\ Len(n.above) <= Deepest
    BY LenProperties DEF ShortNode, NodeType
  <2> QED  BY <2>1, DeepestType
<1>2. Cost \in [ShortNode -> Nat]
  BY <1>1, WeightIs DEF Cost, Inv
<1>3. /\ Len(stack) \in Nat /\ stack \in [1..Len(stack) -> NodeType] /\ DOMAIN stack = 1..Len(stack)
      /\ \A i \in DOMAIN stack : Simple(stack[i].above)
  BY LenProperties DEF Inv, Typed
<1>4. ASSUME NEW i \in 1..Len(stack) PROVE stack[i] \in ShortNode
  <2>1. stack[i] \in NodeType /\ stack[i].above \in Seq(Skus)
    BY <1>3 DEF NodeType
  <2>2. Len(stack[i].above) <= Deepest
    BY <1>3, <2>1, PathBounded
  <2> QED  BY <2>1, <2>2 DEF ShortNode
<1>5. stack \in [1..Len(stack) -> ShortNode]
  BY <1>3, <1>4
<1>6. stack \in Seq(ShortNode)
  BY <1>3, <1>5
<1> QED  BY <1>2, <1>6

\* The children of a node cost less than it does.
LEMMA ChildrenCheaper ==
  ASSUME Typed, NEW node \in ShortNode, Simple(node.above), NEW own \in Of(rows, node.sku),
         Cost \in [ShortNode -> Nat]
  PROVE  LET kids == Children(node, own) IN
         /\ kids \in Seq(ShortNode)
         /\ Along(Cost, kids) < Cost[node] /\ Along(Cost, kids) \in Nat /\ Cost[node] \in Nat
<1> DEFINE kids == Children(node, own)
           d == Deepest - Len(node.above)
<1>1. node \in NodeType /\ node.sku \in Skus /\ node.above \in Seq(Skus) /\ node.qty \in Nat
  BY DEF ShortNode, NodeType
<1>2. /\ Len(node.above) \in Nat /\ Deepest \in Nat /\ d \in 0..Deepest /\ Cost[node] = Weight[d]
  <2>1. Len(node.above) \in Nat /\ Deepest \in Nat /\ Len(node.above) <= Deepest
    BY <1>1, LenProperties, DeepestType DEF ShortNode
  <2>2. Cost[node] = Weight[d]
    BY DEF Cost
  <2> QED  BY <2>1, <2>2
<1> HIDE DEF d
<1>3. Weight[d] \in Nat /\ Weight[d] > 0
  BY <1>2, WeightIs
<1>4. CASE Cut(node)
  <2>1. kids = <<>> /\ <<>> \in Seq(ShortNode)
    BY <1>4 DEF Children
  <2>2. Along(Cost, <<>>) = 0
    BY <2>1, AlongType
  <2> HIDE DEF kids
  <2> QED  BY <1>2, <1>3, <2>1, <2>2 DEF kids
<1>5. CASE ~Cut(node)
  <2> DEFINE path == Append(node.above, node.sku)
             c == Weight[d - 1]
             r == Len(rows)
             I == OwnRows(rows, node.sku)
             w == [row \in Row(Skus) |-> c]
  <2>1. path \in Seq(Skus) /\ Simple(path) /\ Len(path) = Len(node.above) + 1
    BY <1>1, <1>5, PathGrows, AppendIs DEF Cut
  <2>2. Len(path) <= Deepest
    BY <2>1, PathBounded
  <2>3. d \in 1..Deepest /\ d - 1 \in 0..Deepest /\ Deepest - Len(path) = d - 1
    BY <1>2, <2>1, <2>2 DEF d
  <2>4. c \in Nat /\ Weight[d] = 1 + r * c /\ r \in Nat
    <3>1. r \in Nat
      BY LenProperties DEF Typed
    <3> QED  BY <2>3, <3>1, WeightIs
  <2> HIDE DEF path, c, r
  <2>5. kids = [i \in DOMAIN own |-> Node(own[i].part, own[i].qty * node.qty, path)]
    BY <1>5 DEF Children, path
  <2>6. /\ Len(own) \in Nat /\ DOMAIN own = 1..Len(own)
        /\ \A i \in DOMAIN own : own[i] \in Row(Skus)
    BY OfType DEF Typed
  <2>7. ASSUME NEW i \in DOMAIN own PROVE kids[i] \in ShortNode /\ Cost[kids[i]] = c
    <3>1. own[i].part \in Skus /\ own[i].qty \in Nat
      BY <2>6, BomAssumption DEF Row
    <3>2. own[i].qty * node.qty \in Nat
      BY <1>1, <3>1, ProductType
    <3>3. kids[i] = Node(own[i].part, own[i].qty * node.qty, path)
      BY <2>5
    <3>4. kids[i] \in NodeType /\ kids[i].above = path
      BY <2>1, <3>1, <3>2, <3>3, NodeIs
    <3> HIDE DEF kids
    <3>5. kids[i] \in ShortNode
      BY <2>2, <3>4 DEF ShortNode
    <3>6. Cost[kids[i]] = Weight[Deepest - Len(path)]
      BY <3>4, <3>5 DEF Cost
    <3> QED  BY <2>3, <3>5, <3>6 DEF c
  <2> HIDE DEF kids
  <2>8. kids \in Seq(ShortNode)
    <3>1. kids \in [1..Len(own) -> ShortNode]
      BY <2>5, <2>6, <2>7
    <3> QED  BY <2>6, <3>1
  <2>9. Along(Cost, kids) = Along(w, own)
    <3>1. DOMAIN kids = DOMAIN own
      BY <2>5
    <3>2. \A i \in DOMAIN own : Cost[kids[i]] = w[own[i]]
      BY <2>6, <2>7
    <3> HIDE DEF w
    <3> QED  BY <3>1, <3>2 DEF Along
  <2>10. Along(w, own) = SumFunctionOnSet(Weights(w, rows), I)
    <3>1. w \in [Row(Skus) -> Nat] /\ rows \in Seq(Row(Skus))
      BY <2>4 DEF Typed
    <3> HIDE DEF w
    <3> QED  BY <3>1, AlongOf
  <2>11. IsFiniteSet(I) /\ Cardinality(I) \in Nat /\ Cardinality(I) <= r
    <3>1. r \in Nat /\ DOMAIN rows = 1..r
      BY <2>4, LenProperties DEF r, Typed
    <3>2. I \in SUBSET (1..r)
      BY <3>1 DEF OwnRows
    <3>3. IsFiniteSet(1..r) /\ Cardinality(1..r) = r
      <4>1. 1 \in Int /\ r \in Int
        BY <3>1
      <4>2. IsFiniteSet(1..r) /\ Cardinality(1..r) = IF 1 > r THEN 0 ELSE r - 1 + 1
        BY <4>1, FS_Interval
      <4> QED  BY <3>1, <4>2
    <3> HIDE DEF I
    <3>4. IsFiniteSet(I) /\ Cardinality(I) <= Cardinality(1..r)
      BY <3>2, <3>3, FS_Subset
    <3> QED  BY <3>3, <3>4, FS_CardinalityType
  <2>12. \A i \in I : Weights(w, rows)[i] = c
    <3>1. \A i \in DOMAIN rows : rows[i] \in Row(Skus)
      BY LenProperties DEF Typed
    <3>2. I \subseteq DOMAIN rows
      BY DEF OwnRows
    <3> HIDE DEF I
    <3> QED  BY <3>1, <3>2 DEF Weights
  <2> HIDE DEF I, w
  <2>13. SumFunctionOnSet(Weights(w, rows), I) = c * Cardinality(I)
    BY <2>4, <2>11, <2>12, SumSame
  <2> DEFINE k == Cardinality(I)
  <2>14. k \in Nat /\ k <= r
    BY <2>11
  <2> HIDE DEF k
  <2>15. c * k <= r * c /\ c * k \in Nat /\ r * c \in Nat
    <3>1. PICK e \in Nat : r = k + e
      <4>1. r - k \in Nat /\ r = k + (r - k)
        BY <2>4, <2>14
      <4> QED  BY <4>1
    <3>2. c * (k + e) = c * k + c * e /\ c * k \in Nat /\ c * e \in Nat
      BY <2>4, <2>14, Distributes, ProductType
    <3>3. r * c = c * r
      BY <2>4
    <3> QED  BY <3>1, <3>2, <3>3
  <2>16. Along(Cost, kids) = c * k
    BY <2>9, <2>10, <2>13 DEF k
  <2> QED  BY <1>2, <2>4, <2>8, <2>15, <2>16 DEF kids
<1> QED  BY <1>4, <1>5

\* Each visit leaves fewer to come, whatever cycles the tables hold: there are
\* no endless expansions, and a request's nodes are visited in as many steps.
THEOREM ExpansionEnds ==
    Spec => /\ [](Remaining \in Nat)
            /\ [][stack # <<>> => Remaining' < Remaining]_vars
<1>1. Inv => Remaining \in Nat
  BY StackShort, AlongType DEF Remaining
<1>2. Inv /\ [Next]_vars => [stack # <<>> => Remaining' < Remaining]_vars
  <2> SUFFICES ASSUME Inv, Next, stack # <<>> PROVE Remaining' < Remaining
    BY DEF vars
  <2>1. Visit
    BY DEF Next, Take, Answer
  <2> DEFINE node == Head(stack)
             rest == Tail(stack)
  <2>2. PICK own \in Of(rows, node.sku) : stack' = Children(node, own) \o rest
    BY <2>1 DEF Visit
  <2> DEFINE kids == Children(node, own)
  <2>3. stack \in Seq(ShortNode) /\ Cost \in [ShortNode -> Nat] /\ Typed /\ Simple(stack[1].above)
    <3>1. Len(stack) \in Nat /\ DOMAIN stack = 1..Len(stack) /\ Len(stack) > 0
      BY EmptySeq, LenProperties DEF Inv, Typed
    <3> QED  BY <3>1, StackShort DEF Inv
  <2>4. /\ node \in ShortNode /\ rest \in Seq(ShortNode) /\ stack = <<node>> \o rest
        /\ node = stack[1]
    BY <2>3, HeadTailProperties
  <2> HIDE DEF node, rest
  <2>5. /\ kids \in Seq(ShortNode)
        /\ Along(Cost, kids) < Cost[node] /\ Along(Cost, kids) \in Nat /\ Cost[node] \in Nat
    BY <2>3, <2>4, ChildrenCheaper
  <2>6. stack' = kids \o rest
    BY <2>2
  <2> HIDE DEF kids
  <2>7. Along(Cost, stack') = Along(Cost, kids) + Along(Cost, rest)
    BY <2>3, <2>4, <2>5, <2>6, AlongConcat
  <2>8. Along(Cost, stack) = Cost[node] + Along(Cost, rest)
    <3>1. <<node>> \in Seq(ShortNode)
      BY <2>4
    <3>2. Along(Cost, <<node>> \o rest) = Along(Cost, <<node>>) + Along(Cost, rest)
      BY <2>3, <2>4, <3>1, AlongConcat
    <3>3. Along(Cost, <<node>>) = Cost[node]
      BY <2>3, <2>4, AlongOne
    <3> QED  BY <2>4, <3>2, <3>3
  <2>9. Along(Cost, rest) \in Nat
    BY <2>3, <2>4, AlongType
  <2>10. Cost' = Cost
    <3>1. rows' = rows
      BY <2>1 DEF Visit, tables
    <3> QED  BY <3>1 DEF Cost, Weight
  <2>11. Remaining' = Along(Cost, stack')
    BY <2>10 DEF Remaining
  <2> QED  BY <2>5, <2>7, <2>8, <2>9, <2>11 DEF Remaining
<1> QED  BY <1>1, <1>2, Invariance, PTL DEF Spec
================================================================================
