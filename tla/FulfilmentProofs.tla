-------------------------- MODULE FulfilmentProofs --------------------------
(***************************************************************************)
(* Theorems about Fulfilment for every value of its constants: nothing     *)
(* dangles, entries stay merged, open scans stay distinct, claims hold,    *)
(* and no two operators hold units picked for one order.                   *)
(*                                                                         *)
(* Each table keeps its invariant by itself except one: that the entries   *)
(* on an order belong to the operator who claimed it also needs the type   *)
(* of the entries' owners, so that a free order has no entries.            *)
(***************************************************************************)
EXTENDS Fulfilment, FiniteSetTheorems, TLAPS

\* The invariant the theorems rest on.
Inv ==
    /\ TypeOK
    /\ NothingDangles
    /\ EntriesMerged
    /\ OpenScansDistinct
    /\ OwnOrdersOnly => OneOperatorPerOrder

-----------------------------------------------------------------------------
(* Sets of pick entries *)

\* What the invariant says of a set of entries.
GoodPies(P) ==
    /\ P \in SUBSET Pie
    /\ \A p1, p2 \in P :
          p1.id = p2.id \/ <<p1.owner, p1.sku, p1.order>> = <<p2.owner, p2.sku, p2.order>>
             => p1 = p2
    /\ \A p \in P : p.qty > 0
    /\ \A p \in P : p.owner \in users /\ (p.order # NoOrder => p.order \in known)
    /\ OwnOrdersOnly => \A p \in P : p.order # NoOrder => owner[p.order] = p.owner

\* The invariant, read as a statement about the entries.
LEMMA InvGood == Inv => GoodPies(pies)
  BY DEF Inv, TypeOK, NothingDangles, EntriesMerged, OneOperatorPerOrder, GoodPies

\* Taking units from an entry (assign, unassign) leaves a good set of entries.
LEMMA TakenGood ==
  ASSUME NEW P, GoodPies(P), NEW p \in P, NEW q \in 1..MaxInt, q <= p.qty
  PROVE  GoodPies(Taken(P, p, q))
<1>0. MaxInt \in Nat  BY FulfilmentAssumption
<1>1. p \in Pie /\ p.qty \in 0..MaxInt /\ p.qty - q \in 0..MaxInt
  BY <1>0 DEF GoodPies, Pie
<1>2. CASE q < p.qty
  <2> DEFINE r == [p EXCEPT !.qty = p.qty - q]
  <2>1. Taken(P, p, q) = (P \ {p}) \cup {r}  BY <1>2 DEF Taken
  <2>2. /\ r \in Pie /\ r.qty > 0
        /\ r.id = p.id /\ r.owner = p.owner /\ r.sku = p.sku /\ r.order = p.order
    BY <1>0, <1>1, <1>2 DEF Pie
  <2> HIDE DEF r
  <2> QED  BY <2>1, <2>2 DEF GoodPies
<1>3. CASE ~(q < p.qty)
  <2>1. Taken(P, p, q) = P \ {p}  BY <1>3 DEF Taken
  <2> QED  BY <2>1 DEF GoodPies
<1> QED  BY <1>2, <1>3

\* Merging units into a good set of entries, for an operator who may name the
\* order, leaves a good set of entries.
LEMMA MergeGood ==
  ASSUME NEW P, GoodPies(P),
         NEW u \in users, u \in Users, NEW s \in Skus, NEW q \in 1..MaxInt,
         NEW o \in Orders \cup {NoOrder},
         o # NoOrder => o \in known /\ (OwnOrdersOnly => owner[o] = u),
         Merge(P, u, s, o, q)
  PROVE  GoodPies(pies')
<1>0. MaxInt \in Nat  BY FulfilmentAssumption
<1>1. CASE \E p \in Mine(P, u, s, o) :
             /\ p.qty + q <= MaxInt
             /\ pies' = (P \ {p}) \cup {[p EXCEPT !.qty = @ + q]}
  <2>1. PICK p \in Mine(P, u, s, o) :
             /\ p.qty + q <= MaxInt
             /\ pies' = (P \ {p}) \cup {[p EXCEPT !.qty = @ + q]}
    BY <1>1
  <2> DEFINE r == [p EXCEPT !.qty = p.qty + q]
  <2>2. p \in P /\ p \in Pie /\ p.qty \in 0..MaxInt  BY <2>1 DEF Mine, GoodPies, Pie
  <2>3. /\ r \in Pie /\ r.qty > 0
        /\ r.id = p.id /\ r.owner = p.owner /\ r.sku = p.sku /\ r.order = p.order
    BY <1>0, <2>1, <2>2 DEF Pie
  <2>4. pies' = (P \ {p}) \cup {r}  BY <2>1
  <2> HIDE DEF r
  <2>5. GoodPies((P \ {p}) \cup {r})  BY <2>2, <2>3 DEF GoodPies
  <2> QED  BY <2>4, <2>5
<1>2. CASE /\ Mine(P, u, s, o) = {}
           /\ \E i \in FreshPies(P) :
                 pies' = P \cup {[id |-> i, sku |-> s, qty |-> q, order |-> o, owner |-> u]}
  <2>1. PICK i \in FreshPies(P) :
           pies' = P \cup {[id |-> i, sku |-> s, qty |-> q, order |-> o, owner |-> u]}
    BY <1>2
  <2> DEFINE r == [id |-> i, sku |-> s, qty |-> q, order |-> o, owner |-> u]
  <2>2. i \in PieIds /\ \A p \in P : p.id # i  BY <2>1 DEF FreshPies
  <2>3. /\ r \in Pie /\ r.qty > 0
        /\ r.id = i /\ r.owner = u /\ r.sku = s /\ r.order = o
    BY <1>0, <2>2 DEF Pie
  <2>4. \A p \in P : <<p.owner, p.sku, p.order>> # <<u, s, o>>  BY <1>2 DEF Mine
  <2>5. pies' = P \cup {r}  BY <2>1
  <2> HIDE DEF r
  <2>6. GoodPies(P \cup {r})  BY <2>2, <2>3, <2>4 DEF GoodPies
  <2> QED  BY <2>5, <2>6
<1> QED  BY <1>1, <1>2 DEF Merge

\* A step that leaves the other tables alone and the entries good keeps the
\* invariant.
LEMMA GoodInv ==
  ASSUME Inv, GoodPies(pies'), UNCHANGED <<users, orderVars, scans>>
  PROVE  Inv'
<1>1. /\ users' = users /\ known' = known /\ owner' = owner /\ done' = done
      /\ tracking' = tracking /\ scans' = scans
  BY DEF orderVars
<1>2. TypeOK'  BY <1>1 DEF Inv, TypeOK, GoodPies
<1>3. NothingDangles'  BY <1>1 DEF Inv, NothingDangles, GoodPies
<1>4. EntriesMerged'  BY DEF EntriesMerged, GoodPies
<1>5. OpenScansDistinct'  BY <1>1 DEF Inv, OpenScansDistinct, Open
<1>6. (OwnOrdersOnly => OneOperatorPerOrder)'
  BY <1>1 DEF OneOperatorPerOrder, GoodPies
<1> QED  BY <1>2, <1>3, <1>4, <1>5, <1>6 DEF Inv

-----------------------------------------------------------------------------
(* One lemma per action *)

\* Every action of the picking workflow keeps the invariant.
LEMMA PickingInv ==
  ASSUME Inv, Picking
  PROVE  Inv'
<1>0. MaxInt \in Nat /\ GoodPies(pies) /\ NoUser \notin Users /\ NoOrder \notin Orders
  BY InvGood, FulfilmentAssumption
<1>1. TypeOK /\ pies \in SUBSET Pie /\ users \in SUBSET Users /\ known \in SUBSET Orders
  BY DEF Inv, TypeOK
<1>2. CASE \E u \in Users, s \in Skus, q \in 1..MaxInt, o \in Orders \cup {NoOrder} :
              CreatePie(u, s, q, o)
  <2>1. PICK u \in Users, s \in Skus, q \in 1..MaxInt, o \in Orders \cup {NoOrder} :
              CreatePie(u, s, q, o)
    BY <1>2
  <2>2. o # NoOrder => o \in known /\ (OwnOrdersOnly => owner[o] = u)
    BY <2>1 DEF CreatePie, PickTargets
  <2>3. u \in users /\ Merge(pies, u, s, o, q)  BY <2>1 DEF CreatePie
  <2>4. GoodPies(pies')  BY <1>0, <2>2, <2>3, MergeGood
  <2> QED  BY <2>1, <2>4, GoodInv DEF CreatePie
<1>3. CASE \E u \in Users, p \in pies, o \in Orders, q \in 1..MaxInt : AssignPie(u, p, o, q)
  <2>1. PICK u \in Users, p \in pies, o \in Orders, q \in 1..MaxInt : AssignPie(u, p, o, q)
    BY <1>3
  <2>2. u \in users /\ o \in known /\ owner[o] = u /\ q <= p.qty /\ p.sku \in Skus
    BY <1>1, <2>1 DEF AssignPie, AssignTakes, Pie
  <2>3. GoodPies(Taken(pies, p, q))  BY <1>0, <2>2, TakenGood
  <2>4. Merge(Taken(pies, p, q), u, p.sku, o, q)  BY <2>1 DEF AssignPie
  <2>5. GoodPies(pies')
    <3> DEFINE T == Taken(pies, p, q)
           sku == p.sku
    <3>1. GoodPies(T) /\ Merge(T, u, sku, o, q) /\ sku \in Skus  BY <2>2, <2>3, <2>4
    <3> HIDE DEF T, sku
    <3> QED  BY <2>2, <3>1, MergeGood
  <2> QED  BY <2>1, <2>5, GoodInv DEF AssignPie
<1>4. CASE \E u \in Users, p \in pies, q \in 1..MaxInt : UnassignPie(u, p, q)
  <2>1. PICK u \in Users, p \in pies, q \in 1..MaxInt : UnassignPie(u, p, q)
    BY <1>4
  <2>2. u \in users /\ q <= p.qty /\ p.sku \in Skus
    BY <1>1, <2>1 DEF UnassignPie, Pie
  <2>3. GoodPies(Taken(pies, p, q))  BY <1>0, <2>2, TakenGood
  <2>4. Merge(Taken(pies, p, q), u, p.sku, NoOrder, q)  BY <2>1 DEF UnassignPie
  <2>5. GoodPies(pies')
    <3> DEFINE T == Taken(pies, p, q)
           sku == p.sku
    <3>1. GoodPies(T) /\ Merge(T, u, sku, NoOrder, q) /\ sku \in Skus  BY <2>2, <2>3, <2>4
    <3> HIDE DEF T, sku
    <3> QED  BY <2>2, <3>1, MergeGood
  <2> QED  BY <2>1, <2>5, GoodInv DEF UnassignPie
<1>5. CASE \E u \in Users, p \in pies, q \in 1..MaxInt : TakeOnly(u, p, q)
  <2>1. PICK u \in Users, p \in pies, q \in 1..MaxInt : TakeOnly(u, p, q)
    BY <1>5
  <2>2. q <= p.qty /\ pies' = Taken(pies, p, q)  BY <2>1 DEF TakeOnly
  <2>3. GoodPies(pies')  BY <1>0, <2>2, TakenGood
  <2> QED  BY <2>1, <2>3, GoodInv DEF TakeOnly
<1>6. CASE \E p \in pies : DeletePie(p)
  <2>1. PICK p \in pies : DeletePie(p)  BY <1>6
  <2>2. pies' = pies \ {p}  BY <2>1 DEF DeletePie
  <2>3. GoodPies(pies')  BY <1>0, <2>2 DEF GoodPies
  <2> QED  BY <2>1, <2>3, GoodInv DEF DeletePie
<1> QED  BY <1>2, <1>3, <1>4, <1>5, <1>6 DEF Picking

\* Registration keeps the invariant.
LEMMA RegisterInv ==
  ASSUME Inv, NEW u \in Users, Register(u)
  PROVE  Inv'
  BY DEF Register, orderVars, Inv, TypeOK, NothingDangles, EntriesMerged,
         OpenScansDistinct, Open, OneOperatorPerOrder

\* Deleting an operator with everything of his keeps the invariant: what is
\* left on an order is its owner's, and the owner is another.
LEMMA DeleteUserInv ==
  ASSUME Inv, NEW u \in Users, DeleteUser(u)
  PROVE  Inv'
<1>0. /\ NoUser \notin Users /\ NoOrder \notin Orders
      /\ TypeOK /\ NothingDangles /\ EntriesMerged /\ OpenScansDistinct
      /\ OwnOrdersOnly => OneOperatorPerOrder
  BY FulfilmentAssumption DEF Inv
<1>1. /\ users' = users \ {u}
      /\ scans' = {x \in scans : x.owner # u}
      /\ pies' = {p \in pies : p.owner # u}
      /\ owner' = [o \in Orders |-> IF owner[o] = u THEN NoUser ELSE owner[o]]
      /\ known' = known /\ done' = done /\ tracking' = tracking
  BY DEF DeleteUser
<1>2. TypeOK'  BY <1>0, <1>1 DEF TypeOK
<1>3. NothingDangles'  BY <1>0, <1>1 DEF TypeOK, NothingDangles
<1>4. EntriesMerged'  BY <1>0, <1>1 DEF EntriesMerged
<1>5. OpenScansDistinct'  BY <1>0, <1>1 DEF OpenScansDistinct, Open
<1>6. (OwnOrdersOnly => OneOperatorPerOrder)'
  <2> SUFFICES ASSUME OwnOrdersOnly, NEW p \in pies', p.order # NoOrder
               PROVE  owner'[p.order] = p.owner
    BY DEF OneOperatorPerOrder
  <2>1. p \in pies /\ p.owner # u /\ p.order \in Orders  BY <1>0, <1>1 DEF TypeOK, Pie
  <2>2. owner[p.order] = p.owner  BY <1>0, <2>1 DEF OneOperatorPerOrder
  <2> QED  BY <1>1, <2>1, <2>2
<1> QED  BY <1>2, <1>3, <1>4, <1>5, <1>6 DEF Inv

\* A synchronisation keeps the invariant, whatever it has learnt.
LEMMA SyncInv ==
  ASSUME Inv, Synchronise
  PROVE  Inv'
<1>0. /\ TypeOK /\ NothingDangles /\ EntriesMerged /\ OpenScansDistinct
      /\ OwnOrdersOnly => OneOperatorPerOrder
  BY DEF Inv
<1>1. PICK S \in SUBSET Orders : \E fetched \in [S -> Outcomes] : SyncOrders(fetched)
  BY DEF Synchronise
<1>2. PICK fetched \in [S -> Outcomes] : SyncOrders(fetched)  BY <1>1
<1>3. /\ known' = known \cup S
      /\ tracking' = [o \in Orders |->
                        IF o \notin S \/ fetched[o] = "kept" THEN tracking[o]
                        ELSE IF fetched[o] = "tracked" THEN LabelOf[o] ELSE NoLabel]
      /\ users' = users /\ owner' = owner /\ done' = done /\ pies' = pies /\ scans' = scans
  <2>1. DOMAIN fetched = S  OBVIOUS
  <2> QED  BY <1>2, <2>1 DEF SyncOrders
<1>4. TypeOK'
  <2>1. \A o \in Orders : LabelOf[o] \in Labels  BY DEF Labels
  <2>2. tracking' \in [Orders -> Labels \cup {NoLabel}]  BY <1>0, <1>3, <2>1 DEF TypeOK
  <2> QED  BY <1>0, <1>3, <2>2 DEF TypeOK
<1>5. NothingDangles'  BY <1>0, <1>3 DEF NothingDangles
<1>6. EntriesMerged' /\ OpenScansDistinct' /\ (OwnOrdersOnly => OneOperatorPerOrder)'
  BY <1>0, <1>3 DEF EntriesMerged, OpenScansDistinct, Open, OneOperatorPerOrder
<1> QED  BY <1>4, <1>5, <1>6 DEF Inv

\* A claim keeps the invariant: an order free to be claimed has no entries.
LEMMA AcquireInv ==
  ASSUME Inv, NEW u \in Users, NEW o \in Orders, Acquire(u, o)
  PROVE  Inv'
<1>0. /\ NoUser \notin Users /\ NoOrder \notin Orders
      /\ TypeOK /\ NothingDangles /\ EntriesMerged /\ OpenScansDistinct
      /\ OwnOrdersOnly => OneOperatorPerOrder
  BY FulfilmentAssumption DEF Inv
<1>1. /\ u \in users /\ o \in known /\ owner[o] \in {NoUser, u}
      /\ owner' = [owner EXCEPT ![o] = u]
      /\ users' = users /\ known' = known /\ done' = done /\ tracking' = tracking
      /\ pies' = pies /\ scans' = scans
  BY DEF Acquire
<1>2. /\ owner' \in [Orders -> Users \cup {NoUser}]
      /\ \A x \in Orders : owner'[x] = IF x = o THEN u ELSE owner[x]
  BY <1>0, <1>1 DEF TypeOK
<1>3. TypeOK'  BY <1>0, <1>1, <1>2 DEF TypeOK
<1>4. NothingDangles'  BY <1>0, <1>1, <1>2 DEF NothingDangles
<1>5. EntriesMerged' /\ OpenScansDistinct'
  BY <1>0, <1>1 DEF EntriesMerged, OpenScansDistinct, Open
<1>6. (OwnOrdersOnly => OneOperatorPerOrder)'
  <2> SUFFICES ASSUME OwnOrdersOnly, NEW p \in pies, p.order # NoOrder
               PROVE  owner'[p.order] = p.owner
    BY <1>1 DEF OneOperatorPerOrder
  <2>1. p.order \in Orders /\ p.owner \in Users  BY <1>0 DEF TypeOK, Pie
  <2>2. owner[p.order] = p.owner  BY <1>0 DEF OneOperatorPerOrder
  <2> QED  BY <1>0, <1>1, <1>2, <2>1, <2>2
<1> QED  BY <1>3, <1>4, <1>5, <1>6 DEF Inv

\* Scanning, closing and clearing keep the invariant.
LEMMA OutboundInv ==
  ASSUME Inv, Outbound
  PROVE  Inv'
<1>0. /\ TypeOK /\ NothingDangles /\ EntriesMerged /\ OpenScansDistinct
      /\ OwnOrdersOnly => OneOperatorPerOrder
  BY DEF Inv
<1>1. CASE \E u \in Users, c \in Contents : CreateScan(u, c)
  <2>1. PICK u \in Users, c \in Contents : CreateScan(u, c)  BY <1>1
  <2>2. PICK i \in FreshScans :
          scans' = scans \cup {[id |-> i, content |-> c, owner |-> u, closed |-> FALSE]}
    BY <2>1 DEF CreateScan
  <2> DEFINE y == [id |-> i, content |-> c, owner |-> u, closed |-> FALSE]
  <2>3. /\ y \in Scan /\ y.owner = u /\ y.content = c
        /\ scans' = scans \cup {y}
    BY <2>2 DEF Scan, FreshScans
  <2> HIDE DEF y
  <2>4. /\ u \in users /\ \A x \in Open(scans) : ~(x.owner = u /\ x.content = c)
        /\ users' = users /\ known' = known /\ owner' = owner /\ done' = done
        /\ tracking' = tracking /\ pies' = pies
    BY <2>1 DEF CreateScan, orderVars
  <2>5. TypeOK'  BY <1>0, <2>3, <2>4 DEF TypeOK
  <2>6. NothingDangles'  BY <1>0, <2>3, <2>4 DEF NothingDangles
  <2>7. OpenScansDistinct'  BY <1>0, <2>3, <2>4 DEF OpenScansDistinct, Open
  <2>8. EntriesMerged' /\ (OwnOrdersOnly => OneOperatorPerOrder)'
    BY <1>0, <2>4 DEF EntriesMerged, OneOperatorPerOrder
  <2> QED  BY <2>5, <2>6, <2>7, <2>8 DEF Inv
<1>2. CASE \E C \in SUBSET Contents : ClosePeriod(C)
  <2>1. PICK C \in SUBSET Contents : ClosePeriod(C)  BY <1>2
  <2> DEFINE N == {[x EXCEPT !.closed = TRUE] : x \in OpenFor(scans, C)}
  <2>2. \A y \in N : y \in Scan /\ y.closed /\ y.owner \in users
    <3> SUFFICES ASSUME NEW x \in OpenFor(scans, C)
                 PROVE  LET y == [x EXCEPT !.closed = TRUE]
                        IN  y \in Scan /\ y.closed /\ y.owner \in users
      OBVIOUS
    <3>1. x \in scans /\ x \in Scan  BY <1>0 DEF OpenFor, Open, TypeOK
    <3>2. x.owner \in users  BY <1>0, <3>1 DEF NothingDangles
    <3> QED  BY <3>1, <3>2 DEF Scan
  <2>3. /\ scans' = (scans \ OpenFor(scans, C)) \cup N
        /\ done' = done \cup Matched(C)
        /\ users' = users /\ known' = known /\ owner' = owner
        /\ tracking' = tracking /\ pies' = pies
    BY <2>1 DEF ClosePeriod
  <2> HIDE DEF N
  <2>4. Matched(C) \subseteq known  BY DEF Matched
  <2>5. TypeOK'  BY <1>0, <2>2, <2>3, <2>4 DEF TypeOK
  <2>6. NothingDangles'  BY <1>0, <2>2, <2>3, <2>4 DEF NothingDangles
  <2>7. OpenScansDistinct'  BY <1>0, <2>2, <2>3 DEF OpenScansDistinct, Open
  <2>8. EntriesMerged' /\ (OwnOrdersOnly => OneOperatorPerOrder)'
    BY <1>0, <2>3 DEF EntriesMerged, OneOperatorPerOrder
  <2> QED  BY <2>5, <2>6, <2>7, <2>8 DEF Inv
<1>3. CASE ClearScans
  BY <1>0, <1>3 DEF ClearScans, orderVars, Inv, TypeOK, NothingDangles, EntriesMerged,
                    OpenScansDistinct, Open, OneOperatorPerOrder
<1> QED  BY <1>1, <1>2, <1>3 DEF Outbound

-----------------------------------------------------------------------------
(* Theorems *)

\* The invariant holds in every state.
THEOREM InvHolds == Spec => []Inv
<1>1. Init => Inv
  BY DEF Init, Inv, TypeOK, NothingDangles, EntriesMerged, OpenScansDistinct, Open,
         OneOperatorPerOrder
<1>2. Inv /\ [Next]_vars => Inv'
  <2> SUFFICES ASSUME Inv, [Next]_vars PROVE Inv'
    OBVIOUS
  <2>1. CASE UNCHANGED vars
    BY <2>1 DEF vars, orderVars, Inv, TypeOK, NothingDangles, EntriesMerged,
                OpenScansDistinct, Open, OneOperatorPerOrder
  <2>2. CASE \E u \in Users : Register(u) \/ DeleteUser(u)
    BY <2>2, RegisterInv, DeleteUserInv
  <2>3. CASE Synchronise  BY <2>3, SyncInv
  <2>4. CASE \E u \in Users, o \in Orders : Acquire(u, o)  BY <2>4, AcquireInv
  <2>5. CASE Picking  BY <2>5, PickingInv
  <2>6. CASE Outbound  BY <2>6, OutboundInv
  <2> QED  BY <2>1, <2>2, <2>3, <2>4, <2>5, <2>6 DEF Next
<1> QED  BY <1>1, <1>2, PTL DEF Spec

\* The rows of every table fit their columns, in every state.
THEOREM TypeCorrect == Spec => []TypeOK
<1>1. Inv => TypeOK  BY DEF Inv
<1> QED  BY <1>1, InvHolds, PTL

\* No claim, entry, scan or completion outlives what it refers to.
THEOREM NothingEverDangles == Spec => []NothingDangles
<1>1. Inv => NothingDangles  BY DEF Inv
<1> QED  BY <1>1, InvHolds, PTL

\* An operator never has two entries for an item and an order, nor an empty one.
THEOREM EntriesStayMerged == Spec => []EntriesMerged
<1>1. Inv => EntriesMerged  BY DEF Inv
<1> QED  BY <1>1, InvHolds, PTL

\* An operator never has two open scans of a text.
THEOREM OpenScansStayDistinct == Spec => []OpenScansDistinct
<1>1. Inv => OpenScansDistinct  BY DEF Inv
<1> QED  BY <1>1, InvHolds, PTL

\* While picks name only claimed orders, no two operators hold units picked
\* for the same order.
THEOREM OneOperatorHoldsAnOrder == OwnOrdersOnly /\ Spec => []OneOperatorPerOrder
<1>1. OwnOrdersOnly /\ Inv => OneOperatorPerOrder  BY DEF Inv
<1>2. ASSUME OwnOrdersOnly PROVE Spec => []OneOperatorPerOrder
  <2>1. Inv => OneOperatorPerOrder  BY <1>1, <1>2
  <2> QED  BY <2>1, InvHolds, PTL
<1> QED  BY <1>2

\* A claim ends only with its operator, and then the order is free.
THEOREM ClaimsAlwaysHold == Spec => ClaimsHold
<1>1. Inv /\ [Next]_vars =>
        [\A o \in Orders :
           owner[o] # NoUser /\ owner'[o] # owner[o] =>
              owner'[o] = NoUser /\ owner[o] \notin users']_vars
  <2> SUFFICES ASSUME Inv, Next, NEW o \in Orders,
                      owner[o] # NoUser, owner'[o] # owner[o]
               PROVE  owner'[o] = NoUser /\ owner[o] \notin users'
    OBVIOUS
  <2>1. TypeOK  BY DEF Inv
  <2>2. ASSUME NEW u \in Users, DeleteUser(u)
        PROVE  owner'[o] = NoUser /\ owner[o] \notin users'
    BY <2>2 DEF DeleteUser
  <2>3. ASSUME NEW u \in Users, NEW x \in Orders, Acquire(u, x) PROVE FALSE
    BY <2>1, <2>3 DEF Acquire, TypeOK
  <2>4. ASSUME NEW u \in Users, Register(u) PROVE FALSE
    BY <2>4 DEF Register, orderVars
  <2>5. CASE Synchronise
    BY <2>5 DEF Synchronise, SyncOrders
  <2>6. CASE Picking
    BY <2>6 DEF Picking, CreatePie, AssignPie, UnassignPie, TakeOnly, DeletePie, orderVars
  <2>7. CASE Outbound
    BY <2>7 DEF Outbound, CreateScan, ClosePeriod, ClearScans, orderVars
  <2> QED  BY <2>2, <2>3, <2>4, <2>5, <2>6, <2>7 DEF Next
<1> QED  BY <1>1, InvHolds, PTL DEF Spec, ClaimsHold

\* No step makes a completed order open again or forgets an order.
THEOREM DoneStaysFinal == Spec => DoneIsFinal
<1>1. [Next]_vars => [done \subseteq done' /\ known \subseteq known']_vars
  <2> SUFFICES ASSUME Next PROVE done \subseteq done' /\ known \subseteq known'
    OBVIOUS
  <2>1. CASE \E u \in Users : Register(u) \/ DeleteUser(u)
    BY <2>1 DEF Register, DeleteUser, orderVars
  <2>2. CASE Synchronise  BY <2>2 DEF Synchronise, SyncOrders
  <2>3. CASE \E u \in Users, o \in Orders : Acquire(u, o)  BY <2>3 DEF Acquire
  <2>4. CASE Picking
    BY <2>4 DEF Picking, CreatePie, AssignPie, UnassignPie, TakeOnly, DeletePie, orderVars
  <2>5. CASE Outbound
    BY <2>5 DEF Outbound, CreateScan, ClosePeriod, ClearScans, orderVars
  <2> QED  BY <2>1, <2>2, <2>3, <2>4, <2>5 DEF Next
<1> QED  BY <1>1, PTL DEF Spec, DoneIsFinal

-----------------------------------------------------------------------------
(* Units held *)

\* The units entry p gives operator u of item s.
Part(p, u, s) == IF p.owner = u /\ p.sku = s THEN p.qty ELSE 0

\* A table of entries with their own keys is finite.
LEMMA PiesFinite ==
  ASSUME NEW P, GoodPies(P)
  PROVE  IsFiniteSet(P)
<1> DEFINE f == [p \in P |-> p.id]
<1>1. f \in Injection(P, PieIds)  BY DEF Injection, IsInjective, GoodPies, Pie
<1> QED  BY <1>1, FS_Injection, FulfilmentAssumption

\* An entry more adds what it holds to its operator's units of its item.
LEMMA HeldGains ==
  ASSUME NEW P \in SUBSET Pie, IsFiniteSet(P), NEW p \in Pie, p \notin P, NEW u, NEW s
  PROVE  /\ Held(P, u, s) \in Nat
         /\ Held(P \cup {p}, u, s) = Held(P, u, s) + Part(p, u, s)
<1> DEFINE Her(Q) == {r \in Q : r.owner = u /\ r.sku = s}
           Units(Q) == UNION {{r} \X (1..r.qty) : r \in Her(Q)}
           U == Units(P)
           V == Units(P \cup {p})
<1>0. MaxInt \in Nat /\ p.qty \in Nat  BY FulfilmentAssumption DEF Pie
<1>1. IsFiniteSet(U)
  <2>1. U \subseteq P \X (1..MaxInt)  BY <1>0 DEF Pie
  <2>2. IsFiniteSet(1..MaxInt)  BY <1>0, FS_Interval
  <2>3. IsFiniteSet(P \X (1..MaxInt))  BY <2>2, FS_Product
  <2> QED  BY <2>1, <2>3, FS_Subset
<1>2. Held(P, u, s) = Cardinality(U) /\ Held(P \cup {p}, u, s) = Cardinality(V)
  BY DEF Held
<1>3. Cardinality(U) \in Nat  BY <1>1, FS_CardinalityType
<1>4. CASE p.owner = u /\ p.sku = s
  <2> DEFINE E == {p} \X (1..p.qty)
  <2>1. V = U \cup E  BY <1>4
  <2>2. U \cap E = {}  OBVIOUS
  <2>3. IsFiniteSet(E) /\ Cardinality(E) = p.qty
    <3>1. IsFiniteSet({p}) /\ Cardinality({p}) = 1  BY FS_Singleton
    <3>2. IsFiniteSet(1..p.qty) /\ Cardinality(1..p.qty) = p.qty
      <4>1. 1 \in Int /\ p.qty \in Int  BY <1>0
      <4>2. /\ IsFiniteSet(1..p.qty)
            /\ Cardinality(1..p.qty) = IF 1 > p.qty THEN 0 ELSE p.qty - 1 + 1
        BY <4>1, FS_Interval
      <4> QED  BY <1>0, <4>2
    <3>3. IsFiniteSet(E) /\ Cardinality(E) = Cardinality({p}) * Cardinality(1..p.qty)
      BY <3>1, <3>2, FS_Product
    <3> QED  BY <1>0, <3>1, <3>2, <3>3
  <2> HIDE DEF U, V, E
  <2>4. Cardinality(U \cap E) = 0  BY <2>2, FS_EmptySet
  <2>5. Cardinality(U \cup E) =
          Cardinality(U) + Cardinality(E) - Cardinality(U \cap E)
    BY <1>1, <2>3, FS_Union
  <2>6. Part(p, u, s) = p.qty  BY <1>4 DEF Part
  <2>7. Cardinality(V) = Cardinality(U) + p.qty
    BY <1>0, <1>3, <2>1, <2>3, <2>4, <2>5
  <2> QED  BY <1>2, <1>3, <2>6, <2>7
<1>5. CASE ~(p.owner = u /\ p.sku = s)
  <2>1. V = U  BY <1>5
  <2>2. Part(p, u, s) = 0  BY <1>5 DEF Part
  <2> HIDE DEF U, V
  <2> QED  BY <1>2, <1>3, <2>1, <2>2
<1> QED  BY <1>4, <1>5

\* Taking q units from an entry takes them from its operator, who had them.
LEMMA HeldTaken ==
  ASSUME NEW P, GoodPies(P), NEW p \in P, NEW q \in 1..MaxInt, q <= p.qty, NEW u, NEW s
  PROVE  /\ Held(P, u, s) \in Nat
         /\ Held(Taken(P, p, q), u, s) =
              Held(P, u, s) - (IF p.owner = u /\ p.sku = s THEN q ELSE 0)
<1>0. /\ P \in SUBSET Pie /\ p \in Pie /\ MaxInt \in Nat /\ p.qty \in 0..MaxInt
      /\ \A r \in P : r.id = p.id => r = p
  BY FulfilmentAssumption DEF GoodPies, Pie
<1> DEFINE R == P \ {p}
<1>1. R \in SUBSET Pie /\ IsFiniteSet(R) /\ p \notin R /\ R \cup {p} = P
  BY <1>0, PiesFinite, FS_Subset
<1>2. R \subseteq P  OBVIOUS
<1> HIDE DEF R
<1>3. Held(R, u, s) \in Nat /\ Held(P, u, s) = Held(R, u, s) + Part(p, u, s)
  <2>1. Held(R \cup {p}, u, s) = Held(R, u, s) + Part(p, u, s) /\ Held(R, u, s) \in Nat
    BY <1>0, <1>1, HeldGains
  <2> QED  BY <1>1, <2>1
<1>4. Part(p, u, s) \in Nat  BY <1>0 DEF Part
<1>5. CASE q < p.qty
  <2> DEFINE r == [p EXCEPT !.qty = p.qty - q]
  <2>1. Taken(P, p, q) = R \cup {r}  BY <1>5 DEF Taken, R
  <2>2. /\ r \in Pie /\ r.qty = p.qty - q
        /\ r.id = p.id /\ r.owner = p.owner /\ r.sku = p.sku
    BY <1>0, <1>5 DEF Pie
  <2> HIDE DEF r
  <2>3. r \notin R  BY <1>0, <1>1, <1>2, <2>2
  <2>4. Held(R \cup {r}, u, s) = Held(R, u, s) + Part(r, u, s)
    BY <1>1, <2>2, <2>3, HeldGains
  <2>5. CASE p.owner = u /\ p.sku = s
    <3>1. Part(p, u, s) = p.qty /\ Part(r, u, s) = p.qty - q  BY <2>2, <2>5 DEF Part
    <3>2. Held(Taken(P, p, q), u, s) = Held(P, u, s) - q
      BY <1>0, <1>3, <2>1, <2>4, <3>1
    <3> QED  BY <1>3, <1>4, <2>5, <3>2
  <2>6. CASE ~(p.owner = u /\ p.sku = s)
    <3>1. Part(p, u, s) = 0 /\ Part(r, u, s) = 0  BY <2>2, <2>6 DEF Part
    <3>2. Held(Taken(P, p, q), u, s) = Held(P, u, s)
      BY <1>3, <2>1, <2>4, <3>1
    <3> QED  BY <1>3, <1>4, <2>6, <3>2
  <2> QED  BY <2>5, <2>6
<1>6. CASE ~(q < p.qty)
  <2>1. Taken(P, p, q) = R /\ q = p.qty  BY <1>0, <1>6 DEF Taken, R
  <2>2. CASE p.owner = u /\ p.sku = s
    <3>1. Part(p, u, s) = q  BY <2>1, <2>2 DEF Part
    <3> QED  BY <1>3, <2>1, <2>2, <3>1
  <2>3. CASE ~(p.owner = u /\ p.sku = s)
    <3>1. Part(p, u, s) = 0  BY <2>3 DEF Part
    <3> QED  BY <1>3, <2>1, <2>3, <3>1
  <2> QED  BY <2>2, <2>3
<1> QED  BY <1>5, <1>6

\* Merging q units gives them to the operator, in one entry or another.
LEMMA HeldMerged ==
  ASSUME NEW P, GoodPies(P), NEW u \in Users, NEW s \in Skus, NEW q \in 1..MaxInt,
         NEW o \in Orders \cup {NoOrder}, Merge(P, u, s, o, q), NEW v, NEW t
  PROVE  Held(pies', v, t) = Held(P, v, t) + (IF u = v /\ s = t THEN q ELSE 0)
<1>0. MaxInt \in Nat /\ P \in SUBSET Pie /\ \A r1, r2 \in P : r1.id = r2.id => r1 = r2
  BY FulfilmentAssumption DEF GoodPies
<1>1. IsFiniteSet(P)  BY PiesFinite
<1>2. CASE \E p \in Mine(P, u, s, o) :
             /\ p.qty + q <= MaxInt
             /\ pies' = (P \ {p}) \cup {[p EXCEPT !.qty = @ + q]}
  <2>1. PICK p \in Mine(P, u, s, o) :
             /\ p.qty + q <= MaxInt
             /\ pies' = (P \ {p}) \cup {[p EXCEPT !.qty = @ + q]}
    BY <1>2
  <2> DEFINE r == [p EXCEPT !.qty = p.qty + q]
             R == P \ {p}
  <2>2. p \in P /\ p \in Pie /\ p.qty \in 0..MaxInt /\ p.owner = u /\ p.sku = s
    BY <2>1 DEF Mine, GoodPies, Pie
  <2>3. /\ r \in Pie /\ r.qty = p.qty + q
        /\ r.id = p.id /\ r.owner = p.owner /\ r.sku = p.sku
    BY <1>0, <2>1, <2>2 DEF Pie
  <2>4. pies' = R \cup {r}  BY <2>1
  <2>5. R \in SUBSET Pie /\ IsFiniteSet(R) /\ p \notin R /\ R \cup {p} = P /\ R \subseteq P
    BY <1>0, <1>1, <2>2, FS_Subset
  <2> HIDE DEF r, R
  <2>6. r \notin R  BY <1>0, <2>2, <2>3, <2>5
  <2>7. Held(R \cup {r}, v, t) = Held(R, v, t) + Part(r, v, t)
    BY <2>3, <2>5, <2>6, HeldGains
  <2>8. Held(R, v, t) \in Nat /\ Held(R \cup {p}, v, t) = Held(R, v, t) + Part(p, v, t)
    BY <2>2, <2>5, HeldGains
  <2>9. Held(P, v, t) = Held(R, v, t) + Part(p, v, t)  BY <2>5, <2>8
  <2>10. CASE u = v /\ s = t
    <3>1. Part(p, v, t) = p.qty /\ Part(r, v, t) = p.qty + q  BY <2>2, <2>3, <2>10 DEF Part
    <3>2. Held(pies', v, t) = Held(P, v, t) + q
      BY <1>0, <2>2, <2>4, <2>7, <2>8, <2>9, <3>1
    <3> QED  BY <2>10, <3>2
  <2>11. CASE ~(u = v /\ s = t)
    <3>1. Part(p, v, t) = 0 /\ Part(r, v, t) = 0  BY <2>2, <2>3, <2>11 DEF Part
    <3>2. Held(pies', v, t) = Held(P, v, t) /\ Held(P, v, t) \in Nat
      BY <2>4, <2>7, <2>8, <2>9, <3>1
    <3> QED  BY <2>11, <3>2
  <2> QED  BY <2>10, <2>11
<1>3. CASE /\ Mine(P, u, s, o) = {}
           /\ \E i \in FreshPies(P) :
                 pies' = P \cup {[id |-> i, sku |-> s, qty |-> q, order |-> o, owner |-> u]}
  <2>1. PICK i \in FreshPies(P) :
           pies' = P \cup {[id |-> i, sku |-> s, qty |-> q, order |-> o, owner |-> u]}
    BY <1>3
  <2> DEFINE r == [id |-> i, sku |-> s, qty |-> q, order |-> o, owner |-> u]
  <2>2. i \in PieIds /\ \A p \in P : p.id # i  BY <2>1 DEF FreshPies
  <2>3. r \in Pie /\ r.id = i /\ r.owner = u /\ r.sku = s /\ r.qty = q
    BY <1>0, <2>2 DEF Pie
  <2>4. pies' = P \cup {r}  BY <2>1
  <2> HIDE DEF r
  <2>5. r \notin P  BY <2>2, <2>3
  <2>6. Held(P, v, t) \in Nat /\ Held(P \cup {r}, v, t) = Held(P, v, t) + Part(r, v, t)
    BY <1>0, <1>1, <2>3, <2>5, HeldGains
  <2>7. Part(r, v, t) = IF u = v /\ s = t THEN q ELSE 0  BY <2>3 DEF Part
  <2> QED  BY <2>4, <2>6, <2>7
<1> QED  BY <1>2, <1>3 DEF Merge

\* A move in one step: what is taken from an entry is merged for its operator.
LEMMA MoveConserves ==
  ASSUME Inv, NEW u \in Users, NEW p \in pies, NEW q \in 1..MaxInt, q <= p.qty, p.owner = u,
         NEW o \in Orders \cup {NoOrder}, Merge(Taken(pies, p, q), u, p.sku, o, q),
         NEW v, NEW t
  PROVE  Held(pies', v, t) = Held(pies, v, t)
<1>1. GoodPies(pies)  BY InvGood
<1>2. p.sku \in Skus /\ MaxInt \in Nat /\ q \in Nat
  BY <1>1, FulfilmentAssumption DEF GoodPies, Pie
<1> DEFINE T == Taken(pies, p, q)
           s == p.sku
<1>3. GoodPies(T)  BY <1>1, TakenGood
<1>4. /\ Held(pies, v, t) \in Nat
      /\ Held(T, v, t) = Held(pies, v, t) - (IF p.owner = v /\ p.sku = t THEN q ELSE 0)
  BY <1>1, HeldTaken
<1>5. Merge(T, u, s, o, q) /\ s \in Skus  BY <1>2
<1> HIDE DEF T, s
<1>6. Held(pies', v, t) = Held(T, v, t) + (IF u = v /\ s = t THEN q ELSE 0)
  BY <1>3, <1>5, HeldMerged
<1>7. CASE u = v /\ s = t
  <2>1. Held(T, v, t) = Held(pies, v, t) - q  BY <1>4, <1>7 DEF s
  <2> QED  BY <1>2, <1>4, <1>6, <1>7, <2>1
<1>8. CASE ~(u = v /\ s = t)
  <2>1. Held(T, v, t) = Held(pies, v, t)  BY <1>4, <1>8 DEF s
  <2> QED  BY <1>4, <1>6, <1>8, <2>1
<1> QED  BY <1>7, <1>8

\* However the entries lie, an assignment or a return that completes changes
\* no quantity anyone holds of anything.
THEOREM MovesAlwaysConserve == Spec => MovesConserve
<1>1. Inv /\ [Next]_vars =>
        [\A u \in Users, p \in pies, q \in 1..MaxInt :
           ((\E o \in Orders : AssignPie(u, p, o, q)) \/ UnassignPie(u, p, q)) =>
              \A v \in Users, s \in Skus : Held(pies', v, s) = Held(pies, v, s)]_vars
  <2> SUFFICES ASSUME Inv, NEW u \in Users, NEW p \in pies, NEW q \in 1..MaxInt,
                      (\E o \in Orders : AssignPie(u, p, o, q)) \/ UnassignPie(u, p, q),
                      NEW v \in Users, NEW s \in Skus
               PROVE  Held(pies', v, s) = Held(pies, v, s)
    OBVIOUS
  <2>1. PICK o \in Orders \cup {NoOrder} :
          /\ q <= p.qty /\ p.owner = u
          /\ Merge(Taken(pies, p, q), u, p.sku, o, q)
    BY DEF AssignPie, AssignTakes, UnassignPie
  <2> QED  BY <2>1, MoveConserves
<1> QED  BY <1>1, InvHolds, PTL DEF Spec, MovesConserve

\* Deleting entries gives nobody units.
LEMMA HeldShrinks ==
  ASSUME NEW P, GoodPies(P), NEW Q \in SUBSET P, NEW u, NEW s
  PROVE  /\ Held(P, u, s) \in Nat /\ Held(Q, u, s) \in Nat
         /\ Held(Q, u, s) <= Held(P, u, s)
<1> DEFINE Her(R) == {r \in R : r.owner = u /\ r.sku = s}
           V == UNION {{r} \X (1..r.qty) : r \in Her(Q)}
           U == UNION {{r} \X (1..r.qty) : r \in Her(P)}
<1>0. MaxInt \in Nat /\ P \in SUBSET Pie  BY FulfilmentAssumption DEF GoodPies
<1>1. IsFiniteSet(U)
  <2>1. U \subseteq P \X (1..MaxInt)  BY <1>0 DEF Pie
  <2>2. IsFiniteSet(1..MaxInt)  BY <1>0, FS_Interval
  <2>3. IsFiniteSet(P \X (1..MaxInt))  BY <2>2, PiesFinite, FS_Product
  <2> QED  BY <2>1, <2>3, FS_Subset
<1>2. V \subseteq U  OBVIOUS
<1>3. Held(P, u, s) = Cardinality(U) /\ Held(Q, u, s) = Cardinality(V)  BY DEF Held
<1> HIDE DEF U, V
<1>4. IsFiniteSet(V) /\ Cardinality(V) <= Cardinality(U)  BY <1>1, <1>2, FS_Subset
<1>5. Cardinality(U) \in Nat /\ Cardinality(V) \in Nat  BY <1>1, <1>4, FS_CardinalityType
<1> QED  BY <1>3, <1>4, <1>5

\* Whatever is retried, fails between two commits or is deleted, an operator's
\* units of an item grow only by a pick of that item by that operator.
OnlyPicksGive ==
  [][\A u \in Users, s \in Skus :
        Held(pies', u, s) > Held(pies, u, s) =>
          \E q \in 1..MaxInt, o \in Orders \cup {NoOrder} : CreatePie(u, s, q, o)]_vars

\* No workflow but the pick makes units, in any interleaving.
THEOREM PicksAloneGive == Spec => OnlyPicksGive
<1>1. Inv /\ [Next]_vars =>
        [\A u \in Users, s \in Skus :
           Held(pies', u, s) > Held(pies, u, s) =>
             \E q \in 1..MaxInt, o \in Orders \cup {NoOrder} : CreatePie(u, s, q, o)]_vars
  <2> SUFFICES ASSUME Inv, Next, NEW u \in Users, NEW s \in Skus,
                      Held(pies', u, s) > Held(pies, u, s)
               PROVE  \E q \in 1..MaxInt, o \in Orders \cup {NoOrder} : CreatePie(u, s, q, o)
    OBVIOUS
  <2>0. MaxInt \in Nat /\ GoodPies(pies)  BY FulfilmentAssumption, InvGood
  <2>1. ASSUME NEW Q \in SUBSET pies, pies' = Q PROVE FALSE
    BY <2>0, <2>1, HeldShrinks
  <2>2. ASSUME pies' = pies PROVE FALSE  BY <2>1, <2>2
  <2>3. CASE \E v \in Users : Register(v) \/ DeleteUser(v)
    <3>1. pies' \in SUBSET pies  BY <2>3 DEF Register, DeleteUser
    <3> QED  BY <2>1, <3>1
  <2>4. CASE Synchronise  BY <2>2, <2>4 DEF Synchronise, SyncOrders
  <2>5. CASE \E v \in Users, o \in Orders : Acquire(v, o)  BY <2>2, <2>5 DEF Acquire
  <2>6. CASE Outbound
    BY <2>2, <2>6 DEF Outbound, CreateScan, ClosePeriod, ClearScans
  <2>7. ASSUME NEW v \in Users, NEW t \in Skus, NEW q \in 1..MaxInt,
               NEW o \in Orders \cup {NoOrder}, CreatePie(v, t, q, o)
        PROVE  u = v /\ s = t
    <3>1. Held(pies', u, s) = Held(pies, u, s) + (IF v = u /\ t = s THEN q ELSE 0)
      BY <2>0, <2>7, HeldMerged DEF CreatePie
    <3>2. Held(pies, u, s) \in Nat  BY <2>0, HeldShrinks
    <3> QED  BY <3>1, <3>2
  <2>8. ASSUME NEW v \in Users, NEW p \in pies, NEW q \in 1..MaxInt,
               NEW o \in Orders, AssignPie(v, p, o, q)
        PROVE  FALSE
    <3>1. /\ q <= p.qty /\ p.owner = v
          /\ Merge(Taken(pies, p, q), v, p.sku, o, q)
      BY <2>8 DEF AssignPie, AssignTakes
    <3>2. Held(pies', u, s) = Held(pies, u, s)  BY <3>1, MoveConserves
    <3>3. Held(pies, u, s) \in Nat  BY <2>0, HeldShrinks
    <3> QED  BY <3>2, <3>3
  <2>9. ASSUME NEW v \in Users, NEW p \in pies, NEW q \in 1..MaxInt, UnassignPie(v, p, q)
        PROVE  FALSE
    <3>1. /\ q <= p.qty /\ p.owner = v
          /\ Merge(Taken(pies, p, q), v, p.sku, NoOrder, q)
      BY <2>9 DEF UnassignPie
    <3>2. Held(pies', u, s) = Held(pies, u, s)  BY <3>1, MoveConserves
    <3>3. Held(pies, u, s) \in Nat  BY <2>0, HeldShrinks
    <3> QED  BY <3>2, <3>3
  <2>10. ASSUME NEW v \in Users, NEW p \in pies, NEW q \in 1..MaxInt, TakeOnly(v, p, q)
         PROVE  FALSE
    <3>1. q <= p.qty /\ pies' = Taken(pies, p, q)  BY <2>10 DEF TakeOnly
    <3>2. /\ Held(pies, u, s) \in Nat
          /\ Held(pies', u, s) = Held(pies, u, s) - (IF p.owner = u /\ p.sku = s THEN q ELSE 0)
      BY <2>0, <3>1, HeldTaken
    <3>3. q \in Nat  BY <2>0
    <3> QED  BY <3>2, <3>3
  <2>11. ASSUME NEW p \in pies, DeletePie(p) PROVE FALSE
    BY <2>1, <2>11 DEF DeletePie
  <2>12. CASE Picking
    BY <2>7, <2>8, <2>9, <2>10, <2>11, <2>12 DEF Picking
  <2> QED  BY <2>3, <2>4, <2>5, <2>6, <2>12 DEF Next
<1> QED  BY <1>1, InvHolds, PTL DEF Spec, OnlyPicksGive
=============================================================================
