---------------------------------- MODULE Bom ----------------------------------
(***************************************************************************)
(* Bills of material: the lines of an order are expanded into the          *)
(* warehouse components to pick.                                           *)
(*                                                                         *)
(* Source: build_shopee_order_response in services/shopee_service.py,      *)
(* resolve_shopee_order_bom_tree in services/queries/orders.py and         *)
(* services/queries/bom.py.  The tables are filled from outside: nothing   *)
(* in the program writes them, and nothing in their schema forbids a       *)
(* cycle.  The recursion of get_standard_bom_node_internal is the stack of *)
(* the nodes still to be visited; the tree it builds and                   *)
(* flatten_bom_tree walks again is left out, since only its leaves count.  *)
(***************************************************************************)
EXTENDS Integers, Sequences, FiniteSets, SequencesExt

CONSTANTS
    Skus,       \* warehouse items
    Products,   \* Shopee's item and model ids
    Rows,       \* bound: rows of bom_details
    Offers,     \* bound: rows of bom_details_marketplace
    Lines,      \* bound: lines of an order
    Qtys,       \* quantities of a standard row
    SoldQtys    \* quantities of a line, a listing or its rows: 0 for NULL

ASSUME BomAssumption ==
    /\ IsFiniteSet(Skus)
    /\ Skus \intersect Products = {}
    /\ {Rows, Offers, Lines} \subseteq Nat
    /\ Qtys \subseteq Nat /\ SoldQtys \subseteq Nat

Row(S) == [of : S, part : Skus, qty : IF S = Skus THEN Qtys ELSE SoldQtys]
Line == [product : Products, sku : Skus, qty : SoldQtys]

VARIABLES
    headers,    \* bom_headers: the items that have a bill of material
    rows,       \* bom_details, by id
    listed,     \* bom_headers_marketplace: quantity_standard of each listing
    offers,     \* bom_details_marketplace, by id
    stack,      \* nodes to visit: item, quantity, items above it
    parts,      \* components_map
    taken       \* lines of the order taken so far

tables == <<headers, rows, listed, offers>>
vars == <<tables, stack, parts, taken>>

OrOne(n) == IF n = 0 THEN 1 ELSE n
Node(s, n, path) == [sku |-> s, qty |-> n, above |-> path]

-----------------------------------------------------------------------------
Init ==
    /\ headers \in SUBSET Skus
    /\ rows \in BoundedSeq(Row(Skus), Rows)
    /\ \A i \in DOMAIN rows : rows[i].of \in headers
    /\ \E P \in SUBSET Products : listed \in [P -> SoldQtys]
    /\ offers \in BoundedSeq(Row(Products), Offers)
    /\ \A i \in DOMAIN offers : offers[i].of \in DOMAIN listed
    /\ stack = <<>>
    /\ parts = [s \in Skus \union Products |-> 0]
    /\ taken = <<>>

\* What a query for the rows of s may return: it asks for no order.
Of(table, s) ==
    {[k \in DOMAIN ids |-> table[ids[k]]] :
        ids \in SetToSeqs({i \in DOMAIN table : table[i].of = s})}

\* components_map is keyed by SKU, name and location of the stock; what its
\* keys of one SKU hold together is all that counts here.
Add(s, n) == parts' = [parts EXCEPT ![s] = @ + n]

\* The listing of a marketplace product, itself the component when it has no
\* rows.
Listing(l) ==
    LET n == OrOne(l.qty) * OrOne(listed[l.product]) IN
    \E own \in Of(offers, l.product) :
       /\ stack' = [i \in DOMAIN own |-> Node(own[i].part, OrOne(own[i].qty) * n, <<>>)]
       /\ IF own = <<>> THEN Add(l.product, n) ELSE UNCHANGED parts

\* The next line of the order: its listing, or the bill of material of its
\* item, or the item itself.
Take(l) ==
    /\ stack = <<>> /\ Len(taken) < Lines
    /\ taken' = Append(taken, l)
    /\ \/ l.product \in DOMAIN listed /\ Listing(l)
       \/ /\ l.product \notin DOMAIN listed
          /\ IF l.sku \in headers
               THEN stack' = <<Node(l.sku, OrOne(l.qty), <<>>)>> /\ UNCHANGED parts
               ELSE Add(l.sku, OrOne(l.qty)) /\ UNCHANGED stack
    /\ UNCHANGED tables

\* Variant of Cut that trusts the tables to hold no cycle.
NeverCut(node) == FALSE

\* An item that is above itself is not expanded again.
Cut(node) == \E i \in DOMAIN node.above : node.above[i] = node.sku

\* Variant of Children that does not multiply on the way down.
ChildrenOfOne(node, own) ==
    IF Cut(node) THEN <<>>
    ELSE [i \in DOMAIN own |-> Node(own[i].part, own[i].qty, Append(node.above, node.sku))]

\* One for each of the item's own rows.
Children(node, own) ==
    IF Cut(node) THEN <<>>
    ELSE [i \in DOMAIN own |-> Node(own[i].part, own[i].qty * node.qty,
                                    Append(node.above, node.sku))]

\* A node without children is a component.
Visit ==
    /\ stack # <<>>
    /\ LET node == Head(stack) IN
       \E own \in Of(rows, node.sku) :
         /\ stack' = Children(node, own) \o Tail(stack)
         /\ IF Children(node, own) = <<>> THEN Add(node.sku, node.qty) ELSE UNCHANGED parts
    /\ UNCHANGED <<tables, taken>>

\* The response is sent; the next order begins with an empty map.
Answer ==
    /\ stack = <<>> /\ taken # <<>>
    /\ taken' = <<>>
    /\ parts' = [s \in Skus \union Products |-> 0]
    /\ UNCHANGED <<tables, stack>>

Next == (\E l \in Line : Take(l)) \/ Visit \/ Answer

Spec == Init /\ [][Next]_vars

-----------------------------------------------------------------------------
(* Reference: the quantities of all items at one level, from those of the  *)
(* level above; what is needed in all is the sum over the levels.          *)

Deepest == Cardinality(Skus)

Levels(top) ==
    LET level[k \in 0..Deepest] ==
          IF k = 0 THEN top
          ELSE [s \in Skus |->
                 SumFunctionOnSet([i \in DOMAIN rows |-> level[k-1][rows[i].of] * rows[i].qty],
                     {i \in DOMAIN rows : rows[i].part = s})]
    IN level

HasRows(s) == \E i \in DOMAIN rows : rows[i].of = s

Needed(top) ==
    [s \in Skus |-> IF HasRows(s) THEN 0
                    ELSE SumFunctionOnSet([k \in 0..Deepest |-> Levels(top)[k][s]], 0..Deepest)]

\* What a line asks for at the top level.
Top(l) ==
    IF l.product \in DOMAIN listed
      THEN [s \in Skus |->
             OrOne(l.qty) * OrOne(listed[l.product])
               * SumFunctionOnSet([i \in DOMAIN offers |-> OrOne(offers[i].qty)],
                     {i \in DOMAIN offers : offers[i].of = l.product /\ offers[i].part = s})]
      ELSE [s \in Skus |-> IF s = l.sku THEN OrOne(l.qty) ELSE 0]

\* No item is, however far down, a part of itself.
Acyclic ==
    LET below[k \in 0..Deepest] ==
          IF k = 0 THEN Skus
          ELSE {rows[i].part : i \in {j \in DOMAIN rows : rows[j].of \in below[k-1]}}
    IN below[Deepest] = {}

-----------------------------------------------------------------------------
(* Properties *)

\* Between two lines the map holds, for each warehouse item, what the lines
\* so far need of it: over every path of the bills of material, shared
\* sub-assemblies as often as they are used, and the sum over lines that
\* meet in one component.  About get_standard_bom_node_internal,
\* flatten_bom_tree and components_map.
TotalsRight ==
    Acyclic /\ stack = <<>> =>
        \A s \in Skus :
            parts[s] = SumFunctionOnSet([i \in DOMAIN taken |-> Needed(Top(taken[i]))[s]], DOMAIN taken)

\* The expansion never goes deeper than there are items, whatever cycles the
\* tables hold.  About the set of visited items, which each branch has for
\* itself.
RecursionBounded == \A i \in DOMAIN stack : Len(stack[i].above) <= Deepest
================================================================================
