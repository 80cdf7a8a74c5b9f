----------------------------- MODULE Fulfilment -----------------------------
(***************************************************************************)
(* The order fulfilment workflow: operators claim synchronised orders,     *)
(* pick items for them, scan outbound labels; an administrator closes the  *)
(* period, clears scans and deletes operators.                             *)
(*                                                                         *)
(* Source: services/queries/{orders,pick_items,outbound,users}.py and the  *)
(* service functions that call them.  All these handlers are coroutines    *)
(* that run their queries without an await on one event loop, so each is   *)
(* one step.  A workflow that commits twice (assign, unassign) has a       *)
(* second action for the outcome in which the process or the database      *)
(* fails between the commits.  The stock side of a pick is module Stocks.  *)
(***************************************************************************)
EXTENDS Integers, FiniteSets

CONSTANTS
    Users,       \* operator names ("client" scope)
    Skus,        \* warehouse items
    Orders,      \* Shopee order numbers
    LabelOf,     \* the tracking number Shopee gives to each order's package
    Noise,       \* scanned texts that are neither
    PieIds,      \* keys of pick_item_entries; bounds the entries held at once
    ScanIds,     \* keys of outbound_items; bounds the scans held at once
    MaxInt,      \* largest value of the INTEGER column "qty" (2^31 - 1)
    OwnOrdersOnly,  \* picks name an order only when the operator has claimed it
    NoUser, NoOrder, NoLabel    \* NULL in the three columns

Labels == {LabelOf[o] : o \in Orders}

\* What a scanner can read.
Contents == Orders \cup Labels \cup Noise

ASSUME FulfilmentAssumption ==
    /\ MaxInt \in Nat \ {0}
    /\ IsFiniteSet(PieIds)
    /\ OwnOrdersOnly \in BOOLEAN
    /\ NoUser \notin Users
    /\ NoOrder \notin Orders
    /\ NoLabel \notin Contents
    /\ LabelOf \in [Orders -> Labels]
    /\ Labels \cap (Orders \cup Noise) = {} /\ Orders \cap Noise = {}
    /\ \A o1, o2 \in Orders : LabelOf[o1] = LabelOf[o2] => o1 = o2

VARIABLES
    users,     \* registered operators
    known,     \* orders with a row in shopee.orders
    owner,     \* owner_user of each order
    done,      \* orders completed
    tracking,  \* tracking_number stored for each order's package
    pies,      \* rows of orders.pick_item_entries
    scans      \* rows of orders.outbound_items

orderVars == <<known, owner, done, tracking>>
vars == <<users, orderVars, pies, scans>>

Pie == [id : PieIds, sku : Skus, qty : 0..MaxInt,
        order : Orders \cup {NoOrder}, owner : Users]

Scan == [id : ScanIds, content : Contents, owner : Users, closed : BOOLEAN]

FreshPies(P) == PieIds \ {p.id : p \in P}
FreshScans == ScanIds \ {x.id : x \in scans}

-----------------------------------------------------------------------------
(* Operators *)

\* register_client: refused while the name is taken.
Register(u) ==
    /\ u \notin users
    /\ users' = users \cup {u}
    /\ UNCHANGED <<orderVars, pies, scans>>

\* Variant of DeleteUser that leaves the operator's claims behind.
DeleteUserKeepingClaims(u) ==
    /\ u \in users
    /\ users' = users \ {u}
    /\ scans' = {x \in scans : x.owner # u}
    /\ pies' = {p \in pies : p.owner # u}
    /\ UNCHANGED orderVars

\* DELETE /admin/users: scans, pick entries and claims go with the operator.
DeleteUser(u) ==
    /\ u \in users
    /\ users' = users \ {u}
    /\ scans' = {x \in scans : x.owner # u}
    /\ pies' = {p \in pies : p.owner # u}
    /\ owner' = [o \in Orders |-> IF owner[o] = u THEN NoUser ELSE owner[o]]
    /\ UNCHANGED <<known, done, tracking>>

-----------------------------------------------------------------------------
(* Orders *)

\* What one synchronisation has learnt of an order: its row is written either
\* way; the tracking number is kept when the order is READY_TO_SHIP, has no
\* package or its package is in fail_list, replaced when success_list has it,
\* and reset when the request for tracking numbers brought neither.
Outcomes == {"kept", "tracked", "missing"}

\* sync_shopee_orders_to_db: one transaction for all the orders fetched.
SyncOrders(fetched) ==
    /\ known' = known \cup DOMAIN fetched
    /\ tracking' = [o \in Orders |->
                      IF o \notin DOMAIN fetched \/ fetched[o] = "kept" THEN tracking[o]
                      ELSE IF fetched[o] = "tracked" THEN LabelOf[o] ELSE NoLabel]
    /\ UNCHANGED <<users, owner, done, pies, scans>>

\* Variant of Acquire without the check that the order is free.
AcquireTaken(u, o) ==
    /\ u \in users
    /\ o \in known
    /\ owner' = [owner EXCEPT ![o] = u]
    /\ UNCHANGED <<users, known, done, tracking, pies, scans>>

\* POST /shopee/orders/acquire: refused when another operator has the order.
Acquire(u, o) ==
    /\ u \in users
    /\ o \in known
    /\ owner[o] \in {NoUser, u}
    /\ owner' = [owner EXCEPT ![o] = u]
    /\ UNCHANGED <<users, known, done, tracking, pies, scans>>

-----------------------------------------------------------------------------
(* Pick entries *)

Mine(P, u, s, o) == {p \in P : p.owner = u /\ p.sku = s /\ p.order = o}

\* Variant of Merge whose sums are not refused.
MergeWide(P, u, s, o, q) ==
    \/ \E p \in Mine(P, u, s, o) : pies' = (P \ {p}) \cup {[p EXCEPT !.qty = @ + q]}
    \/ /\ Mine(P, u, s, o) = {}
       /\ \E i \in FreshPies(P) :
             pies' = P \cup {[id |-> i, sku |-> s, qty |-> q, order |-> o, owner |-> u]}

\* merge_or_create_pie: add to the operator's entry for the item and order, or
\* make one.  A sum too large for the column is refused by the database.
Merge(P, u, s, o, q) ==
    \/ \E p \in Mine(P, u, s, o) :
          /\ p.qty + q <= MaxInt
          /\ pies' = (P \ {p}) \cup {[p EXCEPT !.qty = @ + q]}
    \/ /\ Mine(P, u, s, o) = {}
       /\ \E i \in FreshPies(P) :
             pies' = P \cup {[id |-> i, sku |-> s, qty |-> q, order |-> o, owner |-> u]}

\* Variant of Taken that keeps an emptied entry.
TakenKeepingEmpty(P, p, q) == (P \ {p}) \cup {[p EXCEPT !.qty = @ - q]}

\* P after q units are taken from entry p, which is deleted when emptied.
Taken(P, p, q) ==
    (P \ {p}) \cup (IF q < p.qty THEN {[p EXCEPT !.qty = @ - q]} ELSE {})

\* The orders a pick may name: any row of shopee.orders satisfies the foreign
\* key; the client app sends the order it has open, which its operator claimed.
PickTargets(u) ==
    IF OwnOrdersOnly THEN {o \in known : owner[o] = u} ELSE known

\* POST /pick-items.
CreatePie(u, s, q, o) ==
    /\ u \in users
    /\ o \in PickTargets(u) \cup {NoOrder}
    /\ Merge(pies, u, s, o, q)
    /\ UNCHANGED <<users, orderVars, scans>>

\* Variant of AssignTakes for any order there is, claimed or not.
AssignTakesAny(u, p, o) ==
    /\ u \in users
    /\ p.owner = u
    /\ o \in known

\* The first transaction of POST /pick-items/{id}/assign: the entry and the
\* order must be the operator's own.  No quantity means all of it, and so does
\* one above it; the entry may already be on an order.
AssignTakes(u, p, o) ==
    /\ u \in users
    /\ p.owner = u
    /\ o \in known /\ owner[o] = u

\* Variant of AssignPie that adds the quantity asked for, not the one taken.
AssignPieUnclamped(u, p, o, q) ==
    /\ AssignTakes(u, p, o)
    /\ Merge(Taken(pies, p, q), u, p.sku, o, q)
    /\ UNCHANGED <<users, orderVars, scans>>

\* The whole of it: the units reach an entry on the order.
AssignPie(u, p, o, q) ==
    /\ AssignTakes(u, p, o)
    /\ q <= p.qty
    /\ Merge(Taken(pies, p, q), u, p.sku, o, q)
    /\ UNCHANGED <<users, orderVars, scans>>

\* The first transaction of POST /pick-items/unassign takes up to the quantity
\* asked for from the operator's entry for the item on the order.
UnassignPie(u, p, q) ==
    /\ u \in users
    /\ p.owner = u /\ p.order # NoOrder
    /\ q <= p.qty
    /\ Merge(Taken(pies, p, q), u, p.sku, NoOrder, q)
    /\ UNCHANGED <<users, orderVars, scans>>

\* The merge's own transaction fails, or never starts, after the first of
\* either workflow has committed: the units taken are in no entry.
TakeOnly(u, p, q) ==
    /\ \/ \E o \in Orders : AssignTakes(u, p, o)
       \/ u \in users /\ p.owner = u /\ p.order # NoOrder
    /\ q <= p.qty
    /\ pies' = Taken(pies, p, q)
    /\ UNCHANGED <<users, orderVars, scans>>

\* DELETE /pick-items/{id}, by its owner or by an administrator.
DeletePie(p) ==
    /\ pies' = pies \ {p}
    /\ UNCHANGED <<users, orderVars, scans>>

-----------------------------------------------------------------------------
(* Outbound scans *)

Open(S) == {x \in S : ~x.closed}
OpenFor(S, C) == {x \in Open(S) : x.content \in C}

\* POST /outbound: refused while the operator has the text among open scans.
CreateScan(u, c) ==
    /\ u \in users
    /\ \A x \in Open(scans) : ~(x.owner = u /\ x.content = c)
    /\ \E i \in FreshScans :
          scans' = scans \cup {[id |-> i, content |-> c, owner |-> u, closed |-> FALSE]}
    /\ UNCHANGED <<users, orderVars, pies>>

\* The orders a set of scanned texts stands for: by order number, else by
\* tracking number.
Matched(C) ==
    {o \in known : o \in C \/ (tracking[o] # NoLabel /\ tracking[o] \in C)}

\* POST /outbound/close: every operator's open scans of the submitted texts
\* are closed and the matching orders completed, in one transaction.
ClosePeriod(C) ==
    /\ C # {}
    /\ scans' = (scans \ OpenFor(scans, C))
                   \cup {[x EXCEPT !.closed = TRUE] : x \in OpenFor(scans, C)}
    /\ done' = done \cup Matched(C)
    /\ UNCHANGED <<users, known, owner, tracking, pies>>

\* The "unknown" count the close returns.
UnknownCount(C) == Cardinality(C) - Cardinality(OpenFor(scans, C))

\* DELETE /admin/clear/outbound-items.
ClearScans ==
    /\ scans' = {}
    /\ UNCHANGED <<users, orderVars, pies>>

-----------------------------------------------------------------------------
Init ==
    /\ users = {}
    /\ known = {}
    /\ owner = [o \in Orders |-> NoUser]
    /\ done = {}
    /\ tracking = [o \in Orders |-> NoLabel]
    /\ pies = {}
    /\ scans = {}

Synchronise == \E S \in SUBSET Orders : \E fetched \in [S -> Outcomes] : SyncOrders(fetched)

Picking ==
    \/ \E u \in Users, s \in Skus, q \in 1..MaxInt, o \in Orders \cup {NoOrder} :
          CreatePie(u, s, q, o)
    \/ \E u \in Users, p \in pies, o \in Orders, q \in 1..MaxInt : AssignPie(u, p, o, q)
    \/ \E u \in Users, p \in pies, q \in 1..MaxInt : UnassignPie(u, p, q)
    \/ \E u \in Users, p \in pies, q \in 1..MaxInt : TakeOnly(u, p, q)
    \/ \E p \in pies : DeletePie(p)

Outbound ==
    \/ \E u \in Users, c \in Contents : CreateScan(u, c)
    \/ \E C \in SUBSET Contents : ClosePeriod(C)
    \/ ClearScans

Next ==
    \/ \E u \in Users : Register(u) \/ DeleteUser(u)
    \/ Synchronise
    \/ \E u \in Users, o \in Orders : Acquire(u, o)
    \/ Picking
    \/ Outbound

Spec == Init /\ [][Next]_vars

-----------------------------------------------------------------------------
(* Properties *)

\* The rows of every table fit their columns.
TypeOK ==
    /\ users \in SUBSET Users
    /\ known \in SUBSET Orders
    /\ owner \in [Orders -> Users \cup {NoUser}]
    /\ done \in SUBSET Orders
    /\ tracking \in [Orders -> Labels \cup {NoLabel}]
    /\ pies \in SUBSET Pie
    /\ scans \in SUBSET Scan

\* Whoever deletes operators and whatever was in flight: nothing refers to an
\* operator or an order that is not there, so no deletion is refused by a
\* foreign key and no row outlives its operator.
NothingDangles ==
    /\ \A o \in Orders : owner[o] # NoUser => owner[o] \in users /\ o \in known
    /\ \A p \in pies : p.owner \in users /\ (p.order # NoOrder => p.order \in known)
    /\ \A x \in scans : x.owner \in users
    /\ done \subseteq known

\* An operator has one entry for an item and an order, never an empty one,
\* however assignments, returns, merges and failures between their commits
\* interleave: what .first() finds is all there is.
EntriesMerged ==
    /\ \A p1, p2 \in pies :
          p1.id = p2.id \/ <<p1.owner, p1.sku, p1.order>> = <<p2.owner, p2.sku, p2.order>>
             => p1 = p2
    /\ \A p \in pies : p.qty > 0

\* Two operators never hold picked units for the same order, through claims,
\* assignments, deletions of operators and later claims by others (given that
\* the app names only claimed orders in a pick).
OneOperatorPerOrder ==
    \A p \in pies : p.order # NoOrder => owner[p.order] = p.owner

\* An operator has at most one open scan of a text.
OpenScansDistinct ==
    \A x1, x2 \in Open(scans) :
       x1.owner = x2.owner /\ x1.content = x2.content => x1 = x2

\* A claim is exclusive and lasting: no claim by another, no synchronisation
\* and no closing takes an order from its operator; only deleting the operator
\* does, and then it is free before anybody else has it.
ClaimsHold ==
    [][\A o \in Orders :
          owner[o] # NoUser /\ owner'[o] # owner[o] =>
             owner'[o] = NoUser /\ owner[o] \notin users']_vars

\* Units an operator holds of an item, over all the entries.
Held(P, u, s) ==
    Cardinality(UNION {{p} \X (1..p.qty) : p \in {r \in P : r.owner = u /\ r.sku = s}})

\* Assigning picked units to an order, and returning them, moves them between
\* the operator's own entries and changes no quantity held by anyone, whether
\* the target entry exists, is the source itself, or has to be made.
MovesConserve ==
    [][\A u \in Users, p \in pies, q \in 1..MaxInt :
          ((\E o \in Orders : AssignPie(u, p, o, q)) \/ UnassignPie(u, p, q)) =>
             \A v \in Users, s \in Skus : Held(pies', v, s) = Held(pies, v, s)]_vars

\* A completed order stays completed and a known order known: later
\* synchronisations of the same order, claims and clearing scans included.
DoneIsFinal == [][done \subseteq done' /\ known \subseteq known']_vars

\* The count of submitted values without an open scan is not negative.
UnknownNotNegative ==
    [][\A C \in SUBSET Contents : ClosePeriod(C) => UnknownCount(C) >= 0]_vars
=============================================================================
