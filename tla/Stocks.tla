------------------------------- MODULE Stocks -------------------------------
(***************************************************************************)
(* The inventory table warehouse.stocks and the one module that writes it, *)
(* services/queries/stocks.py.  Stock is a set of rows, not a function of  *)
(* item and shelf: the table has no unique constraint on (sku, location),  *)
(* every writer looks a row up with .first() or takes all rows of the      *)
(* item, and so two rows for one shelf are states of the program.          *)
(*                                                                         *)
(* Each operation is one step: the route handlers are coroutines that run  *)
(* their query function to its commit without an await, on the one event   *)
(* loop of the one API process, and no handler of the thread pool writes   *)
(* this table.                                                             *)
(***************************************************************************)
EXTENDS Integers, FiniteSets

CONSTANTS
    Skus,     \* the warehouse items
    Shelves,  \* location strings an operator may enter
    RowIds,   \* primary keys; their number bounds the rows held at once
    MaxInt    \* largest value of the INTEGER column "stock" (2^31 - 1)

ASSUME StockAssumption ==
    /\ IsFiniteSet(RowIds)
    /\ MaxInt \in Nat \ {0}

VARIABLES
    rows,     \* the committed rows of warehouse.stocks
    bypass    \* SINGLE_LOCATION_STOCK_BYPASS as the running process reads it

vars == <<rows, bypass>>

-----------------------------------------------------------------------------
(* Locations and rows *)

\* A location is the set of shelf names in it: {} is NULL, {a} the string of
\* one shelf, {a, b} the string "a, b" that WarehouseItem.location makes.
Locations == SUBSET Shelves
Nowhere == {}

Row == [id : RowIds, sku : Skus, loc : Locations, qty : 0..MaxInt]

RowsOf(R, s) == {r \in R : r.sku = s}
RowsAt(R, s, l) == {r \in RowsOf(R, s) : r.loc = l}

\* The units on the shelves: row r of quantity q stands for r's units 1..q.
Units(R) == UNION {{r} \X (1..r.qty) : r \in R}
Total(R) == Cardinality(Units(R))

FreshIds(R) == RowIds \ {r.id : r \in R}

\* Variant of ItemLocation that forgets to join the names into one string.
ItemLocationUnjoined(R, s) == {r.loc : r \in RowsOf(R, s)}

\* WarehouseItem.location: the distinct non-NULL locations joined by ", ".
ItemLocation(R, s) == UNION {r.loc : r \in RowsOf(R, s)}

\* Bound: an item one of whose rows already sits at a joined name "a, b" has a
\* location in which a name repeats ("a, a, b"), which a set cannot express.
JoinBound(s) ==
    \A r1, r2 \in RowsOf(rows, s) : Cardinality(r1.loc) <= 1 \/ r1.loc = r2.loc

\* Variant of Kept that never deletes an emptied row.
KeptEmpty(r, q) == {[r EXCEPT !.qty = q]}

\* What remains of row r once its quantity is q: a row at zero is deleted.
Kept(r, q) == IF q > 0 THEN {[r EXCEPT !.qty = q]} ELSE {}

\* INSERT of a row; the row is not kept when it holds nothing.
Inserted(i, s, l, q) == Kept([id |-> i, sku |-> s, loc |-> l, qty |-> 0], q)

-----------------------------------------------------------------------------
(* POST /stocks/update, many locations per item (the default) *)

NewQty(mode, old, n) == IF mode = "add" THEN old + n ELSE n

\* Set or add at a location for which the item has a row.  With two such rows
\* .first() returns either.
AdjustRow(s, l, mode, n) ==
    /\ ~bypass
    /\ \E r \in RowsAt(rows, s, l) :
          /\ NewQty(mode, r.qty, n) <= MaxInt
          /\ rows' = (rows \ {r}) \cup Kept(r, NewQty(mode, r.qty, n))
    /\ UNCHANGED bypass

\* Set or add where there is no row.  A request without a location ("given" is
\* FALSE) looks for a NULL row but inserts at the item's own location.
AdjustNew(s, l, given, mode, n) ==
    /\ ~bypass
    /\ given \/ (l = Nowhere /\ JoinBound(s))
    /\ RowsAt(rows, s, l) = {}
    /\ \E i \in FreshIds(rows) :
          rows' = rows \cup Inserted(i, s, IF given THEN l ELSE ItemLocation(rows, s), n)
    /\ UNCHANGED bypass

\* Variant of Transfer without the check that the source holds n units.
TransferUnchecked(s, from, to, n) ==
    /\ ~bypass
    /\ \E src \in RowsAt(rows, s, from) :
          \/ \E dst \in RowsAt(rows, s, to) :
                /\ dst.qty + n <= MaxInt
                /\ rows' = (rows \ {src, dst}) \cup Kept(src, src.qty - n)
                                               \cup Kept(dst, dst.qty + n)
          \/ /\ RowsAt(rows, s, to) = {}
             /\ \E i \in FreshIds(rows) :
                   rows' = (rows \ {src}) \cup Kept(src, src.qty - n)
                                          \cup Inserted(i, s, to, n)
    /\ UNCHANGED bypass

\* Move n units between two locations.
Transfer(s, from, to, n) ==
    /\ ~bypass
    /\ \E src \in RowsAt(rows, s, from) :
          /\ src.qty >= n
          /\ \/ \E dst \in RowsAt(rows, s, to) :
                   /\ dst.qty + n <= MaxInt
                   /\ rows' = (rows \ {src, dst}) \cup Kept(src, src.qty - n)
                                                  \cup Kept(dst, dst.qty + n)
             \/ /\ RowsAt(rows, s, to) = {}
                /\ \E i \in FreshIds(rows) :
                      rows' = (rows \ {src}) \cup Kept(src, src.qty - n)
                                             \cup Inserted(i, s, to, n)
    /\ UNCHANGED bypass

-----------------------------------------------------------------------------
(* POST /stocks/update, single-location bypass *)

\* No location in the request: one of the item's rows takes everything, the
\* others are deleted.  An item without rows has no location of its own
\* either, so whether the request held "" or nothing it is stored at NULL.
PoolInPlace(s, mode, n) ==
    /\ bypass
    /\ LET held == RowsOf(rows, s)
           q == NewQty(mode, Total(held), n)
       IN  /\ q <= MaxInt
           /\ \/ \E r \in held : rows' = (rows \ held) \cup Kept(r, q)
              \/ /\ held = {}
                 /\ \E i \in FreshIds(rows) :
                       rows' = rows \cup Inserted(i, s, ItemLocation(rows, s), n)
    /\ UNCHANGED bypass

\* Variant of PoolAt that leaves the rows at other locations in place.
PoolAtKeeping(s, l, mode, n) ==
    /\ bypass
    /\ LET here == RowsAt(rows, s, l)
           q == NewQty(mode, Total(here), n)
       IN  /\ q <= MaxInt
           /\ \E i \in FreshIds(rows \ here) :
                 rows' = (rows \ here) \cup Inserted(i, s, l, q)
    /\ UNCHANGED bypass

\* A location in the request: everything is gathered there first.
PoolAt(s, l, mode, n) ==
    /\ bypass
    /\ LET held == RowsOf(rows, s)
           q == NewQty(mode, Total(held), n)
       IN  /\ q <= MaxInt
           /\ \E i \in FreshIds(rows \ held) :
                 rows' = (rows \ held) \cup Inserted(i, s, l, q)
    /\ UNCHANGED bypass

\* A transfer moves all the item has, whatever the quantity asked for.
PoolTransfer(s, to, n) ==
    /\ bypass
    /\ LET held == RowsOf(rows, s)
       IN  /\ n <= Total(held)
           /\ Total(held) <= MaxInt
           /\ \E i \in FreshIds(rows \ held) :
                 rows' = (rows \ held) \cup Inserted(i, s, to, Total(held))
    /\ UNCHANGED bypass

-----------------------------------------------------------------------------
(* The stock side of POST /pick-items *)

\* Variant of Deduct that takes the whole quantity from each row of the item.
DeductFromEach(s, n) ==
    rows' = (rows \ RowsOf(rows, s)) \cup UNION {Kept(r, r.qty - n) : r \in RowsOf(rows, s)}

\* Rows are taken whole, in whatever order the query returns them, until the
\* remainder fits in one of them.
Deduct(s, n) ==
    \E gone \in SUBSET RowsOf(rows, s) :
       LET m == n - Total(gone)
       IN  \/ m = 0 /\ rows' = rows \ gone
           \/ \E r \in RowsOf(rows, s) \ gone :
                 /\ 0 < m /\ m < r.qty
                 /\ rows' = (rows \ (gone \cup {r})) \cup Kept(r, r.qty - m)

Pick(s, n) ==
    /\ \/ Total(RowsOf(rows, s)) < n /\ rows' = rows \ RowsOf(rows, s)
       \/ Total(RowsOf(rows, s)) >= n /\ Deduct(s, n)
    /\ UNCHANGED bypass

-----------------------------------------------------------------------------
\* The process is restarted, with the other value of the configuration.
SwitchMode ==
    /\ bypass' = ~bypass
    /\ UNCHANGED rows

\* The table starts empty and is filled through the API.
Init ==
    /\ rows = {}
    /\ bypass \in BOOLEAN

Modes == {"set", "add"}

\* StockCreate admits any quantity for set and add, a positive one for a
\* transfer between two different locations, and no transfer to nowhere.
Adjust(s, n) ==
    \E mode \in Modes, l \in Locations, given \in BOOLEAN :
       \/ (given \/ l = Nowhere) /\ AdjustRow(s, l, mode, n)
       \/ AdjustNew(s, l, given, mode, n)
       \/ l = Nowhere /\ PoolInPlace(s, mode, n)
       \/ l # Nowhere /\ PoolAt(s, l, mode, n)

Move(s, n) ==
    \E from \in Locations, to \in Locations \ {Nowhere} :
       /\ n > 0 /\ from # to
       /\ Transfer(s, from, to, n) \/ PoolTransfer(s, to, n)

Next ==
    \/ \E s \in Skus, n \in 0..MaxInt : Adjust(s, n)
    \/ \E s \in Skus, n \in 0..MaxInt : Move(s, n)
    \/ \E s \in Skus, n \in 1..MaxInt : Pick(s, n)
    \/ SwitchMode

Spec == Init /\ [][Next]_vars

-----------------------------------------------------------------------------
(* Properties *)

\* Every committed row is a row of the table: its quantity fits the column and
\* is never negative, and bypass is a flag.
TypeOK ==
    /\ rows \in SUBSET Row
    /\ bypass \in BOOLEAN

\* Primary keys are unique, and no row at zero survives a commit: each branch
\* of update_or_move_stock and of _reduce_stock_for_pick_db that can bring a row
\* to zero deletes it, so "has a row" means "has stock".
RowsSound ==
    /\ \A r1, r2 \in rows : r1.id = r2.id => r1 = r2
    /\ \A r \in rows : r.qty > 0

\* A transfer moves stock and makes none: whichever of the duplicate rows
\* .first() returns, wholly or partly moved, to a new or an old row, in both
\* modes, no item's total changes.
TransferConserves ==
    [][\A s \in Skus, n \in 1..MaxInt :
          Move(s, n) =>
             \A t \in Skus : Total(RowsOf(rows', t)) = Total(RowsOf(rows, t))]_vars

\* A pick takes exactly what was asked for, from however many rows it takes,
\* and all there is when that is less: stock is clamped at zero, never refused
\* and never negative, and no other item is touched.
PickDeductsExactly ==
    [][\A s \in Skus, n \in 1..MaxInt :
          Pick(s, n) =>
             /\ Total(RowsOf(rows', s)) =
                   IF Total(RowsOf(rows, s)) < n THEN 0 ELSE Total(RowsOf(rows, s)) - n
             /\ \A t \in Skus \ {s} : RowsOf(rows', t) = RowsOf(rows, t)]_vars

\* With the bypass on, an item in at most one place never comes to be in two,
\* and every adjustment or transfer of an item that the default mode left in
\* several places gathers it into one.
BypassConsolidates ==
    [][bypass /\ bypass' =>
          \A s \in Skus :
             /\ Cardinality(RowsOf(rows, s)) <= 1 => Cardinality(RowsOf(rows', s)) <= 1
             /\ (\E n \in 0..MaxInt : Adjust(s, n) \/ Move(s, n)) =>
                   Cardinality(RowsOf(rows', s)) <= 1]_rows

\* Stock is stored per item and location: one row for each.
OneRowPerLocation ==
    \A r1, r2 \in rows : r1.sku = r2.sku /\ r1.loc = r2.loc => r1 = r2
=============================================================================
