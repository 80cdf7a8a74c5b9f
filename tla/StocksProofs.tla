---------------------------- MODULE StocksProofs ----------------------------
(* Theorems about Stocks, for every set of items, shelves and rows. *)
EXTENDS Stocks, FiniteSetTheorems, TLAPS

\* What is kept of a row of the table is at most that row, still of the table.
LEMMA KeptType ==
    ASSUME NEW r \in Row, NEW q \in Int, q <= MaxInt
    PROVE  /\ Kept(r, q) \in SUBSET Row
           /\ \A k \in Kept(r, q) : k.id = r.id /\ k.sku = r.sku /\ k.loc = r.loc
                                    /\ k.qty = q /\ q > 0
           /\ \A k1, k2 \in Kept(r, q) : k1 = k2
  BY StockAssumption DEF Kept, Row

LEMMA InsertedType ==
    ASSUME NEW i \in RowIds, NEW s \in Skus, NEW l \in Locations, NEW q \in Int, q <= MaxInt
    PROVE  /\ Inserted(i, s, l, q) \in SUBSET Row
           /\ \A k \in Inserted(i, s, l, q) : k.id = i /\ k.sku = s /\ k.loc = l
                                              /\ k.qty = q /\ q > 0
           /\ \A k1, k2 \in Inserted(i, s, l, q) : k1 = k2
  <1>1. [id |-> i, sku |-> s, loc |-> l, qty |-> 0] \in Row
    BY StockAssumption DEF Row
  <1>2. QED
    BY <1>1, KeptType DEF Inserted

LEMMA ItemLocationType ==
    ASSUME NEW R \in SUBSET Row, NEW s \in Skus
    PROVE  ItemLocation(R, s) \in Locations
  BY DEF ItemLocation, RowsOf, Row, Locations

-----------------------------------------------------------------------------
(* Finiteness, and the type of totals *)

LEMMA FiniteRows ==
    ASSUME NEW R \in SUBSET Row, \A r1, r2 \in R : r1.id = r2.id => r1 = r2
    PROVE  IsFiniteSet(R)
  <1> DEFINE f == [r \in R |-> r.id]
  <1>1. f \in Injection(R, RowIds)
    BY DEF Injection, IsInjective, Row
  <1>2. QED
    BY <1>1, FS_Injection, StockAssumption

LEMMA UnitsFinite ==
    ASSUME NEW R \in SUBSET Row, IsFiniteSet(R)
    PROVE  IsFiniteSet(Units(R))
  <1>1. IsFiniteSet(R \X (1..MaxInt))
    <2>1. 1 \in Int /\ MaxInt \in Int
      BY StockAssumption
    <2>2. IsFiniteSet(1..MaxInt)
      BY <2>1, FS_Interval
    <2>3. QED
      BY <2>2, FS_Product
  <1>2. Units(R) \subseteq R \X (1..MaxInt)
    BY StockAssumption DEF Units, Row
  <1>3. QED
    BY <1>1, <1>2, FS_Subset

LEMMA TotalNat ==
    ASSUME NEW R \in SUBSET Row, IsFiniteSet(R)
    PROVE  Total(R) \in Nat
  BY UnitsFinite, FS_CardinalityType DEF Total

-----------------------------------------------------------------------------
(* The invariant *)

\* TypeOK and RowsSound are inductive together.
IInv == TypeOK /\ RowsSound

LEMMA InvTotals ==
    ASSUME IInv, NEW R \in SUBSET rows
    PROVE  /\ R \in SUBSET Row
           /\ IsFiniteSet(R)
           /\ Total(R) \in Nat
  <1>1. R \in SUBSET Row /\ \A r1, r2 \in R : r1.id = r2.id => r1 = r2
    BY DEF IInv, TypeOK, RowsSound
  <1>2. IsFiniteSet(R)
    BY <1>1, FiniteRows
  <1>3. QED
    BY <1>1, <1>2, TotalNat

\* Every operation keeps some rows and writes a few: the invariant survives
\* when those written are rows of the table, hold something and have keys of
\* their own.
LEMMA RowsReplaced ==
    ASSUME IInv, NEW R \in SUBSET rows, NEW K \in SUBSET Row,
           rows' = R \cup K, bypass' = bypass,
           \A k \in K : k.qty > 0,
           \A k \in K, r \in R : k.id # r.id,
           \A k1, k2 \in K : k1.id = k2.id => k1 = k2
    PROVE  IInv'
  BY DEF IInv, TypeOK, RowsSound

LEMMA RowRewritten ==
    ASSUME IInv, NEW r \in rows, NEW R \in SUBSET (rows \ {r}),
           NEW q \in Int, q <= MaxInt,
           rows' = R \cup Kept(r, q), bypass' = bypass
    PROVE  IInv'
  <1>1. /\ Kept(r, q) \in SUBSET Row
        /\ \A k \in Kept(r, q) : k.id = r.id /\ k.qty > 0
        /\ \A k1, k2 \in Kept(r, q) : k1 = k2
    BY KeptType DEF IInv, TypeOK
  <1>2. \A x \in R : x.id # r.id
    BY DEF IInv, RowsSound
  <1>3. QED
    BY <1>1, <1>2, RowsReplaced

LEMMA AdjustRowInv ==
    ASSUME IInv, NEW s \in Skus, NEW l \in Locations, NEW mode \in Modes, NEW n \in 0..MaxInt,
           AdjustRow(s, l, mode, n)
    PROVE  IInv'
  <1>1. PICK r \in RowsAt(rows, s, l) :
          /\ NewQty(mode, r.qty, n) <= MaxInt
          /\ rows' = (rows \ {r}) \cup Kept(r, NewQty(mode, r.qty, n))
    BY DEF AdjustRow
  <1>2. r \in rows /\ r \in Row
    BY DEF RowsAt, RowsOf, IInv, TypeOK
  <1>3. NewQty(mode, r.qty, n) \in Int
    BY <1>2, StockAssumption DEF NewQty, Row
  <1>4. PICK q \in Int : q = NewQty(mode, r.qty, n)
    BY <1>3
  <1>5. rows' = (rows \ {r}) \cup Kept(r, q) /\ q <= MaxInt /\ bypass' = bypass
    BY <1>1, <1>4 DEF AdjustRow
  <1>6. QED
    BY <1>2, <1>5, RowRewritten

LEMMA FreshId ==
    ASSUME NEW R, NEW i \in FreshIds(R)
    PROVE  i \in RowIds /\ \A r \in R : r.id # i
  BY DEF FreshIds

\* The shape shared by every operation that stores an item at one location
\* after removing some of its rows, none of them when there is nothing yet.
LEMMA StoredAt ==
    ASSUME IInv, NEW R \in SUBSET rows, NEW i \in FreshIds(R), NEW s \in Skus,
           NEW l \in Locations, NEW q \in Int, q <= MaxInt,
           rows' = R \cup Inserted(i, s, l, q), bypass' = bypass
    PROVE  IInv'
  <1>1. /\ Inserted(i, s, l, q) \in SUBSET Row
        /\ \A k \in Inserted(i, s, l, q) : k.id = i /\ k.qty > 0
        /\ \A k1, k2 \in Inserted(i, s, l, q) : k1 = k2
    BY InsertedType, FreshId
  <1>2. QED
    BY <1>1, FreshId, RowsReplaced

LEMMA AdjustNewInv ==
    ASSUME IInv, NEW s \in Skus, NEW l \in Locations, NEW given \in BOOLEAN,
           NEW mode \in Modes, NEW n \in 0..MaxInt, AdjustNew(s, l, given, mode, n)
    PROVE  IInv'
  <1> DEFINE where == IF given THEN l ELSE ItemLocation(rows, s)
  <1>1. PICK i \in FreshIds(rows) : rows' = rows \cup Inserted(i, s, where, n)
    BY DEF AdjustNew
  <1>2. where \in Locations
    BY ItemLocationType DEF IInv, TypeOK
  <1>3. bypass' = bypass /\ n \in Int /\ n <= MaxInt
    BY StockAssumption DEF AdjustNew
  <1> HIDE DEF where
  <1>4. QED
    BY <1>1, <1>2, <1>3, StoredAt

LEMMA TransferInv ==
    ASSUME IInv, NEW s \in Skus, NEW from \in Locations, NEW to \in Locations, from # to,
           NEW n \in 1..MaxInt, Transfer(s, from, to, n)
    PROVE  IInv'
  <1>1. PICK src \in RowsAt(rows, s, from) :
          /\ src.qty >= n
          /\ \/ \E dst \in RowsAt(rows, s, to) :
                   /\ dst.qty + n <= MaxInt
                   /\ rows' = (rows \ {src, dst}) \cup Kept(src, src.qty - n)
                                                  \cup Kept(dst, dst.qty + n)
             \/ /\ RowsAt(rows, s, to) = {}
                /\ \E i \in FreshIds(rows) :
                      rows' = (rows \ {src}) \cup Kept(src, src.qty - n)
                                             \cup Inserted(i, s, to, n)
    BY DEF Transfer
  <1>2. src \in rows /\ src \in Row /\ src.loc = from /\ src.qty \in 0..MaxInt
    BY DEF RowsAt, RowsOf, IInv, TypeOK, Row
  <1>3. PICK m \in Int : m = src.qty - n /\ m <= MaxInt
    BY <1>2, StockAssumption
  <1>4. /\ Kept(src, m) \in SUBSET Row
        /\ \A k \in Kept(src, m) : k.id = src.id /\ k.qty > 0
        /\ \A k1, k2 \in Kept(src, m) : k1 = k2
    BY <1>2, <1>3, KeptType
  <1>5. bypass' = bypass /\ n \in Int /\ n <= MaxInt
    BY StockAssumption DEF Transfer
  <1>6. CASE \E dst \in RowsAt(rows, s, to) :
                   /\ dst.qty + n <= MaxInt
                   /\ rows' = (rows \ {src, dst}) \cup Kept(src, src.qty - n)
                                                  \cup Kept(dst, dst.qty + n)
    <2>1. PICK dst \in RowsAt(rows, s, to) :
                   /\ dst.qty + n <= MaxInt
                   /\ rows' = (rows \ {src, dst}) \cup Kept(src, src.qty - n)
                                                  \cup Kept(dst, dst.qty + n)
      BY <1>6
    <2>2. dst \in rows /\ dst \in Row /\ dst.loc = to /\ dst.qty \in 0..MaxInt
      BY DEF RowsAt, RowsOf, IInv, TypeOK, Row
    <2>3. PICK d \in Int : d = dst.qty + n
      BY <2>2, <1>5, StockAssumption
    <2>4. /\ Kept(dst, d) \in SUBSET Row
          /\ \A k \in Kept(dst, d) : k.id = dst.id /\ k.qty > 0
          /\ \A k1, k2 \in Kept(dst, d) : k1 = k2
      BY <2>1, <2>2, <2>3, KeptType
    <2>5. src.id # dst.id
      BY <1>2, <2>2 DEF IInv, RowsSound
    <2>6. PICK K \in SUBSET Row : K = Kept(src, m) \cup Kept(dst, d)
      BY <1>4, <2>4
    <2>7. /\ rows' = (rows \ {src, dst}) \cup K
          /\ \A k \in K : k.qty > 0
          /\ \A k \in K : k.id = src.id \/ k.id = dst.id
          /\ \A k1, k2 \in K : k1.id = k2.id => k1 = k2
      BY <2>1, <1>3, <2>3, <2>6, <1>4, <2>4, <2>5
    <2>8. \A k \in K, r \in rows \ {src, dst} : k.id # r.id
      BY <2>7, <1>2, <2>2 DEF IInv, RowsSound
    <2>9. QED
      BY <2>7, <2>8, <1>5, RowsReplaced
  <1>7. CASE \E i \in FreshIds(rows) :
                      rows' = (rows \ {src}) \cup Kept(src, src.qty - n)
                                             \cup Inserted(i, s, to, n)
    <2>1. PICK i \in FreshIds(rows) :
                      rows' = (rows \ {src}) \cup Kept(src, src.qty - n)
                                             \cup Inserted(i, s, to, n)
      BY <1>7
    <2>2. i \in RowIds /\ \A r \in rows : r.id # i
      BY FreshId
    <2>3. /\ Inserted(i, s, to, n) \in SUBSET Row
          /\ \A k \in Inserted(i, s, to, n) : k.id = i /\ k.qty > 0
          /\ \A k1, k2 \in Inserted(i, s, to, n) : k1 = k2
      BY <1>5, <2>2, InsertedType
    <2>4. PICK K \in SUBSET Row : K = Kept(src, m) \cup Inserted(i, s, to, n)
      BY <1>4, <2>3
    <2>5. /\ rows' = (rows \ {src}) \cup K
          /\ \A k \in K : k.qty > 0
          /\ \A k \in K : k.id = src.id \/ k.id = i
          /\ \A k1, k2 \in K : k1.id = k2.id => k1 = k2
      BY <2>1, <1>2, <1>3, <2>2, <2>4, <1>4, <2>3
    <2>6. \A k \in K, r \in rows \ {src} : k.id # r.id
      BY <2>5, <2>2, <1>2 DEF IInv, RowsSound
    <2>7. QED
      BY <2>5, <2>6, <1>5, RowsReplaced
  <1>8. QED
    BY <1>1, <1>6, <1>7

LEMMA PoolInPlaceInv ==
    ASSUME IInv, NEW s \in Skus, NEW mode \in Modes, NEW n \in 0..MaxInt,
           PoolInPlace(s, mode, n)
    PROVE  IInv'
  <1>1. PICK held \in SUBSET rows : held = RowsOf(rows, s)
    BY DEF RowsOf
  <1>2. Total(held) \in Nat
    BY <1>1, InvTotals
  <1>3. NewQty(mode, Total(held), n) \in Int
    BY <1>2 DEF NewQty
  <1>4. PICK q \in Int : q = NewQty(mode, Total(held), n)
    BY <1>3
  <1>5. /\ q <= MaxInt
        /\ bypass' = bypass
        /\ \/ \E r \in held : rows' = (rows \ held) \cup Kept(r, q)
           \/ /\ held = {}
              /\ \E i \in FreshIds(rows) :
                    rows' = rows \cup Inserted(i, s, ItemLocation(rows, s), n)
    BY <1>1, <1>4 DEF PoolInPlace
  <1>6. ASSUME NEW r \in held, rows' = (rows \ held) \cup Kept(r, q)
        PROVE  IInv'
    BY <1>6, <1>5, <1>1, RowRewritten
  <1>7. ASSUME NEW i \in FreshIds(rows),
               rows' = rows \cup Inserted(i, s, ItemLocation(rows, s), n)
        PROVE  IInv'
    <2>1. ItemLocation(rows, s) \in Locations
      BY ItemLocationType DEF IInv, TypeOK
    <2>2. n \in Int /\ n <= MaxInt
      BY StockAssumption
    <2>3. QED
      BY <2>1, <2>2, <1>5, <1>7, StoredAt
  <1>8. QED
    BY <1>5, <1>6, <1>7

LEMMA PoolAtInv ==
    ASSUME IInv, NEW s \in Skus, NEW l \in Locations, NEW mode \in Modes, NEW n \in 0..MaxInt,
           PoolAt(s, l, mode, n)
    PROVE  IInv'
  <1>1. PICK held \in SUBSET rows : held = RowsOf(rows, s)
    BY DEF RowsOf
  <1>2. Total(held) \in Nat
    BY <1>1, InvTotals
  <1>3. NewQty(mode, Total(held), n) \in Int
    BY <1>2 DEF NewQty
  <1>4. PICK q \in Int : q = NewQty(mode, Total(held), n)
    BY <1>3
  <1>5. PICK i \in FreshIds(rows \ held) :
          rows' = (rows \ held) \cup Inserted(i, s, l, q)
    BY <1>1, <1>4 DEF PoolAt
  <1>6. q <= MaxInt /\ bypass' = bypass
    BY <1>1, <1>4 DEF PoolAt
  <1>7. QED
    BY <1>5, <1>6, StoredAt

LEMMA PoolTransferInv ==
    ASSUME IInv, NEW s \in Skus, NEW to \in Locations, NEW n \in 1..MaxInt,
           PoolTransfer(s, to, n)
    PROVE  IInv'
  <1>1. PICK held \in SUBSET rows : held = RowsOf(rows, s)
    BY DEF RowsOf
  <1>2. PICK q \in Int : q = Total(held)
    BY <1>1, InvTotals
  <1>3. PICK i \in FreshIds(rows \ held) :
          rows' = (rows \ held) \cup Inserted(i, s, to, q)
    BY <1>1, <1>2 DEF PoolTransfer
  <1>4. q <= MaxInt /\ bypass' = bypass
    BY <1>1, <1>2 DEF PoolTransfer
  <1>5. QED
    BY <1>3, <1>4, StoredAt

LEMMA PickInv ==
    ASSUME IInv, NEW s \in Skus, NEW n \in 1..MaxInt, Pick(s, n)
    PROVE  IInv'
  <1>1. bypass' = bypass
    BY DEF Pick
  <1>2. CASE rows' \in SUBSET rows
    BY <1>1, <1>2 DEF IInv, TypeOK, RowsSound
  <1>3. CASE \E gone \in SUBSET RowsOf(rows, s) :
               \E r \in RowsOf(rows, s) \ gone :
                  LET m == n - Total(gone)
                  IN  /\ 0 < m /\ m < r.qty
                      /\ rows' = (rows \ (gone \cup {r})) \cup Kept(r, r.qty - m)
    <2>0. PICK gone \in SUBSET RowsOf(rows, s) :
             \E r \in RowsOf(rows, s) \ gone :
                LET m == n - Total(gone)
                IN  /\ 0 < m /\ m < r.qty
                    /\ rows' = (rows \ (gone \cup {r})) \cup Kept(r, r.qty - m)
      BY <1>3
    <2>1. PICK r \in RowsOf(rows, s) \ gone :
                  LET m == n - Total(gone)
                  IN  /\ 0 < m /\ m < r.qty
                      /\ rows' = (rows \ (gone \cup {r})) \cup Kept(r, r.qty - m)
      BY <2>0
    <2>2. gone \in SUBSET rows /\ r \in rows
      BY DEF RowsOf
    <2>3. r.qty \in 0..MaxInt /\ Total(gone) \in Nat
      BY <2>2, InvTotals DEF IInv, TypeOK, Row
    <2>4. PICK q \in Int : q = r.qty - (n - Total(gone)) /\ q <= MaxInt
      BY <2>1, <2>3, StockAssumption
    <2>5. PICK R \in SUBSET (rows \ {r}) : R = rows \ (gone \cup {r})
      OBVIOUS
    <2>6. rows' = R \cup Kept(r, q)
      BY <2>1, <2>4, <2>5
    <2>7. QED
      BY <2>2, <2>4, <2>6, <1>1, RowRewritten
  <1>4. QED
    BY <1>2, <1>3 DEF Pick, Deduct

\* Every committed row is well typed, holds something and has its own key,
\* whatever the items, the shelves and the width of the column: the invariant
\* behind TypeOK and RowsSound.
THEOREM InvHolds == Spec => []IInv
  <1>1. Init => IInv
    BY DEF Init, IInv, TypeOK, RowsSound
  <1>2. IInv /\ [Next]_vars => IInv'
    <2> SUFFICES ASSUME IInv, [Next]_vars
                 PROVE  IInv'
      OBVIOUS
    <2>1. ASSUME NEW s \in Skus, NEW n \in 0..MaxInt, Adjust(s, n)
          PROVE  IInv'
      <3>1. Nowhere \in Locations
        BY DEF Nowhere, Locations
      <3>2. PICK mode \in Modes, l \in Locations, given \in BOOLEAN :
               \/ AdjustRow(s, l, mode, n)
               \/ AdjustNew(s, l, given, mode, n)
               \/ PoolInPlace(s, mode, n)
               \/ PoolAt(s, l, mode, n)
        BY <2>1 DEF Adjust
      <3>3. QED
        BY <3>2, AdjustRowInv, AdjustNewInv, PoolInPlaceInv, PoolAtInv
    <2>2. ASSUME NEW s \in Skus, NEW n \in 0..MaxInt, Move(s, n)
          PROVE  IInv'
      <3>1. PICK from \in Locations, to \in Locations :
               /\ n > 0 /\ from # to
               /\ Transfer(s, from, to, n) \/ PoolTransfer(s, to, n)
        BY <2>2 DEF Move
      <3>2. n \in 1..MaxInt
        BY <3>1, StockAssumption
      <3>3. QED
        BY <3>1, <3>2, TransferInv, PoolTransferInv
    <2>3. CASE SwitchMode
      BY <2>3 DEF SwitchMode, IInv, TypeOK, RowsSound
    <2>4. CASE UNCHANGED vars
      BY <2>4 DEF vars, IInv, TypeOK, RowsSound
    <2>5. QED
      BY <2>1, <2>2, <2>3, <2>4, PickInv DEF Next
  <1>3. QED
    BY <1>1, <1>2, PTL DEF Spec

\* The table only ever holds rows that fit its columns.
THEOREM TypeCorrect == Spec => []TypeOK
  <1>1. IInv => TypeOK
    BY DEF IInv
  <1>2. QED
    BY <1>1, InvHolds, PTL

\* No two rows share a key and no emptied row is left behind.
THEOREM RowsAlwaysSound == Spec => []RowsSound
  <1>1. IInv => RowsSound
    BY DEF IInv
  <1>2. QED
    BY <1>1, InvHolds, PTL

-----------------------------------------------------------------------------
(* Totals *)

LEMMA TotalEmpty == Total({}) = 0
  <1>1. Units({}) = {}
    BY DEF Units
  <1>2. QED
    BY <1>1, FS_EmptySet DEF Total

\* Units of different rows are different units, so totals add up.
LEMMA TotalUnion ==
    ASSUME NEW R1 \in SUBSET Row, NEW R2 \in SUBSET Row,
           IsFiniteSet(R1), IsFiniteSet(R2), R1 \cap R2 = {}
    PROVE  Total(R1 \cup R2) = Total(R1) + Total(R2)
  <1>1. Units(R1 \cup R2) = Units(R1) \cup Units(R2)
    BY DEF Units
  <1>2. Units(R1) \cap Units(R2) = {}
    BY DEF Units
  <1>3. IsFiniteSet(Units(R1)) /\ IsFiniteSet(Units(R2))
    BY UnitsFinite
  <1>4. Cardinality(Units(R1) \cup Units(R2)) =
             Total(R1) + Total(R2) - Cardinality(Units(R1) \cap Units(R2))
    BY <1>3, FS_Union DEF Total
  <1>5. Total(R1) \in Nat /\ Total(R2) \in Nat
    BY TotalNat
  <1>6. Cardinality(Units(R1) \cap Units(R2)) = 0
    BY <1>2, FS_EmptySet
  <1>7. Total(R1 \cup R2) = Cardinality(Units(R1) \cup Units(R2))
    BY <1>1 DEF Total
  <1>8. QED
    BY <1>4, <1>5, <1>6, <1>7

LEMMA TotalWithout ==
    ASSUME NEW R \in SUBSET Row, IsFiniteSet(R), NEW D \in SUBSET R
    PROVE  Total(R \ D) = Total(R) - Total(D)
  <1>1. /\ IsFiniteSet(D) /\ IsFiniteSet(R \ D)
        /\ D \in SUBSET Row /\ (R \ D) \in SUBSET Row
    BY FS_Subset
  <1>2. Total(D) \in Nat /\ Total(R \ D) \in Nat
    BY <1>1, TotalNat
  <1>3. (R \ D) \cap D = {} /\ (R \ D) \cup D = R
    OBVIOUS
  <1>4. Total((R \ D) \cup D) = Total(R \ D) + Total(D)
    BY <1>1, <1>3, TotalUnion
  <1>5. Total((R \ D) \cup D) = Total(R)
    BY <1>3
  <1>6. QED
    BY <1>2, <1>4, <1>5

LEMMA TotalOfOne ==
    ASSUME NEW r \in Row
    PROVE  IsFiniteSet({r}) /\ Total({r}) = r.qty
  <1>1. Units({r}) = {r} \X (1..r.qty)
    BY DEF Units
  <1>2. r.qty \in Nat /\ r.qty \in Int /\ 1 \in Int
    BY StockAssumption DEF Row
  <1>3. IsFiniteSet({r}) /\ Cardinality({r}) = 1
    BY FS_Singleton
  <1>4. IsFiniteSet(1..r.qty) /\ Cardinality(1..r.qty) = IF 1 > r.qty THEN 0 ELSE r.qty - 1 + 1
    BY <1>2, FS_Interval
  <1>5. Cardinality(1..r.qty) = r.qty
    BY <1>2, <1>4
  <1>6. Cardinality({r} \X (1..r.qty)) = Cardinality({r}) * Cardinality(1..r.qty)
    BY <1>3, <1>4, FS_Product
  <1>7. Total({r}) = Cardinality({r} \X (1..r.qty))
    BY <1>1 DEF Total
  <1>8. QED
    BY <1>2, <1>3, <1>5, <1>6, <1>7

\* Kept holds q units, in a row or in none.
LEMMA TotalKept ==
    ASSUME NEW r \in Row, NEW q \in 0..MaxInt
    PROVE  IsFiniteSet(Kept(r, q)) /\ Total(Kept(r, q)) = q
  <1>1. CASE q = 0
    <2>1. Kept(r, q) = {}
      BY <1>1 DEF Kept
    <2>2. QED
      BY <1>1, <2>1, TotalEmpty, FS_EmptySet
  <1>2. CASE q # 0
    <2>1. [r EXCEPT !.qty = q] \in Row /\ [r EXCEPT !.qty = q].qty = q
      BY DEF Row
    <2>2. PICK k \in Row : k = [r EXCEPT !.qty = q] /\ k.qty = q
      BY <2>1
    <2>3. Kept(r, q) = {k}
      BY <1>2, <2>2, StockAssumption DEF Kept
    <2>4. IsFiniteSet({k}) /\ Total({k}) = q
      BY <2>2, TotalOfOne
    <2>5. QED
      BY <2>3, <2>4
  <1>3. QED
    BY <1>1, <1>2

LEMMA TotalInserted ==
    ASSUME NEW i \in RowIds, NEW s \in Skus, NEW l \in Locations, NEW q \in 0..MaxInt
    PROVE  IsFiniteSet(Inserted(i, s, l, q)) /\ Total(Inserted(i, s, l, q)) = q
  <1>1. [id |-> i, sku |-> s, loc |-> l, qty |-> 0] \in Row
    BY StockAssumption DEF Row
  <1>2. QED
    BY <1>1, TotalKept DEF Inserted

\* The shape of every step that keeps the rows R of an item and writes K.
LEMMA TotalAfter ==
    ASSUME IInv, NEW R \in SUBSET rows, NEW D \in SUBSET R, NEW K \in SUBSET Row,
           IsFiniteSet(K), (R \ D) \cap K = {}
    PROVE  Total((R \ D) \cup K) = Total(R) - Total(D) + Total(K)
  <1>1. R \in SUBSET Row /\ IsFiniteSet(R)
    BY InvTotals
  <1>2. (R \ D) \in SUBSET Row /\ IsFiniteSet(R \ D)
    BY <1>1, FS_Subset
  <1>3. Total((R \ D) \cup K) = Total(R \ D) + Total(K)
    BY <1>2, TotalUnion
  <1>4. QED
    BY <1>1, <1>3, TotalWithout

-----------------------------------------------------------------------------
LEMMA PickExact ==
    ASSUME IInv, NEW s \in Skus, NEW n \in 1..MaxInt, Pick(s, n)
    PROVE  /\ Total(RowsOf(rows', s)) =
                IF Total(RowsOf(rows, s)) < n THEN 0 ELSE Total(RowsOf(rows, s)) - n
           /\ \A t \in Skus \ {s} : RowsOf(rows', t) = RowsOf(rows, t)
  <1>1. PICK held \in SUBSET rows : held = RowsOf(rows, s)
    BY DEF RowsOf
  <1>2. Total(held) \in Nat /\ held \in SUBSET Row /\ IsFiniteSet(held)
    BY <1>1, InvTotals
  <1>3. CASE Total(held) < n /\ rows' = rows \ held
    <2>1. RowsOf(rows', s) = {}
      BY <1>1, <1>3 DEF RowsOf
    <2>2. \A t \in Skus \ {s} : RowsOf(rows', t) = RowsOf(rows, t)
      BY <1>1, <1>3 DEF RowsOf
    <2>3. QED
      BY <1>1, <1>3, <2>1, <2>2, TotalEmpty
  <1>4. CASE Total(held) >= n /\ Deduct(s, n)
    <2>1. PICK gone \in SUBSET held :
             LET m == n - Total(gone)
             IN  \/ m = 0 /\ rows' = rows \ gone
                 \/ \E r \in held \ gone :
                       /\ 0 < m /\ m < r.qty
                       /\ rows' = (rows \ (gone \cup {r})) \cup Kept(r, r.qty - m)
      BY <1>1, <1>4 DEF Deduct
    <2>2. /\ gone \in SUBSET rows /\ gone \in SUBSET Row /\ IsFiniteSet(gone)
          /\ Total(gone) \in Nat
      BY InvTotals
    <2>3. CASE n - Total(gone) = 0 /\ rows' = rows \ gone
      <3>1. RowsOf(rows', s) = held \ gone
        BY <1>1, <2>3 DEF RowsOf
      <3>2. \A t \in Skus \ {s} : RowsOf(rows', t) = RowsOf(rows, t)
        BY <1>1, <2>3 DEF RowsOf
      <3>3. Total(held \ gone) = Total(held) - Total(gone)
        BY <1>2, TotalWithout
      <3>4. Total(held) - Total(gone) = Total(held) - n
        BY <2>2, <2>3
      <3>5. QED
        BY <1>1, <1>2, <1>4, <3>1, <3>2, <3>3, <3>4
    <2>4. ASSUME NEW r \in held \ gone, NEW m \in Int, m = n - Total(gone),
                 0 < m, m < r.qty,
                 rows' = (rows \ (gone \cup {r})) \cup Kept(r, r.qty - m)
          PROVE  /\ Total(RowsOf(rows', s)) = Total(held) - n
                 /\ \A t \in Skus \ {s} : RowsOf(rows', t) = RowsOf(rows, t)
      <3>1. r \in rows /\ r \in Row /\ r.sku = s /\ r.qty \in 0..MaxInt
        BY <1>1 DEF RowsOf, IInv, TypeOK, Row
      <3>2. PICK q \in 0..MaxInt : q = r.qty - m
        BY <2>4, <3>1, StockAssumption
      <3>3. /\ Kept(r, q) \in SUBSET Row
            /\ \A k \in Kept(r, q) : k.id = r.id /\ k.sku = s
        BY <3>1, KeptType, StockAssumption
      <3>4. IsFiniteSet(Kept(r, q)) /\ Total(Kept(r, q)) = q
        BY <3>1, TotalKept
      <3>5. PICK D \in SUBSET held : D = gone \cup {r}
        OBVIOUS
      <3>6. (held \ D) \cap Kept(r, q) = {}
        BY <3>1, <3>3, <3>5 DEF IInv, RowsSound
      <3>7. Total((held \ D) \cup Kept(r, q)) = Total(held) - Total(D) + q
        BY <3>3, <3>4, <3>6, TotalAfter
      <3>8. Total(D) = Total(gone) + r.qty
        <4>1. {r} \in SUBSET Row /\ IsFiniteSet({r}) /\ Total({r}) = r.qty
          BY <3>1, TotalOfOne
        <4>2. gone \cap {r} = {}
          OBVIOUS
        <4>3. Total(gone \cup {r}) = Total(gone) + Total({r})
          BY <2>2, <4>1, <4>2, TotalUnion
        <4>4. QED
          BY <3>5, <4>1, <4>3
      <3>9. RowsOf(rows', s) = (held \ D) \cup Kept(r, q)
        BY <1>1, <2>4, <3>2, <3>3, <3>5 DEF RowsOf
      <3>10. \A t \in Skus \ {s} : RowsOf(rows', t) = RowsOf(rows, t)
        BY <1>1, <2>4, <3>1, <3>2, <3>3, <3>5 DEF RowsOf
      <3>11. Total(held) - (Total(gone) + r.qty) + q = Total(held) - n
        BY <1>2, <2>2, <2>4, <3>1, <3>2
      <3>12. QED
        BY <3>7, <3>8, <3>9, <3>10, <3>11
    <2>5. n - Total(gone) \in Int
      BY <2>2
    <2>6. QED
      BY <1>1, <1>2, <1>4, <2>1, <2>3, <2>4, <2>5
  <1>5. QED
    BY <1>1, <1>3, <1>4 DEF Pick

\* A pick takes exactly what was asked for, or all there is, from its item
\* alone: however the item is spread over rows, duplicates included.
THEOREM PicksDeductExactly == Spec => PickDeductsExactly
  <1>1. IInv /\ [Next]_vars =>
          [\A s \in Skus, n \in 1..MaxInt :
             Pick(s, n) =>
                /\ Total(RowsOf(rows', s)) =
                     IF Total(RowsOf(rows, s)) < n THEN 0 ELSE Total(RowsOf(rows, s)) - n
                /\ \A t \in Skus \ {s} : RowsOf(rows', t) = RowsOf(rows, t)]_vars
    BY PickExact
  <1>2. QED
    BY <1>1, InvHolds, PTL DEF Spec, PickDeductsExactly

LEMMA TransferConserving ==
    ASSUME IInv, NEW s \in Skus, NEW from \in Locations, NEW to \in Locations, from # to,
           NEW n \in 1..MaxInt, Transfer(s, from, to, n)
    PROVE  \A t \in Skus : Total(RowsOf(rows', t)) = Total(RowsOf(rows, t))
  <1>1. PICK src \in RowsAt(rows, s, from) :
          /\ src.qty >= n
          /\ \/ \E dst \in RowsAt(rows, s, to) :
                   /\ dst.qty + n <= MaxInt
                   /\ rows' = (rows \ {src, dst}) \cup Kept(src, src.qty - n)
                                                  \cup Kept(dst, dst.qty + n)
             \/ /\ RowsAt(rows, s, to) = {}
                /\ \E i \in FreshIds(rows) :
                      rows' = (rows \ {src}) \cup Kept(src, src.qty - n)
                                             \cup Inserted(i, s, to, n)
    BY DEF Transfer
  <1>2. /\ src \in rows /\ src \in Row /\ src.sku = s /\ src.loc = from
        /\ src.qty \in 0..MaxInt /\ n \in Nat /\ MaxInt \in Nat
    BY StockAssumption DEF RowsAt, RowsOf, IInv, TypeOK, Row
  <1>3. PICK m \in 0..MaxInt : m = src.qty - n
    BY <1>1, <1>2
  <1>4. /\ Kept(src, m) \in SUBSET Row
        /\ \A k \in Kept(src, m) : k.id = src.id /\ k.sku = s
        /\ IsFiniteSet(Kept(src, m)) /\ Total(Kept(src, m)) = m
    BY <1>2, KeptType, TotalKept
  <1>5. PICK held \in SUBSET rows : held = RowsOf(rows, s)
    BY DEF RowsOf
  <1>6. Total(held) \in Nat /\ src \in held
    BY <1>1, <1>2, <1>5, InvTotals DEF RowsOf
  <1>7. IsFiniteSet({src}) /\ Total({src}) = src.qty
    BY <1>2, TotalOfOne
  <1>8. ASSUME NEW dst \in RowsAt(rows, s, to), dst.qty + n <= MaxInt,
               rows' = (rows \ {src, dst}) \cup Kept(src, src.qty - n)
                                           \cup Kept(dst, dst.qty + n)
        PROVE  \A t \in Skus : Total(RowsOf(rows', t)) = Total(RowsOf(rows, t))
    <2>1. /\ dst \in held /\ dst \in rows /\ dst \in Row /\ dst.sku = s /\ dst.loc = to
          /\ dst.qty \in 0..MaxInt
      BY <1>5 DEF RowsAt, RowsOf, IInv, TypeOK, Row
    <2>2. src # dst /\ src.id # dst.id
      BY <1>2, <2>1 DEF IInv, RowsSound
    <2>3. PICK d \in 0..MaxInt : d = dst.qty + n
      BY <1>2, <1>8, <2>1
    <2>4. /\ Kept(dst, d) \in SUBSET Row
          /\ \A k \in Kept(dst, d) : k.id = dst.id /\ k.sku = s
          /\ IsFiniteSet(Kept(dst, d)) /\ Total(Kept(dst, d)) = d
      BY <1>2, <2>1, KeptType, TotalKept
    <2>5. PICK K \in SUBSET Row : K = Kept(src, m) \cup Kept(dst, d)
      BY <1>4, <2>4
    <2>6. IsFiniteSet(K) /\ Total(K) = m + d
      <3>1. Kept(src, m) \cap Kept(dst, d) = {}
        BY <1>4, <2>2, <2>4
      <3>2. Total(Kept(src, m) \cup Kept(dst, d)) = Total(Kept(src, m)) + Total(Kept(dst, d))
        BY <1>4, <2>4, <3>1, TotalUnion
      <3>3. IsFiniteSet(Kept(src, m) \cup Kept(dst, d))
        BY <1>4, <2>4, FS_Union
      <3>4. QED
        BY <1>4, <2>4, <2>5, <3>2, <3>3
    <2>7. PICK D \in SUBSET held : D = {src} \cup {dst}
      BY <1>6, <2>1
    <2>8. Total(D) = src.qty + dst.qty
      <3>1. IsFiniteSet({dst}) /\ Total({dst}) = dst.qty
        BY <2>1, TotalOfOne
      <3>2. {src} \cap {dst} = {} /\ {src} \in SUBSET Row /\ {dst} \in SUBSET Row
        BY <1>2, <2>1, <2>2
      <3>3. Total({src} \cup {dst}) = Total({src}) + Total({dst})
        BY <1>7, <3>1, <3>2, TotalUnion
      <3>4. QED
        BY <1>7, <2>7, <3>1, <3>3
    <2>9. \A k \in K : k.sku = s /\ (k.id = src.id \/ k.id = dst.id)
      BY <1>4, <2>4, <2>5
    <2>10. (held \ D) \cap K = {}
      BY <1>2, <2>1, <2>7, <2>9 DEF IInv, RowsSound
    <2>11. Total((held \ D) \cup K) = Total(held) - Total(D) + Total(K)
      BY <2>6, <2>10, TotalAfter
    <2>12. rows' = (rows \ D) \cup K
      BY <1>3, <1>8, <2>3, <2>5, <2>7
    <2>13. RowsOf(rows', s) = (held \ D) \cup K
      BY <1>5, <2>9, <2>12 DEF RowsOf
    <2>14. \A t \in Skus : t # s => RowsOf(rows', t) = RowsOf(rows, t)
      BY <1>2, <2>1, <2>7, <2>9, <2>12 DEF RowsOf
    <2>15. Total(held) - (src.qty + dst.qty) + (m + d) = Total(held)
      BY <1>2, <1>3, <1>6, <2>1, <2>3
    <2>16. Total(RowsOf(rows', s)) = Total(held)
      BY <2>6, <2>8, <2>11, <2>13, <2>15
    <2>17. QED
      BY <1>5, <2>14, <2>16
  <1>9. ASSUME NEW i \in FreshIds(rows),
               rows' = (rows \ {src}) \cup Kept(src, src.qty - n) \cup Inserted(i, s, to, n)
        PROVE  \A t \in Skus : Total(RowsOf(rows', t)) = Total(RowsOf(rows, t))
    <2>1. i \in RowIds /\ \A r \in rows : r.id # i
      BY FreshId
    <2>2. /\ Inserted(i, s, to, n) \in SUBSET Row
          /\ \A k \in Inserted(i, s, to, n) : k.id = i /\ k.sku = s
      BY <1>2, <2>1, InsertedType
    <2>3. IsFiniteSet(Inserted(i, s, to, n)) /\ Total(Inserted(i, s, to, n)) = n
      BY <1>2, <2>1, TotalInserted
    <2>4. PICK K \in SUBSET Row : K = Kept(src, m) \cup Inserted(i, s, to, n)
      BY <1>4, <2>2
    <2>5. IsFiniteSet(K) /\ Total(K) = m + n
      <3>1. Kept(src, m) \cap Inserted(i, s, to, n) = {}
        BY <1>2, <1>4, <2>1, <2>2
      <3>2. Total(Kept(src, m) \cup Inserted(i, s, to, n)) =
               Total(Kept(src, m)) + Total(Inserted(i, s, to, n))
        BY <1>4, <2>2, <2>3, <3>1, TotalUnion
      <3>3. IsFiniteSet(Kept(src, m) \cup Inserted(i, s, to, n))
        BY <1>4, <2>3, FS_Union
      <3>4. QED
        BY <1>4, <2>3, <2>4, <3>2, <3>3
    <2>6. \A k \in K : k.sku = s /\ (k.id = src.id \/ k.id = i)
      BY <1>4, <2>2, <2>4
    <2>7. PICK D \in SUBSET held : D = {src}
      BY <1>6
    <2>8. (held \ D) \cap K = {}
      BY <1>2, <2>1, <2>6, <2>7 DEF IInv, RowsSound
    <2>9. Total((held \ D) \cup K) = Total(held) - Total(D) + Total(K)
      BY <2>5, <2>8, TotalAfter
    <2>10. rows' = (rows \ D) \cup K
      BY <1>3, <1>9, <2>4, <2>7
    <2>11. RowsOf(rows', s) = (held \ D) \cup K
      BY <1>5, <2>6, <2>10 DEF RowsOf
    <2>12. \A t \in Skus : t # s => RowsOf(rows', t) = RowsOf(rows, t)
      BY <1>2, <2>6, <2>7, <2>10 DEF RowsOf
    <2>13. Total(held) - src.qty + (m + n) = Total(held)
      BY <1>2, <1>3, <1>6
    <2>14. Total(RowsOf(rows', s)) = Total(held)
      BY <1>7, <2>5, <2>7, <2>9, <2>11, <2>13
    <2>15. QED
      BY <1>5, <2>12, <2>14
  <1>10. QED
    BY <1>1, <1>8, <1>9

LEMMA PoolTransferConserving ==
    ASSUME IInv, NEW s \in Skus, NEW to \in Locations, NEW n \in 1..MaxInt,
           PoolTransfer(s, to, n)
    PROVE  \A t \in Skus : Total(RowsOf(rows', t)) = Total(RowsOf(rows, t))
  <1>1. PICK held \in SUBSET rows : held = RowsOf(rows, s)
    BY DEF RowsOf
  <1>2. PICK q \in 0..MaxInt : q = Total(held)
    BY <1>1, InvTotals, StockAssumption DEF PoolTransfer
  <1>3. PICK i \in FreshIds(rows \ held) :
          rows' = (rows \ held) \cup Inserted(i, s, to, q)
    BY <1>1, <1>2 DEF PoolTransfer
  <1>4. q \in Int /\ q <= MaxInt /\ i \in RowIds
    BY <1>2, <1>3, FreshId, StockAssumption
  <1>5. \A k \in Inserted(i, s, to, q) : k.sku = s
    BY <1>4, InsertedType
  <1>6. Total(Inserted(i, s, to, q)) = q
    BY <1>4, TotalInserted
  <1>7. RowsOf(rows', s) = Inserted(i, s, to, q)
    BY <1>1, <1>3, <1>5 DEF RowsOf
  <1>8. \A t \in Skus : t # s => RowsOf(rows', t) = RowsOf(rows, t)
    BY <1>1, <1>3, <1>5 DEF RowsOf
  <1>9. QED
    BY <1>1, <1>2, <1>6, <1>7, <1>8

\* No transfer, of either mode, makes or loses a unit of any item.
THEOREM TransfersConserve == Spec => TransferConserves
  <1>1. ASSUME IInv, NEW s \in Skus, NEW n \in 1..MaxInt, Move(s, n)
        PROVE  \A t \in Skus : Total(RowsOf(rows', t)) = Total(RowsOf(rows, t))
    <2>1. PICK from \in Locations, to \in Locations :
             from # to /\ (Transfer(s, from, to, n) \/ PoolTransfer(s, to, n))
      BY <1>1 DEF Move
    <2>2. QED
      BY <1>1, <2>1, TransferConserving, PoolTransferConserving
  <1>2. IInv /\ [Next]_vars =>
          [\A s \in Skus, n \in 1..MaxInt :
             Move(s, n) =>
                \A t \in Skus : Total(RowsOf(rows', t)) = Total(RowsOf(rows, t))]_vars
    BY <1>1
  <1>3. QED
    BY <1>2, InvHolds, PTL DEF Spec, TransferConserves

-----------------------------------------------------------------------------
(* The bypass *)

\* A finite set has at most one member when any two of them are the same.
LEMMA AtMostOne ==
    ASSUME NEW S, IsFiniteSet(S)
    PROVE  Cardinality(S) <= 1 <=> \A x, y \in S : x = y
  <1>1. Cardinality(S) \in Nat
    BY FS_CardinalityType
  <1>2. ASSUME Cardinality(S) <= 1 PROVE \A x, y \in S : x = y
    <2>1. Cardinality(S) = 0 \/ Cardinality(S) = 1
      BY <1>1, <1>2
    <2>2. S = {} \/ \E x : S = {x}
      BY <2>1, FS_EmptySet, FS_Singleton
    <2>3. QED
      BY <2>2
  <1>3. ASSUME \A x, y \in S : x = y PROVE Cardinality(S) <= 1
    <2>1. S = {} \/ \E x : S = {x}
      BY <1>3
    <2>2. Cardinality(S) = 0 \/ Cardinality(S) = 1
      BY <2>1, FS_EmptySet, FS_Singleton
    <2>3. QED
      BY <2>2
  <1>4. QED
    BY <1>2, <1>3

\* Removing all rows of an item and writing at most one leaves at most one of
\* the item, and the other items as they were.
LEMMA Gathered ==
    ASSUME NEW s \in Skus, NEW K, \A k \in K : k.sku = s, \A k1, k2 \in K : k1 = k2,
           rows' = (rows \ RowsOf(rows, s)) \cup K
    PROVE  /\ \A x, y \in RowsOf(rows', s) : x = y
           /\ \A t \in Skus \ {s} : RowsOf(rows', t) = RowsOf(rows, t)
  BY DEF RowsOf

\* With the bypass on every adjustment and every transfer gathers its item.
LEMMA AdjustGathers ==
    ASSUME IInv, bypass, NEW s \in Skus, NEW n \in 0..MaxInt, Adjust(s, n) \/ Move(s, n)
    PROVE  /\ \A x, y \in RowsOf(rows', s) : x = y
           /\ \A t \in Skus \ {s} : RowsOf(rows', t) = RowsOf(rows, t)
  <1> DEFINE Goal == /\ \A x, y \in RowsOf(rows', s) : x = y
                     /\ \A t \in Skus \ {s} : RowsOf(rows', t) = RowsOf(rows, t)
  <1>0. n \in Int /\ n <= MaxInt
    BY StockAssumption
  <1>1. PICK held \in SUBSET rows : held = RowsOf(rows, s)
    BY DEF RowsOf
  <1>2. Total(held) \in Nat /\ held \in SUBSET Row
    BY <1>1, InvTotals
  <1>3. ASSUME NEW i \in RowIds, NEW l \in Locations, NEW q \in Int, q <= MaxInt,
               rows' = (rows \ held) \cup Inserted(i, s, l, q)
        PROVE  Goal
    <2>1. /\ \A k \in Inserted(i, s, l, q) : k.sku = s
          /\ \A k1, k2 \in Inserted(i, s, l, q) : k1 = k2
      BY <1>3, InsertedType
    <2>2. QED
      BY <1>1, <1>3, <2>1, Gathered
  <1>4. ASSUME NEW mode \in Modes, PoolInPlace(s, mode, n)
        PROVE  Goal
    <2>1. PICK q \in Int : q = NewQty(mode, Total(held), n)
      BY <1>0, <1>2 DEF NewQty
    <2>2. /\ q <= MaxInt
          /\ \/ \E r \in held : rows' = (rows \ held) \cup Kept(r, q)
             \/ /\ held = {}
                /\ \E i \in FreshIds(rows) :
                      rows' = rows \cup Inserted(i, s, ItemLocation(rows, s), n)
      BY <1>1, <1>4, <2>1 DEF PoolInPlace
    <2>3. ASSUME NEW r \in held, rows' = (rows \ held) \cup Kept(r, q)
          PROVE  Goal
      <3>1. r \in Row /\ r.sku = s
        BY <1>1, <1>2 DEF RowsOf
      <3>2. (\A k \in Kept(r, q) : k.sku = s) /\ \A k1, k2 \in Kept(r, q) : k1 = k2
        BY <2>2, <3>1, KeptType
      <3>3. QED
        BY <1>1, <2>3, <3>2, Gathered
    <2>4. ASSUME held = {}, NEW i \in FreshIds(rows),
                 rows' = rows \cup Inserted(i, s, ItemLocation(rows, s), n)
          PROVE  Goal
      <3>1. i \in RowIds /\ ItemLocation(rows, s) \in Locations
        BY ItemLocationType DEF FreshIds, IInv, TypeOK
      <3>2. rows' = (rows \ held) \cup Inserted(i, s, ItemLocation(rows, s), n)
        BY <2>4
      <3>3. QED
        BY <1>0, <1>3, <3>1, <3>2
    <2>5. QED
      BY <2>2, <2>3, <2>4
  <1>5. ASSUME NEW mode \in Modes, NEW l \in Locations, PoolAt(s, l, mode, n)
        PROVE  Goal
    <2>1. PICK q \in Int : q = NewQty(mode, Total(held), n)
      BY <1>0, <1>2 DEF NewQty
    <2>2. q <= MaxInt
      BY <1>1, <1>5, <2>1 DEF PoolAt
    <2>3. PICK i \in RowIds : rows' = (rows \ held) \cup Inserted(i, s, l, q)
      BY <1>1, <1>5, <2>1 DEF PoolAt, FreshIds
    <2>4. QED
      BY <1>3, <2>2, <2>3
  <1>6. ASSUME NEW to \in Locations, PoolTransfer(s, to, n)
        PROVE  Goal
    <2>1. PICK q \in Int : q = Total(held)
      BY <1>2
    <2>2. q <= MaxInt
      BY <1>1, <1>6, <2>1 DEF PoolTransfer
    <2>3. PICK i \in RowIds : rows' = (rows \ held) \cup Inserted(i, s, to, q)
      BY <1>1, <1>6, <2>1 DEF PoolTransfer, FreshIds
    <2>4. QED
      BY <1>3, <2>2, <2>3
  <1> HIDE DEF Goal
  <1>7. ASSUME Adjust(s, n) PROVE Goal
    <2>1. PICK mode \in Modes, l \in Locations, given \in BOOLEAN :
             \/ AdjustRow(s, l, mode, n)
             \/ AdjustNew(s, l, given, mode, n)
             \/ PoolInPlace(s, mode, n)
             \/ PoolAt(s, l, mode, n)
      BY <1>7 DEF Adjust
    <2>2. ~AdjustRow(s, l, mode, n) /\ ~AdjustNew(s, l, given, mode, n)
      BY DEF AdjustRow, AdjustNew
    <2>3. QED
      BY <1>4, <1>5, <2>1, <2>2
  <1>8. ASSUME Move(s, n) PROVE Goal
    <2>1. PICK from \in Locations, to \in Locations :
             Transfer(s, from, to, n) \/ PoolTransfer(s, to, n)
      BY <1>8 DEF Move
    <2>2. ~Transfer(s, from, to, n)
      BY DEF Transfer
    <2>3. QED
      BY <1>6, <2>1, <2>2
  <1>9. QED
    BY <1>7, <1>8 DEF Goal

\* A pick spreads no item over more rows than it was in.
LEMMA PickGathers ==
    ASSUME IInv, NEW s \in Skus, NEW n \in 1..MaxInt, Pick(s, n),
           NEW t \in Skus, \A x, y \in RowsOf(rows, t) : x = y
    PROVE  \A x, y \in RowsOf(rows', t) : x = y
  <1>1. CASE t # s
    BY <1>1, PickExact
  <1>2. CASE t = s
    <2>1. CASE rows' \in SUBSET rows
      BY <2>1 DEF RowsOf
    <2>2. ASSUME NEW gone \in SUBSET RowsOf(rows, s), NEW r \in RowsOf(rows, s) \ gone,
                 0 < n - Total(gone), n - Total(gone) < r.qty,
                 rows' = (rows \ (gone \cup {r})) \cup Kept(r, r.qty - (n - Total(gone)))
          PROVE  \A x, y \in RowsOf(rows', t) : x = y
      <3>1. gone \in SUBSET rows /\ r \in rows /\ r.sku = s
        BY DEF RowsOf
      <3>2. r \in Row /\ r.qty \in 0..MaxInt /\ Total(gone) \in Nat
        BY <3>1, InvTotals DEF IInv, TypeOK, Row
      <3>3. PICK q \in Int : q = r.qty - (n - Total(gone)) /\ q <= MaxInt
        BY <2>2, <3>2, StockAssumption
      <3>4. (\A k \in Kept(r, q) : k.sku = s) /\ \A k1, k2 \in Kept(r, q) : k1 = k2
        BY <3>1, <3>2, <3>3, KeptType
      <3>5. rows' = (rows \ RowsOf(rows, s)) \cup Kept(r, q)
        <4>1. RowsOf(rows, s) = gone \cup {r}
          BY <1>2
        <4>2. QED
          BY <2>2, <3>3, <4>1
      <3>6. QED
        BY <1>2, <3>4, <3>5, Gathered
    <2>3. QED
      BY <2>1, <2>2 DEF Pick, Deduct
  <1>3. QED
    BY <1>1, <1>2

\* With the bypass on, what is in one place stays in one place and every
\* adjustment or transfer leaves its item in one.
THEOREM BypassGathers == Spec => BypassConsolidates
  <1>1. IInv /\ IInv' /\ [Next]_vars =>
          [bypass /\ bypass' =>
             \A s \in Skus :
                /\ Cardinality(RowsOf(rows, s)) <= 1 => Cardinality(RowsOf(rows', s)) <= 1
                /\ (\E n \in 0..MaxInt : Adjust(s, n) \/ Move(s, n)) =>
                      Cardinality(RowsOf(rows', s)) <= 1]_rows
    <2> SUFFICES ASSUME IInv, IInv', [Next]_vars, rows' # rows, bypass, NEW s \in Skus
                 PROVE
                /\ Cardinality(RowsOf(rows, s)) <= 1 => Cardinality(RowsOf(rows', s)) <= 1
                /\ (\E n \in 0..MaxInt : Adjust(s, n) \/ Move(s, n)) =>
                      Cardinality(RowsOf(rows', s)) <= 1
      OBVIOUS
    <2>1. Cardinality(RowsOf(rows, s)) <= 1 <=> \A x, y \in RowsOf(rows, s) : x = y
      <3>1. RowsOf(rows, s) \in SUBSET rows
        BY DEF RowsOf
      <3>2. IsFiniteSet(RowsOf(rows, s))
        BY <3>1, InvTotals
      <3>3. QED
        BY <3>2, AtMostOne
    <2>2. Cardinality(RowsOf(rows', s)) <= 1 <=> \A x, y \in RowsOf(rows', s) : x = y
      <3>1. rows' \in SUBSET Row /\ \A r1, r2 \in rows' : r1.id = r2.id => r1 = r2
        BY DEF IInv, TypeOK, RowsSound
      <3>2. IsFiniteSet(rows') /\ RowsOf(rows', s) \in SUBSET rows'
        BY <3>1, FiniteRows DEF RowsOf
      <3>3. IsFiniteSet(RowsOf(rows', s))
        BY <3>2, FS_Subset
      <3>4. QED
        BY <3>3, AtMostOne
    <2>3. (\E n \in 0..MaxInt : Adjust(s, n) \/ Move(s, n)) =>
             \A x, y \in RowsOf(rows', s) : x = y
      BY AdjustGathers
    <2>4. ASSUME \A x, y \in RowsOf(rows, s) : x = y
          PROVE  \A x, y \in RowsOf(rows', s) : x = y
      <3>1. ASSUME NEW t \in Skus, NEW n \in 0..MaxInt, Adjust(t, n) \/ Move(t, n)
            PROVE  \A x, y \in RowsOf(rows', s) : x = y
        BY <2>4, <3>1, AdjustGathers
      <3>2. ASSUME NEW t \in Skus, NEW n \in 1..MaxInt, Pick(t, n)
            PROVE  \A x, y \in RowsOf(rows', s) : x = y
        BY <2>4, <3>2, PickGathers
      <3>3. ~SwitchMode /\ ~UNCHANGED vars
        BY DEF SwitchMode, vars
      <3>4. QED
        BY <3>1, <3>2, <3>3 DEF Next
    <2>5. QED
      BY <2>1, <2>2, <2>3, <2>4
  <1>2. QED
    BY <1>1, InvHolds, PTL DEF Spec, BypassConsolidates
=============================================================================
