------------------------------ MODULE MCStocks ------------------------------
(* Stocks for TLC: few items, shelves, rows and units. *)
EXTENDS Stocks, TLC

\* Rows and shelves are interchangeable; items are too.
Symmetry == Permutations(Skus) \cup Permutations(Shelves) \cup Permutations(RowIds)
=============================================================================
