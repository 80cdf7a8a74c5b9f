---------------------------- MODULE MCFulfilment ----------------------------
(* Fulfilment for TLC: few operators, orders, entries and scans. *)
EXTENDS Fulfilment, TLC

\* Every order's package has a label of its own.
MCLabelOf == [o \in Orders |-> <<"label", o>>]

\* Operators, items, orders with their labels and the two tables' keys are
\* interchangeable.
Symmetry ==
    Permutations(Users) \cup Permutations(Skus) \cup Permutations(Orders)
        \cup Permutations(PieIds) \cup Permutations(ScanIds)
=============================================================================
