------------------------------ MODULE MCSockets ------------------------------
(* Sockets for TLC: an operator and an administrator on a few sockets. *)
EXTENDS Sockets, TLC

\* Sockets are interchangeable; for runs of safety properties only.
Symmetry == Permutations(Socks)
=============================================================================
