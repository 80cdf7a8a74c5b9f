------------------------------ MODULE MCSessions ------------------------------
(* Instances of Sessions for TLC. *)
EXTENDS Sessions, TLC

CONSTANTS u1, u2, s1, s2, r1, r2

Symmetric == Permutations({s1, s2}) \union Permutations({r1, r2})
===============================================================================
