---------------------------- MODULE MCKeyRotation ----------------------------
(* Instances of KeyRotation for TLC. *)
EXTENDS KeyRotation, TLC

CONSTANTS r1
===============================================================================
