---------------------------- MODULE MCOrderSync ----------------------------
(* OrderSync for TLC: three requests, few orders and statuses. *)
EXTENDS OrderSync, TLC
=============================================================================
