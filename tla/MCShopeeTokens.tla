---------------------------- MODULE MCShopeeTokens ----------------------------
(* Instances of ShopeeTokens for TLC. *)
EXTENDS ShopeeTokens, TLC

CONSTANTS w1, w2, w3
===============================================================================
