----------------------------- MODULE MCPurchases -----------------------------
(* Small instances of Purchases for TLC; the values are in the cfg files. *)
EXTENDS Purchases
==============================================================================
