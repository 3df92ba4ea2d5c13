------------------------------- MODULE MCSales -------------------------------
(* Small instances of Sales for TLC. *)
EXTENDS Sales, TLC

\* Sales are interchangeable, and so are accounts.
Symmetry == Permutations(SaleIds) \cup Permutations(Accounts)
==============================================================================
