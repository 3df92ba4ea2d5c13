---------------------------- MODULE MCAdjustments ----------------------------
(* Small instances of Adjustments for TLC. *)
EXTENDS Adjustments, TLC

\* Documents are interchangeable, and so are products.
Symmetry == Permutations(Docs) \cup Permutations(Products)
==============================================================================
