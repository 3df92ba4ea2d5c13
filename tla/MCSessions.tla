----------------------------- MODULE MCSessions -----------------------------
(* Small instances of Sessions for TLC. *)
EXTENDS Sessions, TLC

CONSTANTS b1

\* Both tabs belong to the same browser.
MCBrowserOf == [t \in Tabs |-> b1]

\* Everything but the browser is interchangeable.
Symmetry ==
    Permutations(Tabs) \cup Permutations(Users) \cup Permutations(Tokens) \cup Permutations(Businesses)
=============================================================================
