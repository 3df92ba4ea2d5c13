---------------------------- MODULE MCMembership ----------------------------
(* Small instances of Membership for TLC. *)
EXTENDS Membership, TLC

\* Users are interchangeable, and so are the places for requests.
Symmetry == Permutations(Users) \cup Permutations(Txs)
==============================================================================
