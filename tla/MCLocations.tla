----------------------------- MODULE MCLocations -----------------------------
(* Small instances of Locations for TLC. *)
EXTENDS Locations, TLC

\* Locations are interchangeable, and so are the places for requests.
Symmetry == Permutations(Locs) \cup Permutations(Txs)
==============================================================================
