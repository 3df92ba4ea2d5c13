------------------------------ MODULE MCStockTx ------------------------------
(* Small instances of StockTx for TLC. *)
EXTENDS StockTx, TLC

\* The transactions are interchangeable.
Symmetry == Permutations(Txs)

==============================================================================
