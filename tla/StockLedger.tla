----------------------------- MODULE StockLedger -----------------------------
(***************************************************************************)
(* What the stock ledger promises: every request either posts all its      *)
(* lines to the ledger (stock_movements) and to the snapshot               *)
(* (product_inventory) in one step, or posts none of them, and no posting  *)
(* leaves a negative quantity.  StockTx implements this with row locks.    *)
(***************************************************************************)
EXTENDS Integers, FiniteSetsExt

CONSTANTS
    Items,      \* keys of product_inventory: one per (product, location)
    Txs         \* the requests

VARIABLES
    stock,      \* quantity of the snapshot
    book,       \* sum of the movements
    request,    \* the lines of each request, a sequence of [item, delta]
    outcome     \* "none", "pending", "committed" or "aborted"

vars == <<stock, book, request, outcome>>

\* What the lines of a request add to item i.
Net(lines, i) ==
    SumFunctionOnSet([n \in DOMAIN lines |-> lines[n].delta],
                     {n \in DOMAIN lines : lines[n].item = i})

Init ==
    /\ stock \in [Items -> Nat]
    /\ book = stock
    /\ request = [t \in Txs |-> <<>>]
    /\ outcome = [t \in Txs |-> "none"]

Submit(t) ==
    /\ outcome[t] = "none"
    /\ outcome' = [outcome EXCEPT ![t] = "pending"]
    /\ \A u \in Txs \ {t} : request'[u] = request[u]
    /\ UNCHANGED <<stock, book>>

Commit(t) ==
    /\ outcome[t] = "pending"
    /\ outcome' = [outcome EXCEPT ![t] = "committed"]
    /\ stock' = [i \in Items |-> stock[i] + Net(request[t], i)]
    /\ book' = [i \in Items |-> book[i] + Net(request[t], i)]
    /\ \A i \in Items : stock'[i] >= 0
    /\ UNCHANGED request

Abort(t) ==
    /\ outcome[t] = "pending"
    /\ outcome' = [outcome EXCEPT ![t] = "aborted"]
    /\ UNCHANGED <<stock, book, request>>

Next == \E t \in Txs : Submit(t) \/ Commit(t) \/ Abort(t)

Spec == Init /\ [][Next]_vars
==============================================================================
