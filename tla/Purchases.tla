------------------------------ MODULE Purchases ------------------------------
(***************************************************************************)
(* The life of purchases (repository_purchases.go): their lines, receipts, *)
(* payments and status.                                                    *)
(*                                                                         *)
(* Every operation reads the purchase FOR UPDATE in its first statement    *)
(* and is one step here; what the statements of a receipt do to stock in   *)
(* an interleaving is the subject of StockTx.  OrderPurchase is the        *)
(* exception: it counts the lines in the statement that waits for the      *)
(* lock, so the count is of the time the wait began.                       *)
(*                                                                         *)
(* Quantities are integers in units of 0.0001 (numeric(18,4)), money is in *)
(* units of 0.01 (numeric(18,2)).                                          *)
(***************************************************************************)
EXTENDS Integers, FiniteSetsExt

CONSTANTS
    PurchaseIds,    \* the purchases of the business
    Products,       \* its products
    Tracked,        \* the products whose stock is tracked
    NoProduct,      \* the product of a line that does not exist
    Quantities,     \* quantities of a request line
    Subtotals,      \* quantity * unit price - discount of a request line
    Discounts,      \* discount totals of a purchase
    Taxes,          \* tax totals of a purchase
    Amounts,        \* amounts of a payment
    MaxLines        \* bound: line numbers of one purchase

ASSUME PurchasesAssumption ==
    /\ IsFiniteSet(PurchaseIds)
    /\ Tracked \subseteq Products
    /\ NoProduct \notin Products
    /\ Quantities \subseteq Nat \ {0}
    /\ Subtotals \subseteq Nat
    /\ Discounts \subseteq Nat /\ Taxes \subseteq Nat
    /\ Amounts \subseteq Nat \ {0}
    /\ MaxLines \in Nat \ {0}

VARIABLES
    status,         \* purchases.status, "none" before it exists
    paymentStatus,  \* purchases.payment_status
    items,          \* purchase_items by line_number
    adjust,         \* tax_total - discount_total
    grand,          \* grand_total as last recomputed
    paid,           \* sum of its payments
    receipts,       \* whether purchase_receipts has a row for it
    orderView,      \* what a waiting OrderPurchase counted: "lines", "empty" or "none"
    ledger,         \* PURCHASE movements per product, summed
    cash            \* what the payments did to the balances of the cash accounts

vars == <<status, paymentStatus, items, adjust, grand, paid, receipts, orderView, ledger, cash>>

LineNos == 1..MaxLines
Statuses == {"none", "DRAFT", "ORDERED", "PARTIALLY_RECEIVED", "RECEIVED", "CANCELLED"}

\* Mutated: only a received purchase is closed.
OpenUnlessReceived == {"DRAFT", "ORDERED", "PARTIALLY_RECEIVED", "CANCELLED"}

\* The statuses in which lines can change and goods can be received.
Open == {"DRAFT", "ORDERED", "PARTIALLY_RECEIVED"}

NoLine == [product |-> NoProduct, ordered |-> 0, received |-> 0, subtotal |-> 0]

\* A request for a line: its quantity is positive and, by the check of the
\* table, its subtotal is not negative.
Requests == [product : Products, ordered : Quantities, received : {0}, subtotal : Subtotals]
Lines == [product : Products \cup {NoProduct}, ordered : Nat, received : Nat, subtotal : Nat]

Exists(p, l) == items[p][l] # NoLine
LinesOf(p) == {l \in LineNos : Exists(p, l)}

\* grand_total of lines f with adjustment a.
Total(f, a) == SumFunction([l \in LineNos |-> f[l].subtotal]) + a

\* subtractDecimal formats the remaining quantity with two decimals; a
\* half is rounded away from zero.
Round2(x) == IF x >= 0 THEN 100 * ((x + 50) \div 100) ELSE -(100 * ((50 - x) \div 100))

------------------------------------------------------------------------------
(* Lines *)

\* Mutated: without the check.
SetLinesUnchecked(p, f) ==
    /\ items' = [items EXCEPT ![p] = f]
    /\ grand' = [grand EXCEPT ![p] = Total(f, adjust[p])]

\* recomputePurchaseTotals after the lines of p became f.  The check
\* grand_total >= 0 of the table makes the operation fail otherwise.
SetLines(p, f) ==
    /\ Total(f, adjust[p]) \in Nat
    /\ items' = [items EXCEPT ![p] = f]
    /\ grand' = [grand EXCEPT ![p] = Total(f, adjust[p])]

CreatePurchase(p) ==
    /\ status[p] = "none"
    /\ \E n \in LineNos : \E req \in [1..n -> Requests] : \E d \in Discounts, x \in Taxes :
        LET f == [l \in LineNos |-> IF l <= n THEN req[l] ELSE NoLine]
            a == x - d
        IN  /\ Total(f, a) \in Nat
            /\ items' = [items EXCEPT ![p] = f]
            /\ adjust' = [adjust EXCEPT ![p] = a]
            /\ grand' = [grand EXCEPT ![p] = Total(f, a)]
    /\ status' = [status EXCEPT ![p] = "DRAFT"]
    /\ paymentStatus' = [paymentStatus EXCEPT ![p] = "UNPAID"]
    /\ UNCHANGED <<paid, receipts, orderView, ledger, cash>>

\* The new line gets MAX(line_number) + 1.
AddPurchaseItem(p) ==
    /\ status[p] = "DRAFT"
    /\ \E l \in LineNos, req \in Requests :
        /\ \A m \in LinesOf(p) : m < l
        /\ l = 1 \/ l - 1 \in LinesOf(p)
        /\ SetLines(p, [items[p] EXCEPT ![l] = req])
    /\ UNCHANGED <<status, paymentStatus, adjust, paid, receipts, orderView, ledger, cash>>

\* Mutated: lines may change until the purchase is received in full, received or not.
UpdateAnyItem(p) ==
    /\ status[p] \in Open
    /\ \E l \in LinesOf(p), req \in Requests :
        SetLines(p, [items[p] EXCEPT ![l] = [req EXCEPT !.received = items[p][l].received]])
    /\ UNCHANGED <<status, paymentStatus, adjust, paid, receipts, orderView, ledger, cash>>

UpdatePurchaseItem(p) ==
    /\ status[p] \in Open
    /\ \E l \in LinesOf(p), req \in Requests :
        /\ items[p][l].received = 0
        /\ SetLines(p, [items[p] EXCEPT ![l] = req])
    /\ UNCHANGED <<status, paymentStatus, adjust, paid, receipts, orderView, ledger, cash>>

DeletePurchaseItem(p) ==
    /\ status[p] \in Open
    /\ \E l \in LinesOf(p) :
        /\ items[p][l].received = 0
        /\ SetLines(p, [items[p] EXCEPT ![l] = NoLine])
    /\ UNCHANGED <<status, paymentStatus, adjust, paid, receipts, orderView, ledger, cash>>

------------------------------------------------------------------------------
(* Order and cancel *)

\* The statement of OrderPurchase takes its snapshot, and with it the count.
OrderRead(p) ==
    /\ status[p] # "none"
    /\ orderView[p] = "none"
    /\ orderView' = [orderView EXCEPT ![p] = IF LinesOf(p) = {} THEN "empty" ELSE "lines"]
    /\ UNCHANGED <<status, paymentStatus, items, adjust, grand, paid, receipts, ledger, cash>>

\* It has the lock: the status is the current one, the count is not.
OrderPurchase(p) ==
    /\ status[p] = "DRAFT"
    /\ orderView[p] = "lines"
    /\ status' = [status EXCEPT ![p] = "ORDERED"]
    /\ orderView' = [orderView EXCEPT ![p] = "none"]
    /\ UNCHANGED <<paymentStatus, items, adjust, grand, paid, receipts, ledger, cash>>

OrderRefused(p) ==
    /\ orderView[p] # "none"
    /\ status[p] # "DRAFT" \/ orderView[p] = "empty"
    /\ orderView' = [orderView EXCEPT ![p] = "none"]
    /\ UNCHANGED <<status, paymentStatus, items, adjust, grand, paid, receipts, ledger, cash>>

CancelPurchase(p) ==
    /\ status[p] \in {"DRAFT", "ORDERED"}
    /\ ~receipts[p] /\ paid[p] = 0
    /\ status' = [status EXCEPT ![p] = "CANCELLED"]
    /\ UNCHANGED <<paymentStatus, items, adjust, grand, paid, receipts, orderView, ledger, cash>>

------------------------------------------------------------------------------
(* Receipts and payments *)

\* Mutated: earlier receipts are forgotten.
RemainingOfOrder(p, l) == items[p][l].ordered

Remaining(p, l) == items[p][l].ordered - items[p][l].received

\* A receipt of quantities q[l] for distinct lines; one bad line and nothing
\* of it is recorded.
Acceptable(p, q) == \A l \in DOMAIN q : q[l] <= Round2(Remaining(p, l))

Received(p, q) ==
    [l \in LineNos |-> IF l \in DOMAIN q
                       THEN [items[p][l] EXCEPT !.received = @ + q[l]]
                       ELSE items[p][l]]

\* Mutated: complete when the lines of this receipt are.
StatusOfReceipt(f, L) ==
    IF \A l \in L : f[l].received >= f[l].ordered THEN "RECEIVED" ELSE "PARTIALLY_RECEIVED"

\* RECEIVED when no line of the purchase has less than it ordered.
StatusAfter(f, L) ==
    IF \A l \in LineNos : f[l].received >= f[l].ordered THEN "RECEIVED" ELSE "PARTIALLY_RECEIVED"

ReceivePurchase(p) ==
    /\ status[p] \in Open
    /\ \E L \in (SUBSET LinesOf(p)) \ {{}} : \E q \in [L -> Quantities] :
        /\ Acceptable(p, q)
        /\ items' = [items EXCEPT ![p] = Received(p, q)]
        /\ status' = [status EXCEPT ![p] = StatusAfter(Received(p, q), L)]
        /\ ledger' = [x \in Products |->
               ledger[x] + IF x \in Tracked
                           THEN SumFunctionOnSet(q, {l \in L : items[p][l].product = x})
                           ELSE 0]
    /\ receipts' = [receipts EXCEPT ![p] = TRUE]
    /\ UNCHANGED <<paymentStatus, adjust, grand, paid, orderView, cash>>

\* Mutated: the balance is updated only when the purchase is paid in full.
PaymentWhenPaid(p) ==
    /\ status[p] \in {"PARTIALLY_RECEIVED", "RECEIVED"}
    /\ \E a \in Amounts :
        /\ a <= grand[p] - paid[p]
        /\ paid' = [paid EXCEPT ![p] = @ + a]
        /\ paymentStatus' = [paymentStatus EXCEPT ![p] =
               IF paid[p] + a = grand[p] THEN "PAID" ELSE "PARTIAL"]
        /\ cash' = IF paid[p] + a = grand[p] THEN cash - a ELSE cash
    /\ UNCHANGED <<status, items, adjust, grand, receipts, orderView, ledger>>

\* CHARGE of a at most what is outstanding.
RecordPurchasePayment(p) ==
    /\ status[p] \in {"PARTIALLY_RECEIVED", "RECEIVED"}
    /\ \E a \in Amounts :
        /\ a <= grand[p] - paid[p]
        /\ paid' = [paid EXCEPT ![p] = @ + a]
        /\ paymentStatus' = [paymentStatus EXCEPT ![p] =
               IF paid[p] + a = grand[p] THEN "PAID" ELSE "PARTIAL"]
        /\ cash' = cash - a
    /\ UNCHANGED <<status, items, adjust, grand, receipts, orderView, ledger>>

------------------------------------------------------------------------------
(* Specification *)

Init ==
    /\ status = [p \in PurchaseIds |-> "none"]
    /\ paymentStatus = [p \in PurchaseIds |-> "UNPAID"]
    /\ items = [p \in PurchaseIds |-> [l \in LineNos |-> NoLine]]
    /\ adjust = [p \in PurchaseIds |-> 0]
    /\ grand = [p \in PurchaseIds |-> 0]
    /\ paid = [p \in PurchaseIds |-> 0]
    /\ receipts = [p \in PurchaseIds |-> FALSE]
    /\ orderView = [p \in PurchaseIds |-> "none"]
    /\ ledger = [x \in Products |-> 0]
    /\ cash = 0

Operation(p) ==
    \/ CreatePurchase(p) \/ AddPurchaseItem(p) \/ UpdatePurchaseItem(p) \/ DeletePurchaseItem(p)
    \/ OrderRead(p) \/ OrderPurchase(p) \/ OrderRefused(p) \/ CancelPurchase(p)
    \/ ReceivePurchase(p) \/ RecordPurchasePayment(p)

Next == \E p \in PurchaseIds : Operation(p)

Spec == Init /\ [][Next]_vars

------------------------------------------------------------------------------
(* Properties *)

TypeOK ==
    /\ status \in [PurchaseIds -> Statuses]
    /\ paymentStatus \in [PurchaseIds -> {"UNPAID", "PARTIAL", "PAID"}]
    /\ items \in [PurchaseIds -> [LineNos -> Lines]]
    /\ adjust \in [PurchaseIds -> Int]
    /\ grand \in [PurchaseIds -> Nat]
    /\ paid \in [PurchaseIds -> Nat]
    /\ receipts \in [PurchaseIds -> BOOLEAN]
    /\ orderView \in [PurchaseIds -> {"none", "lines", "empty"}]
    /\ cash \in Int

\* The status tells what happened to the lines, though lines change under
\* it: RECEIVED has nothing left to receive, PARTIALLY_RECEIVED has received
\* something, and the others have received nothing and been paid nothing.
StatusTellsReceipts ==
    \A p \in PurchaseIds :
        /\ status[p] = "RECEIVED" => \A l \in LineNos : items[p][l].received >= items[p][l].ordered
        /\ status[p] \in {"PARTIALLY_RECEIVED", "RECEIVED"} <=> \E l \in LineNos : items[p][l].received > 0
        /\ receipts[p] <=> \E l \in LineNos : items[p][l].received > 0
        /\ paid[p] > 0 => receipts[p]

\* The movements of a tracked product are explained by the received lines:
\* changing and deleting lines never detaches stock from the line it came by.
LedgerExplainedByLines ==
    \A x \in Tracked :
        ledger[x] = SumFunction([p \in PurchaseIds |->
            SumFunctionOnSet([l \in LineNos |-> items[p][l].received],
                             {l \in LineNos : items[p][l].product = x})])

\* Money leaves the cash accounts only against a purchase: what the payments
\* of all purchases add up to is what is missing.
CashExplainedByPayments ==
    cash + SumFunction(paid) = 0

\* The rounding of the remaining quantity lets a receipt exceed the order by
\* half a hundredth at most, however the line is received.
OverReceiptBounded ==
    \A p \in PurchaseIds, l \in LineNos :
        items[p][l].received <= items[p][l].ordered + 50

\* No more is received than was ordered (OVER_RECEIPT, repository_purchases.go).
NeverOverReceived ==
    \A p \in PurchaseIds, l \in LineNos :
        items[p][l].received <= items[p][l].ordered

\* A received or cancelled purchase is final: its lines, its total and its
\* status never change again.
FinalStaysFinal ==
    [][\A p \in PurchaseIds : status[p] \in {"RECEIVED", "CANCELLED"} =>
          /\ status'[p] = status[p]
          /\ items'[p] = items[p]
          /\ grand'[p] = grand[p]]_vars
==============================================================================
