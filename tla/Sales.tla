-------------------------------- MODULE Sales --------------------------------
(***************************************************************************)
(* The life of sales (repository_sales.go): drafts and their lines, the    *)
(* checkout that takes the goods and the money, the void that gives both   *)
(* back, against the stock of one location and the cash accounts.          *)
(*                                                                         *)
(* Every operation reads its sale FOR UPDATE first and is one step here;   *)
(* the interleaving of the stock statements of two checkouts is the        *)
(* subject of StockTx.  Between two steps anybody may start or stop        *)
(* tracking the stock of a product (UpdateProduct).                        *)
(*                                                                         *)
(* Money is in units of 0.01.                                              *)
(***************************************************************************)
EXTENDS Integers, FiniteSetsExt

CONSTANTS
    SaleIds,        \* the sales of the business
    Products,       \* its products
    TrackedAtFirst, \* the products created with is_stock_tracked
    Retrackable,    \* bound: the products whose is_stock_tracked is changed later
    NoProduct,      \* the product of a line that does not exist
    Accounts,       \* its cash accounts, all active: no operation deactivates one
    NoAccount,      \* the account of a sale without payments
    Quantities,     \* quantities of a line
    Openings,       \* quantities of an opening balance
    Subtotals,      \* quantity * unit price - discount of a line
    Adjusts,        \* tax total - discount total of a sale, less LeastAdjust
    LeastAdjust,    \* the largest discount total
    MaxLines        \* bound: line numbers of one sale

ASSUME SalesAssumption ==
    /\ IsFiniteSet(SaleIds)
    /\ TrackedAtFirst \subseteq Products /\ Retrackable \subseteq Products
    /\ NoProduct \notin Products
    /\ NoAccount \notin Accounts
    /\ Quantities \subseteq Nat \ {0}
    /\ Openings \subseteq Nat \ {0}
    /\ Subtotals \subseteq Nat
    /\ Adjusts \subseteq Nat /\ LeastAdjust \in Nat
    /\ MaxLines \in Nat \ {0}

VARIABLES
    status,         \* sales.status, "none" before it exists
    paymentStatus,  \* sales.payment_status
    items,          \* sale_items by line_number
    adjust,         \* tax_total - discount_total
    grand,          \* grand_total as last recomputed
    charge,         \* the account and the amount of the sale's CHARGE payment
    refund,         \* the account and the amount of its REFUND payment
    net,            \* the movements with this sale_id: IN less OUT, per product
    tracked,        \* products.is_stock_tracked
    hasRow,         \* whether product_inventory has a row for the product
    stock,          \* its quantity
    ledger,         \* all movements of the product: IN less OUT
    opened,         \* whether the product has its OPENING_BALANCE movement
    cash            \* cash_accounts.balance

saleVars == <<status, paymentStatus, items, adjust, grand, charge, refund, net>>
stockVars == <<tracked, hasRow, stock, ledger, opened>>
vars == <<saleVars, stockVars, cash>>

LineNos == 1..MaxLines
NoLine == [product |-> NoProduct, quantity |-> 0, subtotal |-> 0]
NoPayment == [account |-> NoAccount, amount |-> 0]

\* A line as the service admits it: a positive quantity, no negative subtotal.
Requests == [product : Products, quantity : Quantities, subtotal : Subtotals]

Exists(s, l) == items[s][l] # NoLine
LinesOf(s) == {l \in LineNos : Exists(s, l)}

\* grand_total of lines f with adjustment a.
Total(f, a) == SumFunction([l \in LineNos |-> f[l].subtotal]) + a

\* How much of product x the sale holds: its lines are handled one by one,
\* and what they take or return adds up.
Sold(s, x) ==
    SumFunctionOnSet([l \in LineNos |-> items[s][l].quantity],
                     {l \in LineNos : items[s][l].product = x})

\* The products of the lines whose stock is tracked at this moment.
Stocked(s) == {x \in Products : tracked[x] /\ \E l \in LineNos : items[s][l].product = x}

\* What the sale takes out of the stock, or returns, at this moment.
StockSold(s) == [x \in Products |-> IF x \in Stocked(s) THEN Sold(s, x) ELSE 0]

------------------------------------------------------------------------------
(* Drafts *)

\* recomputeSaleTotals after the lines of s became f; the check
\* grand_total >= 0 of the table makes the operation fail otherwise.
SetLines(s, f) ==
    /\ Total(f, adjust[s]) \in Nat
    /\ items' = [items EXCEPT ![s] = f]
    /\ grand' = [grand EXCEPT ![s] = Total(f, adjust[s])]

\* A draft may have no lines.
CreateSale(s) ==
    /\ status[s] = "none"
    /\ \E n \in 0..MaxLines : \E req \in [1..n -> Requests] : \E d \in Adjusts :
        LET f == [l \in LineNos |-> IF l <= n THEN req[l] ELSE NoLine]
            a == d - LeastAdjust
        IN  /\ Total(f, a) \in Nat
            /\ items' = [items EXCEPT ![s] = f]
            /\ adjust' = [adjust EXCEPT ![s] = a]
            /\ grand' = [grand EXCEPT ![s] = Total(f, a)]
    /\ status' = [status EXCEPT ![s] = "DRAFT"]
    /\ UNCHANGED <<paymentStatus, charge, refund, net, stockVars, cash>>

\* The new line gets MAX(line_number) + 1.
AddSaleItem(s) ==
    /\ status[s] = "DRAFT"
    /\ \E l \in LineNos, req \in Requests :
        /\ \A m \in LinesOf(s) : m < l
        /\ l = 1 \/ l - 1 \in LinesOf(s)
        /\ SetLines(s, [items[s] EXCEPT ![l] = req])
    /\ UNCHANGED <<status, paymentStatus, adjust, charge, refund, net, stockVars, cash>>

\* Mutated: a line of any sale can be changed.
UpdateAnySaleItem(s) ==
    /\ \E l \in LinesOf(s), req \in Requests : SetLines(s, [items[s] EXCEPT ![l] = req])
    /\ UNCHANGED <<status, paymentStatus, adjust, charge, refund, net, stockVars, cash>>

UpdateSaleItem(s) ==
    /\ status[s] = "DRAFT"
    /\ \E l \in LinesOf(s), req \in Requests : SetLines(s, [items[s] EXCEPT ![l] = req])
    /\ UNCHANGED <<status, paymentStatus, adjust, charge, refund, net, stockVars, cash>>

\* Mutated: lines of a sale that is paid can be deleted.
DeleteFromAnySale(s) ==
    /\ status[s] \in {"DRAFT", "COMPLETED"}
    /\ \E l \in LinesOf(s) : SetLines(s, [items[s] EXCEPT ![l] = NoLine])
    /\ UNCHANGED <<status, paymentStatus, adjust, charge, refund, net, stockVars, cash>>

DeleteSaleItem(s) ==
    /\ status[s] = "DRAFT"
    /\ \E l \in LinesOf(s) : SetLines(s, [items[s] EXCEPT ![l] = NoLine])
    /\ UNCHANGED <<status, paymentStatus, adjust, charge, refund, net, stockVars, cash>>

CancelSale(s) ==
    /\ status[s] = "DRAFT"
    /\ \A x \in Products : net[s][x] = 0
    /\ charge[s] = NoPayment
    /\ status' = [status EXCEPT ![s] = "CANCELLED"]
    /\ UNCHANGED <<paymentStatus, items, adjust, grand, charge, refund, net, stockVars, cash>>

------------------------------------------------------------------------------
(* Checkout and void *)

\* The movements of sale s add d[x] of each product x to the ledger.
MoveStock(s, d) ==
    /\ ledger' = [x \in Products |-> ledger[x] + d[x]]
    /\ net' = [net EXCEPT ![s] = [x \in Products |-> @[x] + d[x]]]

\* Mutated: each line is compared with the whole stock.
InStockByLine(s) ==
    \A l \in LinesOf(s) :
        items[s][l].product \in Stocked(s) =>
            hasRow[items[s][l].product] /\ items[s][l].quantity <= stock[items[s][l].product]

\* There are goods for every tracked line.
InStock(s) == \A x \in Stocked(s) : hasRow[x] /\ Sold(s, x) <= stock[x]

\* Full payment to an active account, and goods for every tracked line or
\* INSUFFICIENT_STOCK for the whole sale.  The amount paid is positive, so
\* a sale that costs nothing is never checked out.
CheckoutSale(s) ==
    /\ status[s] = "DRAFT"
    /\ LinesOf(s) # {}
    /\ grand[s] > 0
    /\ InStock(s)
    /\ stock' = [x \in Products |-> stock[x] - StockSold(s)[x]]
    /\ MoveStock(s, [x \in Products |-> -StockSold(s)[x]])
    /\ \E a \in Accounts :
        /\ charge' = [charge EXCEPT ![s] = [account |-> a, amount |-> grand[s]]]
        /\ cash' = [cash EXCEPT ![a] = @ + grand[s]]
    /\ status' = [status EXCEPT ![s] = "COMPLETED"]
    /\ paymentStatus' = [paymentStatus EXCEPT ![s] = "PAID"]
    /\ UNCHANGED <<items, adjust, grand, refund, tracked, hasRow, opened>>

\* Mutated: a voided sale can be voided again.
VoidableAgain(s) == status[s] \in {"COMPLETED", "VOIDED"}

Voidable(s) == status[s] = "COMPLETED" /\ paymentStatus[s] = "PAID"

\* Mutated: one UPDATE ... FROM sale_items, which changes a row once however
\* many lines it joins.
ReturnByJoin(s) ==
    /\ \E f \in [Stocked(s) -> LinesOf(s)] :
        /\ \A x \in Stocked(s) : items[s][f[x]].product = x
        /\ stock' = [x \in Products |->
               IF x \in Stocked(s) /\ hasRow[x] THEN stock[x] + items[s][f[x]].quantity ELSE stock[x]]
    /\ MoveStock(s, StockSold(s))

\* The goods of the lines whose product is tracked now come back: the
\* movement always, the quantity only where there is a row to update.
ReturnGoods(s) ==
    /\ stock' = [x \in Products |->
           IF hasRow[x] THEN stock[x] + StockSold(s)[x] ELSE stock[x]]
    /\ MoveStock(s, StockSold(s))

\* Mutated: the refund is paid from any account.
RefundFromAny(s) ==
    \E a \in Accounts :
        /\ refund' = [refund EXCEPT ![s] = [account |-> a, amount |-> charge[s].amount]]
        /\ cash' = [cash EXCEPT ![a] = @ - charge[s].amount]

\* A CHARGE gets a REFUND on its own account.
Refund(s) ==
    /\ refund' = [refund EXCEPT ![s] = charge[s]]
    /\ cash' = [cash EXCEPT ![charge[s].account] = @ - charge[s].amount]

VoidSale(s) ==
    /\ Voidable(s)
    /\ ReturnGoods(s)
    /\ Refund(s)
    /\ status' = [status EXCEPT ![s] = "VOIDED"]
    /\ paymentStatus' = [paymentStatus EXCEPT ![s] = "UNPAID"]
    /\ UNCHANGED <<items, adjust, grand, charge, tracked, hasRow, opened>>

------------------------------------------------------------------------------
(* What else happens to the stock *)

\* CreateOpeningStock: once per product and location, for tracked products.
CreateOpeningStock(x) ==
    /\ tracked[x] /\ ~opened[x]
    /\ \E q \in Openings :
        /\ stock' = [stock EXCEPT ![x] = @ + q]
        /\ ledger' = [ledger EXCEPT ![x] = @ + q]
    /\ hasRow' = [hasRow EXCEPT ![x] = TRUE]
    /\ opened' = [opened EXCEPT ![x] = TRUE]
    /\ UNCHANGED <<saleVars, tracked, cash>>

\* UpdateProduct changes is_stock_tracked and asks nothing about the stock.
UpdateProduct(x) ==
    /\ x \in Retrackable
    /\ tracked' = [tracked EXCEPT ![x] = ~@]
    /\ UNCHANGED <<saleVars, hasRow, stock, ledger, opened, cash>>

------------------------------------------------------------------------------
(* Specification *)

Init ==
    /\ status = [s \in SaleIds |-> "none"]
    /\ paymentStatus = [s \in SaleIds |-> "UNPAID"]
    /\ items = [s \in SaleIds |-> [l \in LineNos |-> NoLine]]
    /\ adjust = [s \in SaleIds |-> 0]
    /\ grand = [s \in SaleIds |-> 0]
    /\ charge = [s \in SaleIds |-> NoPayment]
    /\ refund = [s \in SaleIds |-> NoPayment]
    /\ net = [s \in SaleIds |-> [x \in Products |-> 0]]
    /\ tracked = [x \in Products |-> x \in TrackedAtFirst]
    /\ hasRow = [x \in Products |-> FALSE]
    /\ stock = [x \in Products |-> 0]
    /\ ledger = [x \in Products |-> 0]
    /\ opened = [x \in Products |-> FALSE]
    /\ cash = [a \in Accounts |-> 0]

Operation(s) ==
    \/ CreateSale(s) \/ AddSaleItem(s) \/ UpdateSaleItem(s) \/ DeleteSaleItem(s)
    \/ CancelSale(s) \/ CheckoutSale(s) \/ VoidSale(s)

Next ==
    \/ \E s \in SaleIds : Operation(s)
    \/ \E x \in Products : CreateOpeningStock(x) \/ UpdateProduct(x)

Spec == Init /\ [][Next]_vars

------------------------------------------------------------------------------
(* Properties *)

Lines == [product : Products \cup {NoProduct}, quantity : Nat, subtotal : Nat]
Payments == [account : Accounts \cup {NoAccount}, amount : Nat]

\* Among them, that no operation makes a quantity in stock negative.
TypeOK ==
    /\ status \in [SaleIds -> {"none", "DRAFT", "COMPLETED", "VOIDED", "CANCELLED"}]
    /\ paymentStatus \in [SaleIds -> {"UNPAID", "PAID"}]
    /\ items \in [SaleIds -> [LineNos -> Lines]]
    /\ adjust \in [SaleIds -> Int]
    /\ grand \in [SaleIds -> Nat]
    /\ charge \in [SaleIds -> Payments]
    /\ refund \in [SaleIds -> Payments]
    /\ net \in [SaleIds -> [Products -> Int]]
    /\ tracked \in [Products -> BOOLEAN]
    /\ hasRow \in [Products -> BOOLEAN]
    /\ stock \in [Products -> Nat]
    /\ ledger \in [Products -> Int]
    /\ opened \in [Products -> BOOLEAN]
    /\ cash \in [Accounts -> Int]

\* The movements of a sale tell its status, where tracking is not switched:
\* a completed sale has taken exactly its tracked lines out of the stock,
\* and every other sale, a voided one with its two sets of movements
\* included, leaves the stock as if it had never been.
MovementsTellStatus ==
    \A s \in SaleIds, x \in Products \ Retrackable :
        net[s][x] = IF status[s] = "COMPLETED" /\ x \in TrackedAtFirst THEN -Sold(s, x) ELSE 0

\* The same for money, account by account: a balance is what the completed
\* sales paid into that account cost, so a void undoes its checkout on the
\* account the customer paid to, and no sale is refunded twice.
CashTellsSales ==
    \A a \in Accounts :
        cash[a] = SumFunctionOnSet(grand,
                      {s \in SaleIds : status[s] = "COMPLETED" /\ charge[s].account = a})

\* What the customer was charged is what the sale says it cost, for ever:
\* totals do not move under a payment, and only a voided sale is refunded,
\* in full and to the account that was charged.
PaymentsTellSales ==
    \A s \in SaleIds :
        /\ charge[s] # NoPayment <=> status[s] \in {"COMPLETED", "VOIDED"}
        /\ charge[s] # NoPayment => charge[s].amount = grand[s]
        /\ refund[s] = IF status[s] = "VOIDED" THEN charge[s] ELSE NoPayment
        /\ paymentStatus[s] = "PAID" <=> status[s] = "COMPLETED"

\* Where the tracking of a product is not switched, its stock is its ledger,
\* summed, and product_inventory can be rebuilt from stock_movements: every
\* movement of a sale finds the row it is to change.
SteadyLedger == \A x \in Products \ Retrackable : ledger[x] = stock[x]

\* A sale that left DRAFT keeps its lines and its total, and moves on only
\* from COMPLETED to VOIDED.
SettledSalesAreFrozen ==
    [][\A s \in SaleIds : status[s] \notin {"none", "DRAFT"} =>
          /\ items'[s] = items[s] /\ grand'[s] = grand[s] /\ charge'[s] = charge[s]
          /\ status'[s] # status[s] => status[s] = "COMPLETED" /\ status'[s] = "VOIDED"]_vars
==============================================================================
