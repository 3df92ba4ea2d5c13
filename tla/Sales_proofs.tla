----------------------------- MODULE Sales_proofs -----------------------------
(***************************************************************************)
(* What a sale says it cost, what its customer paid, what it took from     *)
(* stock and what it left in a cash account, for any sales, lines,         *)
(* products and accounts.                                                  *)
(***************************************************************************)
EXTENDS Sales, SumLemmas, TLAPS

------------------------------------------------------------------------------
(* The inductive invariant *)

\* The part of the types that payments depend on.
PaymentTypes ==
    /\ status \in [SaleIds -> {"none", "DRAFT", "COMPLETED", "VOIDED", "CANCELLED"}]
    /\ paymentStatus \in [SaleIds -> {"UNPAID", "PAID"}]
    /\ DOMAIN items = SaleIds
    /\ grand \in [SaleIds -> Nat]
    /\ charge \in [SaleIds -> Payments]
    /\ refund \in [SaleIds -> Payments]

IInv == PaymentTypes /\ PaymentsTellSales

\* No operation touches the header, the lines or the payments of another sale.
OthersKept(s) ==
    \A r \in SaleIds \ {s} :
        /\ status'[r] = status[r] /\ paymentStatus'[r] = paymentStatus[r]
        /\ items'[r] = items[r] /\ grand'[r] = grand[r]
        /\ charge'[r] = charge[r] /\ refund'[r] = refund[r]

------------------------------------------------------------------------------
(* Drafts *)

LEMMA NoPaymentTyped == NoPayment \in Payments /\ NoPayment.amount = 0
BY DEF NoPayment, Payments

\* Lines and total of sale s are replaced.
LEMMA LinesReplaced ==
    ASSUME PaymentTypes, NEW s \in SaleIds, NEW f, SetLines(s, f)
    PROVE  /\ DOMAIN items' = SaleIds
           /\ grand' \in [SaleIds -> Nat]
           /\ \A r \in SaleIds \ {s} : items'[r] = items[r] /\ grand'[r] = grand[r]
BY DEF PaymentTypes, SetLines

\* Creating a sale and editing a draft.
LEMMA DraftStep ==
    ASSUME IInv, NEW s \in SaleIds,
           CreateSale(s) \/ AddSaleItem(s) \/ UpdateSaleItem(s) \/ DeleteSaleItem(s)
    PROVE  IInv' /\ OthersKept(s) /\ status[s] \in {"none", "DRAFT"}
<1>1. /\ UNCHANGED <<paymentStatus, charge, refund>>
      /\ status[s] \in {"none", "DRAFT"}
      BY DEF CreateSale, AddSaleItem, UpdateSaleItem, DeleteSaleItem
<1>2. /\ DOMAIN items' = SaleIds
      /\ grand' \in [SaleIds -> Nat]
      /\ \A r \in SaleIds \ {s} : items'[r] = items[r] /\ grand'[r] = grand[r]
      <2>1. CASE CreateSale(s)
            <3>1. PICK n \in 0..MaxLines : \E req \in [1..n -> Requests] : \E d \in Adjusts :
                      LET f == [l \in LineNos |-> IF l <= n THEN req[l] ELSE NoLine]
                          a == d - LeastAdjust
                      IN  /\ Total(f, a) \in Nat
                          /\ items' = [items EXCEPT ![s] = f]
                          /\ grand' = [grand EXCEPT ![s] = Total(f, a)]
                  BY <2>1 DEF CreateSale
            <3>2. PICK f, g : /\ g \in Nat
                              /\ items' = [items EXCEPT ![s] = f]
                              /\ grand' = [grand EXCEPT ![s] = g]
                  BY <3>1
            <3>3. QED
                  BY <3>2 DEF IInv, PaymentTypes
      <2>2. CASE AddSaleItem(s) \/ UpdateSaleItem(s) \/ DeleteSaleItem(s)
            <3>1. PICK f : SetLines(s, f)
                  BY <2>2 DEF AddSaleItem, UpdateSaleItem, DeleteSaleItem
            <3>2. QED
                  BY <3>1, LinesReplaced DEF IInv
      <2>3. QED
            BY <2>1, <2>2
<1>3. /\ status' \in [SaleIds -> {"none", "DRAFT", "COMPLETED", "VOIDED", "CANCELLED"}]
      /\ status'[s] = "DRAFT"
      /\ \A r \in SaleIds \ {s} : status'[r] = status[r]
      BY DEF CreateSale, AddSaleItem, UpdateSaleItem, DeleteSaleItem, IInv, PaymentTypes
<1>4. PaymentTypes'
      BY <1>1, <1>2, <1>3 DEF IInv, PaymentTypes
<1>5. charge[s] = NoPayment /\ refund[s] = NoPayment /\ paymentStatus[s] # "PAID"
      BY <1>1 DEF IInv, PaymentsTellSales
<1>6. PaymentsTellSales'
      BY <1>1, <1>2, <1>3, <1>5 DEF IInv, PaymentsTellSales
<1>7. QED
      BY <1>1, <1>2, <1>3, <1>4, <1>6 DEF IInv, OthersKept

------------------------------------------------------------------------------
(* The end of a draft *)

LEMMA CancelStep ==
    ASSUME IInv, NEW s \in SaleIds, CancelSale(s)
    PROVE  IInv' /\ OthersKept(s) /\ status[s] = "DRAFT"
BY DEF CancelSale, IInv, PaymentTypes, PaymentsTellSales, OthersKept

LEMMA CheckoutStep ==
    ASSUME IInv, NEW s \in SaleIds, CheckoutSale(s)
    PROVE  IInv' /\ OthersKept(s) /\ status[s] = "DRAFT"
<1>1. PICK a \in Accounts :
          charge' = [charge EXCEPT ![s] = [account |-> a, amount |-> grand[s]]]
      BY DEF CheckoutSale
<1>2. /\ status' = [status EXCEPT ![s] = "COMPLETED"]
      /\ paymentStatus' = [paymentStatus EXCEPT ![s] = "PAID"]
      /\ UNCHANGED <<items, grand, refund>>
      /\ status[s] = "DRAFT" /\ grand[s] > 0
      BY DEF CheckoutSale
<1>3. grand[s] \in Nat
      BY DEF IInv, PaymentTypes
<1>4. /\ [account |-> a, amount |-> grand[s]] \in Payments
      /\ [account |-> a, amount |-> grand[s]] # NoPayment
      BY <1>3, SalesAssumption DEF Payments, NoPayment
<1>5. PaymentTypes'
      BY <1>1, <1>2, <1>4 DEF IInv, PaymentTypes
<1>6. /\ charge'[s] = [account |-> a, amount |-> grand[s]]
      /\ charge'[s].amount = grand[s]
      /\ status'[s] = "COMPLETED" /\ paymentStatus'[s] = "PAID"
      /\ OthersKept(s)
      BY <1>1, <1>2 DEF IInv, PaymentTypes, OthersKept
<1>7. PaymentsTellSales'
      BY <1>2, <1>4, <1>6 DEF IInv, PaymentsTellSales, OthersKept
<1>8. QED
      BY <1>2, <1>5, <1>6, <1>7 DEF IInv

LEMMA VoidStep ==
    ASSUME IInv, NEW s \in SaleIds, VoidSale(s)
    PROVE  /\ IInv' /\ OthersKept(s)
           /\ status[s] = "COMPLETED" /\ status'[s] = "VOIDED"
           /\ UNCHANGED <<items, grand, charge>>
<1>1. /\ status' = [status EXCEPT ![s] = "VOIDED"]
      /\ paymentStatus' = [paymentStatus EXCEPT ![s] = "UNPAID"]
      /\ refund' = [refund EXCEPT ![s] = charge[s]]
      /\ UNCHANGED <<items, grand, charge>>
      /\ status[s] = "COMPLETED"
      BY DEF VoidSale, Voidable, Refund
<1>2. PaymentTypes'
      BY <1>1 DEF IInv, PaymentTypes
<1>3. /\ status'[s] = "VOIDED" /\ paymentStatus'[s] = "UNPAID" /\ refund'[s] = charge[s]
      /\ OthersKept(s)
      BY <1>1 DEF IInv, PaymentTypes, OthersKept
<1>4. PaymentsTellSales'
      BY <1>1, <1>3 DEF IInv, PaymentsTellSales, OthersKept
<1>5. QED
      BY <1>1, <1>2, <1>3, <1>4 DEF IInv

------------------------------------------------------------------------------
(* Theorems *)

LEMMA InitIInv == Init => IInv
BY NoPaymentTyped DEF Init, IInv, PaymentTypes, PaymentsTellSales

LEMMA OtherStep ==
    ASSUME IInv,
           \/ UNCHANGED vars
           \/ \E x \in Products : CreateOpeningStock(x) \/ UpdateProduct(x)
    PROVE  IInv' /\ UNCHANGED saleVars
<1>1. UNCHANGED saleVars
      BY DEF vars, saleVars, CreateOpeningStock, UpdateProduct
<1>2. QED
      BY <1>1 DEF saleVars, IInv, PaymentTypes, PaymentsTellSales

LEMMA NextIInv == IInv /\ [Next]_vars => IInv'
<1> SUFFICES ASSUME IInv, [Next]_vars PROVE IInv'
    OBVIOUS
<1>1. ASSUME NEW s \in SaleIds, Operation(s) PROVE IInv'
      BY <1>1, DraftStep, CancelStep, CheckoutStep, VoidStep DEF Operation
<1>2. QED
      BY <1>1, OtherStep DEF Next

\* Charges, refunds, totals and the status of every sale agree, for ever.
THEOREM PaymentsAgree == Spec => []PaymentsTellSales
<1>1. IInv => PaymentsTellSales
      BY DEF IInv
<1>2. QED
      BY <1>1, InitIInv, NextIInv, PTL DEF Spec

\* A sale that is completed, voided or cancelled keeps lines, total and
\* charge; only a void changes its status again.
THEOREM SettledSales == Spec => SettledSalesAreFrozen
<1> DEFINE Frozen(r) ==
        /\ items'[r] = items[r] /\ grand'[r] = grand[r] /\ charge'[r] = charge[r]
        /\ status'[r] # status[r] => status[r] = "COMPLETED" /\ status'[r] = "VOIDED"
<1>1. ASSUME IInv, [Next]_vars, NEW r \in SaleIds, status[r] \notin {"none", "DRAFT"}
      PROVE  Frozen(r)
      <2>1. ASSUME NEW s \in SaleIds, Operation(s) PROVE Frozen(r)
            <3>1. CASE s = r
                  <4>1. VoidSale(r)
                        BY <1>1, <2>1, <3>1, DraftStep, CancelStep, CheckoutStep DEF Operation
                  <4>2. QED
                        BY <1>1, <4>1, VoidStep
            <3>2. CASE s # r
                  <4>1. OthersKept(s)
                        BY <1>1, <2>1, DraftStep, CancelStep, CheckoutStep, VoidStep DEF Operation
                  <4>2. QED
                        BY <3>2, <4>1 DEF OthersKept
            <3>3. QED
                  BY <3>1, <3>2
      <2>2. CASE UNCHANGED saleVars
            BY <2>2 DEF saleVars
      <2>3. QED
            BY <1>1, <2>1, <2>2, OtherStep DEF Next
<1>2. IInv /\ [Next]_vars =>
          [\A s \in SaleIds : status[s] \notin {"none", "DRAFT"} =>
              /\ items'[s] = items[s] /\ grand'[s] = grand[s] /\ charge'[s] = charge[s]
              /\ status'[s] # status[s] => status[s] = "COMPLETED" /\ status'[s] = "VOIDED"]_vars
      BY <1>1
<1>3. QED
      BY <1>2, InitIInv, NextIInv, PTL DEF Spec, SettledSalesAreFrozen

------------------------------------------------------------------------------
(* Goods and money: the inductive invariant *)

\* Nobody switches the tracking of these products.
SteadyTracking == \A x \in Products \ Retrackable : tracked[x] <=> x \in TrackedAtFirst

\* A completed sale took its tracked goods from rows, which are there to stay.
GoodsHaveRows ==
    \A s \in SaleIds, x \in Products \ Retrackable :
        /\ status[s] = "COMPLETED" /\ x \in TrackedAtFirst
        /\ \E l \in LineNos : items[s][l].product = x
        => hasRow[x]

Books ==
    /\ TypeOK
    /\ SteadyTracking
    /\ GoodsHaveRows
    /\ MovementsTellStatus
    /\ CashTellsSales
    /\ SteadyLedger

\* The same quantity as Sold, of any lines f.
SoldIn(f, x) ==
    SumFunctionOnSet([l \in LineNos |-> f[l].quantity], {l \in LineNos : f[l].product = x})

LEMMA SoldIsSoldIn == \A s, x : Sold(s, x) = SoldIn(items[s], x)
BY DEF Sold, SoldIn

LEMMA LineNosFinite == IsFiniteSet(LineNos)
BY SalesAssumption, FS_Interval DEF LineNos

LEMMA SoldInIsNat ==
    ASSUME NEW f \in [LineNos -> Lines], NEW x
    PROVE  /\ SoldIn(f, x) \in Nat
           /\ (\A l \in LineNos : f[l].product # x) => SoldIn(f, x) = 0
<1> DEFINE Q == [l \in LineNos |-> f[l].quantity]
           L == {l \in LineNos : f[l].product = x}
<1>1. \A l \in L : Q[l] \in Nat
      BY DEF Lines
<1>2. IsFiniteSet(L)
      BY LineNosFinite, FS_Subset
<1>3. SumFunctionOnSet(Q, L) \in Nat
      <2> HIDE DEF Q, L
      <2>1. QED  BY <1>1, <1>2, SumIsNat
<1>4. ASSUME \A l \in LineNos : f[l].product # x PROVE SumFunctionOnSet(Q, L) = 0
      <2>1. L = {}  BY <1>4
      <2>2. QED  BY <2>1, SumOfNothing
<1>5. QED
      BY <1>3, <1>4 DEF SoldIn

\* What a sale takes or returns: of the steady products all it sold of the
\* tracked ones and nothing of the others.
LEMMA StockSoldIs ==
    ASSUME TypeOK, SteadyTracking, NEW s \in SaleIds, NEW x \in Products
    PROVE  /\ StockSold(s)[x] \in Nat
           /\ x \in Stocked(s) => StockSold(s)[x] = Sold(s, x)
           /\ x \notin Stocked(s) => StockSold(s)[x] = 0
           /\ x \notin Retrackable =>
                  StockSold(s)[x] = IF x \in TrackedAtFirst THEN Sold(s, x) ELSE 0
<1>1. /\ Sold(s, x) \in Nat
      /\ (\A l \in LineNos : items[s][l].product # x) => Sold(s, x) = 0
      <2>1. items[s] \in [LineNos -> Lines]  BY DEF TypeOK
      <2>2. QED  BY <2>1, SoldInIsNat, SoldIsSoldIn
<1>2. StockSold(s)[x] = IF x \in Stocked(s) THEN Sold(s, x) ELSE 0
      BY DEF StockSold
<1>3. x \notin Retrackable => (tracked[x] <=> x \in TrackedAtFirst)
      BY DEF SteadyTracking
<1>4. x \in Stocked(s) <=> tracked[x] /\ \E l \in LineNos : items[s][l].product = x
      BY DEF Stocked
<1>5. QED
      BY <1>1, <1>2, <1>3, <1>4

------------------------------------------------------------------------------
(* The balances *)

\* The completed sales that were paid into account a.
PaidInto(a) == {s \in SaleIds : status[s] = "COMPLETED" /\ charge[s].account = a}

LEMMA PaidIntoFinite == \A a : IsFiniteSet(PaidInto(a))
<1>1. \A a : PaidInto(a) \subseteq SaleIds  BY DEF PaidInto
<1>2. QED  BY <1>1, SalesAssumption, FS_Subset

\* The same sales at the same prices make the same balance.
LEMMA BalanceKept ==
    ASSUME NEW a, PaidInto(a)' = PaidInto(a), \A s \in PaidInto(a) : grand'[s] = grand[s]
    PROVE  SumFunctionOnSet(grand', PaidInto(a)') = SumFunctionOnSet(grand, PaidInto(a))
BY PaidIntoFinite, SumEqual

------------------------------------------------------------------------------
(* Drafts *)

LEMMA NoLineTyped == NoLine \in Lines /\ Requests \subseteq Lines
BY SalesAssumption DEF NoLine, Lines, Requests

\* What creating a sale and editing a draft have in common.
LEMMA DraftBooks ==
    ASSUME IInv, Books, NEW s \in SaleIds,
           CreateSale(s) \/ AddSaleItem(s) \/ UpdateSaleItem(s) \/ DeleteSaleItem(s)
    PROVE  Books'
<1>1. /\ UNCHANGED <<stockVars, net, cash, charge, refund, paymentStatus>>
      /\ status' = [status EXCEPT ![s] = "DRAFT"]
      /\ status[s] \in {"none", "DRAFT"}
      BY DEF CreateSale, AddSaleItem, UpdateSaleItem, DeleteSaleItem, Books, TypeOK
<1>2. OthersKept(s) /\ IInv'
      BY DraftStep
<1>3. PICK f \in [LineNos -> Lines] : items' = [items EXCEPT ![s] = f]
      <2>1. CASE CreateSale(s)
            <3>0. PICK n \in 0..MaxLines : \E req \in [1..n -> Requests] :
                      items' = [items EXCEPT ![s] =
                                   [l \in LineNos |-> IF l <= n THEN req[l] ELSE NoLine]]
                  BY <2>1 DEF CreateSale
            <3>1. PICK req \in [1..n -> Requests] :
                      items' = [items EXCEPT ![s] =
                                   [l \in LineNos |-> IF l <= n THEN req[l] ELSE NoLine]]
                  BY <3>0
            <3>2. \A l \in LineNos : l <= n => req[l] \in Lines
                  BY NoLineTyped, SalesAssumption DEF LineNos
            <3>3. [l \in LineNos |-> IF l <= n THEN req[l] ELSE NoLine] \in [LineNos -> Lines]
                  BY <3>2, NoLineTyped
            <3>4. QED  BY <3>1, <3>3
      <2>2. CASE AddSaleItem(s) \/ UpdateSaleItem(s) \/ DeleteSaleItem(s)
            <3>1. PICK l \in LineNos, line \in Lines : SetLines(s, [items[s] EXCEPT ![l] = line])
                  BY <2>2, NoLineTyped DEF AddSaleItem, UpdateSaleItem, DeleteSaleItem, LinesOf
            <3>2. [items[s] EXCEPT ![l] = line] \in [LineNos -> Lines]
                  BY DEF Books, TypeOK
            <3>3. QED  BY <3>1, <3>2 DEF SetLines
      <2>3. QED  BY <2>1, <2>2
<1>4. adjust' \in [SaleIds -> Int]
      <2>1. CASE CreateSale(s)
            <3>1. PICK d \in Adjusts :
                      adjust' = [adjust EXCEPT ![s] = d - LeastAdjust]
                  BY <2>1 DEF CreateSale
            <3>2. d - LeastAdjust \in Int  BY SalesAssumption
            <3>3. QED  BY <3>1, <3>2 DEF Books, TypeOK
      <2>2. CASE AddSaleItem(s) \/ UpdateSaleItem(s) \/ DeleteSaleItem(s)
            BY <2>2 DEF AddSaleItem, UpdateSaleItem, DeleteSaleItem, Books, TypeOK
      <2>3. QED  BY <2>1, <2>2
<1>5. TypeOK'
      <2>1. items' \in [SaleIds -> [LineNos -> Lines]]
            BY <1>3 DEF Books, TypeOK
      <2>2. QED
            BY <1>1, <1>2, <1>4, <2>1 DEF Books, TypeOK, IInv, PaymentTypes, stockVars
<1>6. SteadyTracking' /\ SteadyLedger'
      BY <1>1 DEF Books, SteadyTracking, SteadyLedger, stockVars
<1>7. status'[s] = "DRAFT" /\ \A r \in SaleIds \ {s} : items'[r] = items[r] /\ status'[r] = status[r]
      BY <1>1, <1>2 DEF OthersKept, Books, TypeOK
<1>8. GoodsHaveRows'
      BY <1>1, <1>7 DEF Books, GoodsHaveRows, stockVars
<1>9. MovementsTellStatus'
      <2> SUFFICES ASSUME NEW r \in SaleIds, NEW x \in Products \ Retrackable
                   PROVE  net'[r][x] = IF status'[r] = "COMPLETED" /\ x \in TrackedAtFirst
                                       THEN -Sold(r, x)' ELSE 0
          BY DEF MovementsTellStatus
      <2>1. net[r][x] = IF status[r] = "COMPLETED" /\ x \in TrackedAtFirst THEN -Sold(r, x) ELSE 0
            BY DEF Books, MovementsTellStatus
      <2>2. CASE r = s
            BY <1>1, <1>7, <2>1, <2>2
      <2>3. CASE r # s
            <3>1. Sold(r, x) = SoldIn(items[r], x) /\ Sold(r, x)' = SoldIn(items'[r], x)
                  BY DEF Sold, SoldIn
            <3>2. QED  BY <1>1, <1>7, <2>1, <2>3, <3>1
      <2>4. QED  BY <2>2, <2>3
<1>10. CashTellsSales'
      <2> SUFFICES ASSUME NEW a \in Accounts
                   PROVE  cash'[a] = SumFunctionOnSet(grand', PaidInto(a)')
          BY DEF CashTellsSales, PaidInto
      <2>1. cash[a] = SumFunctionOnSet(grand, PaidInto(a))
            BY DEF Books, CashTellsSales, PaidInto
      <2>2. PaidInto(a)' = PaidInto(a)
            BY <1>1, <1>7 DEF PaidInto
      <2>3. \A r \in PaidInto(a) : grand'[r] = grand[r]
            BY <1>1, <1>2 DEF PaidInto, OthersKept
      <2>4. QED  BY <1>1, <2>1, <2>2, <2>3, BalanceKept
<1>11. QED
      BY <1>5, <1>6, <1>8, <1>9, <1>10 DEF Books

------------------------------------------------------------------------------
(* Checkout, void and the rest *)

LEMMA CancelBooks ==
    ASSUME IInv, Books, NEW s \in SaleIds, CancelSale(s)
    PROVE  Books'
<1>1. /\ status' = [status EXCEPT ![s] = "CANCELLED"] /\ status[s] = "DRAFT"
      /\ UNCHANGED <<paymentStatus, items, adjust, grand, charge, refund, net, stockVars, cash>>
      BY DEF CancelSale
<1>2. TypeOK' /\ SteadyTracking' /\ SteadyLedger' /\ GoodsHaveRows'
      BY <1>1 DEF Books, TypeOK, SteadyTracking, SteadyLedger, GoodsHaveRows, stockVars
<1>3. \A r \in SaleIds : status'[r] = "COMPLETED" <=> status[r] = "COMPLETED"
      BY <1>1 DEF Books, TypeOK
<1>4. \A r, x : Sold(r, x)' = Sold(r, x)
      BY <1>1 DEF Sold
<1>5. MovementsTellStatus'
      BY <1>1, <1>3, <1>4 DEF Books, MovementsTellStatus
<1>6. \A a : PaidInto(a)' = PaidInto(a)
      BY <1>1, <1>3 DEF PaidInto
<1>7. CashTellsSales'
      BY <1>1, <1>6 DEF Books, CashTellsSales, PaidInto
<1>8. QED  BY <1>2, <1>5, <1>7 DEF Books

\* The movements of sale s change net and ledger by the same.
LEMMA MovedStock ==
    ASSUME TypeOK, NEW s \in SaleIds, NEW d, MoveStock(s, d), \A x \in Products : d[x] \in Int
    PROVE  /\ net' \in [SaleIds -> [Products -> Int]]
           /\ ledger' \in [Products -> Int]
           /\ \A x \in Products :
                  /\ ledger'[x] = ledger[x] + d[x]
                  /\ net'[s][x] = net[s][x] + d[x]
           /\ \A r \in SaleIds \ {s} : net'[r] = net[r]
<1>1. [x \in Products |-> net[s][x] + d[x]] \in [Products -> Int]
      BY DEF TypeOK
<1>2. net' = [net EXCEPT ![s] = [x \in Products |-> net[s][x] + d[x]]]
      BY DEF MoveStock
<1>3. ledger' = [x \in Products |-> ledger[x] + d[x]]
      BY DEF MoveStock
<1>4. /\ net' \in [SaleIds -> [Products -> Int]]
      /\ net'[s] = [x \in Products |-> net[s][x] + d[x]]
      /\ \A r \in SaleIds \ {s} : net'[r] = net[r]
      BY <1>1, <1>2 DEF TypeOK
<1>5. ledger' \in [Products -> Int]
      BY <1>3 DEF TypeOK
<1>6. QED
      BY <1>3, <1>4, <1>5

LEMMA CheckoutBooks ==
    ASSUME IInv, Books, NEW s \in SaleIds, CheckoutSale(s)
    PROVE  Books'
<1> DEFINE d == [x \in Products |-> -StockSold(s)[x]]
<1>1. /\ status' = [status EXCEPT ![s] = "COMPLETED"] /\ status[s] = "DRAFT"
      /\ UNCHANGED <<items, adjust, grand, refund, tracked, hasRow, opened>>
      /\ stock' = [x \in Products |-> stock[x] - StockSold(s)[x]]
      /\ InStock(s)
      BY DEF CheckoutSale
<1>2. OthersKept(s) /\ IInv'
      BY CheckoutStep
<1>3. TypeOK /\ SteadyTracking
      BY DEF Books
<1>4. \A x \in Products : d[x] \in Int /\ d[x] = -StockSold(s)[x]
      BY <1>3, StockSoldIs
<1>5. /\ net' \in [SaleIds -> [Products -> Int]]
      /\ ledger' \in [Products -> Int]
      /\ \A x \in Products :
             /\ ledger'[x] = ledger[x] + d[x]
             /\ net'[s][x] = net[s][x] + d[x]
      /\ \A r \in SaleIds \ {s} : net'[r] = net[r]
      <2>1. MoveStock(s, d)  BY DEF CheckoutSale
      <2> HIDE DEF d
      <2>2. QED  BY <1>3, <1>4, <2>1, MovedStock
<1>6. \A x \in Products : x \in Stocked(s) => hasRow[x] /\ StockSold(s)[x] <= stock[x]
      BY <1>1, <1>3, StockSoldIs DEF InStock
<1>7. \A x \in Products : stock'[x] \in Nat /\ stock'[x] = stock[x] - StockSold(s)[x]
      BY <1>1, <1>3, <1>6, StockSoldIs DEF TypeOK
<1>8. PICK a \in Accounts :
          /\ charge' = [charge EXCEPT ![s] = [account |-> a, amount |-> grand[s]]]
          /\ cash' = [cash EXCEPT ![a] = @ + grand[s]]
      BY DEF CheckoutSale
<1>9. TypeOK'
      <2>1. stock' \in [Products -> Nat]
            BY <1>1, <1>7
      <2>2. cash' \in [Accounts -> Int]
            BY <1>3, <1>8 DEF TypeOK
      <2>3. QED
            BY <1>1, <1>2, <1>3, <1>5, <2>1, <2>2 DEF TypeOK, IInv, PaymentTypes
<1>10. SteadyTracking'
      BY <1>1, <1>3 DEF SteadyTracking
<1>11. SteadyLedger'
      <2>1. \A x \in Products \ Retrackable : ledger[x] = stock[x]
            BY DEF Books, SteadyLedger
      <2>2. \A x \in Products : ledger[x] \in Int /\ stock[x] \in Int /\ StockSold(s)[x] \in Int
            BY <1>3, StockSoldIs DEF TypeOK
      <2> HIDE DEF d
      <2>3. QED
            BY <1>4, <1>5, <1>7, <2>1, <2>2 DEF SteadyLedger
<1>12. GoodsHaveRows'
      <2> SUFFICES ASSUME NEW r \in SaleIds, NEW x \in Products \ Retrackable,
                          status'[r] = "COMPLETED", x \in TrackedAtFirst,
                          \E l \in LineNos : items[r][l].product = x
                   PROVE  hasRow[x]
          BY <1>1 DEF GoodsHaveRows
      <2>1. CASE r = s
            BY <2>1, <1>3, <1>6 DEF Stocked, SteadyTracking
      <2>2. CASE r # s
            BY <1>2, <2>2 DEF OthersKept, Books, GoodsHaveRows
      <2>3. QED  BY <2>1, <2>2
<1>13. MovementsTellStatus'
      <2> SUFFICES ASSUME NEW r \in SaleIds, NEW x \in Products \ Retrackable
                   PROVE  net'[r][x] = IF status'[r] = "COMPLETED" /\ x \in TrackedAtFirst
                                       THEN -Sold(r, x)' ELSE 0
          BY DEF MovementsTellStatus
      <2>1. net[r][x] = IF status[r] = "COMPLETED" /\ x \in TrackedAtFirst THEN -Sold(r, x) ELSE 0
            BY DEF Books, MovementsTellStatus
      <2>2. Sold(r, x)' = Sold(r, x)
            BY <1>1 DEF Sold
      <2>3. CASE r = s
            <3>1. net[s][x] = 0 /\ status'[s] = "COMPLETED"
                  BY <1>1, <1>3, <2>1, <2>3 DEF TypeOK
            <3>2. net'[s][x] = -StockSold(s)[x]
                  <4>1. net'[s][x] = 0 + d[x]  BY <1>5, <3>1
                  <4>2. QED  BY <1>4, <4>1
            <3>3. StockSold(s)[x] = IF x \in TrackedAtFirst THEN Sold(s, x) ELSE 0
                  BY <1>3, StockSoldIs
            <3>4. QED  BY <2>2, <2>3, <3>1, <3>2, <3>3
      <2>4. CASE r # s
            BY <1>2, <1>5, <2>1, <2>2, <2>4 DEF OthersKept
      <2>5. QED  BY <2>3, <2>4
<1>14. CashTellsSales'
      <2> SUFFICES ASSUME NEW b \in Accounts
                   PROVE  cash'[b] = SumFunctionOnSet(grand', PaidInto(b)')
          BY DEF CashTellsSales, PaidInto
      <2>1. cash[b] = SumFunctionOnSet(grand, PaidInto(b)) /\ grand' = grand
            BY <1>1 DEF Books, CashTellsSales, PaidInto
      <2>2. /\ status'[s] = "COMPLETED" /\ charge'[s].account = a
            /\ \A r \in SaleIds \ {s} : status'[r] = status[r] /\ charge'[r] = charge[r]
            BY <1>1, <1>2, <1>3, <1>8 DEF TypeOK, OthersKept
      <2>3. CASE b = a
            <3>1. PaidInto(b)' = PaidInto(b) \cup {s} /\ s \notin PaidInto(b)
                  BY <1>1, <2>2, <2>3 DEF PaidInto
            <3>2. PaidInto(b)' \ {s} = PaidInto(b) /\ s \in PaidInto(b)'
                  BY <3>1
            <3>3. IsFiniteSet(PaidInto(b)')
                  BY <3>1, PaidIntoFinite, FS_AddElement
            <3>4. \A r \in PaidInto(b)' : grand[r] \in Int
                  BY <1>3 DEF TypeOK, PaidInto
            <3>5. SumFunctionOnSet(grand, PaidInto(b)') = grand[s] + SumFunctionOnSet(grand, PaidInto(b))
                  <4> DEFINE P == PaidInto(b)'
                  <4>1. P \ {s} = PaidInto(b) /\ s \in P /\ IsFiniteSet(P) /\ \A r \in P : grand[r] \in Int
                        BY <3>2, <3>3, <3>4
                  <4> HIDE DEF P
                  <4>2. SumFunctionOnSet(grand, P) = grand[s] + SumFunctionOnSet(grand, P \ {s})
                        BY <4>1, SumWithout
                  <4>3. QED  BY <4>1, <4>2 DEF P
            <3>6. cash'[b] = cash[b] + grand[s] /\ cash[b] \in Int /\ grand[s] \in Int
                  BY <1>3, <1>8, <2>3 DEF TypeOK
            <3>7. QED
                  BY <2>1, <3>5, <3>6
      <2>4. CASE b # a
            <3>1. PaidInto(b)' = PaidInto(b)
                  BY <1>1, <2>2, <2>4 DEF PaidInto
            <3>2. cash'[b] = cash[b]
                  BY <1>3, <1>8, <2>4 DEF TypeOK
            <3>3. QED  BY <2>1, <3>1, <3>2
      <2>5. QED  BY <2>3, <2>4
<1>15. QED
      BY <1>9, <1>10, <1>11, <1>12, <1>13, <1>14 DEF Books

LEMMA VoidBooks ==
    ASSUME IInv, Books, NEW s \in SaleIds, VoidSale(s)
    PROVE  Books'
<1> DEFINE d == StockSold(s)
           a == charge[s].account
<1>1. /\ status' = [status EXCEPT ![s] = "VOIDED"] /\ status[s] = "COMPLETED"
      /\ UNCHANGED <<items, adjust, grand, charge, tracked, hasRow, opened>>
      /\ stock' = [x \in Products |-> IF hasRow[x] THEN stock[x] + d[x] ELSE stock[x]]
      /\ MoveStock(s, d)
      /\ cash' = [cash EXCEPT ![a] = @ - charge[s].amount]
      BY DEF VoidSale, Voidable, ReturnGoods, Refund
<1>2. OthersKept(s) /\ IInv'
      BY VoidStep
<1>3. TypeOK /\ SteadyTracking
      BY DEF Books
<1>4. \A x \in Products : d[x] \in Nat
      BY <1>3, StockSoldIs
<1>5. /\ net' \in [SaleIds -> [Products -> Int]]
      /\ ledger' \in [Products -> Int]
      /\ \A x \in Products :
             /\ ledger'[x] = ledger[x] + d[x]
             /\ net'[s][x] = net[s][x] + d[x]
      /\ \A r \in SaleIds \ {s} : net'[r] = net[r]
      <2>1. MoveStock(s, d) /\ \A x \in Products : d[x] \in Int
            BY <1>1, <1>4
      <2> HIDE DEF d
      <2>2. QED  BY <1>3, <2>1, MovedStock
<1>6. charge[s].amount = grand[s]
      BY <1>1 DEF IInv, PaymentsTellSales
<1>7. TypeOK'
      <2>1. stock' \in [Products -> Nat]
            <3> HIDE DEF d
            <3>1. QED  BY <1>1, <1>3, <1>4 DEF TypeOK
      <2>2. cash' \in [Accounts -> Int]
            <3>1. charge[s].amount \in Int  BY <1>3 DEF TypeOK, Payments
            <3> HIDE DEF a
            <3>2. \A b \in Accounts : [cash EXCEPT ![a] = @ - charge[s].amount][b] \in Int
                  BY <1>3, <3>1 DEF TypeOK
            <3>3. QED  BY <1>1, <1>3, <3>2 DEF TypeOK
      <2>3. QED
            BY <1>1, <1>2, <1>3, <1>5, <2>1, <2>2 DEF TypeOK, IInv, PaymentTypes
<1>8. SteadyTracking'
      BY <1>1, <1>3 DEF SteadyTracking
<1>9. SteadyLedger'
      <2> SUFFICES ASSUME NEW x \in Products \ Retrackable PROVE ledger'[x] = stock'[x]
          BY DEF SteadyLedger
      <2>1. ledger[x] = stock[x] /\ stock[x] \in Int /\ d[x] \in Int
            BY <1>3, <1>4 DEF Books, SteadyLedger, TypeOK
      <2>2. d[x] # 0 => hasRow[x]
            <3>1. d[x] # 0 => x \in Stocked(s)
                  BY <1>3, StockSoldIs
            <3>2. x \in Stocked(s) => x \in TrackedAtFirst /\ \E l \in LineNos : items[s][l].product = x
                  BY <1>3 DEF Stocked, SteadyTracking
            <3>3. QED
                  BY <1>1, <3>1, <3>2 DEF Books, GoodsHaveRows
      <2> HIDE DEF d
      <2>3. stock'[x] = stock[x] + d[x]
            BY <1>1, <2>1, <2>2
      <2>4. QED
            BY <1>5, <2>1, <2>3
<1>10. /\ status'[s] = "VOIDED"
       /\ \A r \in SaleIds \ {s} : status'[r] = status[r]
       BY <1>1, <1>3 DEF TypeOK
<1>11. GoodsHaveRows'
      BY <1>1, <1>10 DEF Books, GoodsHaveRows
<1>12. MovementsTellStatus'
      <2> SUFFICES ASSUME NEW r \in SaleIds, NEW x \in Products \ Retrackable
                   PROVE  net'[r][x] = IF status'[r] = "COMPLETED" /\ x \in TrackedAtFirst
                                       THEN -Sold(r, x)' ELSE 0
          BY DEF MovementsTellStatus
      <2>1. net[r][x] = IF status[r] = "COMPLETED" /\ x \in TrackedAtFirst THEN -Sold(r, x) ELSE 0
            BY DEF Books, MovementsTellStatus
      <2>2. Sold(r, x)' = Sold(r, x)
            BY <1>1 DEF Sold
      <2>3. CASE r = s
            <3>1. d[x] = IF x \in TrackedAtFirst THEN Sold(s, x) ELSE 0
                  BY <1>3, StockSoldIs
            <3>2. net[s][x] = IF x \in TrackedAtFirst THEN -Sold(s, x) ELSE 0
                  BY <1>1, <2>1, <2>3
            <3>3. net[s][x] + d[x] = 0
                  BY <1>4, <3>1, <3>2
            <3>4. QED  BY <1>5, <1>10, <2>3, <3>3
      <2>4. CASE r # s
            BY <1>5, <1>10, <2>1, <2>2, <2>4
      <2>5. QED  BY <2>3, <2>4
<1>13. CashTellsSales'
      <2> SUFFICES ASSUME NEW b \in Accounts
                   PROVE  cash'[b] = SumFunctionOnSet(grand', PaidInto(b)')
          BY DEF CashTellsSales, PaidInto
      <2>1. cash[b] = SumFunctionOnSet(grand, PaidInto(b)) /\ grand' = grand
            BY <1>1 DEF Books, CashTellsSales, PaidInto
      <2>2. IsFiniteSet(PaidInto(b)) /\ \A r \in PaidInto(b) : grand[r] \in Int
            <3>1. \A r \in PaidInto(b) : grand[r] \in Int
                  BY <1>3 DEF TypeOK, PaidInto
            <3>2. QED  BY <3>1, PaidIntoFinite
      <2>3. PaidInto(b)' = PaidInto(b) \ {s}
            BY <1>1, <1>10 DEF PaidInto
      <2>4. CASE b = a
            <3>1. s \in PaidInto(b)
                  BY <1>1, <2>4 DEF PaidInto
            <3>2. SumFunctionOnSet(grand, PaidInto(b)) = grand[s] + SumFunctionOnSet(grand, PaidInto(b) \ {s})
                  BY <2>2, <3>1, SumWithout
            <3>3. SumFunctionOnSet(grand, PaidInto(b) \ {s}) \in Int
                  BY <2>2, FS_Subset, SumIsInt
            <3>4. cash'[b] = cash[b] - grand[s] /\ grand[s] \in Int
                  BY <1>1, <1>3, <1>6, <2>4 DEF TypeOK
            <3>5. cash'[b] = SumFunctionOnSet(grand, PaidInto(b) \ {s})
                  BY <2>1, <3>2, <3>3, <3>4
            <3>6. QED
                  BY <2>1, <2>3, <3>5
      <2>5. CASE b # a
            <3>1. s \notin PaidInto(b)
                  BY <2>5 DEF PaidInto
            <3>2. PaidInto(b)' = PaidInto(b)
                  BY <2>3, <3>1
            <3>3. cash'[b] = cash[b]
                  BY <1>1, <1>3, <2>5 DEF TypeOK
            <3>4. QED  BY <2>1, <3>2, <3>3
      <2>6. QED  BY <2>4, <2>5
<1>14. QED
      BY <1>7, <1>8, <1>9, <1>11, <1>12, <1>13 DEF Books

LEMMA ProductBooks ==
    ASSUME IInv, Books, NEW x \in Products, CreateOpeningStock(x) \/ UpdateProduct(x)
    PROVE  Books'
<1>1. UNCHANGED <<saleVars, cash>>
      BY DEF CreateOpeningStock, UpdateProduct
<1>2. /\ MovementsTellStatus' /\ CashTellsSales'
      <2>1. \A r, y : Sold(r, y)' = Sold(r, y)
            BY <1>1 DEF Sold, saleVars
      <2>2. \A a : PaidInto(a)' = PaidInto(a)
            BY <1>1 DEF PaidInto, saleVars
      <2>3. MovementsTellStatus'
            BY <1>1, <2>1 DEF Books, MovementsTellStatus, saleVars
      <2>4. CashTellsSales'
            BY <1>1, <2>2 DEF Books, CashTellsSales, PaidInto, saleVars
      <2>5. QED  BY <2>3, <2>4
<1>3. CASE CreateOpeningStock(x)
      <2>1. PICK q \in Openings : /\ stock' = [stock EXCEPT ![x] = @ + q]
                                  /\ ledger' = [ledger EXCEPT ![x] = @ + q]
            BY <1>3 DEF CreateOpeningStock
      <2>2. /\ hasRow' = [hasRow EXCEPT ![x] = TRUE]
            /\ opened' = [opened EXCEPT ![x] = TRUE]
            /\ tracked' = tracked
            BY <1>3 DEF CreateOpeningStock
      <2>3. q \in Nat
            BY SalesAssumption
      <2>4. TypeOK'
            BY <1>1, <2>1, <2>2, <2>3 DEF Books, TypeOK, saleVars
      <2>5. SteadyTracking' /\ SteadyLedger'
            BY <2>1, <2>2 DEF Books, TypeOK, SteadyTracking, SteadyLedger
      <2>6. GoodsHaveRows'
            BY <1>1, <2>2 DEF Books, TypeOK, GoodsHaveRows, saleVars
      <2>7. QED  BY <1>2, <2>4, <2>5, <2>6 DEF Books
<1>4. CASE UpdateProduct(x)
      <2>1. /\ tracked' = [tracked EXCEPT ![x] = ~tracked[x]] /\ x \in Retrackable
            /\ UNCHANGED <<hasRow, stock, ledger, opened>>
            BY <1>4 DEF UpdateProduct
      <2>2. tracked' \in [Products -> BOOLEAN]
            BY <2>1 DEF Books, TypeOK
      <2>3. TypeOK'
            BY <1>1, <2>1, <2>2 DEF Books, TypeOK, saleVars
      <2>4. SteadyTracking'
            <3>1. \A y \in Products \ Retrackable : tracked'[y] = tracked[y]
                  BY <2>1 DEF Books, TypeOK
            <3>2. QED  BY <3>1 DEF Books, SteadyTracking
      <2>5. SteadyLedger' /\ GoodsHaveRows'
            BY <1>1, <2>1 DEF Books, SteadyLedger, GoodsHaveRows, saleVars
      <2>6. QED  BY <1>2, <2>3, <2>4, <2>5 DEF Books
<1>5. QED  BY <1>3, <1>4

LEMMA InitBooks == Init => Books
<1> SUFFICES ASSUME Init PROVE Books
    OBVIOUS
<1>1. TypeOK
      BY NoLineTyped, NoPaymentTyped DEF Init, TypeOK
<1>2. SteadyTracking /\ GoodsHaveRows /\ MovementsTellStatus /\ SteadyLedger
      BY DEF Init, SteadyTracking, GoodsHaveRows, MovementsTellStatus, SteadyLedger
<1>3. CashTellsSales
      <2>1. \A a : PaidInto(a) = {}
            BY DEF Init, PaidInto
      <2>2. \A a : SumFunctionOnSet(grand, PaidInto(a)) = 0
            BY <2>1, SumOfNothing
      <2>3. QED
            BY <2>2 DEF Init, CashTellsSales, PaidInto
<1>4. QED
      BY <1>1, <1>2, <1>3 DEF Books

LEMMA NextBooks == IInv /\ Books /\ [Next]_vars => Books'
<1> SUFFICES ASSUME IInv, Books, [Next]_vars PROVE Books'
    OBVIOUS
<1>1. ASSUME NEW s \in SaleIds, Operation(s) PROVE Books'
      BY <1>1, DraftBooks, CancelBooks, CheckoutBooks, VoidBooks DEF Operation
<1>2. CASE UNCHANGED vars
      <2>1. \A r, y : Sold(r, y)' = Sold(r, y)
            BY <1>2 DEF Sold, vars, saleVars
      <2>2. MovementsTellStatus'
            BY <1>2, <2>1 DEF Books, MovementsTellStatus, vars, saleVars
      <2>3. TypeOK' /\ SteadyTracking' /\ GoodsHaveRows' /\ SteadyLedger'
            BY <1>2 DEF Books, TypeOK, SteadyTracking, GoodsHaveRows, SteadyLedger,
                        vars, saleVars, stockVars
      <2>4. CashTellsSales'
            BY <1>2 DEF Books, CashTellsSales, vars, saleVars
      <2>5. QED  BY <2>2, <2>3, <2>4 DEF Books
<1>3. QED
      BY <1>1, <1>2, ProductBooks DEF Next

\* Goods and money of every sale are always in order.
THEOREM BooksHold == Spec => [](IInv /\ Books)
<1>1. Init => IInv /\ Books
      BY InitIInv, InitBooks
<1>2. IInv /\ Books /\ [Next]_vars => IInv' /\ Books'
      BY NextIInv, NextBooks
<1>3. QED
      BY <1>1, <1>2, PTL DEF Spec

\* No operation makes a quantity in stock negative, and every variable keeps
\* its type.
THEOREM SalesTyped == Spec => []TypeOK
<1>1. Books => TypeOK
      BY DEF Books
<1>2. QED
      BY <1>1, BooksHold, PTL

\* However many lines name the same product.
THEOREM MovementsTell == Spec => []MovementsTellStatus
<1>1. Books => MovementsTellStatus
      BY DEF Books
<1>2. QED
      BY <1>1, BooksHold, PTL

\* Whatever account each customer paid to.
THEOREM CashTells == Spec => []CashTellsSales
<1>1. Books => CashTellsSales
      BY DEF Books
<1>2. QED
      BY <1>1, BooksHold, PTL

\* Summing the movements of a product again gives its stock.
THEOREM LedgerIsSteady == Spec => []SteadyLedger
<1>1. Books => SteadyLedger
      BY DEF Books
<1>2. QED
      BY <1>1, BooksHold, PTL
==============================================================================
