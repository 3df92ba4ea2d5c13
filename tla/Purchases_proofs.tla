-------------------------- MODULE Purchases_proofs --------------------------
(***************************************************************************)
(* Safety of Purchases for any purchases, lines, quantities and amounts.   *)
(***************************************************************************)
EXTENDS Purchases, SumLemmas, TLAPS

------------------------------------------------------------------------------
(* Rounding *)

\* A positive quantity within the rounded remainder exceeds the remainder by
\* half a hundredth at most.
LEMMA RoundingExcess ==
    ASSUME NEW x \in Int, NEW q \in Nat \ {0}, q <= Round2(x)
    PROVE  q <= x + 50
BY DEF Round2

\* On whole hundredths nothing is rounded.
LEMMA RoundingExact ==
    ASSUME NEW x \in Int, x % 100 = 0
    PROVE  Round2(x) = x
BY DEF Round2

------------------------------------------------------------------------------
(* Lines *)

LEMMA LinesTyped ==
    /\ NoLine \in Lines
    /\ Requests \subseteq Lines
    /\ \A req \in Requests : /\ req.received = 0
                             /\ req.ordered \in Quantities
                             /\ req # NoLine
    /\ NoLine.received = 0 /\ NoLine.ordered = 0
<1>1. NoLine \in Lines /\ NoLine.received = 0 /\ NoLine.ordered = 0
      BY DEF NoLine, Lines
<1>2. Requests \subseteq Lines
      <2> SUFFICES ASSUME NEW req \in Requests PROVE req \in Lines
          OBVIOUS
      <2>0. /\ req.product \in Products /\ req.ordered \in Quantities
            /\ req.received = 0 /\ req.subtotal \in Subtotals
            BY DEF Requests
      <2>a. Quantities \subseteq Nat /\ Subtotals \subseteq Nat
            BY PurchasesAssumption
      <2>b. req.ordered \in Nat /\ req.subtotal \in Nat
            BY <2>0, <2>a, Zenon
      <2>c. req.received \in Nat
            BY <2>0
      <2>1. /\ req.product \in Products \cup {NoProduct}
            /\ req.ordered \in Nat /\ req.received \in Nat /\ req.subtotal \in Nat
            BY <2>0, <2>b, <2>c
      <2>2. req = [product |-> req.product, ordered |-> req.ordered,
                   received |-> req.received, subtotal |-> req.subtotal]
            BY DEF Requests
      <2>3. QED
            BY <2>1, <2>2 DEF Lines
<1>3. ASSUME NEW req \in Requests
      PROVE  req.received = 0 /\ req.ordered \in Quantities /\ req # NoLine
      BY PurchasesAssumption DEF Requests, NoLine
<1>4. QED
      BY <1>1, <1>2, <1>3

\* What a receipt does to a line.
LEMMA ReceivedLine ==
    ASSUME TypeOK, NEW p \in PurchaseIds, NEW L \in SUBSET LinesOf(p),
           NEW q \in [L -> Quantities], Acceptable(p, q), NEW l \in LineNos
    PROVE  /\ Received(p, q) \in [LineNos -> Lines]
           /\ l \notin L => Received(p, q)[l] = items[p][l]
           /\ l \in L => /\ q[l] \in Nat \ {0}
                         /\ q[l] <= Round2(items[p][l].ordered - items[p][l].received)
                         /\ Received(p, q)[l].received = items[p][l].received + q[l]
                         /\ Received(p, q)[l].ordered = items[p][l].ordered
<1>1. /\ DOMAIN q = L /\ L \subseteq LineNos
      /\ \A m \in L : q[m] \in Nat \ {0}
      BY PurchasesAssumption DEF LinesOf
<1>2. items[p] \in [LineNos -> Lines]
      BY DEF TypeOK
<1>3. \A m \in LineNos : items[p][m] \in Lines
      BY <1>2
<1>4. ASSUME NEW m \in LineNos
      PROVE  /\ Received(p, q)[m] \in Lines
             /\ m \notin L => Received(p, q)[m] = items[p][m]
             /\ m \in L => /\ Received(p, q)[m].received = items[p][m].received + q[m]
                           /\ Received(p, q)[m].ordered = items[p][m].ordered
      BY <1>1, <1>3 DEF Received, Lines
<1>5. Received(p, q) \in [LineNos -> Lines]
      BY <1>4 DEF Received
<1>6. QED
      BY <1>1, <1>4, <1>5 DEF Acceptable, Remaining

------------------------------------------------------------------------------
(* Types *)

\* Lines and total of purchase p become f and g.
LEMMA LinesReplaced ==
    ASSUME TypeOK, NEW p \in PurchaseIds, NEW f \in [LineNos -> Lines], SetLines(p, f)
    PROVE  /\ items' \in [PurchaseIds -> [LineNos -> Lines]]
           /\ grand' \in [PurchaseIds -> Nat]
BY DEF TypeOK, SetLines

LEMMA OperationTyping ==
    ASSUME TypeOK, NEW p \in PurchaseIds, Operation(p)
    PROVE  TypeOK'
<1>1. CASE CreatePurchase(p)
      <2>1. PICK n \in LineNos : \E req \in [1..n -> Requests] : \E d \in Discounts, x \in Taxes :
                LET f == [l \in LineNos |-> IF l <= n THEN req[l] ELSE NoLine]
                    a == x - d
                IN  /\ Total(f, a) \in Nat
                    /\ items' = [items EXCEPT ![p] = f]
                    /\ adjust' = [adjust EXCEPT ![p] = a]
                    /\ grand' = [grand EXCEPT ![p] = Total(f, a)]
            BY <1>1 DEF CreatePurchase
      <2>2. PICK req \in [1..n -> Requests] : \E d \in Discounts, x \in Taxes :
                LET f == [l \in LineNos |-> IF l <= n THEN req[l] ELSE NoLine]
                    a == x - d
                IN  /\ Total(f, a) \in Nat
                    /\ items' = [items EXCEPT ![p] = f]
                    /\ adjust' = [adjust EXCEPT ![p] = a]
                    /\ grand' = [grand EXCEPT ![p] = Total(f, a)]
            BY <2>1
      <2> DEFINE f == [l \in LineNos |-> IF l <= n THEN req[l] ELSE NoLine]
      <2>3. f \in [LineNos -> Lines]
            BY LinesTyped DEF LineNos
      <2> HIDE DEF f
      <2>4. PICK d \in Discounts, x \in Taxes :
                /\ Total(f, x - d) \in Nat
                /\ items' = [items EXCEPT ![p] = f]
                /\ adjust' = [adjust EXCEPT ![p] = x - d]
                /\ grand' = [grand EXCEPT ![p] = Total(f, x - d)]
            BY <2>2 DEF f
      <2>5. x - d \in Int
            BY PurchasesAssumption
      <2>6. QED
            BY <1>1, <2>3, <2>4, <2>5 DEF CreatePurchase, TypeOK, Statuses
<1>2. CASE AddPurchaseItem(p)
      <2>1. PICK l \in LineNos, req \in Requests : SetLines(p, [items[p] EXCEPT ![l] = req])
            BY <1>2 DEF AddPurchaseItem
      <2>2. [items[p] EXCEPT ![l] = req] \in [LineNos -> Lines]
            BY LinesTyped DEF TypeOK
      <2>3. QED
            BY <1>2, <2>1, <2>2, LinesReplaced DEF AddPurchaseItem, TypeOK
<1>3. CASE UpdatePurchaseItem(p)
      <2>1. PICK l \in LinesOf(p), req \in Requests : SetLines(p, [items[p] EXCEPT ![l] = req])
            BY <1>3 DEF UpdatePurchaseItem
      <2>2. [items[p] EXCEPT ![l] = req] \in [LineNos -> Lines]
            BY LinesTyped DEF TypeOK
      <2>3. QED
            BY <1>3, <2>1, <2>2, LinesReplaced DEF UpdatePurchaseItem, TypeOK
<1>4. CASE DeletePurchaseItem(p)
      <2>1. PICK l \in LinesOf(p) : SetLines(p, [items[p] EXCEPT ![l] = NoLine])
            BY <1>4 DEF DeletePurchaseItem
      <2>2. [items[p] EXCEPT ![l] = NoLine] \in [LineNos -> Lines]
            BY LinesTyped DEF TypeOK
      <2>3. QED
            BY <1>4, <2>1, <2>2, LinesReplaced DEF DeletePurchaseItem, TypeOK
<1>5. CASE OrderRead(p)
      BY <1>5 DEF OrderRead, TypeOK
<1>6. CASE OrderPurchase(p)
      BY <1>6 DEF OrderPurchase, TypeOK, Statuses
<1>7. CASE OrderRefused(p)
      BY <1>7 DEF OrderRefused, TypeOK
<1>8. CASE CancelPurchase(p)
      BY <1>8 DEF CancelPurchase, TypeOK, Statuses
<1>9. CASE ReceivePurchase(p)
      <2>1. PICK L \in (SUBSET LinesOf(p)) \ {{}} : \E q \in [L -> Quantities] :
                /\ Acceptable(p, q)
                /\ items' = [items EXCEPT ![p] = Received(p, q)]
                /\ status' = [status EXCEPT ![p] = StatusAfter(Received(p, q), L)]
            BY <1>9 DEF ReceivePurchase
      <2>2. PICK q \in [L -> Quantities] :
                /\ Acceptable(p, q)
                /\ items' = [items EXCEPT ![p] = Received(p, q)]
                /\ status' = [status EXCEPT ![p] = StatusAfter(Received(p, q), L)]
            BY <2>1
      <2>3. Received(p, q) \in [LineNos -> Lines]
            <3>1. 1 \in LineNos
                  BY PurchasesAssumption DEF LineNos
            <3>2. QED
                  BY <2>2, <3>1, ReceivedLine
      <2>4. StatusAfter(Received(p, q), L) \in Statuses
            BY DEF StatusAfter, Statuses
      <2>5. QED
            BY <1>9, <2>2, <2>3, <2>4 DEF ReceivePurchase, TypeOK
<1>10. CASE RecordPurchasePayment(p)
      <2>1. PICK a \in Amounts :
                /\ paid' = [paid EXCEPT ![p] = @ + a]
                /\ paymentStatus' = [paymentStatus EXCEPT ![p] =
                       IF paid[p] + a = grand[p] THEN "PAID" ELSE "PARTIAL"]
                /\ cash' = cash - a
            BY <1>10 DEF RecordPurchasePayment
      <2>2. a \in Nat
            BY PurchasesAssumption
      <2>3. QED
            BY <1>10, <2>1, <2>2 DEF RecordPurchasePayment, TypeOK
<1>11. QED
      BY <1>1, <1>2, <1>3, <1>4, <1>5, <1>6, <1>7, <1>8, <1>9, <1>10 DEF Operation

LEMMA InitTyping == Init => TypeOK
BY LinesTyped DEF Init, TypeOK, Statuses

\* Type correctness; a total is never negative, since the operation that
\* would make it so fails.
THEOREM TypeCorrect == Spec => []TypeOK
<1>1. TypeOK /\ [Next]_vars => TypeOK'
      <2> SUFFICES ASSUME TypeOK, [Next]_vars PROVE TypeOK'
          OBVIOUS
      <2>1. CASE UNCHANGED vars
            BY <2>1 DEF vars, TypeOK
      <2>2. CASE Next
            BY <2>2, OperationTyping DEF Next
      <2>3. QED
            BY <2>1, <2>2
<1>2. QED
      BY <1>1, InitTyping, PTL DEF Spec

------------------------------------------------------------------------------
(* Receipts *)

\* A step changes each line of each purchase in one of three ways.
LEMMA LineStep ==
    ASSUME TypeOK, NEW r \in PurchaseIds, Operation(r),
           NEW p \in PurchaseIds, NEW l \in LineNos
    PROVE  \/ items'[p][l] = items[p][l]
           \/ items'[p][l] \in Requests \cup {NoLine}
           \/ \E n \in Quantities :
                 /\ n <= Round2(items[p][l].ordered - items[p][l].received)
                 /\ items'[p][l].received = items[p][l].received + n
                 /\ items'[p][l].ordered = items[p][l].ordered
<1>1. CASE CreatePurchase(r)
      BY <1>1 DEF CreatePurchase, LineNos, TypeOK
<1>2. CASE AddPurchaseItem(r)
      BY <1>2 DEF AddPurchaseItem, SetLines, TypeOK
<1>3. CASE UpdatePurchaseItem(r)
      BY <1>3 DEF UpdatePurchaseItem, SetLines, TypeOK
<1>4. CASE DeletePurchaseItem(r)
      BY <1>4 DEF DeletePurchaseItem, SetLines, TypeOK
<1>5. CASE ReceivePurchase(r)
      <2>1. PICK L \in (SUBSET LinesOf(r)) \ {{}} : \E q \in [L -> Quantities] :
                /\ Acceptable(r, q)
                /\ items' = [items EXCEPT ![r] = Received(r, q)]
            BY <1>5 DEF ReceivePurchase
      <2>2. PICK q \in [L -> Quantities] :
                /\ Acceptable(r, q)
                /\ items' = [items EXCEPT ![r] = Received(r, q)]
            BY <2>1
      <2>3. CASE p # r
            BY <2>2, <2>3 DEF TypeOK
      <2>4. CASE p = r
            <3>1. items'[p][l] = Received(r, q)[l]
                  BY <2>2, <2>4 DEF TypeOK
            <3>2. L \in SUBSET LinesOf(r) /\ Acceptable(r, q)
                  BY <2>2
            <3>3. /\ l \notin L => Received(r, q)[l] = items[r][l]
                  /\ l \in L => /\ q[l] <= Round2(items[r][l].ordered - items[r][l].received)
                                /\ Received(r, q)[l].received = items[r][l].received + q[l]
                                /\ Received(r, q)[l].ordered = items[r][l].ordered
                  BY <2>2, <3>2, ReceivedLine
            <3>4. l \in L => q[l] \in Quantities
                  BY <2>2
            <3>5. CASE l \notin L
                  BY <2>4, <3>1, <3>3, <3>5
            <3>6. CASE l \in L
                  BY <2>4, <3>1, <3>3, <3>4, <3>6
            <3>7. QED
                  BY <3>5, <3>6
      <2>5. QED
            BY <2>3, <2>4
<1>6. CASE OrderRead(r) \/ OrderPurchase(r) \/ OrderRefused(r) \/ CancelPurchase(r)
           \/ RecordPurchasePayment(r)
      BY <1>6 DEF OrderRead, OrderPurchase, OrderRefused, CancelPurchase, RecordPurchasePayment
<1>7. QED
      BY <1>1, <1>2, <1>3, <1>4, <1>5, <1>6 DEF Operation

\* However a line is ordered, changed and received, at most half a hundredth
\* more than ordered is received.
THEOREM ReceiptsBounded == Spec => []OverReceiptBounded
<1>1. Init => OverReceiptBounded
      BY LinesTyped DEF Init, OverReceiptBounded
<1>2. TypeOK /\ OverReceiptBounded /\ [Next]_vars => OverReceiptBounded'
      <2> SUFFICES ASSUME TypeOK, OverReceiptBounded, [Next]_vars,
                          NEW p \in PurchaseIds, NEW l \in LineNos
                   PROVE  items'[p][l].received <= items'[p][l].ordered + 50
          BY DEF OverReceiptBounded
      <2>1. CASE UNCHANGED vars
            BY <2>1 DEF vars, OverReceiptBounded
      <2>2. ASSUME NEW r \in PurchaseIds, Operation(r)
            PROVE  items'[p][l].received <= items'[p][l].ordered + 50
            <3>1. items[p][l] \in Lines
                  BY DEF TypeOK
            <3>2. items[p][l].ordered \in Nat /\ items[p][l].received \in Nat
                  BY <3>1 DEF Lines
            <3>3. CASE items'[p][l] = items[p][l]
                  BY <3>3 DEF OverReceiptBounded
            <3>4. CASE items'[p][l] \in Requests \cup {NoLine}
                  <4>1. items'[p][l].received = 0 /\ items'[p][l].ordered \in Quantities \cup {0}
                        BY <3>4, LinesTyped
                  <4>2. items'[p][l].ordered \in Nat
                        <5>1. Quantities \cup {0} \subseteq Nat
                              BY PurchasesAssumption
                        <5>2. QED
                              BY <4>1, <5>1, Zenon
                  <4>3. QED
                        BY <4>1, <4>2
            <3>5. ASSUME NEW n \in Quantities,
                         n <= Round2(items[p][l].ordered - items[p][l].received),
                         items'[p][l].received = items[p][l].received + n,
                         items'[p][l].ordered = items[p][l].ordered
                  PROVE  items'[p][l].received <= items'[p][l].ordered + 50
                  <4>1. n \in Nat \ {0}
                        BY PurchasesAssumption
                  <4>2. n <= items[p][l].ordered - items[p][l].received + 50
                        BY <3>2, <3>5, <4>1, RoundingExcess
                  <4>3. QED
                        BY <3>2, <3>5, <4>1, <4>2
            <3>6. QED
                  BY <2>2, <3>3, <3>4, <3>5, LineStep
      <2>3. QED
            BY <2>1, <2>2 DEF Next
<1>3. QED
      BY <1>1, <1>2, TypeCorrect, PTL DEF Spec

OnGrid == \A p \in PurchaseIds, l \in LineNos :
    items[p][l].ordered % 100 = 0 /\ items[p][l].received % 100 = 0

\* When every quantity is a whole number of hundredths, the rounding is the
\* identity and no line is ever received beyond its order.
THEOREM NeverOverOnGrid ==
    ASSUME \A n \in Quantities : n % 100 = 0
    PROVE  Spec => []NeverOverReceived
<1>1. Init => OnGrid /\ NeverOverReceived
      BY LinesTyped DEF Init, OnGrid, NeverOverReceived
<1>2. TypeOK /\ OnGrid /\ NeverOverReceived /\ [Next]_vars => OnGrid' /\ NeverOverReceived'
      <2> SUFFICES ASSUME TypeOK, OnGrid, NeverOverReceived, [Next]_vars,
                          NEW p \in PurchaseIds, NEW l \in LineNos
                   PROVE  /\ items'[p][l].ordered % 100 = 0
                          /\ items'[p][l].received % 100 = 0
                          /\ items'[p][l].received <= items'[p][l].ordered
          BY DEF OnGrid, NeverOverReceived
      <2>1. CASE UNCHANGED vars
            BY <2>1 DEF vars, OnGrid, NeverOverReceived
      <2>2. ASSUME NEW r \in PurchaseIds, Operation(r)
            PROVE  /\ items'[p][l].ordered % 100 = 0
                   /\ items'[p][l].received % 100 = 0
                   /\ items'[p][l].received <= items'[p][l].ordered
            <3>1. items[p][l] \in Lines
                  BY DEF TypeOK
            <3>2. items[p][l].ordered \in Nat /\ items[p][l].received \in Nat
                  BY <3>1 DEF Lines
            <3>3. CASE items'[p][l] = items[p][l]
                  BY <3>3 DEF OnGrid, NeverOverReceived
            <3>4. CASE items'[p][l] \in Requests \cup {NoLine}
                  <4>1. items'[p][l].received = 0 /\ items'[p][l].ordered \in Quantities \cup {0}
                        BY <3>4, LinesTyped
                  <4>2. \A n \in Quantities \cup {0} : n \in Nat /\ n % 100 = 0
                        BY PurchasesAssumption
                  <4>3. QED
                        BY <4>1, <4>2
            <3>5. ASSUME NEW n \in Quantities,
                         n <= Round2(items[p][l].ordered - items[p][l].received),
                         items'[p][l].received = items[p][l].received + n,
                         items'[p][l].ordered = items[p][l].ordered
                  PROVE  /\ items'[p][l].ordered % 100 = 0
                         /\ items'[p][l].received % 100 = 0
                         /\ items'[p][l].received <= items'[p][l].ordered
                  <4>1. n \in Nat \ {0} /\ n % 100 = 0
                        BY PurchasesAssumption
                  <4>2. items[p][l].ordered % 100 = 0 /\ items[p][l].received % 100 = 0
                        BY DEF OnGrid
                  <4>3. (items[p][l].ordered - items[p][l].received) % 100 = 0
                        BY <3>2, <4>2
                  <4>4. n <= items[p][l].ordered - items[p][l].received
                        BY <3>2, <3>5, <4>3, RoundingExact
                  <4>5. (items[p][l].received + n) % 100 = 0
                        BY <3>2, <4>1, <4>2
                  <4>6. QED
                        BY <3>2, <3>5, <4>1, <4>2, <4>4, <4>5
            <3>6. QED
                  BY <2>2, <3>3, <3>4, <3>5, LineStep
      <2>3. QED
            BY <2>1, <2>2 DEF Next
<1>3. QED
      BY <1>1, <1>2, TypeCorrect, PTL DEF Spec

\* Received and cancelled purchases are final.
THEOREM FinalPurchases == Spec => FinalStaysFinal
<1>1. TypeOK /\ [Next]_vars =>
        [\A p \in PurchaseIds : status[p] \in {"RECEIVED", "CANCELLED"} =>
            /\ status'[p] = status[p]
            /\ items'[p] = items[p]
            /\ grand'[p] = grand[p]]_vars
      <2> SUFFICES ASSUME TypeOK, Next, NEW p \in PurchaseIds,
                          status[p] \in {"RECEIVED", "CANCELLED"}
                   PROVE  status'[p] = status[p] /\ items'[p] = items[p] /\ grand'[p] = grand[p]
          OBVIOUS
      <2>1. PICK r \in PurchaseIds : Operation(r)
            BY DEF Next
      <2>2. CASE OrderRead(r) \/ OrderRefused(r) \/ RecordPurchasePayment(r)
            BY <2>2 DEF OrderRead, OrderRefused, RecordPurchasePayment
      <2>3. CASE ~(OrderRead(r) \/ OrderRefused(r) \/ RecordPurchasePayment(r))
            <3>1. status[r] \in {"none", "DRAFT", "ORDERED", "PARTIALLY_RECEIVED"}
                  BY <2>1, <2>3 DEF Operation, CreatePurchase, AddPurchaseItem, UpdatePurchaseItem,
                     DeletePurchaseItem, OrderPurchase, CancelPurchase, ReceivePurchase, Open
            <3>2. p # r
                  BY <3>1
            <3>3. QED
                  BY <2>1, <2>3, <3>2 DEF Operation, CreatePurchase, AddPurchaseItem,
                     UpdatePurchaseItem, DeletePurchaseItem, OrderPurchase, CancelPurchase,
                     ReceivePurchase, SetLines, TypeOK
      <2>4. QED
            BY <2>2, <2>3
<1>2. QED
      BY <1>1, TypeCorrect, PTL DEF Spec, FinalStaysFinal

------------------------------------------------------------------------------
(* Status *)

Tells(p) ==
    /\ status[p] = "RECEIVED" => \A l \in LineNos : items[p][l].received >= items[p][l].ordered
    /\ status[p] \in {"PARTIALLY_RECEIVED", "RECEIVED"} <=> \E l \in LineNos : items[p][l].received > 0
    /\ receipts[p] <=> \E l \in LineNos : items[p][l].received > 0
    /\ paid[p] > 0 => receipts[p]

\* Rewriting a line that nothing was received of leaves what was received.
LEMMA RewriteKeeps ==
    ASSUME TypeOK, NEW p \in PurchaseIds, Tells(p), NEW l \in LineNos,
           items[p][l].received = 0, NEW line \in Requests \cup {NoLine},
           SetLines(p, [items[p] EXCEPT ![l] = line]), status[p] # "RECEIVED",
           status' = status, receipts' = receipts, paid' = paid
    PROVE  Tells(p)'
<1>1. line.received = 0
      BY LinesTyped
<1>2. items'[p] = [items[p] EXCEPT ![l] = line]
      BY DEF SetLines, TypeOK
<1>3. \A m \in LineNos : items'[p][m].received = items[p][m].received
      BY <1>1, <1>2 DEF TypeOK
<1>4. QED
      BY <1>3 DEF Tells

LEMMA TellsStep ==
    ASSUME TypeOK, NEW p \in PurchaseIds, Tells(p), Operation(p)
    PROVE  Tells(p)'
<1>1. CASE CreatePurchase(p)
      <2>0. PICK n \in LineNos : \E req \in [1..n -> Requests] :
                items' = [items EXCEPT ![p] = [l \in LineNos |-> IF l <= n THEN req[l] ELSE NoLine]]
            BY <1>1 DEF CreatePurchase
      <2>1. PICK req \in [1..n -> Requests] :
                items' = [items EXCEPT ![p] = [l \in LineNos |-> IF l <= n THEN req[l] ELSE NoLine]]
            BY <2>0
      <2>2. ASSUME NEW l \in LineNos PROVE items'[p][l].received = 0
            <3>1. items'[p][l] = IF l <= n THEN req[l] ELSE NoLine
                  BY <2>1 DEF TypeOK
            <3>2. l <= n => req[l] \in Requests
                  BY <2>1 DEF LineNos
            <3>3. QED
                  BY <3>1, <3>2, LinesTyped
      <2>3. status'[p] = "DRAFT" /\ receipts' = receipts /\ paid' = paid /\ status[p] = "none"
            BY <1>1 DEF CreatePurchase, TypeOK
      <2>4. ~receipts[p]
            BY <2>3 DEF Tells
      <2>5. QED
            BY <2>2, <2>3, <2>4 DEF Tells
<1>2. CASE AddPurchaseItem(p)
      <2>1. PICK l \in LineNos, req \in Requests :
                /\ \A m \in LinesOf(p) : m < l
                /\ SetLines(p, [items[p] EXCEPT ![l] = req])
            BY <1>2 DEF AddPurchaseItem
      <2>2. items[p][l] = NoLine
            BY <2>1 DEF LinesOf, Exists, LineNos
      <2>3. QED
            BY <1>2, <2>1, <2>2, LinesTyped, RewriteKeeps DEF AddPurchaseItem
<1>3. CASE UpdatePurchaseItem(p)
      BY <1>3, RewriteKeeps DEF UpdatePurchaseItem, LinesOf, Open
<1>4. CASE DeletePurchaseItem(p)
      BY <1>4, RewriteKeeps DEF DeletePurchaseItem, LinesOf, Open
<1>5. CASE OrderRead(p) \/ OrderRefused(p)
      BY <1>5 DEF OrderRead, OrderRefused, Tells
<1>6. CASE OrderPurchase(p)
      BY <1>6 DEF OrderPurchase, Tells, TypeOK
<1>7. CASE CancelPurchase(p)
      BY <1>7 DEF CancelPurchase, Tells, TypeOK
<1>8. CASE ReceivePurchase(p)
      <2>1. PICK L \in (SUBSET LinesOf(p)) \ {{}} : \E q \in [L -> Quantities] :
                /\ Acceptable(p, q)
                /\ items' = [items EXCEPT ![p] = Received(p, q)]
                /\ status' = [status EXCEPT ![p] = StatusAfter(Received(p, q), L)]
            BY <1>8 DEF ReceivePurchase
      <2>2. PICK q \in [L -> Quantities] :
                /\ Acceptable(p, q)
                /\ items' = [items EXCEPT ![p] = Received(p, q)]
                /\ status' = [status EXCEPT ![p] = StatusAfter(Received(p, q), L)]
            BY <2>1
      <2>3. PICK l \in L : l \in LineNos
            <3>1. L \subseteq LineNos
                  BY DEF LinesOf
            <3>2. L # {}
                  OBVIOUS
            <3>3. QED
                  BY <3>1, <3>2
      <2>4. /\ items'[p] = Received(p, q)
            /\ status'[p] = StatusAfter(items'[p], L)
            /\ receipts'[p] = TRUE
            BY <1>8, <2>2 DEF ReceivePurchase, TypeOK
      <2>5. items'[p][l].received = items[p][l].received + q[l] /\ q[l] \in Nat \ {0}
            BY <2>2, <2>3, <2>4, ReceivedLine
      <2>6. items[p][l].received \in Nat
            BY <2>3 DEF TypeOK, Lines
      <2>7. items'[p][l].received > 0
            BY <2>5, <2>6
      <2>8. QED
            BY <2>3, <2>4, <2>7 DEF Tells, StatusAfter
<1>9. CASE RecordPurchasePayment(p)
      BY <1>9 DEF RecordPurchasePayment, Tells
<1>10. QED
      BY <1>1, <1>2, <1>3, <1>4, <1>5, <1>6, <1>7, <1>8, <1>9 DEF Operation

LEMMA TellsFrame ==
    ASSUME TypeOK, NEW r \in PurchaseIds, NEW p \in PurchaseIds, p # r, Operation(r), Tells(p)
    PROVE  Tells(p)'
<1>1. status'[p] = status[p] /\ items'[p] = items[p] /\ receipts'[p] = receipts[p] /\ paid'[p] = paid[p]
      BY DEF Operation, CreatePurchase, AddPurchaseItem, UpdatePurchaseItem, DeletePurchaseItem,
             OrderRead, OrderPurchase, OrderRefused, CancelPurchase, ReceivePurchase,
             RecordPurchasePayment, SetLines, TypeOK
<1>2. QED
      BY <1>1 DEF Tells

\* The status of a purchase always tells what was received and paid.
THEOREM StatusIsTrue == Spec => []StatusTellsReceipts
<1>1. Init => StatusTellsReceipts
      BY LinesTyped DEF Init, StatusTellsReceipts
<1>2. TypeOK /\ StatusTellsReceipts /\ [Next]_vars => StatusTellsReceipts'
      <2> SUFFICES ASSUME TypeOK, StatusTellsReceipts, [Next]_vars PROVE StatusTellsReceipts'
          OBVIOUS
      <2>1. \A p \in PurchaseIds : Tells(p)
            BY DEF StatusTellsReceipts, Tells
      <2>2. CASE UNCHANGED vars
            BY <2>2 DEF vars, StatusTellsReceipts
      <2>3. ASSUME NEW r \in PurchaseIds, Operation(r) PROVE \A p \in PurchaseIds : Tells(p)'
            BY <2>1, <2>3, TellsStep, TellsFrame
      <2>4. (\A p \in PurchaseIds : Tells(p)') => StatusTellsReceipts'
            BY DEF StatusTellsReceipts, Tells
      <2>5. QED
            BY <2>2, <2>3, <2>4 DEF Next
<1>3. QED
      BY <1>1, <1>2, TypeCorrect, PTL DEF Spec

------------------------------------------------------------------------------
(* Goods and money *)

\* What lines f have received of product x.
ReceivedIn(f, x) ==
    SumFunctionOnSet([l \in LineNos |-> f[l].received], {l \in LineNos : f[l].product = x})

\* The same as a sum over all lines.
ReceivedOf(f, x) == [l \in LineNos |-> IF f[l].product = x THEN f[l].received ELSE 0]

LEMMA LineNosFinite == IsFiniteSet(LineNos)
BY PurchasesAssumption, FS_Interval DEF LineNos

LEMMA ReceivedInIs ==
    ASSUME NEW f \in [LineNos -> Lines], NEW x
    PROVE  /\ ReceivedIn(f, x) = SumFunctionOnSet(ReceivedOf(f, x), LineNos)
           /\ ReceivedIn(f, x) \in Nat
           /\ \A l \in LineNos : ReceivedOf(f, x)[l] \in Nat
<1> DEFINE R == [l \in LineNos |-> f[l].received]
           L == {l \in LineNos : f[l].product = x}
<1>1. \A l \in LineNos : ReceivedOf(f, x)[l] \in Nat
      BY DEF ReceivedOf, Lines
<1>2. SumFunctionOnSet(R, L) = SumFunctionOnSet(ReceivedOf(f, x), LineNos)
      <2>1. L \in SUBSET LineNos
            OBVIOUS
      <2>2. \A l \in LineNos : R[l] \in Int /\ ReceivedOf(f, x)[l] = IF l \in L THEN R[l] ELSE 0
            BY DEF ReceivedOf, Lines
      <2> HIDE DEF R, L
      <2>3. QED  BY <2>1, <2>2, LineNosFinite, SumWithin
<1>3. SumFunctionOnSet(ReceivedOf(f, x), LineNos) \in Nat
      BY <1>1, LineNosFinite, SumIsNat
<1>4. QED
      BY <1>1, <1>2, <1>3 DEF ReceivedIn

\* Rewriting lines nothing was received of changes no sum.
LEMMA ReceivedInKept ==
    ASSUME NEW f \in [LineNos -> Lines], NEW g \in [LineNos -> Lines], NEW x,
           \A l \in LineNos : g[l] = f[l] \/ (f[l].received = 0 /\ g[l].received = 0)
    PROVE  ReceivedIn(g, x) = ReceivedIn(f, x)
<1>1. \A l \in LineNos : ReceivedOf(g, x)[l] = ReceivedOf(f, x)[l]
      BY DEF ReceivedOf
<1>2. SumFunctionOnSet(ReceivedOf(g, x), LineNos) = SumFunctionOnSet(ReceivedOf(f, x), LineNos)
      BY <1>1, LineNosFinite, SumEqual
<1>3. QED
      BY <1>2, ReceivedInIs

\* A receipt adds its quantities.
LEMMA ReceivedInGrows ==
    ASSUME TypeOK, NEW p \in PurchaseIds, NEW L \in SUBSET LinesOf(p),
           NEW q \in [L -> Quantities], Acceptable(p, q), NEW x
    PROVE  ReceivedIn(Received(p, q), x) =
               ReceivedIn(items[p], x) + SumFunctionOnSet(q, {l \in L : items[p][l].product = x})
<1> DEFINE f == items[p]
           g == Received(p, q)
           K == {l \in L : f[l].product = x}
           Q == [l \in LineNos |-> IF l \in K THEN q[l] ELSE 0]
<1>1. f \in [LineNos -> Lines]
      BY DEF TypeOK
<1>2. L \subseteq LineNos
      BY DEF LinesOf
<1>3. \A l \in LineNos : g[l] = IF l \in L THEN [f[l] EXCEPT !.received = @ + q[l]] ELSE f[l]
      BY DEF Received
<1>4. \A l \in L : q[l] \in Nat
      BY PurchasesAssumption
<1>5. g \in [LineNos -> Lines]
      BY <1>2, <1>3, ReceivedLine, PurchasesAssumption DEF LineNos
<1>6. \A l \in LineNos :
          /\ ReceivedOf(f, x)[l] \in Int /\ Q[l] \in Int
          /\ ReceivedOf(g, x)[l] = ReceivedOf(f, x)[l] + Q[l]
      <2> SUFFICES ASSUME NEW l \in LineNos
                   PROVE  /\ ReceivedOf(f, x)[l] \in Int /\ Q[l] \in Int
                          /\ ReceivedOf(g, x)[l] = ReceivedOf(f, x)[l] + Q[l]
          OBVIOUS
      <2>1. f[l].received \in Nat /\ DOMAIN f[l] = {"product", "ordered", "received", "subtotal"}
            BY <1>1 DEF Lines
      <2>2. CASE l \in L
            <3>1. g[l].product = f[l].product /\ g[l].received = f[l].received + q[l] /\ q[l] \in Nat
                  BY <1>3, <1>4, <2>1, <2>2
            <3> HIDE DEF f, g
            <3>2. QED  BY <2>1, <2>2, <3>1 DEF ReceivedOf
      <2>3. CASE l \notin L
            <3>1. g[l] = f[l]
                  BY <1>3, <2>3
            <3> HIDE DEF f, g
            <3>2. QED  BY <2>1, <2>3, <3>1 DEF ReceivedOf
      <2>4. QED  BY <2>2, <2>3
<1>7. SumFunctionOnSet(ReceivedOf(g, x), LineNos) =
          SumFunctionOnSet(ReceivedOf(f, x), LineNos) + SumFunctionOnSet(Q, LineNos)
      <2> HIDE DEF f, g, Q
      <2>1. QED  BY <1>6, LineNosFinite, SumPlus
<1>8. SumFunctionOnSet(q, K) = SumFunctionOnSet(Q, LineNos)
      <2> DEFINE q0 == [l \in LineNos |-> IF l \in L THEN q[l] ELSE 0]
      <2>1. K \in SUBSET LineNos /\ IsFiniteSet(K)
            BY <1>2, LineNosFinite, FS_Subset
      <2>2. \A l \in LineNos : q0[l] \in Int /\ Q[l] = IF l \in K THEN q0[l] ELSE 0
            BY <1>4
      <2>3. \A l \in K : q[l] = q0[l]
            BY <2>1
      <2> HIDE DEF q0, K, Q
      <2>4. SumFunctionOnSet(q, K) = SumFunctionOnSet(q0, K)
            BY <2>1, <2>3, SumEqual
      <2>5. SumFunctionOnSet(q0, K) = SumFunctionOnSet(Q, LineNos)
            BY <2>1, <2>2, LineNosFinite, SumWithin
      <2>6. QED  BY <2>4, <2>5
<1>9. QED
      <2>1. /\ ReceivedIn(f, x) = SumFunctionOnSet(ReceivedOf(f, x), LineNos)
            /\ ReceivedIn(g, x) = SumFunctionOnSet(ReceivedOf(g, x), LineNos)
            BY <1>1, <1>5, ReceivedInIs
      <2>2. QED  BY <1>7, <1>8, <2>1

\* What purchase p has received of x; the ledger is explained by their sum.
ByPurchase(x) == [p \in PurchaseIds |-> ReceivedIn(items[p], x)]

LEMMA Explained ==
    LedgerExplainedByLines <=> \A x \in Tracked : ledger[x] = SumFunctionOnSet(ByPurchase(x), PurchaseIds)
BY DEF LedgerExplainedByLines, SumFunction, ByPurchase, ReceivedIn

\* The operations other than a receipt neither post movements nor touch a
\* received line.
LEMMA PlainStep ==
    ASSUME TypeOK, StatusTellsReceipts, NEW p \in PurchaseIds, Operation(p), ~ReceivePurchase(p)
    PROVE  /\ ledger' = ledger
           /\ \A r \in PurchaseIds, l \in LineNos :
                  items'[r][l] = items[r][l] \/ (items[r][l].received = 0 /\ items'[r][l].received = 0)
<1>1. ledger' = ledger
      BY DEF Operation, CreatePurchase, AddPurchaseItem, UpdatePurchaseItem, DeletePurchaseItem,
             OrderRead, OrderPurchase, OrderRefused, CancelPurchase, RecordPurchasePayment
<1> SUFFICES ASSUME NEW r \in PurchaseIds, NEW l \in LineNos
             PROVE  items'[r][l] = items[r][l] \/ (items[r][l].received = 0 /\ items'[r][l].received = 0)
    BY <1>1
<1>2. CASE CreatePurchase(p)
      <2>0. PICK n \in LineNos : \E req \in [1..n -> Requests] :
                items' = [items EXCEPT ![p] = [m \in LineNos |-> IF m <= n THEN req[m] ELSE NoLine]]
            BY <1>2 DEF CreatePurchase
      <2>1. PICK req \in [1..n -> Requests] :
                items' = [items EXCEPT ![p] = [m \in LineNos |-> IF m <= n THEN req[m] ELSE NoLine]]
            BY <2>0
      <2>2. CASE r # p
            <3>1. PICK f : items' = [items EXCEPT ![p] = f]
                  BY <2>1
            <3>2. QED  BY <2>2, <3>1 DEF TypeOK
      <2>3. CASE r = p
            <3>1. items'[p][l] = IF l <= n THEN req[l] ELSE NoLine
                  BY <2>1 DEF TypeOK
            <3>2. l <= n => req[l] \in Requests
                  BY <2>1 DEF LineNos
            <3>3. items'[p][l].received = 0
                  BY <3>1, <3>2, LinesTyped
            <3>4. status[p] = "none"
                  BY <1>2 DEF CreatePurchase
            <3>5. ~(items[p][l].received > 0)
                  BY <3>4 DEF StatusTellsReceipts
            <3>6. items[p][l].received \in Nat
                  BY DEF TypeOK, Lines
            <3>7. QED  BY <2>3, <3>3, <3>5, <3>6
      <2>4. QED  BY <2>2, <2>3
<1>3. CASE AddPurchaseItem(p) \/ UpdatePurchaseItem(p) \/ DeletePurchaseItem(p)
      <2>1. PICK m \in LineNos, line \in Requests \cup {NoLine} :
                /\ items[p][m].received = 0
                /\ items' = [items EXCEPT ![p] = [items[p] EXCEPT ![m] = line]]
            <3>1. CASE AddPurchaseItem(p)
                  <4>1. PICK m \in LineNos, req \in Requests :
                            /\ \A k \in LinesOf(p) : k < m
                            /\ SetLines(p, [items[p] EXCEPT ![m] = req])
                        BY <3>1 DEF AddPurchaseItem
                  <4>2. items[p][m] = NoLine
                        BY <4>1 DEF LinesOf, Exists, LineNos
                  <4>3. QED
                        BY <4>1, <4>2, LinesTyped DEF SetLines
            <3>2. CASE UpdatePurchaseItem(p)
                  BY <3>2 DEF UpdatePurchaseItem, LinesOf, SetLines
            <3>3. CASE DeletePurchaseItem(p)
                  BY <3>3 DEF DeletePurchaseItem, LinesOf, SetLines
            <3>4. QED  BY <1>3, <3>1, <3>2, <3>3
      <2>2. line.received = 0
            BY LinesTyped
      <2>3. QED
            BY <2>1, <2>2 DEF TypeOK
<1>4. CASE OrderRead(p) \/ OrderPurchase(p) \/ OrderRefused(p) \/ CancelPurchase(p)
           \/ RecordPurchasePayment(p)
      BY <1>4 DEF OrderRead, OrderPurchase, OrderRefused, CancelPurchase, RecordPurchasePayment
<1>5. QED
      BY <1>2, <1>3, <1>4 DEF Operation

LEMMA ByPurchaseTyped ==
    ASSUME TypeOK, NEW x
    PROVE  \A p \in PurchaseIds : ByPurchase(x)[p] \in Nat
BY ReceivedInIs DEF ByPurchase, TypeOK

LEMMA PlainExplains ==
    ASSUME TypeOK, TypeOK', StatusTellsReceipts, LedgerExplainedByLines,
           NEW p \in PurchaseIds, Operation(p), ~ReceivePurchase(p)
    PROVE  LedgerExplainedByLines'
<1> SUFFICES ASSUME NEW x \in Tracked
             PROVE  ledger'[x] = SumFunctionOnSet(ByPurchase(x)', PurchaseIds)
    BY DEF LedgerExplainedByLines, SumFunction, ByPurchase, ReceivedIn
<1>1. ledger'[x] = SumFunctionOnSet(ByPurchase(x), PurchaseIds)
      BY PlainStep, Explained
<1>2. ASSUME NEW r \in PurchaseIds
      PROVE  ByPurchase(x)'[r] = ByPurchase(x)[r]
      <2>1. items[r] \in [LineNos -> Lines] /\ items'[r] \in [LineNos -> Lines]
            BY DEF TypeOK
      <2>2. ReceivedIn(items'[r], x) = ReceivedIn(items[r], x)
            BY <2>1, PlainStep, ReceivedInKept
      <2>3. QED  BY <2>2 DEF ByPurchase
<1>3. SumFunctionOnSet(ByPurchase(x)', PurchaseIds) = SumFunctionOnSet(ByPurchase(x), PurchaseIds)
      BY <1>2, PurchasesAssumption, SumEqual
<1>4. QED
      BY <1>1, <1>3

LEMMA ReceiptExplains ==
    ASSUME TypeOK, LedgerExplainedByLines, NEW p \in PurchaseIds, ReceivePurchase(p)
    PROVE  LedgerExplainedByLines'
<1>1. PICK L \in (SUBSET LinesOf(p)) \ {{}} : \E q \in [L -> Quantities] :
          /\ Acceptable(p, q)
          /\ items' = [items EXCEPT ![p] = Received(p, q)]
          /\ ledger' = [x \in Products |->
                 ledger[x] + IF x \in Tracked
                             THEN SumFunctionOnSet(q, {l \in L : items[p][l].product = x})
                             ELSE 0]
      BY DEF ReceivePurchase
<1>2. PICK q \in [L -> Quantities] :
          /\ Acceptable(p, q)
          /\ items' = [items EXCEPT ![p] = Received(p, q)]
          /\ ledger' = [x \in Products |->
                 ledger[x] + IF x \in Tracked
                             THEN SumFunctionOnSet(q, {l \in L : items[p][l].product = x})
                             ELSE 0]
      BY <1>1
<1> SUFFICES ASSUME NEW x \in Tracked
             PROVE  ledger'[x] = SumFunctionOnSet(ByPurchase(x)', PurchaseIds)
    BY DEF LedgerExplainedByLines, SumFunction, ByPurchase, ReceivedIn
<1> DEFINE n == SumFunctionOnSet(q, {l \in L : items[p][l].product = x})
<1>3. ledger'[x] = ledger[x] + n
      BY <1>2, PurchasesAssumption
<1>4. ledger[x] = SumFunctionOnSet(ByPurchase(x), PurchaseIds)
      BY Explained
<1>5. \A r \in PurchaseIds \ {p} : ByPurchase(x)'[r] = ByPurchase(x)[r]
      BY <1>2 DEF ByPurchase, TypeOK
<1>6. ByPurchase(x)'[p] = ByPurchase(x)[p] + n
      <2>1. items'[p] = Received(p, q)
            BY <1>2 DEF TypeOK
      <2>2. L \in SUBSET LinesOf(p)
            BY <1>1
      <2>3. ReceivedIn(Received(p, q), x) = ReceivedIn(items[p], x) + n
            BY <1>2, <2>2, ReceivedInGrows
      <2>4. QED  BY <2>1, <2>3 DEF ByPurchase
<1>7. n \in Int
      <2> DEFINE K == {l \in L : items[p][l].product = x}
      <2>1. \A l \in K : q[l] \in Int
            <3>1. \A l \in L : q[l] \in Nat
                  BY <1>2, PurchasesAssumption
            <3>2. QED  BY <3>1
      <2>2. IsFiniteSet(K)
            <3>1. K \subseteq LineNos
                  BY <1>1 DEF LinesOf
            <3>2. QED  BY <3>1, LineNosFinite, FS_Subset
      <2>3. SumFunctionOnSet(q, K) \in Int
            <3> HIDE DEF K
            <3>1. QED  BY <2>1, <2>2, SumIsInt
      <2>4. QED  BY <2>3
<1>8. \A r \in PurchaseIds : ByPurchase(x)[r] \in Int
      BY ByPurchaseTyped
<1> HIDE DEF n
<1>9. SumFunctionOnSet(ByPurchase(x)', PurchaseIds) =
          SumFunctionOnSet(ByPurchase(x), PurchaseIds) + (ByPurchase(x)'[p] - ByPurchase(x)[p])
      <2> DEFINE f == ByPurchase(x)
                 g == ByPurchase(x)'
      <2>1. /\ g[p] \in Int /\ \A r \in PurchaseIds : f[r] \in Int
            /\ \A r \in PurchaseIds \ {p} : g[r] = f[r]
            BY <1>5, <1>6, <1>7, <1>8
      <2> HIDE DEF f, g
      <2>2. SumFunctionOnSet(g, PurchaseIds) = SumFunctionOnSet(f, PurchaseIds) + (g[p] - f[p])
            BY <2>1, PurchasesAssumption, SumChanged
      <2>3. QED  BY <2>2 DEF f, g
<1>10. ByPurchase(x)'[p] - ByPurchase(x)[p] = n
      BY <1>6, <1>7, <1>8
<1>11. QED
      BY <1>3, <1>4, <1>9, <1>10

LEMMA InitExplained == Init => LedgerExplainedByLines
<1> SUFFICES ASSUME Init, NEW x \in Tracked
             PROVE  ledger[x] = SumFunctionOnSet(ByPurchase(x), PurchaseIds)
    BY Explained
<1>1. \A p \in PurchaseIds : ByPurchase(x)[p] = 0
      <2> SUFFICES ASSUME NEW p \in PurchaseIds PROVE ReceivedIn(items[p], x) = 0
          BY DEF ByPurchase
      <2>1. items[p] = [l \in LineNos |-> NoLine] /\ items[p] \in [LineNos -> Lines]
            BY LinesTyped DEF Init
      <2>2. \A l \in LineNos : ReceivedOf(items[p], x)[l] = 0
            BY <2>1, LinesTyped DEF ReceivedOf
      <2>3. QED
            BY <2>1, <2>2, ReceivedInIs, LineNosFinite, SumOfZeros
<1>2. SumFunctionOnSet(ByPurchase(x), PurchaseIds) = 0
      BY <1>1, PurchasesAssumption, SumOfZeros
<1>3. QED
      BY <1>2, PurchasesAssumption DEF Init

\* The stock of a tracked product that came by purchases is what the lines
\* say was received, whatever was done to the lines before and after.
THEOREM LedgerExplained == Spec => []LedgerExplainedByLines
<1>1. TypeOK /\ TypeOK' /\ StatusTellsReceipts /\ LedgerExplainedByLines /\ [Next]_vars
          => LedgerExplainedByLines'
      <2> SUFFICES ASSUME TypeOK, TypeOK', StatusTellsReceipts, LedgerExplainedByLines, [Next]_vars
                   PROVE  LedgerExplainedByLines'
          OBVIOUS
      <2>1. CASE UNCHANGED vars
            BY <2>1 DEF vars, LedgerExplainedByLines
      <2>2. ASSUME NEW p \in PurchaseIds, Operation(p) PROVE LedgerExplainedByLines'
            BY <2>2, PlainExplains, ReceiptExplains
      <2>3. QED
            BY <2>1, <2>2 DEF Next
<1>2. QED
      BY <1>1, InitExplained, TypeCorrect, StatusIsTrue, PTL DEF Spec

\* Every unit of money that left the accounts is in the paid sum of a purchase.
THEOREM CashExplained == Spec => []CashExplainedByPayments
<1>1. Init => CashExplainedByPayments
      <2> SUFFICES ASSUME Init PROVE cash + SumFunctionOnSet(paid, PurchaseIds) = 0
          BY DEF Init, CashExplainedByPayments, SumFunction
      <2>1. SumFunctionOnSet(paid, PurchaseIds) = 0
            BY PurchasesAssumption, SumOfZeros DEF Init
      <2>2. cash = 0
            BY DEF Init
      <2>3. QED  BY <2>1, <2>2
<1>2. TypeOK /\ CashExplainedByPayments /\ [Next]_vars => CashExplainedByPayments'
      <2> SUFFICES ASSUME TypeOK, CashExplainedByPayments, [Next]_vars PROVE CashExplainedByPayments'
          OBVIOUS
      <2>1. CASE UNCHANGED <<cash, paid>>
            BY <2>1 DEF CashExplainedByPayments
      <2>2. ASSUME NEW p \in PurchaseIds, RecordPurchasePayment(p) PROVE CashExplainedByPayments'
            <3>1. PICK a \in Amounts : paid' = [paid EXCEPT ![p] = @ + a] /\ cash' = cash - a
                  BY <2>2 DEF RecordPurchasePayment
            <3>2. a \in Nat /\ \A r \in PurchaseIds : paid[r] \in Int
                  BY PurchasesAssumption DEF TypeOK
            <3>3. /\ DOMAIN paid = PurchaseIds /\ DOMAIN paid' = PurchaseIds
                  /\ paid'[p] = paid[p] + a
                  /\ \A r \in PurchaseIds \ {p} : paid'[r] = paid[r]
                  BY <3>1 DEF TypeOK
            <3>4. paid'[p] \in Int
                  BY <3>2, <3>3
            <3>5. SumFunctionOnSet(paid', PurchaseIds) =
                      SumFunctionOnSet(paid, PurchaseIds) + (paid'[p] - paid[p])
                  BY <3>2, <3>3, <3>4, PurchasesAssumption, SumChanged
            <3>6. SumFunctionOnSet(paid, PurchaseIds) \in Int
                  BY <3>2, PurchasesAssumption, SumIsInt
            <3>7. cash + SumFunctionOnSet(paid, PurchaseIds) = 0
                  BY <3>3 DEF CashExplainedByPayments, SumFunction
            <3>8. cash' + SumFunctionOnSet(paid', PurchaseIds) = 0
                  BY <3>1, <3>2, <3>3, <3>5, <3>6, <3>7 DEF TypeOK
            <3>9. QED
                  BY <3>3, <3>8 DEF CashExplainedByPayments, SumFunction
      <2>3. QED
            BY <2>1, <2>2 DEF Next, Operation, vars, CreatePurchase, AddPurchaseItem, UpdatePurchaseItem,
                  DeletePurchaseItem, OrderRead, OrderPurchase, OrderRefused, CancelPurchase,
                  ReceivePurchase
<1>3. QED
      BY <1>1, <1>2, TypeCorrect, PTL DEF Spec
==============================================================================
