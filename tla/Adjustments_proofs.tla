------------------------- MODULE Adjustments_proofs -------------------------
(***************************************************************************)
(* Safety of Adjustments for any documents, products, quantities and       *)
(* multipliers.                                                            *)
(***************************************************************************)
EXTENDS Adjustments, SumLemmas, TLAPS

------------------------------------------------------------------------------
(* Units *)

LEMMA ProductNat == \A a, b \in Nat : a * b \in Nat
OBVIOUS

LEMMA DivNat == \A a \in Nat, b \in Nat \ {0} : a \div b \in Nat
OBVIOUS

LEMMA DivUnique ==
    \A a \in Nat, b \in Nat \ {0}, c \in Nat, r \in Nat :
        a = b * c + r /\ r < b => a \div b = c
OBVIOUS

LEMMA MultiplyNat ==
    ASSUME NEW q \in Nat, NEW m \in Nat
    PROVE  Multiply(q, m) \in Nat
<1>1. 2 * q * m \in Nat
      BY ProductNat
<1>2. QED
      BY <1>1, DivNat, AdjustmentsAssumption DEF Multiply

LEMMA MultiplyOne ==
    ASSUME NEW q \in Nat
    PROVE  Multiply(q, MultScale) = q
<1>1. 2 * q * MultScale \in Nat /\ 2 * MultScale \in Nat \ {0}
      BY ProductNat, AdjustmentsAssumption
<1>2. 2 * q * MultScale + MultScale = (2 * MultScale) * q + MultScale
      BY AdjustmentsAssumption
<1>3. QED
      BY <1>1, <1>2, DivUnique, AdjustmentsAssumption DEF Multiply

------------------------------------------------------------------------------
(* The inductive invariant *)

\* A product without a row has nothing in stock.
RowsHoldStock == \A x \in Products : x \notin rows => stock[x] = 0

\* A document that does not exist has no lines, and only an opname counts.
StageTells ==
    \A d \in Docs :
        /\ status[d] = "none" => \A x \in Products : lines[d][x] = NotListed
        /\ status[d] = "COUNTING" => kind[d] = "OPNAME"

\* Nothing is remembered of a product that is not listed.
SinceStarts == \A d \in Docs, x \in Products : lines[d][x] = NotListed => since[d][x] = 0

\* What was read of a pending opname and what moved since give the stock.
SincePins ==
    \A d \in Docs, x \in Products :
        Pending(d, x, status[d]) => stock[x] = lines[d][x].system + since[d][x]

\* A line counted in base units posts the difference of count and system.
LineExact ==
    \A d \in Docs, x \in Products :
        Counted(d, x) /\ lines[d][x].unit = "base" =>
            Signed(lines[d][x]) = lines[d][x].counted - lines[d][x].system

\* A quantity read by an opname under way is locked, and has not moved.
CountHolds ==
    \A d \in Docs, x \in Products :
        status[d] = "COUNTING" /\ lines[d][x].system > 0 =>
            x \in rows /\ rowLock[x] = d /\ since[d][x] = 0

IInv ==
    /\ TypeOK
    /\ RowsHoldStock /\ StageTells /\ SinceStarts /\ SincePins /\ LineExact /\ CountHolds

------------------------------------------------------------------------------
(* Lines *)

LEMMA NotListedTyped == NotListed \in LineType /\ NotListed.dir = "NONE" /\ NotListed.system = 0
BY DEF NotListed, Line, LineType, Units, Moves

LEMMA SignedTyped ==
    ASSUME NEW line \in LineType
    PROVE  /\ Signed(line) \in Int
           /\ line.dir \notin Moves => Signed(line) = 0
           /\ line.dir = "IN" => Signed(line) = line.base
           /\ line.dir = "OUT" => Signed(line) = -line.base
BY DEF Signed, LineType, Moves

LEMMA FactorNat ==
    ASSUME TypeOK, NEW x \in Products, NEW u \in Units
    PROVE  Factor(x, u) \in Nat
BY AdjustmentsAssumption DEF TypeOK, Factor

LEMMA ManualLineTyped ==
    ASSUME TypeOK, NEW x \in Products, NEW line \in ManualLines(x)
    PROVE  line \in LineType
<1>1. PICK dir \in Moves, q \in Quantities, u \in Units :
          line = Line(dir, Multiply(q, Factor(x, u)), u, 0, 0)
      BY DEF ManualLines
<1>2. Multiply(q, Factor(x, u)) \in Nat
      <2>1. q \in Nat
            BY AdjustmentsAssumption
      <2>2. QED
            BY <2>1, FactorNat, MultiplyNat
<1>3. QED
      BY <1>1, <1>2 DEF Line, LineType

\* What a count records.
LEMMA CountedLineTyped ==
    ASSUME TypeOK, NEW x \in Products, NEW c \in Counts, NEW u \in Units
    PROVE  LET line == CountedLine(x, c, u)
           IN  /\ line \in LineType
               /\ line # NotListed
               /\ line.system = stock[x]
               /\ line.dir \in Moves /\ line.unit = "base" =>
                      Signed(line) = line.counted - line.system
<1> DEFINE counted == Multiply(c, Factor(x, u))
           difference == Distance(counted, stock[x])
           base == Multiply(difference, Factor(x, u))
           line == CountedLine(x, c, u)
<1>1. counted \in Nat /\ stock[x] \in Nat
      <2>1. c \in Nat
            BY AdjustmentsAssumption
      <2>2. QED
            BY <2>1, FactorNat, MultiplyNat DEF TypeOK
<1>2. difference \in Nat
      BY <1>1 DEF Distance
<1>3. base \in Nat
      BY <1>2, FactorNat, MultiplyNat
<1>4. u = "base" => base = difference
      BY <1>2, MultiplyOne DEF Factor
<1>5. \/ line = Line("NO_CHANGE", 0, u, stock[x], counted)
      \/ line = Line("OUT", base, u, stock[x], counted) /\ counted < stock[x]
      \/ line = Line("IN", base, u, stock[x], counted) /\ ~(counted < stock[x])
      BY DEF CountedLine
<1> HIDE DEF counted, base, line
<1>6. /\ line \in LineType
      /\ line.dir # "NONE"
      /\ line.system = stock[x]
      BY <1>1, <1>3, <1>5 DEF Line, LineType, Moves
<1>7. line # NotListed
      BY <1>6, NotListedTyped
<1>8. ASSUME line.dir \in Moves, line.unit = "base"
      PROVE  Signed(line) = line.counted - line.system
      <2>1. line.unit = u /\ line.counted = counted
            BY <1>5 DEF Line
      <2>2. base = difference
            BY <1>4, <1>8, <2>1
      <2>3. CASE line = Line("OUT", base, u, stock[x], counted) /\ counted < stock[x]
            <3>1. line.dir = "OUT" /\ line.base = base
                  BY <2>3 DEF Line
            <3>2. base = stock[x] - counted
                  BY <2>2, <2>3, <1>1 DEF Distance
            <3>3. QED
                  BY <1>1, <1>6, <2>1, <3>1, <3>2, SignedTyped
      <2>4. CASE line = Line("IN", base, u, stock[x], counted) /\ ~(counted < stock[x])
            <3>1. line.dir = "IN" /\ line.base = base
                  BY <2>4 DEF Line
            <3>2. base = counted - stock[x]
                  BY <2>2, <2>4, <1>1 DEF Distance
            <3>3. QED
                  BY <1>1, <1>6, <2>1, <3>1, <3>2, SignedTyped
      <2>5. QED
            BY <1>5, <1>8, <2>3, <2>4 DEF Line, Moves
<1>9. QED
      BY <1>6, <1>7, <1>8 DEF line

------------------------------------------------------------------------------
(* Steps *)

\* A change of stock keeps the invariant when it leaves locked rows alone and
\* takes nothing that is not there.
LEMMA MoveKeeps ==
    ASSUME IInv, NEW m \in [Products -> Int], Move(m),
           UNCHANGED <<kind, lines, rowLock, multiplier>>,
           traded' \in [Products -> Int],
           rows \subseteq rows', rows' \subseteq Products,
           \A x \in Products : /\ stock[x] + m[x] >= 0
                               /\ m[x] # 0 => Free(x) /\ x \in rows',
           status' \in [Docs -> {"none", "COUNTING", "DRAFT", "COMPLETED"}],
           \A d \in Docs : status'[d] = status[d] \/ status'[d] = "COMPLETED"
    PROVE  IInv'
<1>1. /\ stock' = [x \in Products |-> stock[x] + m[x]]
      /\ \A d \in Docs, x \in Products :
            since'[d][x] = IF Pending(d, x, status'[d]) THEN since[d][x] + m[x] ELSE 0
      BY DEF Move
<1>2. /\ \A x \in Products : stock[x] \in Nat /\ m[x] \in Int
      /\ \A d \in Docs, x \in Products : since[d][x] \in Int /\ lines[d][x] \in LineType
      BY DEF IInv, TypeOK
<1>3. \A d \in Docs, x \in Products, s \in STRING : Pending(d, x, s)' <=> Pending(d, x, s')
      BY DEF Pending
<1>4. TypeOK'
      <2>1. stock' \in [Products -> Nat]
            BY <1>1, <1>2
      <2>2. since' \in [Docs -> [Products -> Int]]
            BY <1>2 DEF Move
      <2>3. QED
            BY <2>1, <2>2 DEF IInv, TypeOK
<1>5. RowsHoldStock'
      BY <1>1, <1>2 DEF IInv, RowsHoldStock
<1>6. StageTells'
      BY DEF IInv, StageTells
<1>7. SinceStarts'
      BY <1>1 DEF SinceStarts, Pending
<1>8. SincePins'
      <2> SUFFICES ASSUME NEW d \in Docs, NEW x \in Products, Pending(d, x, status[d])'
                   PROVE  stock'[x] = lines[d][x].system + since'[d][x]
          BY DEF SincePins
      <2>1. Pending(d, x, status'[d]) /\ Pending(d, x, status[d])
            BY DEF Pending
      <2>2. stock[x] = lines[d][x].system + since[d][x]
            BY <2>1 DEF IInv, SincePins
      <2>3. lines[d][x].system \in Nat
            BY <1>2 DEF LineType
      <2>4. QED
            BY <1>1, <1>2, <2>1, <2>2, <2>3
<1>9. LineExact'
      BY DEF IInv, LineExact, Counted
<1>10. CountHolds'
      <2> SUFFICES ASSUME NEW d \in Docs, NEW x \in Products,
                          status'[d] = "COUNTING", lines[d][x].system > 0
                   PROVE  x \in rows' /\ rowLock[x] = d /\ since'[d][x] = 0
          BY DEF CountHolds
      <2>1. x \in rows /\ rowLock[x] = d /\ since[d][x] = 0
            BY DEF IInv, CountHolds
      <2>2. m[x] = 0
            BY <2>1, AdjustmentsAssumption DEF Free
      <2>3. QED
            BY <1>1, <2>1, <2>2
<1>11. QED
      BY <1>4, <1>5, <1>6, <1>7, <1>8, <1>9, <1>10 DEF IInv

LEMMA InitIInv == Init => IInv
<1> SUFFICES ASSUME Init PROVE IInv
    OBVIOUS
<1>1. lines \in [Docs -> [Products -> LineType]]
      BY NotListedTyped DEF Init
<1>2. TypeOK
      BY <1>1 DEF Init, TypeOK
<1>3. QED
      BY <1>2, NotListedTyped DEF Init, IInv, RowsHoldStock, StageTells, SinceStarts,
         SincePins, Pending, LineExact, Counted, CountHolds, Moves

LEMMA ConversionStep ==
    ASSUME IInv, NEW x \in Products, CreateUnitConversion(x)
    PROVE  IInv'
<1>1. PICK m \in Multipliers : multiplier' = [multiplier EXCEPT ![x] = m]
      BY DEF CreateUnitConversion
<1>2. m \in Nat
      BY AdjustmentsAssumption
<1>3. TypeOK'
      BY <1>1, <1>2 DEF CreateUnitConversion, IInv, TypeOK
<1>4. QED
      BY <1>3 DEF CreateUnitConversion, IInv, RowsHoldStock, StageTells, SinceStarts,
         SincePins, Pending, LineExact, Counted, CountHolds

LEMMA CreateStep ==
    ASSUME IInv, NEW d \in Docs, CreateStockAdjustment(d)
    PROVE  IInv'
<1>1. PICK f \in [Products -> UNION {ManualLines(x) : x \in Products} \cup {NotListed}] :
          /\ \A x \in Products : f[x] \in ManualLines(x) \cup {NotListed}
          /\ lines' = [lines EXCEPT ![d] = f]
      BY DEF CreateStockAdjustment
<1>2. \A x \in Products : f[x] \in LineType
      BY <1>1, ManualLineTyped, NotListedTyped DEF IInv
<1>3. f \in [Products -> LineType]
      BY <1>2
<1>4. \A x \in Products : since[d][x] = 0
      BY DEF CreateStockAdjustment, IInv, StageTells, SinceStarts
<1>5. TypeOK'
      BY <1>1, <1>3 DEF CreateStockAdjustment, IInv, TypeOK
<1>6. /\ status'[d] = "DRAFT" /\ kind'[d] = "MANUAL"
      /\ \A e \in Docs \ {d} : /\ status'[e] = status[e] /\ kind'[e] = kind[e]
                               /\ lines'[e] = lines[e]
      BY <1>1 DEF CreateStockAdjustment, IInv, TypeOK
<1>7. QED
      BY <1>4, <1>5, <1>6 DEF CreateStockAdjustment, IInv, RowsHoldStock, StageTells,
         SinceStarts, SincePins, Pending, LineExact, Counted, CountHolds

LEMMA BeginStep ==
    ASSUME IInv, NEW d \in Docs, BeginOpname(d)
    PROVE  IInv'
<1>1. TypeOK'
      BY DEF BeginOpname, IInv, TypeOK
<1>2. /\ status'[d] = "COUNTING" /\ kind'[d] = "OPNAME"
      /\ \A e \in Docs \ {d} : status'[e] = status[e] /\ kind'[e] = kind[e]
      /\ \A x \in Products : lines[d][x] = NotListed
      BY DEF BeginOpname, IInv, TypeOK, StageTells
<1>3. \A x \in Products : lines[d][x].dir = "NONE" /\ lines[d][x].system = 0
      BY <1>2, NotListedTyped
<1>4. QED
      BY <1>1, <1>2, <1>3 DEF BeginOpname, IInv, RowsHoldStock, StageTells,
         SinceStarts, SincePins, Pending, LineExact, Counted, CountHolds, Moves

LEMMA CountStep ==
    ASSUME IInv, NEW d \in Docs, NEW x \in Products, CountProduct(d, x)
    PROVE  IInv'
<1>1. PICK c \in Counts, u \in {v \in Units : Known(x, v)} :
          lines' = [lines EXCEPT ![d][x] = CountedLine(x, c, u)]
      BY DEF CountProduct
<1> DEFINE line == CountedLine(x, c, u)
<1>2. /\ line \in LineType
      /\ line # NotListed
      /\ line.system = stock[x]
      /\ line.dir \in Moves /\ line.unit = "base" =>
            Signed(line) = line.counted - line.system
      BY CountedLineTyped DEF IInv
<1> HIDE DEF line
<1>3. /\ status[d] = "COUNTING" /\ since[d][x] = 0
      /\ stock[x] \in Nat
      BY DEF CountProduct, IInv, TypeOK, SinceStarts
<1>4. /\ lines'[d][x] = line
      /\ \A e \in Docs, y \in Products : e # d \/ y # x => lines'[e][y] = lines[e][y]
      BY <1>1 DEF IInv, TypeOK, line
<1>5. TypeOK'
      <2>1. lines' \in [Docs -> [Products -> LineType]]
            BY <1>1, <1>2 DEF IInv, TypeOK, line
      <2>2. rowLock' \in [Products -> Docs \cup {NoDoc}]
            BY DEF CountProduct, IInv, TypeOK
      <2>3. QED
            BY <2>1, <2>2 DEF CountProduct, IInv, TypeOK
<1>6. RowsHoldStock' /\ StageTells'
      BY <1>3, <1>4 DEF CountProduct, IInv, RowsHoldStock, StageTells
<1>7. SinceStarts'
      BY <1>2, <1>4 DEF CountProduct, IInv, SinceStarts
<1>8. SincePins'
      BY <1>2, <1>3, <1>4 DEF CountProduct, IInv, SincePins, Pending
<1>9. LineExact'
      BY <1>2, <1>4 DEF CountProduct, IInv, LineExact, Counted
<1>10. CountHolds'
      <2> SUFFICES ASSUME NEW e \in Docs, NEW y \in Products,
                          status[e] = "COUNTING", lines'[e][y].system > 0
                   PROVE  y \in rows /\ rowLock'[y] = e /\ since[e][y] = 0
          BY DEF CountProduct, CountHolds
      <2>1. CASE e = d /\ y = x
            <3>1. x \in rows
                  BY <1>2, <1>3, <1>4, <2>1 DEF IInv, RowsHoldStock
            <3>2. QED
                  BY <1>3, <2>1, <3>1 DEF CountProduct, IInv, TypeOK
      <2>2. CASE ~(e = d /\ y = x)
            <3>1. y \in rows /\ rowLock[y] = e /\ since[e][y] = 0
                  BY <1>4, <2>2 DEF IInv, CountHolds
            <3>2. y = x => FALSE
                  BY <3>1, AdjustmentsAssumption DEF CountProduct, Free
            <3>3. QED
                  BY <3>1, <3>2 DEF CountProduct, IInv, TypeOK
      <2>3. QED
            BY <2>1, <2>2
<1>11. QED
      BY <1>5, <1>6, <1>7, <1>8, <1>9, <1>10 DEF IInv

\* An opname that ends gives back its own locks only.
LEMMA ReleaseOwn ==
    ASSUME TypeOK, NEW d \in Docs, Release(d)
    PROVE  /\ rowLock' \in [Products -> Docs \cup {NoDoc}]
           /\ \A e \in Docs \ {d}, x \in Products : rowLock[x] = e => rowLock'[x] = e
BY DEF TypeOK, Release

LEMMA FinishStep ==
    ASSUME IInv, NEW d \in Docs, FinishOpname(d)
    PROVE  IInv'
<1>1. /\ rowLock' \in [Products -> Docs \cup {NoDoc}]
      /\ \A e \in Docs \ {d}, x \in Products : rowLock[x] = e => rowLock'[x] = e
      BY ReleaseOwn DEF FinishOpname, IInv
<1>2. TypeOK'
      BY <1>1 DEF FinishOpname, IInv, TypeOK
<1>3. /\ status'[d] = "DRAFT" /\ status[d] = "COUNTING"
      /\ \A e \in Docs \ {d} : status'[e] = status[e]
      BY DEF FinishOpname, IInv, TypeOK
<1>4. CountHolds'
      BY <1>1, <1>3 DEF FinishOpname, IInv, CountHolds
<1>5. QED
      BY <1>2, <1>3, <1>4 DEF FinishOpname, IInv, RowsHoldStock, StageTells,
         SinceStarts, SincePins, Pending, LineExact, Counted

LEMMA AbortStep ==
    ASSUME IInv, NEW d \in Docs, AbortOpname(d)
    PROVE  IInv'
<1>1. /\ rowLock' \in [Products -> Docs \cup {NoDoc}]
      /\ \A e \in Docs \ {d}, x \in Products : rowLock[x] = e => rowLock'[x] = e
      BY ReleaseOwn DEF AbortOpname, IInv
<1>2. TypeOK'
      BY <1>1, NotListedTyped DEF AbortOpname, IInv, TypeOK
<1>3. /\ status'[d] = "none" /\ kind'[d] = "none"
      /\ \A x \in Products : lines'[d][x] = NotListed /\ since'[d][x] = 0
      /\ \A e \in Docs \ {d} : /\ status'[e] = status[e] /\ kind'[e] = kind[e]
                               /\ lines'[e] = lines[e] /\ since'[e] = since[e]
      BY DEF AbortOpname, IInv, TypeOK
<1>4. CountHolds'
      BY <1>1, <1>3 DEF AbortOpname, IInv, CountHolds
<1>5. QED
      BY <1>2, <1>3, <1>4 DEF AbortOpname, IInv, RowsHoldStock, StageTells,
         SinceStarts, SincePins, Pending, LineExact, Counted

LEMMA CompleteStep ==
    ASSUME IInv, NEW d \in Docs, CompleteStockAdjustment(d)
    PROVE  IInv'
<1> DEFINE m == [x \in Products |-> Signed(lines[d][x])]
<1>1. \A x \in Products : lines[d][x] \in LineType
      BY DEF IInv, TypeOK
<1>2. /\ m \in [Products -> Int]
      /\ \A x \in Products : m[x] # 0 => lines[d][x].dir \in Moves
      BY <1>1, SignedTyped
<1>3. /\ Move(m)
      /\ UNCHANGED <<kind, lines, rowLock, multiplier, traded>>
      BY DEF CompleteStockAdjustment
<1>4. rows \subseteq rows' /\ rows' \subseteq Products
      BY DEF CompleteStockAdjustment, IInv, TypeOK
<1>5. \A x \in Products : /\ stock[x] + m[x] >= 0
                          /\ m[x] # 0 => Free(x) /\ x \in rows'
      BY <1>2 DEF CompleteStockAdjustment, Suffices
<1>6. /\ status' \in [Docs -> {"none", "COUNTING", "DRAFT", "COMPLETED"}]
      /\ \A e \in Docs : status'[e] = status[e] \/ status'[e] = "COMPLETED"
      BY DEF CompleteStockAdjustment, IInv, TypeOK
<1>7. traded' \in [Products -> Int]
      BY <1>3 DEF IInv, TypeOK
<1> HIDE DEF m
<1>8. QED
      BY <1>2, <1>3, <1>4, <1>5, <1>6, <1>7, MoveKeeps

\* Sales and receipts.
LEMMA TradeStep ==
    ASSUME IInv, NEW x \in Products, Sell(x) \/ Receive(x)
    PROVE  IInv'
<1>0. Quantities \subseteq Nat
      BY AdjustmentsAssumption
<1>1. PICK n \in Int :
          /\ Move(Only(x, n))
          /\ stock[x] + n >= 0
          /\ traded' = [traded EXCEPT ![x] = @ + n]
      <2>1. CASE Sell(x)
            <3>1. PICK q \in Quantities : /\ stock[x] >= q
                                          /\ Move(Only(x, -q))
                                          /\ traded' = [traded EXCEPT ![x] = @ - q]
                  BY <2>1 DEF Sell
            <3>2. q \in Nat /\ stock[x] \in Nat /\ traded[x] \in Int
                  BY <1>0 DEF IInv, TypeOK
            <3>3. -q \in Int /\ stock[x] + (-q) >= 0 /\ traded[x] - q = traded[x] + (-q)
                  BY <3>1, <3>2
            <3>4. traded' = [traded EXCEPT ![x] = @ + (-q)]
                  BY <3>1, <3>3
            <3>5. QED
                  BY <3>1, <3>3, <3>4
      <2>2. CASE Receive(x)
            <3>1. PICK q \in Quantities : /\ Move(Only(x, q))
                                          /\ traded' = [traded EXCEPT ![x] = @ + q]
                  BY <2>2 DEF Receive
            <3>2. q \in Nat /\ stock[x] \in Nat
                  BY <1>0 DEF IInv, TypeOK
            <3>3. q \in Int /\ stock[x] + q >= 0
                  BY <3>2
            <3>4. QED
                  BY <3>1, <3>3
      <2>3. QED
            BY <2>1, <2>2
<1>2. /\ UNCHANGED <<status, kind, lines, rowLock, multiplier>>
      /\ Free(x)
      /\ rows \subseteq rows' /\ rows' \subseteq Products /\ x \in rows'
      BY DEF Sell, Receive, IInv, TypeOK
<1>3. /\ Only(x, n) \in [Products -> Int]
      /\ \A y \in Products : Only(x, n)[y] = IF y = x THEN n ELSE 0
      BY DEF Only
<1>4. \A y \in Products : /\ stock[y] + Only(x, n)[y] >= 0
                          /\ Only(x, n)[y] # 0 => Free(y) /\ y \in rows'
      BY <1>1, <1>2, <1>3 DEF IInv, TypeOK
<1>5. traded' \in [Products -> Int]
      BY <1>1 DEF IInv, TypeOK
<1>6. /\ status' \in [Docs -> {"none", "COUNTING", "DRAFT", "COMPLETED"}]
      /\ \A e \in Docs : status'[e] = status[e] \/ status'[e] = "COMPLETED"
      BY <1>2 DEF IInv, TypeOK
<1>7. QED
      BY <1>1, <1>2, <1>3, <1>4, <1>5, <1>6, MoveKeeps

LEMMA StutterStep == IInv /\ UNCHANGED vars => IInv'
BY DEF IInv, vars, TypeOK, RowsHoldStock, StageTells, SinceStarts, SincePins, Pending,
   LineExact, Counted, CountHolds

------------------------------------------------------------------------------
(* Theorems *)

\* The inductive invariant: what is pending of an opname always tells the
\* stock it read, and the rows it has read stay locked while it is written.
THEOREM Invariance == Spec => []IInv
<1>1. IInv /\ [Next]_vars => IInv'
      <2> SUFFICES ASSUME IInv, [Next]_vars PROVE IInv'
          OBVIOUS
      <2>1. CASE UNCHANGED vars
            BY <2>1, StutterStep
      <2>2. ASSUME NEW d \in Docs,
                   \/ CreateStockAdjustment(d) \/ BeginOpname(d) \/ FinishOpname(d)
                   \/ AbortOpname(d) \/ CompleteStockAdjustment(d)
            PROVE  IInv'
            BY <2>2, CreateStep, BeginStep, FinishStep, AbortStep, CompleteStep
      <2>3. ASSUME NEW d \in Docs, NEW x \in Products, CountProduct(d, x)
            PROVE  IInv'
            BY <2>3, CountStep
      <2>4. ASSUME NEW x \in Products, CreateUnitConversion(x) \/ Sell(x) \/ Receive(x)
            PROVE  IInv'
            BY <2>4, ConversionStep, TradeStep
      <2>5. QED
            BY <2>1, <2>2, <2>3, <2>4 DEF Next
<1>2. QED
      BY <1>1, InitIInv, PTL DEF Spec

\* The types, a stock that is never negative among them.
THEOREM TypeCorrect == Spec => []TypeOK
<1>1. IInv => TypeOK
      BY DEF IInv
<1>2. QED
      BY <1>1, Invariance, PTL

\* What an opname under way has read does not move before it commits.
THEOREM CountsStayCurrent == Spec => []CountsAreCurrent
<1>1. IInv => CountsAreCurrent
      BY DEF IInv, CountHolds, CountsAreCurrent
<1>2. QED
      BY <1>1, Invariance, PTL

\* An opname counted in base units brings the stock to the count, plus what
\* moved since, whatever was sold, received and completed in between.
THEOREM CountsStand == Spec => CountStands
<1>1. ASSUME IInv, [Next]_vars, NEW d \in Docs, NEW x \in Products,
             Completes(d), Counted(d, x), lines[d][x].unit = "base"
      PROVE  stock'[x] = lines[d][x].counted + since[d][x]
      <2>1. CompleteStockAdjustment(d)
            BY <1>1 DEF Completes, Next, vars, IInv, TypeOK, CreateStockAdjustment, BeginOpname,
               FinishOpname, AbortOpname, CompleteStockAdjustment, CountProduct,
               CreateUnitConversion, Sell, Receive
      <2>2. stock'[x] = stock[x] + Signed(lines[d][x])
            BY <2>1 DEF CompleteStockAdjustment, Move
      <2>3. lines[d][x] # NotListed
            BY <1>1, NotListedTyped DEF Counted, Moves
      <2>4. stock[x] = lines[d][x].system + since[d][x]
            BY <1>1, <2>3 DEF Completes, Counted, Pending, IInv, SincePins
      <2>5. Signed(lines[d][x]) = lines[d][x].counted - lines[d][x].system
            BY <1>1 DEF IInv, LineExact
      <2>6. /\ lines[d][x].system \in Nat /\ lines[d][x].counted \in Nat
            /\ since[d][x] \in Int
            BY <1>1 DEF IInv, TypeOK, LineType
      <2>7. QED
            BY <2>2, <2>4, <2>5, <2>6
<1>2. IInv /\ [Next]_vars =>
          [\A d \in Docs, x \in Products :
              Completes(d) /\ Counted(d, x) /\ lines[d][x].unit = "base" =>
                  stock'[x] = lines[d][x].counted + since[d][x]]_vars
      BY <1>1
<1>3. QED
      BY <1>2, Invariance, PTL DEF Spec, CountStands

------------------------------------------------------------------------------
(* The stock and the completed documents *)

Completed == {d \in Docs : status[d] = "COMPLETED"}

\* What the lines of each document say of product x.
Posted(x) == [d \in Docs |-> Signed(lines[d][x])]

LEMMA ExplainedBy ==
    StockExplained <=>
        \A x \in Products : stock[x] = traded[x] + SumFunctionOnSet(Posted(x), Completed)
BY DEF StockExplained, Posted, Completed

LEMMA PostedTyped ==
    ASSUME TypeOK, NEW x \in Products
    PROVE  \A d \in Docs : Posted(x)[d] \in Int
BY SignedTyped DEF Posted, TypeOK

LEMMA CompletedFinite == IsFiniteSet(Completed)
BY AdjustmentsAssumption, FS_Subset DEF Completed

\* The same documents with the same lines post the same.
LEMMA PostedKept ==
    ASSUME NEW x, Completed' = Completed,
           \A d \in Completed : lines'[d] = lines[d]
    PROVE  SumFunctionOnSet(Posted(x)', Completed') = SumFunctionOnSet(Posted(x), Completed)
<1>1. \A d \in Completed : Posted(x)'[d] = Posted(x)[d]
      BY DEF Posted, Completed
<1>2. SumFunctionOnSet(Posted(x)', Completed) = SumFunctionOnSet(Posted(x), Completed)
      BY <1>1, CompletedFinite, SumEqual
<1>3. QED  BY <1>2

\* Writing, counting and giving up a document touches no completed one, no
\* quantity and no trade.
LEMMA WritingStep ==
    ASSUME TypeOK,
           \/ \E d \in Docs :
                 \/ CreateStockAdjustment(d) \/ BeginOpname(d) \/ FinishOpname(d) \/ AbortOpname(d)
                 \/ \E x \in Products : CountProduct(d, x)
           \/ \E x \in Products : CreateUnitConversion(x)
    PROVE  /\ stock' = stock /\ traded' = traded
           /\ Completed' = Completed
           /\ \A d \in Completed : lines'[d] = lines[d]
<1>1. stock' = stock /\ traded' = traded
      BY DEF CreateStockAdjustment, BeginOpname, FinishOpname, AbortOpname, CountProduct,
             CreateUnitConversion
<1>2. ASSUME NEW d \in Docs,
             \/ CreateStockAdjustment(d) \/ BeginOpname(d) \/ FinishOpname(d) \/ AbortOpname(d)
             \/ \E x \in Products : CountProduct(d, x)
      PROVE  Completed' = Completed /\ \A e \in Completed : lines'[e] = lines[e]
      <2>1. /\ status[d] \in {"none", "COUNTING"}
            /\ \/ status' = status
               \/ \E v \in {"none", "COUNTING", "DRAFT"} : status' = [status EXCEPT ![d] = v]
            /\ lines' = lines \/ \E f : lines' = [lines EXCEPT ![d] = f]
            <3>1. CASE CreateStockAdjustment(d)
                  BY <3>1 DEF CreateStockAdjustment
            <3>2. CASE BeginOpname(d)
                  BY <3>2 DEF BeginOpname
            <3>3. CASE FinishOpname(d)
                  BY <3>3 DEF FinishOpname
            <3>4. CASE AbortOpname(d)
                  BY <3>4 DEF AbortOpname
            <3>5. CASE \E x \in Products : CountProduct(d, x)
                  BY <3>5 DEF CountProduct
            <3>6. QED  BY <1>2, <3>1, <3>2, <3>3, <3>4, <3>5
      <2>2. \A e \in Docs : status'[e] = "COMPLETED" <=> status[e] = "COMPLETED"
            BY <2>1 DEF TypeOK
      <2>3. \A e \in Docs \ {d} : lines'[e] = lines[e]
            BY <2>1 DEF TypeOK
      <2>4. d \notin Completed
            BY <2>1 DEF Completed
      <2>5. QED
            BY <2>2, <2>3, <2>4 DEF Completed
<1>3. ASSUME NEW x \in Products, CreateUnitConversion(x)
      PROVE  Completed' = Completed /\ lines' = lines
      BY <1>3 DEF CreateUnitConversion, Completed
<1>4. QED
      BY <1>1, <1>2, <1>3

LEMMA TradeExplains ==
    ASSUME TypeOK, StockExplained, NEW y \in Products, Sell(y) \/ Receive(y)
    PROVE  StockExplained'
<1>1. PICK n \in Int : Move(Only(y, n)) /\ traded' = [traded EXCEPT ![y] = @ + n]
      <2>1. \A q \in Quantities : q \in Int /\ -q \in Int
            BY AdjustmentsAssumption
      <2>2. CASE Sell(y)
            <3>1. PICK q \in Quantities : Move(Only(y, -q)) /\ traded' = [traded EXCEPT ![y] = @ - q]
                  BY <2>2 DEF Sell
            <3>2. traded[y] - q = traded[y] + (-q)
                  BY <2>1 DEF TypeOK
            <3>3. QED  BY <2>1, <3>1, <3>2
      <2>3. CASE Receive(y)
            BY <2>1, <2>3 DEF Receive
      <2>4. QED  BY <2>2, <2>3
<1>2. UNCHANGED <<lines, status>>
      BY DEF Sell, Receive
<1> SUFFICES ASSUME NEW x \in Products
             PROVE  stock'[x] = traded'[x] + SumFunctionOnSet(Posted(x)', Completed')
    BY DEF StockExplained, Posted, Completed
<1>3. stock[x] = traded[x] + SumFunctionOnSet(Posted(x), Completed)
      BY ExplainedBy
<1>4. SumFunctionOnSet(Posted(x)', Completed') = SumFunctionOnSet(Posted(x), Completed)
      BY <1>2, PostedKept DEF Completed
<1>5. stock'[x] = stock[x] + (IF x = y THEN n ELSE 0)
      BY <1>1 DEF Move, Only
<1>6. traded'[x] = traded[x] + (IF x = y THEN n ELSE 0)
      BY <1>1 DEF TypeOK
<1>7. stock[x] \in Int /\ traded[x] \in Int
      BY DEF TypeOK
<1>8. SumFunctionOnSet(Posted(x), Completed) \in Int
      BY PostedTyped, CompletedFinite, SumIsInt DEF Completed
<1>9. QED
      BY <1>3, <1>4, <1>5, <1>6, <1>7, <1>8

LEMMA CompleteExplains ==
    ASSUME TypeOK, StockExplained, NEW d \in Docs, CompleteStockAdjustment(d)
    PROVE  StockExplained'
<1>1. /\ status[d] = "DRAFT" /\ status' = [status EXCEPT ![d] = "COMPLETED"]
      /\ lines' = lines /\ traded' = traded
      /\ Move([x \in Products |-> Signed(lines[d][x])])
      BY DEF CompleteStockAdjustment, Completable
<1> SUFFICES ASSUME NEW x \in Products
             PROVE  stock'[x] = traded'[x] + SumFunctionOnSet(Posted(x)', Completed')
    BY DEF StockExplained, Posted, Completed
<1>2. stock[x] = traded[x] + SumFunctionOnSet(Posted(x), Completed)
      BY ExplainedBy
<1>3. stock'[x] = stock[x] + Posted(x)[d]
      BY <1>1 DEF Move, Posted
<1>4. Posted(x)' = Posted(x)
      BY <1>1 DEF Posted
<1> DEFINE C == Completed'
<1>5. d \in C /\ C \ {d} = Completed /\ IsFiniteSet(C) /\ C \subseteq Docs
      <2>1. C = Completed \cup {d} /\ d \notin Completed
            BY <1>1 DEF TypeOK, Completed
      <2>2. IsFiniteSet(C)
            BY <2>1, CompletedFinite, FS_AddElement
      <2>3. C \subseteq Docs
            BY DEF Completed
      <2>4. QED  BY <2>1, <2>2, <2>3
<1> HIDE DEF C
<1>6. SumFunctionOnSet(Posted(x), C) = Posted(x)[d] + SumFunctionOnSet(Posted(x), Completed)
      <2>1. \A e \in C : Posted(x)[e] \in Int
            BY <1>5, PostedTyped
      <2>2. SumFunctionOnSet(Posted(x), C) = Posted(x)[d] + SumFunctionOnSet(Posted(x), C \ {d})
            BY <1>5, <2>1, SumWithout
      <2>3. QED  BY <1>5, <2>2
<1>7. SumFunctionOnSet(Posted(x), Completed) \in Int /\ Posted(x)[d] \in Int
      BY PostedTyped, CompletedFinite, SumIsInt DEF Completed
<1>8. traded[x] \in Int
      BY DEF TypeOK
<1>9. stock'[x] = traded[x] + SumFunctionOnSet(Posted(x), C)
      BY <1>2, <1>3, <1>6, <1>7, <1>8
<1>10. QED
      BY <1>1, <1>4, <1>9 DEF C

\* The stock of every product is what was sold and received plus the lines of
\* the documents completed so far, each of them counted once.
THEOREM StockIsExplained == Spec => []StockExplained
<1>1. Init => StockExplained
      <2> SUFFICES ASSUME Init, NEW x \in Products
                   PROVE  stock[x] = traded[x] + SumFunctionOnSet(Posted(x), Completed)
          BY ExplainedBy
      <2>1. Completed = {}
            BY DEF Init, Completed
      <2>2. SumFunctionOnSet(Posted(x), Completed) = 0
            BY <2>1, SumOfNothing
      <2>3. QED
            BY <2>2 DEF Init
<1>2. TypeOK /\ StockExplained /\ [Next]_vars => StockExplained'
      <2> SUFFICES ASSUME TypeOK, StockExplained, [Next]_vars PROVE StockExplained'
          OBVIOUS
      <2>1. CASE /\ stock' = stock /\ traded' = traded /\ Completed' = Completed
                 /\ \A d \in Completed : lines'[d] = lines[d]
            <3>1. \A x \in Products : stock'[x] = traded'[x] + SumFunctionOnSet(Posted(x)', Completed')
                  BY <2>1, ExplainedBy, PostedKept
            <3>2. QED  BY <3>1 DEF StockExplained, Posted, Completed
      <2>2. CASE UNCHANGED vars
            BY <2>1, <2>2 DEF vars, Completed
      <2>3. CASE \E d \in Docs : CompleteStockAdjustment(d)
            BY <2>3, CompleteExplains
      <2>4. CASE \E x \in Products : Sell(x) \/ Receive(x)
            BY <2>4, TradeExplains
      <2>5. QED
            BY <2>1, <2>2, <2>3, <2>4, WritingStep DEF Next
<1>3. QED
      BY <1>1, <1>2, TypeCorrect, PTL DEF Spec
==============================================================================
