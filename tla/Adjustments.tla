----------------------------- MODULE Adjustments -----------------------------
(***************************************************************************)
(* Stock adjustments and stock counts (opname) of one location             *)
(* (repository_adjustments.go, repository_stock_complete.go): documents    *)
(* written as DRAFT and applied to the stock later, while sales and        *)
(* receipts go on.                                                         *)
(*                                                                         *)
(* Writing a manual adjustment and completing a document are one step      *)
(* each; the statements of a completion are the subject of StockTx.        *)
(* Writing an opname is not: it reads one product after the other, and     *)
(* FOR UPDATE keeps the rows it has read until it commits, but not the     *)
(* products that have no row yet.                                          *)
(*                                                                         *)
(* Quantities are integers in units of 0.0001 (numeric(18,4)), multipliers *)
(* integers in units of 1 / MultScale.  The products are active and        *)
(* tracked; each has its base unit and at most one other unit.             *)
(***************************************************************************)
EXTENDS Integers, FiniteSetsExt

CONSTANTS
    Docs,         \* the documents that may be written
    NoDoc,        \* no document
    Products,     \* the products of the location
    Quantities,   \* quantities of a manual line, of a sale and of a receipt
    Counts,       \* quantities a count may find
    MultScale,    \* the multiplier 1
    Multipliers,  \* the multipliers of a unit conversion
    MaxStock      \* bound: receipts stop at this quantity

ASSUME AdjustmentsAssumption ==
    /\ IsFiniteSet(Docs)
    /\ NoDoc \notin Docs
    /\ Quantities \subseteq Nat \ {0}
    /\ Counts \subseteq Nat
    /\ MultScale \in Nat \ {0}
    /\ Multipliers \subseteq Nat \ {0}
    /\ MaxStock \in Nat

VARIABLES
    status,      \* stock_adjustments.status; "COUNTING" while an opname is written
    kind,        \* stock_adjustments.adjustment_kind
    lines,       \* stock_adjustment_items per product
    rows,        \* the products that have a row in product_inventory
    stock,       \* product_inventory.quantity, 0 without a row
    rowLock,     \* the opname that has read the row FOR UPDATE
    multiplier,  \* unit_conversions.multiplier of the other unit, 0 without one
    traded,      \* history: what sales and receipts moved
    since        \* history: what moved since a pending document read a product

vars == <<status, kind, lines, rows, stock, rowLock, multiplier, traded, since>>

------------------------------------------------------------------------------
(* Units and lines *)

Units == {"base", "other"}

\* resolveStockUnitTx: the base unit has multiplier 1, another unit needs a
\* conversion.
Known(x, u) == u = "base" \/ multiplier[x] # 0
Factor(x, u) == IF u = "base" THEN MultScale ELSE multiplier[x]

\* multiplyDecimal, rounded to four decimals, a half away from zero.
Multiply(q, m) == (2 * q * m + MultScale) \div (2 * MultScale)

Distance(a, b) == IF a < b THEN b - a ELSE a - b

\* A line holds its direction, the quantity in base units that completion will
\* post, and for an opname the unit, the quantity of the system and the count.
\* A product without a line is not listed; one counted without a difference
\* gets no line either, only an entry in the audit log.
Line(dir, base, u, system, counted) ==
    [dir |-> dir, base |-> base, unit |-> u, system |-> system, counted |-> counted]

NotListed == Line("NONE", 0, "base", 0, 0)
Moves == {"IN", "OUT"}

Signed(line) ==
    CASE line.dir = "IN"  -> line.base
      [] line.dir = "OUT" -> -line.base
      [] OTHER            -> 0

\* A manual line; the check base_quantity > 0 refuses what rounds to nothing.
ManualLines(x) ==
    {line \in {Line(dir, Multiply(q, Factor(x, u)), u, 0, 0) :
                  dir \in Moves, q \in Quantities, u \in {v \in Units : Known(x, v)}} :
        line.base > 0}

\* The line of an opname.  The difference is in base units, and multiplied
\* again as if it were in the unit of the count.
CountedLine(x, c, u) ==
    LET counted == Multiply(c, Factor(x, u))
        difference == Distance(counted, stock[x])
        base == Multiply(difference, Factor(x, u))
    IN  IF difference = 0
        THEN Line("NO_CHANGE", 0, u, stock[x], counted)
        ELSE Line(IF counted < stock[x] THEN "OUT" ELSE "IN", base, u, stock[x], counted)

\* Whether nobody holds the row of x, or there is none to hold.
Free(x) == x \in rows => rowLock[x] = NoDoc

\* What d has counted and not yet posted.
Pending(d, x, state) ==
    kind[d] = "OPNAME" /\ state \in {"COUNTING", "DRAFT"} /\ lines[d][x] # NotListed

\* The quantity of every product x changes by m[x].
Move(m) ==
    /\ stock' = [x \in Products |-> stock[x] + m[x]]
    /\ since' = [d \in Docs |-> [x \in Products |->
                    IF Pending(d, x, status'[d]) THEN since[d][x] + m[x] ELSE 0]]

Only(x, n) == [y \in Products |-> IF y = x THEN n ELSE 0]

------------------------------------------------------------------------------
(* Documents *)

\* One conversion per product and pair of units.
CreateUnitConversion(x) ==
    /\ multiplier[x] = 0
    /\ \E m \in Multipliers : multiplier' = [multiplier EXCEPT ![x] = m]
    /\ UNCHANGED <<status, kind, lines, rows, stock, rowLock, traded, since>>

CreateStockAdjustment(d) ==
    /\ status[d] = "none"
    /\ \E f \in [Products -> UNION {ManualLines(x) : x \in Products} \cup {NotListed}] :
        /\ \A x \in Products : f[x] \in ManualLines(x) \cup {NotListed}
        /\ \E x \in Products : f[x] # NotListed
        /\ lines' = [lines EXCEPT ![d] = f]
    /\ status' = [status EXCEPT ![d] = "DRAFT"]
    /\ kind' = [kind EXCEPT ![d] = "MANUAL"]
    /\ UNCHANGED <<rows, stock, rowLock, multiplier, traded, since>>

BeginOpname(d) ==
    /\ status[d] = "none"
    /\ status' = [status EXCEPT ![d] = "COUNTING"]
    /\ kind' = [kind EXCEPT ![d] = "OPNAME"]
    /\ UNCHANGED <<lines, rows, stock, rowLock, multiplier, traded, since>>

\* Mutated: the quantity is read without FOR UPDATE.
CountUnlocked(d, x) ==
    /\ status[d] = "COUNTING"
    /\ lines[d][x] = NotListed
    /\ \E c \in Counts, u \in {v \in Units : Known(x, v)} :
        /\ CountedLine(x, c, u).dir \in Moves => CountedLine(x, c, u).base > 0
        /\ lines' = [lines EXCEPT ![d][x] = CountedLine(x, c, u)]
    /\ UNCHANGED <<status, kind, rows, stock, rowLock, multiplier, traded, since>>

\* One line of CreateStockOpname.  currentInventoryQtyTx waits for the row
\* and locks it; a line whose quantity rounds to nothing is refused.
CountProduct(d, x) ==
    /\ status[d] = "COUNTING"
    /\ lines[d][x] = NotListed
    /\ Free(x)
    /\ \E c \in Counts, u \in {v \in Units : Known(x, v)} :
        /\ CountedLine(x, c, u).dir \in Moves => CountedLine(x, c, u).base > 0
        /\ lines' = [lines EXCEPT ![d][x] = CountedLine(x, c, u)]
    /\ rowLock' = IF x \in rows THEN [rowLock EXCEPT ![x] = d] ELSE rowLock
    /\ UNCHANGED <<status, kind, rows, stock, multiplier, traded, since>>

Release(d) == rowLock' = [x \in Products |-> IF rowLock[x] = d THEN NoDoc ELSE rowLock[x]]

\* The opname commits as a DRAFT when a count differs.
FinishOpname(d) ==
    /\ status[d] = "COUNTING"
    /\ \E x \in Products : lines[d][x].dir \in Moves
    /\ status' = [status EXCEPT ![d] = "DRAFT"]
    /\ Release(d)
    /\ UNCHANGED <<kind, lines, rows, stock, multiplier, traded, since>>

\* NO_STOCK_DIFFERENCE, a refused line, a deadlock with another opname or a
\* lost connection: nothing of the opname remains.
AbortOpname(d) ==
    /\ status[d] = "COUNTING"
    /\ status' = [status EXCEPT ![d] = "none"]
    /\ kind' = [kind EXCEPT ![d] = "none"]
    /\ lines' = [lines EXCEPT ![d] = [x \in Products |-> NotListed]]
    /\ since' = [since EXCEPT ![d] = [x \in Products |-> 0]]
    /\ Release(d)
    /\ UNCHANGED <<rows, stock, multiplier, traded>>

\* Mutated: without AND status = 'DRAFT'.
CompletableAgain(d) == status[d] \in {"DRAFT", "COMPLETED"}

\* WHERE ... status = 'DRAFT' FOR UPDATE.
Completable(d) == status[d] = "DRAFT"

\* Mutated: without the check of applyAdjustmentLine.
AlwaysSuffices(d) == TRUE

\* No line of d leaves less than nothing.
Suffices(d) == \A x \in Products : stock[x] + Signed(lines[d][x]) >= 0

\* Mutated: a count replaces the stock instead of correcting it.
CompleteByCount(d) ==
    /\ Completable(d)
    /\ \A x \in Products : lines[d][x].dir \in Moves => Free(x)
    /\ Suffices(d)
    /\ status' = [status EXCEPT ![d] = "COMPLETED"]
    /\ Move([x \in Products |->
          IF kind[d] = "OPNAME" /\ lines[d][x].dir \in Moves
          THEN lines[d][x].counted - stock[x] ELSE Signed(lines[d][x])])
    /\ rows' = rows \cup {x \in Products : lines[d][x].dir \in Moves}
    /\ UNCHANGED <<kind, lines, rowLock, multiplier, traded>>

\* All lines are posted, or the document stays a DRAFT (INSUFFICIENT_STOCK).
CompleteStockAdjustment(d) ==
    /\ Completable(d)
    /\ \A x \in Products : lines[d][x].dir \in Moves => Free(x)
    /\ Suffices(d)
    /\ status' = [status EXCEPT ![d] = "COMPLETED"]
    /\ Move([x \in Products |-> Signed(lines[d][x])])
    /\ rows' = rows \cup {x \in Products : lines[d][x].dir \in Moves}
    /\ UNCHANGED <<kind, lines, rowLock, multiplier, traded>>

------------------------------------------------------------------------------
(* Everybody else *)

\* CheckoutSale takes q of x.
Sell(x) ==
    /\ x \in rows /\ Free(x)
    /\ UNCHANGED <<status, kind, lines, rows, rowLock, multiplier>>
    /\ \E q \in Quantities :
        /\ stock[x] >= q
        /\ Move(Only(x, -q))
        /\ traded' = [traded EXCEPT ![x] = @ - q]

\* ReceivePurchase adds q to x.
Receive(x) ==
    /\ Free(x)
    /\ UNCHANGED <<status, kind, lines, rowLock, multiplier>>
    /\ \E q \in Quantities :
        /\ stock[x] + q <= MaxStock
        /\ Move(Only(x, q))
        /\ traded' = [traded EXCEPT ![x] = @ + q]
    /\ rows' = rows \cup {x}

------------------------------------------------------------------------------
(* Specification *)

Init ==
    /\ status = [d \in Docs |-> "none"]
    /\ kind = [d \in Docs |-> "none"]
    /\ lines = [d \in Docs |-> [x \in Products |-> NotListed]]
    /\ rows = {}
    /\ stock = [x \in Products |-> 0]
    /\ rowLock = [x \in Products |-> NoDoc]
    /\ multiplier = [x \in Products |-> 0]
    /\ traded = [x \in Products |-> 0]
    /\ since = [d \in Docs |-> [x \in Products |-> 0]]

Next ==
    \/ \E d \in Docs :
        \/ CreateStockAdjustment(d) \/ BeginOpname(d) \/ FinishOpname(d)
        \/ AbortOpname(d) \/ CompleteStockAdjustment(d)
        \/ \E x \in Products : CountProduct(d, x)
    \/ \E x \in Products : CreateUnitConversion(x) \/ Sell(x) \/ Receive(x)

Spec == Init /\ [][Next]_vars

------------------------------------------------------------------------------
(* Properties *)

LineType == [dir : Moves \cup {"NONE", "NO_CHANGE"}, base : Nat, unit : Units,
             system : Nat, counted : Nat]

\* The types; a quantity in stock is never negative.
TypeOK ==
    /\ status \in [Docs -> {"none", "COUNTING", "DRAFT", "COMPLETED"}]
    /\ kind \in [Docs -> {"none", "MANUAL", "OPNAME"}]
    /\ lines \in [Docs -> [Products -> LineType]]
    /\ rows \subseteq Products
    /\ stock \in [Products -> Nat]
    /\ rowLock \in [Products -> Docs \cup {NoDoc}]
    /\ multiplier \in [Products -> Nat]
    /\ traded \in [Products -> Int]
    /\ since \in [Docs -> [Products -> Int]]

\* Stock is what was traded plus the lines of the completed documents: a
\* document takes effect once, as a whole, and a draft not at all.
StockExplained ==
    \A x \in Products :
        stock[x] = traded[x] + SumFunctionOnSet([d \in Docs |-> Signed(lines[d][x])],
                                                {d \in Docs : status[d] = "COMPLETED"})

\* The quantities an opname has read stay those of the stock until it
\* commits: its differences are of one moment.
CountsAreCurrent ==
    \A d \in Docs, x \in Products :
        status[d] = "COUNTING" /\ lines[d][x].system > 0 => since[d][x] = 0

Completes(d) == status[d] = "DRAFT" /\ status'[d] = "COMPLETED"
Counted(d, x) == kind[d] = "OPNAME" /\ lines[d][x].dir \in Moves

\* Completing an opname counted in base units corrects the stock to the count
\* and keeps what was sold and received since then.
CountStands ==
    [][\A d \in Docs, x \in Products :
        Completes(d) /\ Counted(d, x) /\ lines[d][x].unit = "base" =>
            stock'[x] = lines[d][x].counted + since[d][x]]_vars

\* Completing an opname with no trade since the count brings the stock to the
\* count, in whatever unit it was made ("opname should reduce stock to 7",
\* tests/integration/inventory_test.go:306).
OpnameReachesCount ==
    [][\A d \in Docs, x \in Products :
        Completes(d) /\ Counted(d, x) /\ since[d][x] = 0 =>
            stock'[x] = lines[d][x].counted]_vars
==============================================================================
