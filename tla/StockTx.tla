------------------------------- MODULE StockTx -------------------------------
(***************************************************************************)
(* The five operations that move stock, as concurrent PostgreSQL           *)
(* transactions under READ COMMITTED:                                      *)
(*                                                                         *)
(*   CHECKOUT  CheckoutSale                 repository_sales.go            *)
(*   VOID      VoidSale                     repository_sales.go            *)
(*   RECEIVE   ReceivePurchase              repository_purchases.go        *)
(*   COMPLETE  CompleteStockAdjustment      repository_stock_complete.go   *)
(*   OPENING   CreateOpeningStock           repository_inventory.go        *)
(*                                                                         *)
(* A step is one SQL statement of the stock part of an operation.  Writes  *)
(* stay in the transaction until it commits; the rows they touch stay      *)
(* locked until it ends.  A statement that needs a row held by another     *)
(* transaction waits (its action is disabled).  Three kinds of lock        *)
(* matter: the row of product_inventory, the row of products (FOR UPDATE   *)
(* in ReceivePurchase, FOR KEY SHARE in the foreign-key check of a         *)
(* movement) and the row of number_sequences behind nextNumber.  The       *)
(* document row itself is private to one operation at a time and is left   *)
(* out; so are cash rows, taken only under the lock of the PAY sequence.   *)
(***************************************************************************)
EXTENDS Integers, Sequences

CONSTANTS
    Items,      \* the (product, location) keys, ordered like product_id
    Txs,        \* the transactions, each run once
    None,       \* no transaction
    Kinds,      \* the operations that may run
    Qtys,       \* the quantities a line may carry, in base units
    MaxLines,   \* bound: lines of one request
    MaxInitial  \* bound: quantity a row may hold at the start

AllKinds == {"CHECKOUT", "VOID", "RECEIVE", "COMPLETE", "OPENING"}

ASSUME StockTxAssumption ==
    /\ Items \subseteq Nat
    /\ None \notin Txs
    /\ Kinds \subseteq AllKinds
    /\ Qtys \subseteq Nat \ {0}
    /\ MaxLines \in Nat \ {0}
    /\ MaxInitial \in Nat

\* There are finitely many products: one of them has the greatest key.
ASSUME LastItemAssumption == \E m \in Items : \A i \in Items : i <= m

VARIABLES
    \* committed state
    rows,       \* the items that have a row in product_inventory
    qty,        \* product_inventory.quantity, 0 without a row
    ledger,     \* sum of stock_movements, signed by direction
    opened,     \* the items with an OPENING_BALANCE movement
    last,       \* number_sequences.last_number
    \* locks
    rowLock,    \* holder of the product_inventory row, or of its uncommitted insert
    keyUpdate,  \* holder of the products row FOR UPDATE
    keyShare,   \* holders of the products row FOR KEY SHARE
    seqLock,    \* holder of the number_sequences row
    \* transactions
    kind, lines, at, pc,
    draft,      \* uncommitted quantities
    wrote,      \* the items whose row the transaction has written
    moves,      \* uncommitted movements, summed per item
    number      \* the document number taken from nextNumber

dbVars == <<rows, qty, ledger, opened, last>>
lockVars == <<rowLock, keyUpdate, keyShare, seqLock>>
vars == <<dbVars, lockVars, kind, lines, at, pc, draft, wrote, moves, number>>

------------------------------------------------------------------------------
(* Requests *)

\* An OUT line has a negative delta.  Sales take, voids and purchases give
\* back; an adjustment line goes either way.
Deltas(k) ==
    LET out == {-q : q \in Qtys}
    IN  CASE k = "CHECKOUT" -> out
          [] k = "COMPLETE" -> Qtys \cup out
          [] OTHER          -> Qtys

\* Mutated: no ORDER BY.
InAnyOrder(k, s) ==
    \A m, n \in DOMAIN s : (m < n) =>
        (k \in {"COMPLETE", "OPENING"} => s[m].item # s[n].item)

\* Sales read their lines ORDER BY product_id.  The services refuse a product
\* listed twice in an adjustment or an opening stock.
InOrder(k, s) ==
    \A m, n \in DOMAIN s : (m < n) =>
        /\ (k \in {"CHECKOUT", "VOID"} => s[m].item <= s[n].item)
        /\ (k \in {"COMPLETE", "OPENING"} => s[m].item # s[n].item)

Requests(k) ==
    {s \in UNION {[1..n -> [item : Items, delta : Deltas(k)]] : n \in 1..MaxLines} :
        InOrder(k, s)}

\* The sequence nextNumber is called with; an adjustment gets its number when
\* it is created, not when it is completed.
SequenceTypes == {"PAY", "PURCHASE_RECEIPT", "OPENING_STOCK"}
SequenceOf(k) ==
    CASE k \in {"CHECKOUT", "VOID"} -> "PAY"
      [] k = "RECEIVE"              -> "PURCHASE_RECEIPT"
      [] k = "OPENING"              -> "OPENING_STOCK"
      [] OTHER                      -> "none"

\* Where an operation starts, where each of its lines starts, and where it
\* goes after its last line.
FirstStep(k) ==
    CASE k = "RECEIVE" -> "lock"
      [] k = "OPENING" -> "number"
      [] OTHER         -> "line"
LineStep(k) == IF k \in {"RECEIVE", "OPENING"} THEN "move" ELSE "line"
LastStep(k) == IF k \in {"CHECKOUT", "VOID"} THEN "number" ELSE "commit"

------------------------------------------------------------------------------
(* What a transaction sees and does *)

Active == {"lock", "number", "line", "move", "write", "insert", "commit"}

Item(t) == lines[t][at[t]].item
Delta(t) == lines[t][at[t]].delta

\* A statement sees committed rows and its own writes.
Seen(t, i) == i \in rows \/ i \in wrote[t]
Value(t, i) == IF i \in wrote[t] THEN draft[t][i] ELSE qty[i]

\* A lock is free for t when nobody else holds it.
CanLock(t, i) == rowLock[i] \in {None, t}

\* UPDATE or INSERT of one row of product_inventory.
WriteRow(t) ==
    /\ CanLock(t, Item(t))
    /\ rowLock' = [rowLock EXCEPT ![Item(t)] = t]
    /\ draft' = [draft EXCEPT ![t][Item(t)] = Value(t, Item(t)) + Delta(t)]
    /\ wrote' = [wrote EXCEPT ![t] = @ \cup {Item(t)}]

\* INSERT INTO stock_movements; its foreign key locks the products row FOR
\* KEY SHARE, which only a FOR UPDATE of another transaction delays.
InsertMovement(t) ==
    /\ keyUpdate[Item(t)] \in {None, t}
    /\ keyShare' = [keyShare EXCEPT ![Item(t)] = @ \cup {t}]
    /\ moves' = [moves EXCEPT ![t][Item(t)] = @ + Delta(t)]

Goto(t, step) == pc' = [pc EXCEPT ![t] = step]

\* Mutated: one line too many.
NextLinePast(t) ==
    IF at[t] <= Len(lines[t])
    THEN /\ at' = [at EXCEPT ![t] = @ + 1]
         /\ Goto(t, LineStep(kind[t]))
    ELSE /\ UNCHANGED at
         /\ Goto(t, LastStep(kind[t]))

NextLine(t) ==
    IF at[t] < Len(lines[t])
    THEN /\ at' = [at EXCEPT ![t] = @ + 1]
         /\ Goto(t, LineStep(kind[t]))
    ELSE /\ UNCHANGED at
         /\ Goto(t, LastStep(kind[t]))

ReleaseLocks(t) ==
    /\ rowLock' = [i \in Items |-> IF rowLock[i] = t THEN None ELSE rowLock[i]]
    /\ keyUpdate' = [i \in Items |-> IF keyUpdate[i] = t THEN None ELSE keyUpdate[i]]
    /\ keyShare' = [i \in Items |-> keyShare[i] \ {t}]
    /\ seqLock' = [s \in SequenceTypes |-> IF seqLock[s] = t THEN None ELSE seqLock[s]]

\* Mutated: an error path returns without the deferred rollback.
RollbackForgotten(t) ==
    /\ Goto(t, "aborted")
    /\ UNCHANGED <<dbVars, lockVars, kind, lines, at, draft, wrote, moves, number>>

\* rollback(ctx, tx): nothing the transaction did remains.
Rollback(t) ==
    /\ ReleaseLocks(t)
    /\ Goto(t, "aborted")
    /\ draft' = [draft EXCEPT ![t] = [i \in Items |-> 0]]
    /\ wrote' = [wrote EXCEPT ![t] = {}]
    /\ moves' = [moves EXCEPT ![t] = [i \in Items |-> 0]]
    /\ number' = [number EXCEPT ![t] = 0]
    /\ UNCHANGED <<dbVars, kind, lines, at>>

------------------------------------------------------------------------------
(* CheckoutSale and VoidSale *)

\* A voided sale was checked out, so its rows exist: no code deletes one.
\* (Sales models a product whose tracking was switched on in between.)
Submit(t) ==
    /\ pc[t] = "idle"
    /\ \E k \in Kinds : \E s \in Requests(k) :
        /\ k = "VOID" => \A n \in DOMAIN s : s[n].item \in rows
        /\ kind' = [kind EXCEPT ![t] = k]
        /\ lines' = [lines EXCEPT ![t] = s]
        /\ Goto(t, FirstStep(k))
    /\ UNCHANGED <<dbVars, lockVars, at, draft, wrote, moves, number>>

\* Mutated: without AND quantity >= q.
CheckoutTakeUnguarded(t) ==
    /\ kind[t] = "CHECKOUT" /\ pc[t] = "line"
    /\ Seen(t, Item(t))
    /\ WriteRow(t)
    /\ Goto(t, "move")
    /\ UNCHANGED <<dbVars, keyUpdate, keyShare, seqLock, kind, lines, at, moves, number>>

\* UPDATE product_inventory SET quantity = quantity - q WHERE quantity >= q.
CheckoutTake(t) ==
    /\ kind[t] = "CHECKOUT" /\ pc[t] = "line"
    /\ Seen(t, Item(t))
    /\ Value(t, Item(t)) + Delta(t) >= 0
    /\ WriteRow(t)
    /\ Goto(t, "move")
    /\ UNCHANGED <<dbVars, keyUpdate, keyShare, seqLock, kind, lines, at, moves, number>>

\* No row qualifies: INSUFFICIENT_STOCK.  A row whose committed quantity is
\* too small does not qualify even while another transaction holds it.
CheckoutShort(t) ==
    /\ kind[t] = "CHECKOUT" /\ pc[t] = "line"
    /\ Seen(t, Item(t)) => Value(t, Item(t)) + Delta(t) < 0
    /\ Rollback(t)

VoidReturn(t) ==
    /\ kind[t] = "VOID" /\ pc[t] = "line"
    /\ Seen(t, Item(t))
    /\ WriteRow(t)
    /\ Goto(t, "move")
    /\ UNCHANGED <<dbVars, keyUpdate, keyShare, seqLock, kind, lines, at, moves, number>>

SaleMovement(t) ==
    /\ kind[t] \in {"CHECKOUT", "VOID"} /\ pc[t] = "move"
    /\ InsertMovement(t)
    /\ NextLine(t)
    /\ UNCHANGED <<dbVars, rowLock, keyUpdate, seqLock, kind, lines, draft, wrote, number>>

------------------------------------------------------------------------------
(* ReceivePurchase *)

\* SELECT ... FROM purchase_items pi JOIN products p ... FOR UPDATE, line by
\* line in the order of the request, locks the products row as well.
ReceiveLock(t) ==
    /\ pc[t] = "lock"
    /\ keyUpdate[Item(t)] \in {None, t}
    /\ keyShare[Item(t)] \subseteq {t}
    /\ keyUpdate' = [keyUpdate EXCEPT ![Item(t)] = t]
    /\ IF at[t] < Len(lines[t])
       THEN at' = [at EXCEPT ![t] = @ + 1] /\ UNCHANGED pc
       ELSE at' = [at EXCEPT ![t] = 1] /\ Goto(t, "number")
    /\ UNCHANGED <<dbVars, rowLock, keyShare, seqLock, kind, lines, draft, wrote, moves, number>>

ReceiveMovement(t) ==
    /\ kind[t] = "RECEIVE" /\ pc[t] = "move"
    /\ InsertMovement(t)
    /\ Goto(t, "write")
    /\ UNCHANGED <<dbVars, rowLock, keyUpdate, seqLock, kind, lines, at, draft, wrote, number>>

\* Mutated: SET quantity = EXCLUDED.quantity.
UpsertOverwrites(t) ==
    /\ kind[t] = "RECEIVE" /\ pc[t] = "write"
    /\ CanLock(t, Item(t))
    /\ rowLock' = [rowLock EXCEPT ![Item(t)] = t]
    /\ draft' = [draft EXCEPT ![t][Item(t)] = Delta(t)]
    /\ wrote' = [wrote EXCEPT ![t] = @ \cup {Item(t)}]
    /\ NextLine(t)
    /\ UNCHANGED <<dbVars, keyUpdate, keyShare, seqLock, kind, lines, moves, number>>

\* INSERT ... ON CONFLICT DO UPDATE SET quantity = quantity + EXCLUDED.quantity.
ReceiveUpsert(t) ==
    /\ kind[t] = "RECEIVE" /\ pc[t] = "write"
    /\ WriteRow(t)
    /\ NextLine(t)
    /\ UNCHANGED <<dbVars, keyUpdate, keyShare, seqLock, kind, lines, moves, number>>

------------------------------------------------------------------------------
(* CompleteStockAdjustment and CreateOpeningStock *)

\* Mutated: the read does not lock.
ReadUnlocked(t) ==
    /\ kind[t] = "COMPLETE" /\ pc[t] = "line"
    /\ Seen(t, Item(t))
    /\ Value(t, Item(t)) + Delta(t) >= 0
    /\ Goto(t, "move")
    /\ UNCHANGED <<dbVars, lockVars, kind, lines, at, draft, wrote, moves, number>>

\* currentInventoryQtyTx: SELECT quantity ... FOR UPDATE, and the check that
\* the result of the line is not negative.
ReadForUpdate(t) ==
    /\ kind[t] = "COMPLETE" /\ pc[t] = "line"
    /\ Seen(t, Item(t))
    /\ CanLock(t, Item(t))
    /\ Value(t, Item(t)) + Delta(t) >= 0
    /\ rowLock' = [rowLock EXCEPT ![Item(t)] = t]
    /\ Goto(t, "move")
    /\ UNCHANGED <<dbVars, keyUpdate, keyShare, seqLock, kind, lines, at, draft, wrote, moves, number>>

\* Without a row there is nothing to lock and the quantity counts as 0.
ReadAbsent(t) ==
    /\ kind[t] = "COMPLETE" /\ pc[t] = "line"
    /\ ~Seen(t, Item(t))
    /\ Delta(t) >= 0
    /\ Goto(t, "move")
    /\ UNCHANGED <<dbVars, lockVars, kind, lines, at, draft, wrote, moves, number>>

AdjustmentShort(t) ==
    /\ kind[t] = "COMPLETE" /\ pc[t] = "line"
    /\ IF Seen(t, Item(t))
       THEN CanLock(t, Item(t)) /\ Value(t, Item(t)) + Delta(t) < 0
       ELSE Delta(t) < 0
    /\ Rollback(t)

AdjustmentMovement(t) ==
    /\ kind[t] = "COMPLETE" /\ pc[t] = "move"
    /\ InsertMovement(t)
    /\ Goto(t, "write")
    /\ UNCHANGED <<dbVars, rowLock, keyUpdate, seqLock, kind, lines, at, draft, wrote, number>>

\* stock_movements_one_opening_balance_idx allows one opening balance per
\* product and location.  Two openings never meet on the index: the second
\* still waits for the number sequence of the first.
OpeningMovement(t) ==
    /\ kind[t] = "OPENING" /\ pc[t] = "move"
    /\ Item(t) \notin opened
    /\ InsertMovement(t)
    /\ Goto(t, "write")
    /\ UNCHANGED <<dbVars, rowLock, keyUpdate, seqLock, kind, lines, at, draft, wrote, number>>

OpeningTwice(t) ==
    /\ kind[t] = "OPENING" /\ pc[t] = "move"
    /\ Item(t) \in opened
    /\ Rollback(t)

\* applyStockDeltaTx: UPDATE first ...
ApplyUpdate(t) ==
    /\ kind[t] \in {"COMPLETE", "OPENING"} /\ pc[t] = "write"
    /\ Seen(t, Item(t))
    /\ WriteRow(t)
    /\ NextLine(t)
    /\ UNCHANGED <<dbVars, keyUpdate, keyShare, seqLock, kind, lines, moves, number>>

\* ... which matches no row when no committed row exists ...
ApplyNoRow(t) ==
    /\ kind[t] \in {"COMPLETE", "OPENING"} /\ pc[t] = "write"
    /\ ~Seen(t, Item(t))
    /\ Goto(t, "insert")
    /\ UNCHANGED <<dbVars, lockVars, kind, lines, at, draft, wrote, moves, number>>

\* ... then INSERT, which waits for a concurrent insert of the same key ...
ApplyInsert(t) ==
    /\ pc[t] = "insert"
    /\ Item(t) \notin rows
    /\ WriteRow(t)
    /\ NextLine(t)
    /\ UNCHANGED <<dbVars, keyUpdate, keyShare, seqLock, kind, lines, moves, number>>

\* ... and fails with 23505 once that insert has committed.
ApplyDuplicate(t) ==
    /\ pc[t] = "insert"
    /\ Item(t) \in rows
    /\ Rollback(t)

------------------------------------------------------------------------------
(* nextNumber, the end of a transaction, and failures *)

\* Mutated: the sequence advances in a transaction of its own.
NextNumberOutside(t) ==
    /\ pc[t] = "number"
    /\ LET s == SequenceOf(kind[t])
       IN  /\ last' = [last EXCEPT ![s] = @ + 1]
           /\ number' = [number EXCEPT ![t] = last[s] + 1]
    /\ Goto(t, IF kind[t] \in {"CHECKOUT", "VOID"} THEN "commit" ELSE "move")
    /\ UNCHANGED <<rows, qty, ledger, opened, lockVars, kind, lines, at, draft, wrote, moves>>

\* UPDATE number_sequences SET last_number = last_number + 1 ... RETURNING.
\* A void of a sale takes one number: its checkout wrote one CHARGE.
NextNumber(t) ==
    /\ pc[t] = "number"
    /\ LET s == SequenceOf(kind[t])
       IN  /\ seqLock[s] = None
           /\ seqLock' = [seqLock EXCEPT ![s] = t]
           /\ number' = [number EXCEPT ![t] = last[s] + 1]
    /\ Goto(t, IF kind[t] \in {"CHECKOUT", "VOID"} THEN "commit" ELSE "move")
    /\ UNCHANGED <<dbVars, rowLock, keyUpdate, keyShare, kind, lines, at, draft, wrote, moves>>

\* Mutated: the movements are lost.
CommitSnapshotOnly(t) ==
    /\ pc[t] = "commit"
    /\ rows' = rows \cup wrote[t]
    /\ qty' = [i \in Items |-> Value(t, i)]
    /\ last' = [s \in SequenceTypes |-> IF seqLock[s] = t THEN number[t] ELSE last[s]]
    /\ ReleaseLocks(t)
    /\ Goto(t, "committed")
    /\ draft' = [draft EXCEPT ![t] = [i \in Items |-> 0]]
    /\ wrote' = [wrote EXCEPT ![t] = {}]
    /\ moves' = [moves EXCEPT ![t] = [i \in Items |-> 0]]
    /\ UNCHANGED <<ledger, opened, kind, lines, at, number>>

Commit(t) ==
    /\ pc[t] = "commit"
    /\ rows' = rows \cup wrote[t]
    /\ qty' = [i \in Items |-> Value(t, i)]
    /\ ledger' = [i \in Items |-> ledger[i] + moves[t][i]]
    /\ opened' = IF kind[t] = "OPENING" THEN opened \cup wrote[t] ELSE opened
    /\ last' = [s \in SequenceTypes |-> IF seqLock[s] = t THEN number[t] ELSE last[s]]
    /\ ReleaseLocks(t)
    /\ Goto(t, "committed")
    /\ draft' = [draft EXCEPT ![t] = [i \in Items |-> 0]]
    /\ wrote' = [wrote EXCEPT ![t] = {}]
    /\ moves' = [moves EXCEPT ![t] = [i \in Items |-> 0]]
    /\ UNCHANGED <<kind, lines, at, number>>

\* The request is cancelled, the connection is lost or the server crashes.
Cancel(t) ==
    /\ pc[t] \in Active
    /\ Rollback(t)

\* The lock the next statement of t needs is held by u.
WaitsForRow(t, u) ==
    /\ rowLock[Item(t)] = u
    /\ \/ /\ pc[t] = "line"
          /\ Seen(t, Item(t))
          /\ kind[t] = "CHECKOUT" => Value(t, Item(t)) + Delta(t) >= 0
       \/ pc[t] = "write" /\ (kind[t] = "RECEIVE" \/ Seen(t, Item(t)))
       \/ pc[t] = "insert" /\ Item(t) \notin rows

WaitsForKey(t, u) ==
    \/ /\ pc[t] = "lock"
       /\ u = keyUpdate[Item(t)] \/ u \in keyShare[Item(t)]
    \/ /\ pc[t] = "move"
       /\ kind[t] = "OPENING" => Item(t) \notin opened
       /\ u = keyUpdate[Item(t)]

WaitsForNumber(t, u) == pc[t] = "number" /\ seqLock[SequenceOf(kind[t])] = u

WaitsFor(t, u) ==
    /\ u # t
    /\ pc[t] \in Active
    /\ WaitsForRow(t, u) \/ WaitsForKey(t, u) \/ WaitsForNumber(t, u)

\* Every member of S waits for a member and is waited for by one.
Circle(S) == \A u \in S : \E v, w \in S : WaitsFor(u, v) /\ WaitsFor(w, u)

InCycle(t) == \E S \in SUBSET Txs : t \in S /\ Circle(S)

\* The deadlock detector of PostgreSQL aborts one transaction of the cycle.
DeadlockVictim(t) ==
    /\ InCycle(t)
    /\ Rollback(t)

------------------------------------------------------------------------------
(* Specification *)

Step(t) ==
    \/ CheckoutTake(t) \/ CheckoutShort(t) \/ VoidReturn(t) \/ SaleMovement(t)
    \/ ReceiveLock(t) \/ ReceiveMovement(t) \/ ReceiveUpsert(t)
    \/ ReadForUpdate(t) \/ ReadAbsent(t) \/ AdjustmentShort(t)
    \/ AdjustmentMovement(t) \/ OpeningMovement(t) \/ OpeningTwice(t)
    \/ ApplyUpdate(t) \/ ApplyNoRow(t) \/ ApplyInsert(t) \/ ApplyDuplicate(t)
    \/ NextNumber(t) \/ Commit(t)

\* Any ledger the operations can have built: rows exist where stock was
\* posted, and an opening balance creates a row.
Init ==
    /\ rows \in SUBSET Items
    /\ qty \in {q \in [Items -> 0..MaxInitial] : \A i \in Items \ rows : q[i] = 0}
    /\ ledger = qty
    /\ opened \in SUBSET rows
    /\ last = [s \in SequenceTypes |-> 0]
    /\ rowLock = [i \in Items |-> None]
    /\ keyUpdate = [i \in Items |-> None]
    /\ keyShare = [i \in Items |-> {}]
    /\ seqLock = [s \in SequenceTypes |-> None]
    /\ kind = [t \in Txs |-> "none"]
    /\ lines = [t \in Txs |-> <<>>]
    /\ at = [t \in Txs |-> 1]
    /\ pc = [t \in Txs |-> "idle"]
    /\ draft = [t \in Txs |-> [i \in Items |-> 0]]
    /\ wrote = [t \in Txs |-> {}]
    /\ moves = [t \in Txs |-> [i \in Items |-> 0]]
    /\ number = [t \in Txs |-> 0]

Next == \E t \in Txs : Submit(t) \/ Step(t) \/ Cancel(t) \/ DeadlockVictim(t)

Spec == Init /\ [][Next]_vars

\* A transaction keeps running while its next statement can run, and the
\* deadlock detector always fires.  Nothing makes a request arrive or fail.
FairSpec ==
    Spec /\ \A t \in Txs : WF_vars(Step(t)) /\ WF_vars(DeadlockVictim(t))

------------------------------------------------------------------------------
(* Properties *)

TypeOK ==
    /\ rows \subseteq Items
    /\ qty \in [Items -> Int]
    /\ ledger \in [Items -> Int]
    /\ opened \subseteq Items
    /\ last \in [SequenceTypes -> Nat]
    /\ rowLock \in [Items -> Txs \cup {None}]
    /\ keyUpdate \in [Items -> Txs \cup {None}]
    /\ keyShare \in [Items -> SUBSET Txs]
    /\ seqLock \in [SequenceTypes -> Txs \cup {None}]
    /\ kind \in [Txs -> AllKinds \cup {"none"}]
    /\ lines \in [Txs -> Seq([item : Items, delta : Int])]
    /\ at \in [Txs -> Nat \ {0}]
    /\ pc \in [Txs -> Active \cup {"idle", "committed", "aborted"}]
    /\ draft \in [Txs -> [Items -> Int]]
    /\ wrote \in [Txs -> SUBSET Items]
    /\ moves \in [Txs -> [Items -> Int]]
    /\ number \in [Txs -> Nat]
    /\ \A t \in Txs : pc[t] # "idle" =>
          /\ kind[t] \in Kinds
          /\ lines[t] \in Requests(kind[t])
          /\ at[t] \in DOMAIN lines[t]

\* Committed stock is never negative, whatever runs concurrently: the check
\* constraint of migration 000007 is a backstop no operation ever hits.
NonNegativeStock == \A i \in Items : qty[i] >= 0

\* Summing the movements of an item again gives exactly its snapshot, and an
\* item without a row has none (inventory_ledger_test.go).
LedgerMatchesSnapshot == \A i \in Items : ledger[i] = qty[i]

\* The check applyAdjustmentLine makes before it writes the movement still
\* holds when the snapshot is written, several statements later.
CheckStaysTrue ==
    \A t \in Txs :
        kind[t] = "COMPLETE" /\ pc[t] \in {"move", "write", "insert"} =>
            Value(t, Item(t)) + Delta(t) >= 0

\* Document numbers have no gaps and no duplicates: a rolled back transaction
\* gives its number back, and two that commit never got the same one.
NumbersAreGapFree ==
    \A s \in SequenceTypes :
        LET ended == {t \in Txs : pc[t] = "committed" /\ SequenceOf(kind[t]) = s}
        IN  /\ {number[t] : t \in ended} = 1..last[s]
            /\ \A t, u \in ended : t # u => number[t] # number[u]

\* Sales never deadlock among themselves, because CheckoutSale and VoidSale
\* visit their lines ORDER BY product_id.
SalesNeverDeadlock ==
    \A S \in SUBSET {t \in Txs : kind[t] \in {"CHECKOUT", "VOID"}} : Circle(S) => S = {}

\* Every transaction ends: no request waits for a lock for ever.
EveryTransactionEnds ==
    \A t \in Txs : pc[t] \in Active ~> pc[t] \in {"committed", "aborted"}

\* StockTx implements StockLedger: at commit a transaction posts all its
\* lines, before that and after a rollback none.
Ledger == INSTANCE StockLedger WITH
    stock <- qty, book <- ledger, request <- lines,
    outcome <- [t \in Txs |->
        CASE pc[t] = "idle"      -> "none"
          [] pc[t] = "committed" -> "committed"
          [] pc[t] = "aborted"   -> "aborted"
          [] OTHER               -> "pending"]

LedgerSpec == Ledger!Spec
==============================================================================
