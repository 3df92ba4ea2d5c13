--------------------------- MODULE StockTx_proofs ---------------------------
(***************************************************************************)
(* Safety of StockTx for any number of items, transactions, lines and      *)
(* quantities.                                                             *)
(***************************************************************************)
EXTENDS StockTx, SumLemmas, WellFoundedInduction, TLAPS

------------------------------------------------------------------------------
(* Requests *)

\* A function on 1..n is a sequence.
LEMMA FunctionIsSeq ==
    ASSUME NEW S, NEW n \in Nat, NEW f \in [1..n -> S]
    PROVE  f \in Seq(S)
BY SMT

\* A line of a request names an item and an integer delta, positive in the
\* operations that only add stock.
LEMMA RequestLine ==
    ASSUME NEW k \in AllKinds, NEW s \in Requests(k)
    PROVE  /\ s \in Seq([item : Items, delta : Int])
           /\ Len(s) \in Nat \ {0}
           /\ DOMAIN s = 1..Len(s)
           /\ \A n \in DOMAIN s : /\ s[n].item \in Items
                                  /\ s[n].delta \in Int
                                  /\ k \in {"VOID", "RECEIVE", "OPENING"} => s[n].delta > 0
<1>1. PICK n \in 1..MaxLines : s \in [1..n -> [item : Items, delta : Deltas(k)]]
      BY DEF Requests
<1>2. n \in Nat \ {0}
      BY StockTxAssumption
<1>3. DOMAIN s = 1..n /\ Len(s) = n
      BY <1>1, <1>2
<1>4. Qtys \subseteq Nat \ {0}
      BY StockTxAssumption
<1>5. Deltas(k) \subseteq Int /\ (k \in {"VOID", "RECEIVE", "OPENING"} => Deltas(k) = Qtys)
      BY <1>4 DEF Deltas, AllKinds
<1>6. /\ s \in [1..n -> [item : Items, delta : Int]]
      /\ \A m \in 1..n : s[m].item \in Items /\ s[m].delta \in Deltas(k)
      BY <1>1, <1>5
<1>7. s \in Seq([item : Items, delta : Int])
      BY <1>2, <1>6, FunctionIsSeq
<1>8. QED
      BY <1>2, <1>3, <1>4, <1>5, <1>6, <1>7

\* Once submitted, a transaction stands at a line of its request.
LEMMA CurrentLine ==
    ASSUME TypeOK, NEW t \in Txs, pc[t] # "idle"
    PROVE  /\ kind[t] \in Kinds
           /\ kind[t] \in AllKinds
           /\ Item(t) \in Items
           /\ Delta(t) \in Int
           /\ kind[t] \in {"VOID", "RECEIVE", "OPENING"} => Delta(t) > 0
           /\ Len(lines[t]) \in Nat
           /\ DOMAIN lines[t] = 1..Len(lines[t])
<1>1. kind[t] \in Kinds /\ lines[t] \in Requests(kind[t]) /\ at[t] \in DOMAIN lines[t]
      BY DEF TypeOK
<1>2. kind[t] \in AllKinds
      BY <1>1, StockTxAssumption
<1>3. QED
      BY <1>1, <1>2, RequestLine DEF Item, Delta

------------------------------------------------------------------------------
(* Types *)

\* The program counter only takes the values its operation has.
PcOfKind ==
    \A t \in Txs :
        /\ pc[t] = "number" => kind[t] # "COMPLETE"
        /\ pc[t] = "line" => kind[t] \in {"CHECKOUT", "VOID", "COMPLETE"}
        /\ pc[t] = "write" => kind[t] \in {"RECEIVE", "COMPLETE", "OPENING"}
        /\ pc[t] = "insert" => kind[t] \in {"COMPLETE", "OPENING"}
        /\ pc[t] = "lock" => kind[t] = "RECEIVE"

\* A transaction that has not started stands at its first line.
Resting == \A t \in Txs : pc[t] = "idle" => at[t] = 1

Typing == TypeOK /\ PcOfKind /\ Resting

LEMMA SequenceOfKind ==
    ASSUME NEW k \in AllKinds, k # "COMPLETE"
    PROVE  SequenceOf(k) \in SequenceTypes
BY DEF AllKinds, SequenceOf, SequenceTypes

LEMMA InitTyping == Init => Typing
<1> SUFFICES ASSUME Init PROVE Typing
    OBVIOUS
<1>1. qty \in [Items -> Int]
      BY StockTxAssumption DEF Init
<1>2. QED
      BY <1>1 DEF Init, Typing, TypeOK, PcOfKind, Resting, Active

LEMMA SubmitTyping ==
    ASSUME Typing, NEW t \in Txs, Submit(t)
    PROVE  Typing'
<1>1. PICK k \in Kinds : \E s \in Requests(k) :
          /\ pc[t] = "idle"
          /\ kind' = [kind EXCEPT ![t] = k]
          /\ lines' = [lines EXCEPT ![t] = s]
          /\ pc' = [pc EXCEPT ![t] = FirstStep(k)]
          /\ UNCHANGED <<dbVars, lockVars, at, draft, wrote, moves, number>>
      BY DEF Submit, Goto
<1>2. PICK s \in Requests(k) :
          /\ pc[t] = "idle"
          /\ kind' = [kind EXCEPT ![t] = k]
          /\ lines' = [lines EXCEPT ![t] = s]
          /\ pc' = [pc EXCEPT ![t] = FirstStep(k)]
          /\ UNCHANGED <<dbVars, lockVars, at, draft, wrote, moves, number>>
      BY <1>1
<1>3. k \in AllKinds
      BY StockTxAssumption
<1>4. at[t] = 1
      BY <1>2 DEF Typing, Resting
<1>5. /\ s \in Seq([item : Items, delta : Int])
      /\ Len(s) \in Nat \ {0}
      /\ DOMAIN s = 1..Len(s)
      BY <1>3, RequestLine
<1>6. at[t] \in DOMAIN s
      BY <1>4, <1>5
<1>7. QED
      BY <1>2, <1>3, <1>4, <1>5, <1>6 DEF Typing, TypeOK, PcOfKind, Resting, Active, FirstStep, AllKinds, dbVars, lockVars

LEMMA ReleaseTyping ==
    ASSUME TypeOK, NEW t \in Txs, ReleaseLocks(t)
    PROVE  /\ rowLock' \in [Items -> Txs \cup {None}]
           /\ keyUpdate' \in [Items -> Txs \cup {None}]
           /\ keyShare' \in [Items -> SUBSET Txs]
           /\ seqLock' \in [SequenceTypes -> Txs \cup {None}]
<1>1. rowLock' \in [Items -> Txs \cup {None}]
      BY DEF TypeOK, ReleaseLocks
<1>2. keyUpdate' \in [Items -> Txs \cup {None}]
      BY DEF TypeOK, ReleaseLocks
<1>3. keyShare' \in [Items -> SUBSET Txs]
      BY DEF TypeOK, ReleaseLocks
<1>4. seqLock' \in [SequenceTypes -> Txs \cup {None}]
      BY DEF TypeOK, ReleaseLocks
<1>5. QED
      BY <1>1, <1>2, <1>3, <1>4

LEMMA RollbackTyping ==
    ASSUME Typing, NEW t \in Txs, pc[t] # "idle", Rollback(t)
    PROVE  Typing'
<1>1. /\ rowLock' \in [Items -> Txs \cup {None}]
      /\ keyUpdate' \in [Items -> Txs \cup {None}]
      /\ keyShare' \in [Items -> SUBSET Txs]
      /\ seqLock' \in [SequenceTypes -> Txs \cup {None}]
      BY ReleaseTyping DEF Rollback, Typing
<1>2. /\ draft' \in [Txs -> [Items -> Int]]
      /\ wrote' \in [Txs -> SUBSET Items]
      /\ moves' \in [Txs -> [Items -> Int]]
      /\ number' \in [Txs -> Nat]
      BY DEF Rollback, Typing, TypeOK
<1>3. pc' = [pc EXCEPT ![t] = "aborted"] /\ UNCHANGED <<dbVars, kind, lines, at>>
      BY DEF Rollback, Goto
<1>4. TypeOK'
      BY <1>1, <1>2, <1>3 DEF Typing, TypeOK, dbVars
<1>5. PcOfKind' /\ Resting'
      BY <1>3 DEF Typing, TypeOK, PcOfKind, Resting
<1>6. QED
      BY <1>4, <1>5 DEF Typing

\* One cell of a per-transaction, per-item table.
LEMMA UpdateCell ==
    ASSUME NEW f \in [Txs -> [Items -> Int]], NEW t \in Txs, NEW i \in Items, NEW x \in Int
    PROVE  [f EXCEPT ![t][i] = x] \in [Txs -> [Items -> Int]]
<1>1. [f[t] EXCEPT ![i] = x] \in [Items -> Int]
      OBVIOUS
<1>2. QED
      BY <1>1

\* Writing a row and inserting a movement keep the types they touch.
LEMMA WriteRowTyping ==
    ASSUME TypeOK, NEW t \in Txs, pc[t] # "idle", WriteRow(t)
    PROVE  /\ rowLock' \in [Items -> Txs \cup {None}]
           /\ draft' \in [Txs -> [Items -> Int]]
           /\ wrote' \in [Txs -> SUBSET Items]
<1>1. Item(t) \in Items /\ Delta(t) \in Int
      BY CurrentLine
<1>2. Value(t, Item(t)) \in Int
      BY <1>1 DEF TypeOK, Value
<1>3. rowLock' \in [Items -> Txs \cup {None}]
      BY <1>1 DEF TypeOK, WriteRow
<1>4. draft' \in [Txs -> [Items -> Int]]
      <2>1. Value(t, Item(t)) + Delta(t) \in Int
            BY <1>1, <1>2
      <2>2. draft \in [Txs -> [Items -> Int]]
            BY DEF TypeOK
      <2>3. draft' = [draft EXCEPT ![t][Item(t)] = Value(t, Item(t)) + Delta(t)]
            BY DEF WriteRow
      <2>4. QED
            BY <1>1, <2>1, <2>2, <2>3, UpdateCell
<1>5. wrote' \in [Txs -> SUBSET Items]
      BY <1>1 DEF TypeOK, WriteRow
<1>6. QED
      BY <1>3, <1>4, <1>5

LEMMA InsertMovementTyping ==
    ASSUME TypeOK, NEW t \in Txs, pc[t] # "idle", InsertMovement(t)
    PROVE  /\ keyShare' \in [Items -> SUBSET Txs]
           /\ moves' \in [Txs -> [Items -> Int]]
<1>1. Item(t) \in Items /\ Delta(t) \in Int
      BY CurrentLine
<1>2. keyShare' \in [Items -> SUBSET Txs]
      BY <1>1 DEF TypeOK, InsertMovement
<1>3. moves' \in [Txs -> [Items -> Int]]
      <2>1. moves \in [Txs -> [Items -> Int]]
            BY DEF TypeOK
      <2>2. moves[t][Item(t)] + Delta(t) \in Int
            BY <1>1, <2>1
      <2>3. moves' = [moves EXCEPT ![t][Item(t)] = moves[t][Item(t)] + Delta(t)]
            BY DEF InsertMovement
      <2>4. QED
            BY <1>1, <2>1, <2>2, <2>3, UpdateCell
<1>4. QED
      BY <1>2, <1>3

\* The next line is a line of the request; where it starts depends on the
\* operation.
LEMMA NextLineTyping ==
    ASSUME TypeOK, NEW t \in Txs, pc[t] # "idle", NextLine(t)
    PROVE  /\ at' \in [Txs -> Nat \ {0}]
           /\ at'[t] \in DOMAIN lines[t]
           /\ \A u \in Txs \ {t} : at'[u] = at[u] /\ pc'[u] = pc[u]
           /\ pc' \in [Txs -> Active \cup {"idle", "committed", "aborted"}]
           /\ pc'[t] \in {LineStep(kind[t]), LastStep(kind[t])}
           /\ pc'[t] \in {"line", "move", "number", "commit"}
<1>1. /\ Len(lines[t]) \in Nat
      /\ DOMAIN lines[t] = 1..Len(lines[t])
      BY CurrentLine
<1>2. at[t] \in DOMAIN lines[t]
      BY DEF TypeOK
<1>3. LineStep(kind[t]) \in {"line", "move"} /\ LastStep(kind[t]) \in {"number", "commit"}
      BY DEF LineStep, LastStep
<1>4. at' \in [Txs -> Nat \ {0}] /\ at'[t] \in DOMAIN lines[t]
      <2>1. at \in [Txs -> Nat \ {0}]
            BY DEF TypeOK
      <2>2. \/ at' = at
            \/ at[t] < Len(lines[t]) /\ at' = [at EXCEPT ![t] = at[t] + 1]
            BY DEF NextLine
      <2>3. CASE at' = at
            BY <1>2, <2>1, <2>3
      <2>4. CASE at[t] < Len(lines[t]) /\ at' = [at EXCEPT ![t] = at[t] + 1]
            <3>1. at'[t] = at[t] + 1
                  BY <2>1, <2>4
            <3>2. at[t] + 1 \in 1..Len(lines[t])
                  BY <1>1, <1>2, <2>1, <2>4
            <3>3. QED
                  BY <1>1, <2>1, <2>4, <3>1, <3>2
      <2>5. QED
            BY <2>2, <2>3, <2>4
<1>5. \A u \in Txs \ {t} : at'[u] = at[u] /\ pc'[u] = pc[u]
      BY DEF TypeOK, NextLine, Goto
<1>6. /\ pc' \in [Txs -> Active \cup {"idle", "committed", "aborted"}]
      /\ pc'[t] \in {LineStep(kind[t]), LastStep(kind[t])}
      BY <1>3 DEF TypeOK, NextLine, Goto, Active
<1>7. QED
      BY <1>3, <1>4, <1>5, <1>6

LEMMA StepTyping ==
    ASSUME Typing, NEW t \in Txs, Step(t)
    PROVE  Typing'
<1> USE DEF Typing
<1>0. pc[t] # "idle"
      BY DEF Step, CheckoutTake, CheckoutShort, VoidReturn, SaleMovement, ReceiveLock,
             ReceiveMovement, ReceiveUpsert, ReadForUpdate, ReadAbsent, AdjustmentShort,
             AdjustmentMovement, OpeningMovement, OpeningTwice, ApplyUpdate, ApplyNoRow,
             ApplyInsert, ApplyDuplicate, NextNumber, Commit
<1>c. /\ kind[t] \in AllKinds
      /\ Item(t) \in Items
      /\ Delta(t) \in Int
      BY <1>0, CurrentLine
<1>1. CASE CheckoutTake(t)
      BY <1>0, <1>1, WriteRowTyping
      DEF CheckoutTake, Goto, TypeOK, PcOfKind, Resting, Active, dbVars
<1>2. CASE CheckoutShort(t)
      BY <1>0, <1>2, RollbackTyping DEF CheckoutShort
<1>3. CASE VoidReturn(t)
      BY <1>0, <1>3, WriteRowTyping
      DEF VoidReturn, Goto, TypeOK, PcOfKind, Resting, Active, dbVars
<1>4. CASE SaleMovement(t)
      BY <1>0, <1>4, InsertMovementTyping, NextLineTyping
      DEF SaleMovement, TypeOK, PcOfKind, Resting, Active, dbVars, LineStep, LastStep
<1>5. CASE ReceiveLock(t)
      <2>1. /\ Len(lines[t]) \in Nat \ {0}
            /\ DOMAIN lines[t] = 1..Len(lines[t])
            /\ at[t] \in DOMAIN lines[t]
            BY <1>0, <1>c, RequestLine DEF TypeOK
      <2>2. kind[t] = "RECEIVE"
            BY <1>5 DEF ReceiveLock, PcOfKind
      <2>3. /\ at' \in [Txs -> Nat \ {0}]
            /\ at'[t] \in DOMAIN lines[t]
            /\ \A u \in Txs \ {t} : at'[u] = at[u] /\ pc'[u] = pc[u]
            <3>1. at \in [Txs -> Nat \ {0}] /\ pc \in [Txs -> Active \cup {"idle", "committed", "aborted"}]
                  BY DEF TypeOK
            <3>2. \/ /\ at[t] < Len(lines[t])
                     /\ at' = [at EXCEPT ![t] = at[t] + 1] /\ pc' = pc
                  \/ /\ at' = [at EXCEPT ![t] = 1]
                     /\ pc' = [pc EXCEPT ![t] = "number"]
                  BY <1>5 DEF ReceiveLock, Goto
            <3>3. 1 \in DOMAIN lines[t]
                  BY <2>1
            <3>4. at[t] < Len(lines[t]) => at[t] + 1 \in DOMAIN lines[t]
                  BY <2>1
            <3>5. QED
                  BY <3>1, <3>2, <3>3, <3>4
      <2>4. /\ pc' \in [Txs -> Active \cup {"idle", "committed", "aborted"}]
            /\ pc'[t] \in {"lock", "number"}
            BY <1>5 DEF ReceiveLock, Goto, TypeOK, Active
      <2>5. keyUpdate' \in [Items -> Txs \cup {None}]
            BY <1>c, <1>5 DEF ReceiveLock, TypeOK
      <2>6. UNCHANGED <<dbVars, rowLock, keyShare, seqLock, kind, lines, draft, wrote, moves, number>>
            BY <1>5 DEF ReceiveLock
      <2>7. TypeOK'
            BY <1>0, <2>3, <2>4, <2>5, <2>6 DEF TypeOK, dbVars
      <2>8. PcOfKind' /\ Resting'
            BY <2>2, <2>3, <2>4, <2>6 DEF TypeOK, PcOfKind, Resting
      <2>9. QED
            BY <2>7, <2>8
<1>6. CASE ReceiveMovement(t)
      BY <1>0, <1>6, InsertMovementTyping
      DEF ReceiveMovement, Goto, TypeOK, PcOfKind, Resting, Active, dbVars
<1>7. CASE ReceiveUpsert(t)
      BY <1>0, <1>7, WriteRowTyping, NextLineTyping
      DEF ReceiveUpsert, TypeOK, PcOfKind, Resting, Active, dbVars, LineStep, LastStep
<1>8. CASE ReadForUpdate(t)
      BY <1>c, <1>8 DEF ReadForUpdate, Goto, TypeOK, PcOfKind, Resting, Active, dbVars
<1>9. CASE ReadAbsent(t)
      BY <1>9 DEF ReadAbsent, Goto, TypeOK, PcOfKind, Resting, Active, dbVars, lockVars
<1>10. CASE AdjustmentShort(t)
      BY <1>0, <1>10, RollbackTyping DEF AdjustmentShort
<1>11. CASE AdjustmentMovement(t)
      BY <1>0, <1>11, InsertMovementTyping
      DEF AdjustmentMovement, Goto, TypeOK, PcOfKind, Resting, Active, dbVars
<1>12. CASE OpeningMovement(t)
      BY <1>0, <1>12, InsertMovementTyping
      DEF OpeningMovement, Goto, TypeOK, PcOfKind, Resting, Active, dbVars
<1>13. CASE OpeningTwice(t)
      BY <1>0, <1>13, RollbackTyping DEF OpeningTwice
<1>14. CASE ApplyUpdate(t)
      BY <1>0, <1>14, WriteRowTyping, NextLineTyping
      DEF ApplyUpdate, TypeOK, PcOfKind, Resting, Active, dbVars, LineStep, LastStep
<1>15. CASE ApplyNoRow(t)
      BY <1>15 DEF ApplyNoRow, Goto, TypeOK, PcOfKind, Resting, Active, dbVars, lockVars
<1>16. CASE ApplyInsert(t)
      BY <1>0, <1>16, WriteRowTyping, NextLineTyping
      DEF ApplyInsert, TypeOK, PcOfKind, Resting, Active, dbVars, LineStep, LastStep
<1>17. CASE ApplyDuplicate(t)
      BY <1>0, <1>17, RollbackTyping DEF ApplyDuplicate
<1>18. CASE NextNumber(t)
      <2>1. SequenceOf(kind[t]) \in SequenceTypes
            BY <1>c, <1>18, SequenceOfKind DEF NextNumber, PcOfKind
      <2>2. /\ seqLock' \in [SequenceTypes -> Txs \cup {None}]
            /\ number' \in [Txs -> Nat]
            BY <1>18, <2>1 DEF NextNumber, TypeOK
      <2>3. /\ pc' = [pc EXCEPT ![t] = IF kind[t] \in {"CHECKOUT", "VOID"} THEN "commit" ELSE "move"]
            /\ UNCHANGED <<dbVars, rowLock, keyUpdate, keyShare, kind, lines, at, draft, wrote, moves>>
            BY <1>18 DEF NextNumber, Goto
      <2>4. QED
            BY <1>0, <2>2, <2>3 DEF TypeOK, PcOfKind, Resting, Active, dbVars
<1>19. CASE Commit(t)
      <2>1. \A i \in Items : Value(t, i) \in Int
            BY DEF TypeOK, Value
      <2>2. /\ rows' \subseteq Items
            /\ qty' \in [Items -> Int]
            /\ ledger' \in [Items -> Int]
            /\ opened' \subseteq Items
            /\ last' \in [SequenceTypes -> Nat]
            BY <1>19, <2>1 DEF Commit, TypeOK
      <2>3. /\ rowLock' \in [Items -> Txs \cup {None}]
            /\ keyUpdate' \in [Items -> Txs \cup {None}]
            /\ keyShare' \in [Items -> SUBSET Txs]
            /\ seqLock' \in [SequenceTypes -> Txs \cup {None}]
            BY <1>19, ReleaseTyping DEF Commit
      <2>4. /\ draft' \in [Txs -> [Items -> Int]]
            /\ wrote' \in [Txs -> SUBSET Items]
            /\ moves' \in [Txs -> [Items -> Int]]
            BY <1>19 DEF Commit, TypeOK
      <2>5. /\ pc' = [pc EXCEPT ![t] = "committed"]
            /\ UNCHANGED <<kind, lines, at, number>>
            BY <1>19 DEF Commit, Goto
      <2>6. TypeOK'
            BY <1>0, <2>2, <2>3, <2>4, <2>5 DEF TypeOK
      <2>7. PcOfKind' /\ Resting'
            BY <2>5 DEF TypeOK, PcOfKind, Resting
      <2>8. QED
            BY <2>6, <2>7
<1>20. QED
      BY <1>1, <1>2, <1>3, <1>4, <1>5, <1>6, <1>7, <1>8, <1>9, <1>10, <1>11, <1>12,
         <1>13, <1>14, <1>15, <1>16, <1>17, <1>18, <1>19 DEF Step

LEMMA StutterTyping ==
    ASSUME Typing, UNCHANGED vars
    PROVE  Typing'
BY DEF vars, dbVars, lockVars, Typing, TypeOK, PcOfKind, Resting

\* Type correctness: a transaction always stands at a line of its request,
\* at a statement its operation has.
THEOREM TypeCorrect == Spec => []TypeOK
<1>1. Init => Typing
      BY InitTyping
<1>2. Typing /\ [Next]_vars => Typing'
      <2> SUFFICES ASSUME Typing, [Next]_vars PROVE Typing'
          OBVIOUS
      <2>1. CASE UNCHANGED vars
            BY <2>1, StutterTyping
      <2>2. ASSUME NEW t \in Txs, Submit(t) PROVE Typing'
            BY <2>2, SubmitTyping
      <2>3. ASSUME NEW t \in Txs, Step(t) PROVE Typing'
            BY <2>3, StepTyping
      <2>4. ASSUME NEW t \in Txs, Rollback(t), pc[t] # "idle" PROVE Typing'
            BY <2>4, RollbackTyping
      <2>5. \A t \in Txs : Cancel(t) \/ DeadlockVictim(t) => Rollback(t) /\ pc[t] # "idle"
            BY DEF Cancel, DeadlockVictim, InCycle, Circle, WaitsFor, Active
      <2>6. QED
            BY <2>1, <2>2, <2>3, <2>4, <2>5 DEF Next
<1>3. Typing => TypeOK
      BY DEF Typing
<1>4. QED
      BY <1>1, <1>2, <1>3, PTL DEF Spec

------------------------------------------------------------------------------
(* Safety *)

\* The rows a transaction has written are locked by it.
Owned(t) == \A i \in wrote[t] : rowLock[i] = t

\* Outside its run a transaction holds no uncommitted write.
Quiet(t) == pc[t] \notin Active => wrote[t] = {}

\* How far the snapshot a transaction sees is ahead of its movements: a sale
\* writes the row first, the other operations insert the movement first.
Ahead(t, i) ==
    IF pc[t] = "move" /\ kind[t] \in {"CHECKOUT", "VOID"} /\ i = Item(t) THEN Delta(t)
    ELSE IF pc[t] \in {"write", "insert"} /\ i = Item(t) THEN -Delta(t)
    ELSE 0

\* The uncommitted change of a row is the sum of the uncommitted movements,
\* but for the line in progress.
Balanced(t) ==
    \A i \in Items : Value(t, i) - qty[i] = moves[t][i] + Ahead(t, i)

DraftsNonNegative(t) == \A i \in wrote[t] : draft[t][i] >= 0

\* The check of an adjustment line cannot be overtaken: either the line adds
\* stock or its row is locked.
CheckHolds(t) ==
    kind[t] = "COMPLETE" /\ pc[t] \in {"move", "write", "insert"} =>
        /\ Value(t, Item(t)) + Delta(t) >= 0
        /\ Delta(t) >= 0 \/ rowLock[Item(t)] = t

TxInv(t) ==
    Owned(t) /\ Quiet(t) /\ Balanced(t) /\ DraftsNonNegative(t) /\ CheckHolds(t)

IInv ==
    /\ Typing
    /\ NonNegativeStock
    /\ LedgerMatchesSnapshot
    /\ \A t \in Txs : TxInv(t)

\* A transaction that another one's step leaves alone keeps its invariant:
\* the rows it depends on are locked by it, and quantities stay non-negative.
LEMMA Frame ==
    ASSUME IInv, NEW t \in Txs,
           pc'[t] = pc[t], kind'[t] = kind[t], lines'[t] = lines[t], at'[t] = at[t],
           draft'[t] = draft[t], wrote'[t] = wrote[t], moves'[t] = moves[t],
           \A i \in Items : rowLock[i] = t => rowLock'[i] = t /\ qty'[i] = qty[i],
           \A i \in Items : qty'[i] \in Nat
    PROVE  TxInv(t)'
<1> USE DEF IInv, Typing
<1>1. TxInv(t) /\ wrote[t] \in SUBSET Items
      BY DEF TypeOK
<1>2. Item(t)' = Item(t) /\ Delta(t)' = Delta(t)
      BY DEF Item, Delta
<1>3. Owned(t)' /\ Quiet(t)' /\ DraftsNonNegative(t)'
      BY <1>1 DEF TxInv, Owned, Quiet, DraftsNonNegative
<1>4. \A i \in Items : Value(t, i)' - qty'[i] = Value(t, i) - qty[i]
      <2> SUFFICES ASSUME NEW i \in Items PROVE Value(t, i)' - qty'[i] = Value(t, i) - qty[i]
          OBVIOUS
      <2>1. i \in wrote[t] => qty'[i] = qty[i]
            BY <1>1 DEF TxInv, Owned
      <2>2. qty[i] \in Int /\ qty'[i] \in Int
            BY DEF TypeOK
      <2>3. QED
            BY <2>1, <2>2 DEF Value
<1>5. Balanced(t)'
      <2> SUFFICES ASSUME NEW i \in Items
                   PROVE  Value(t, i)' - qty'[i] = moves'[t][i] + Ahead(t, i)'
          BY DEF Balanced
      <2>1. Ahead(t, i)' = Ahead(t, i)
            BY <1>2 DEF Ahead
      <2>2. QED
            BY <1>1, <1>4, <2>1 DEF TxInv, Balanced
<1>6. CheckHolds(t)'
      <2> SUFFICES ASSUME kind[t] = "COMPLETE", pc[t] \in {"move", "write", "insert"}
                   PROVE  /\ Value(t, Item(t))' + Delta(t)' >= 0
                          /\ Delta(t)' >= 0 \/ rowLock'[Item(t)'] = t
          BY DEF CheckHolds
      <2>1. Item(t) \in Items /\ Delta(t) \in Int
            BY CurrentLine
      <2>2. /\ Value(t, Item(t)) + Delta(t) >= 0
            /\ Delta(t) >= 0 \/ rowLock[Item(t)] = t
            BY <1>1 DEF TxInv, CheckHolds
      <2>3. CASE rowLock[Item(t)] = t
            BY <1>2, <2>1, <2>2, <2>3 DEF Value
      <2>4. CASE Delta(t) >= 0
            <3>1. Value(t, Item(t))' \in Nat
                  BY <1>1, <1>2, <2>1 DEF TxInv, DraftsNonNegative, Value, TypeOK
            <3>2. QED
                  BY <1>2, <2>1, <2>4, <3>1
      <2>5. QED
            BY <2>2, <2>3, <2>4
<1>7. QED
      BY <1>3, <1>5, <1>6 DEF TxInv

\* Every row a step locks was free or its own.
LEMMA LocksOfOthers ==
    ASSUME TypeOK, NEW t \in Txs, NEW u \in Txs, u # t, pc[t] # "idle",
           \/ rowLock' = rowLock
           \/ CanLock(t, Item(t)) /\ rowLock' = [rowLock EXCEPT ![Item(t)] = t]
           \/ ReleaseLocks(t)
    PROVE  \A i \in Items : rowLock[i] = u => rowLock'[i] = u
<1>1. Item(t) \in Items
      BY CurrentLine
<1>2. u # None
      BY StockTxAssumption
<1>3. QED
      BY <1>1, <1>2 DEF TypeOK, CanLock, ReleaseLocks

\* A step of t changes no other transaction.
LEMMA StepOfOne ==
    ASSUME TypeOK, NEW t \in Txs, NEW u \in Txs, u # t, Step(t)
    PROVE  /\ pc'[u] = pc[u] /\ kind'[u] = kind[u] /\ lines'[u] = lines[u] /\ at'[u] = at[u]
           /\ draft'[u] = draft[u] /\ wrote'[u] = wrote[u] /\ moves'[u] = moves[u]
           /\ \/ rowLock' = rowLock
              \/ CanLock(t, Item(t)) /\ rowLock' = [rowLock EXCEPT ![Item(t)] = t]
              \/ ReleaseLocks(t)
           /\ pc[t] \in Active
<1> USE DEF TypeOK, Goto, WriteRow, InsertMovement, NextLine, Rollback, dbVars, lockVars, Active
<1>1. CASE CheckoutTake(t) BY <1>1 DEF CheckoutTake
<1>2. CASE CheckoutShort(t) BY <1>2 DEF CheckoutShort
<1>3. CASE VoidReturn(t) BY <1>3 DEF VoidReturn
<1>4. CASE SaleMovement(t) BY <1>4 DEF SaleMovement
<1>5. CASE ReceiveLock(t) BY <1>5 DEF ReceiveLock
<1>6. CASE ReceiveMovement(t) BY <1>6 DEF ReceiveMovement
<1>7. CASE ReceiveUpsert(t) BY <1>7 DEF ReceiveUpsert
<1>8. CASE ReadForUpdate(t) BY <1>8 DEF ReadForUpdate
<1>9. CASE ReadAbsent(t) BY <1>9 DEF ReadAbsent
<1>10. CASE AdjustmentShort(t) BY <1>10 DEF AdjustmentShort
<1>11. CASE AdjustmentMovement(t) BY <1>11 DEF AdjustmentMovement
<1>12. CASE OpeningMovement(t) BY <1>12 DEF OpeningMovement
<1>13. CASE OpeningTwice(t) BY <1>13 DEF OpeningTwice
<1>14. CASE ApplyUpdate(t) BY <1>14 DEF ApplyUpdate
<1>15. CASE ApplyNoRow(t) BY <1>15 DEF ApplyNoRow
<1>16. CASE ApplyInsert(t) BY <1>16 DEF ApplyInsert
<1>17. CASE ApplyDuplicate(t) BY <1>17 DEF ApplyDuplicate
<1>18. CASE NextNumber(t) BY <1>18 DEF NextNumber
<1>19. CASE Commit(t) BY <1>19 DEF Commit
<1>20. QED
      BY <1>1, <1>2, <1>3, <1>4, <1>5, <1>6, <1>7, <1>8, <1>9, <1>10, <1>11, <1>12,
         <1>13, <1>14, <1>15, <1>16, <1>17, <1>18, <1>19 DEF Step

LEMMA WriteRowEffect ==
    ASSUME IInv, NEW t \in Txs, pc[t] # "idle", WriteRow(t), qty' = qty,
           Value(t, Item(t)) + Delta(t) >= 0
    PROVE  /\ Owned(t)' /\ DraftsNonNegative(t)'
           /\ \A i \in Items : Value(t, i)' = Value(t, i) + IF i = Item(t) THEN Delta(t) ELSE 0
           /\ rowLock'[Item(t)] = t
<1>1. Item(t) \in Items /\ Delta(t) \in Int
      BY CurrentLine DEF IInv, Typing
<1>2. TypeOK /\ TxInv(t)
      BY DEF IInv, Typing
<1>3. \A i \in Items : Value(t, i) \in Int
      BY <1>2 DEF TypeOK, Value
<1>4. /\ rowLock' = [rowLock EXCEPT ![Item(t)] = t]
      /\ draft'[t] = [draft[t] EXCEPT ![Item(t)] = Value(t, Item(t)) + Delta(t)]
      /\ wrote'[t] = wrote[t] \cup {Item(t)}
      BY <1>2 DEF WriteRow, TypeOK
<1>5. /\ rowLock \in [Items -> Txs \cup {None}]
      /\ draft[t] \in [Items -> Int]
      /\ wrote[t] \in SUBSET Items
      BY <1>2 DEF TypeOK
<1>6. Owned(t)' /\ rowLock'[Item(t)] = t
      BY <1>1, <1>2, <1>4, <1>5 DEF TxInv, Owned
<1>7. DraftsNonNegative(t)'
      BY <1>1, <1>2, <1>3, <1>4, <1>5 DEF TxInv, DraftsNonNegative
<1>8. \A i \in Items : Value(t, i)' = Value(t, i) + IF i = Item(t) THEN Delta(t) ELSE 0
      BY <1>1, <1>3, <1>4, <1>5 DEF Value
<1>9. QED
      BY <1>6, <1>7, <1>8

LEMMA InsertMovementEffect ==
    ASSUME IInv, NEW t \in Txs, pc[t] # "idle", InsertMovement(t)
    PROVE  \A i \in Items : moves'[t][i] = moves[t][i] + IF i = Item(t) THEN Delta(t) ELSE 0
<1>1. Item(t) \in Items /\ Delta(t) \in Int
      BY CurrentLine DEF IInv, Typing
<1>2. moves \in [Txs -> [Items -> Int]]
      BY DEF IInv, Typing, TypeOK
<1>3. moves'[t] = [moves[t] EXCEPT ![Item(t)] = moves[t][Item(t)] + Delta(t)]
      BY <1>2 DEF InsertMovement
<1>4. QED
      BY <1>1, <1>2, <1>3

\* A transaction sees non-negative quantities.
LEMMA ValueNonNegative ==
    ASSUME IInv, NEW t \in Txs, NEW i \in Items
    PROVE  Value(t, i) \in Nat
BY DEF IInv, Typing, TypeOK, TxInv, DraftsNonNegative, NonNegativeStock, Value

\* CheckoutTake and VoidReturn: the row is one line ahead of the movements.
LEMMA SaleWrite ==
    ASSUME IInv, NEW t \in Txs, CheckoutTake(t) \/ VoidReturn(t)
    PROVE  TxInv(t)'
<1>1. /\ pc[t] = "line" /\ kind[t] \in {"CHECKOUT", "VOID"}
      /\ pc' = [pc EXCEPT ![t] = "move"]
      /\ WriteRow(t)
      /\ qty' = qty /\ kind' = kind /\ lines' = lines /\ at' = at /\ moves' = moves
      BY DEF CheckoutTake, VoidReturn, Goto, dbVars
<1>2. /\ Item(t) \in Items /\ Delta(t) \in Int
      /\ kind[t] = "VOID" => Delta(t) > 0
      BY <1>1, CurrentLine DEF IInv, Typing
<1>3. Value(t, Item(t)) + Delta(t) >= 0
      BY <1>1, <1>2, ValueNonNegative DEF CheckoutTake, VoidReturn
<1>4. /\ Owned(t)' /\ DraftsNonNegative(t)'
      /\ \A i \in Items : Value(t, i)' = Value(t, i) + IF i = Item(t) THEN Delta(t) ELSE 0
      BY <1>1, <1>3, WriteRowEffect
<1>5. pc'[t] = "move" /\ Item(t)' = Item(t) /\ Delta(t)' = Delta(t)
      BY <1>1 DEF IInv, Typing, TypeOK, Item, Delta
<1>6. Balanced(t)'
      <2> SUFFICES ASSUME NEW i \in Items
                   PROVE  Value(t, i)' - qty'[i] = moves'[t][i] + Ahead(t, i)'
          BY DEF Balanced
      <2>1. Ahead(t, i)' = IF i = Item(t) THEN Delta(t) ELSE 0
            BY <1>1, <1>5 DEF Ahead
      <2>2. Ahead(t, i) = 0
            BY <1>1 DEF Ahead
      <2>3. Value(t, i) - qty[i] = moves[t][i] + 0
            BY <2>2 DEF IInv, TxInv, Balanced
      <2>4. Value(t, i) \in Nat /\ qty[i] \in Int /\ moves[t][i] \in Int
            <3>1. Value(t, i) \in Nat
                  BY ValueNonNegative
            <3>2. QED
                  BY <3>1 DEF IInv, Typing, TypeOK
      <2>5. QED
            BY <1>1, <1>2, <1>4, <2>1, <2>3, <2>4
<1>7. Quiet(t)' /\ CheckHolds(t)'
      BY <1>1, <1>5 DEF Quiet, CheckHolds, Active
<1>8. QED
      BY <1>4, <1>6, <1>7 DEF TxInv

\* SaleMovement: the movements catch up with the row.
LEMMA SaleCatchesUp ==
    ASSUME IInv, NEW t \in Txs, SaleMovement(t)
    PROVE  TxInv(t)'
<1>1. /\ pc[t] = "move" /\ kind[t] \in {"CHECKOUT", "VOID"}
      /\ InsertMovement(t) /\ NextLine(t)
      /\ qty' = qty /\ kind' = kind /\ rowLock' = rowLock /\ draft' = draft /\ wrote' = wrote
      BY DEF SaleMovement, dbVars
<1>2. pc'[t] \in {"line", "number"}
      BY <1>1, NextLineTyping DEF IInv, Typing, LineStep, LastStep
<1>3. \A i \in Items : moves'[t][i] = moves[t][i] + IF i = Item(t) THEN Delta(t) ELSE 0
      BY <1>1, InsertMovementEffect
<1>4. Balanced(t)'
      <2> SUFFICES ASSUME NEW i \in Items
                   PROVE  Value(t, i)' - qty'[i] = moves'[t][i] + Ahead(t, i)'
          BY DEF Balanced
      <2>1. Ahead(t, i) = IF i = Item(t) THEN Delta(t) ELSE 0
            BY <1>1 DEF Ahead
      <2>2. Ahead(t, i)' = 0
            BY <1>2 DEF Ahead
      <2>3. Value(t, i) - qty[i] = moves[t][i] + Ahead(t, i)
            BY DEF IInv, TxInv, Balanced
      <2>4. Value(t, i)' = Value(t, i)
            BY <1>1 DEF Value
      <2>5. moves[t][i] \in Int /\ Delta(t) \in Int
            BY <1>1, CurrentLine DEF IInv, Typing, TypeOK
      <2>6. QED
            BY <1>1, <1>3, <2>1, <2>2, <2>3, <2>4, <2>5
<1>5. Owned(t)' /\ Quiet(t)' /\ DraftsNonNegative(t)' /\ CheckHolds(t)'
      BY <1>1, <1>2 DEF IInv, TxInv, Owned, Quiet, DraftsNonNegative, CheckHolds, Active
<1>6. QED
      BY <1>4, <1>5 DEF TxInv

\* The movements of the other operations: the row is one line behind.
LEMMA MovementFirst ==
    ASSUME IInv, NEW t \in Txs,
           ReceiveMovement(t) \/ AdjustmentMovement(t) \/ OpeningMovement(t)
    PROVE  TxInv(t)'
<1>1. /\ pc[t] = "move" /\ kind[t] \in {"RECEIVE", "COMPLETE", "OPENING"}
      /\ InsertMovement(t) /\ pc' = [pc EXCEPT ![t] = "write"]
      /\ qty' = qty /\ kind' = kind /\ lines' = lines /\ at' = at
      /\ rowLock' = rowLock /\ draft' = draft /\ wrote' = wrote
      BY DEF ReceiveMovement, AdjustmentMovement, OpeningMovement, Goto, dbVars
<1>2. pc'[t] = "write" /\ Item(t)' = Item(t) /\ Delta(t)' = Delta(t)
      BY <1>1 DEF IInv, Typing, TypeOK, Item, Delta
<1>3. \A i \in Items : moves'[t][i] = moves[t][i] + IF i = Item(t) THEN Delta(t) ELSE 0
      BY <1>1, InsertMovementEffect
<1>4. Balanced(t)'
      <2> SUFFICES ASSUME NEW i \in Items
                   PROVE  Value(t, i)' - qty'[i] = moves'[t][i] + Ahead(t, i)'
          BY DEF Balanced
      <2>1. Ahead(t, i) = 0
            BY <1>1 DEF Ahead
      <2>2. Ahead(t, i)' = IF i = Item(t) THEN -Delta(t) ELSE 0
            BY <1>2 DEF Ahead
      <2>3. Value(t, i) - qty[i] = moves[t][i] + 0
            BY <2>1 DEF IInv, TxInv, Balanced
      <2>4. Value(t, i)' = Value(t, i)
            BY <1>1 DEF Value
      <2>5. moves[t][i] \in Int /\ Delta(t) \in Int
            BY <1>1, CurrentLine DEF IInv, Typing, TypeOK
      <2>6. QED
            BY <1>1, <1>3, <2>2, <2>3, <2>4, <2>5
<1>5. CheckHolds(t)'
      <2>1. \A i \in Items : Value(t, i)' = Value(t, i)
            BY <1>1 DEF Value
      <2>2. Item(t) \in Items
            BY <1>1, CurrentLine DEF IInv, Typing
      <2>3. QED
            BY <1>1, <1>2, <2>1, <2>2 DEF IInv, TxInv, CheckHolds
<1>6. Owned(t)' /\ Quiet(t)' /\ DraftsNonNegative(t)'
      BY <1>1, <1>2 DEF IInv, TxInv, Owned, Quiet, DraftsNonNegative, Active
<1>7. QED
      BY <1>4, <1>5, <1>6 DEF TxInv

\* ... and their writes: the row catches up.
LEMMA WriteCatchesUp ==
    ASSUME IInv, NEW t \in Txs, ReceiveUpsert(t) \/ ApplyUpdate(t) \/ ApplyInsert(t)
    PROVE  TxInv(t)'
<1>1. /\ pc[t] \in {"write", "insert"} /\ kind[t] \in {"RECEIVE", "COMPLETE", "OPENING"}
      /\ WriteRow(t) /\ NextLine(t)
      /\ qty' = qty /\ kind' = kind /\ moves' = moves
      BY DEF ReceiveUpsert, ApplyUpdate, ApplyInsert, dbVars, IInv, Typing, PcOfKind
<1>2. /\ pc'[t] \in {"line", "move", "commit"}
      /\ kind[t] = "COMPLETE" => pc'[t] \in {"line", "commit"}
      BY <1>1, NextLineTyping DEF IInv, Typing, LineStep, LastStep
<1>3. /\ Item(t) \in Items /\ Delta(t) \in Int
      /\ kind[t] \in {"RECEIVE", "OPENING"} => Delta(t) > 0
      BY <1>1, CurrentLine DEF IInv, Typing
<1>4. Value(t, Item(t)) + Delta(t) >= 0
      BY <1>1, <1>3, ValueNonNegative DEF IInv, TxInv, CheckHolds
<1>5. /\ Owned(t)' /\ DraftsNonNegative(t)'
      /\ \A i \in Items : Value(t, i)' = Value(t, i) + IF i = Item(t) THEN Delta(t) ELSE 0
      BY <1>1, <1>4, WriteRowEffect
<1>6. Balanced(t)'
      <2> SUFFICES ASSUME NEW i \in Items
                   PROVE  Value(t, i)' - qty'[i] = moves'[t][i] + Ahead(t, i)'
          BY DEF Balanced
      <2>1. Ahead(t, i) = IF i = Item(t) THEN -Delta(t) ELSE 0
            BY <1>1 DEF Ahead
      <2>2. Ahead(t, i)' = 0
            BY <1>1, <1>2 DEF Ahead
      <2>3. Value(t, i) - qty[i] = moves[t][i] + Ahead(t, i)
            BY DEF IInv, TxInv, Balanced
      <2>4. Value(t, i) \in Nat /\ qty[i] \in Int /\ moves[t][i] \in Int
            <3>1. Value(t, i) \in Nat
                  BY ValueNonNegative
            <3>2. QED
                  BY <3>1 DEF IInv, Typing, TypeOK
      <2>5. QED
            BY <1>1, <1>3, <1>5, <2>1, <2>2, <2>3, <2>4
<1>7. Quiet(t)' /\ CheckHolds(t)'
      BY <1>1, <1>2 DEF Quiet, CheckHolds, Active
<1>8. QED
      BY <1>5, <1>6, <1>7 DEF TxInv

\* The steps that write neither a row nor a movement.
LEMMA LocalStep ==
    ASSUME IInv, NEW t \in Txs,
           ReceiveLock(t) \/ ReadForUpdate(t) \/ ReadAbsent(t) \/ ApplyNoRow(t) \/ NextNumber(t)
    PROVE  TxInv(t)'
<1>1. /\ qty' = qty /\ kind' = kind /\ lines' = lines
      /\ draft' = draft /\ wrote' = wrote /\ moves' = moves
      BY DEF ReceiveLock, ReadForUpdate, ReadAbsent, ApplyNoRow, NextNumber, dbVars, lockVars
<1>2. pc[t] \in {"lock", "line", "write", "number"}
      BY DEF ReceiveLock, ReadForUpdate, ReadAbsent, ApplyNoRow, NextNumber
<1>3. \A i \in Items : rowLock[i] = t => rowLock'[i] = t
      BY DEF ReceiveLock, ReadForUpdate, ReadAbsent, ApplyNoRow, NextNumber, dbVars, lockVars,
             IInv, Typing, TypeOK
<1>4. Owned(t)' /\ DraftsNonNegative(t)'
      BY <1>1, <1>3 DEF IInv, Typing, TypeOK, TxInv, Owned, DraftsNonNegative
<1>5. \A i \in Items : Ahead(t, i)' = Ahead(t, i)
      <2> SUFFICES ASSUME NEW i \in Items PROVE Ahead(t, i)' = Ahead(t, i)
          OBVIOUS
      <2>1. CASE ReceiveLock(t)
            BY <2>1, <1>1 DEF ReceiveLock, Goto, Ahead, IInv, Typing, TypeOK
      <2>2. CASE ReadForUpdate(t)
            BY <2>2, <1>1 DEF ReadForUpdate, Goto, Ahead, IInv, Typing, TypeOK
      <2>3. CASE ReadAbsent(t)
            BY <2>3, <1>1 DEF ReadAbsent, Goto, Ahead, IInv, Typing, TypeOK
      <2>4. CASE ApplyNoRow(t)
            <3>1. /\ pc[t] = "write" /\ pc'[t] = "insert" /\ kind[t] \in {"COMPLETE", "OPENING"}
                  /\ at' = at
                  BY <2>4 DEF ApplyNoRow, Goto, IInv, Typing, TypeOK
            <3>2. Item(t)' = Item(t) /\ Delta(t)' = Delta(t)
                  BY <1>1, <3>1 DEF Item, Delta
            <3>3. QED
                  BY <3>1, <3>2 DEF Ahead
      <2>5. CASE NextNumber(t)
            <3>1. kind[t] \in {"CHECKOUT", "VOID"} => pc'[t] = "commit"
                  BY <2>5 DEF NextNumber, Goto, IInv, Typing, TypeOK
            <3>2. pc[t] = "number" /\ pc'[t] \in {"commit", "move"}
                  BY <2>5 DEF NextNumber, Goto, IInv, Typing, TypeOK
            <3>3. QED
                  BY <1>1, <3>1, <3>2 DEF Ahead
      <2>6. QED
            BY <2>1, <2>2, <2>3, <2>4, <2>5
<1>6. Balanced(t)'
      <2>1. \A i \in Items : Value(t, i)' = Value(t, i)
            BY <1>1 DEF Value
      <2>2. QED
            BY <1>1, <1>5, <2>1 DEF IInv, TxInv, Balanced
<1>7. Quiet(t)'
      <2>1. pc'[t] \in Active
            BY DEF ReceiveLock, ReadForUpdate, ReadAbsent, ApplyNoRow, NextNumber, Goto,
                   IInv, Typing, TypeOK, Active
      <2>2. QED
            BY <2>1 DEF Quiet
<1>8. CheckHolds(t)'
      <2> SUFFICES ASSUME kind[t] = "COMPLETE", pc'[t] \in {"move", "write", "insert"}
                   PROVE  /\ Value(t, Item(t))' + Delta(t)' >= 0
                          /\ Delta(t)' >= 0 \/ rowLock'[Item(t)'] = t
          BY <1>1 DEF CheckHolds
      <2>1. pc[t] # "lock" /\ pc[t] # "number"
            BY DEF IInv, Typing, PcOfKind
      <2>2. at' = at
            BY <2>1 DEF ReceiveLock, ReadForUpdate, ReadAbsent, ApplyNoRow, NextNumber
      <2>3. /\ Item(t)' = Item(t) /\ Delta(t)' = Delta(t)
            /\ \A i \in Items : Value(t, i)' = Value(t, i)
            BY <1>1, <2>2 DEF Item, Delta, Value
      <2>4. Item(t) \in Items /\ Delta(t) \in Int
            BY <1>2, CurrentLine DEF IInv, Typing
      <2>5. CASE ReadForUpdate(t)
            BY <2>3, <2>4, <2>5 DEF ReadForUpdate, IInv, Typing, TypeOK
      <2>6. CASE ReadAbsent(t)
            BY <2>3, <2>4, <2>6, ValueNonNegative DEF ReadAbsent
      <2>7. CASE ApplyNoRow(t)
            BY <1>3, <2>3, <2>4, <2>7 DEF ApplyNoRow, lockVars, IInv, TxInv, CheckHolds
      <2>8. QED
            BY <2>1, <2>5, <2>6, <2>7 DEF ReceiveLock, NextNumber
<1>9. QED
      BY <1>4, <1>6, <1>7, <1>8 DEF TxInv

\* Nothing of a transaction remains after its end.
LEMMA EndedInv ==
    ASSUME IInv, NEW t \in Txs, pc'[t] \in {"committed", "aborted"},
           wrote'[t] = {}, moves'[t] = [i \in Items |-> 0],
           \A i \in Items : qty'[i] \in Int
    PROVE  TxInv(t)'
<1>1. Owned(t)' /\ Quiet(t)' /\ DraftsNonNegative(t)' /\ CheckHolds(t)'
      BY DEF Owned, Quiet, DraftsNonNegative, CheckHolds, Active
<1>2. Balanced(t)'
      BY DEF Balanced, Value, Ahead
<1>3. QED
      BY <1>1, <1>2 DEF TxInv

\* Commit moves snapshot and ledger by the same amount.
LEMMA CommitKeepsLedger ==
    ASSUME IInv, NEW t \in Txs, Commit(t)
    PROVE  /\ NonNegativeStock'
           /\ LedgerMatchesSnapshot'
           /\ \A i \in Items : qty'[i] \in Nat
<1>1. /\ pc[t] = "commit"
      /\ qty' = [i \in Items |-> Value(t, i)]
      /\ ledger' = [i \in Items |-> ledger[i] + moves[t][i]]
      BY DEF Commit
<1>2. ASSUME NEW i \in Items
      PROVE  qty'[i] \in Nat /\ ledger'[i] = qty'[i]
      <2>1. Value(t, i) \in Nat
            BY ValueNonNegative
      <2>2. Value(t, i) - qty[i] = moves[t][i] + 0
            BY <1>1 DEF IInv, TxInv, Balanced, Ahead
      <2>3. ledger[i] = qty[i] /\ qty[i] \in Int /\ moves[t][i] \in Int
            BY DEF IInv, Typing, TypeOK, LedgerMatchesSnapshot
      <2>4. QED
            BY <1>1, <2>1, <2>2, <2>3
<1>3. QED
      BY <1>2 DEF NonNegativeStock, LedgerMatchesSnapshot

\* What a rollback does to the invariant, whoever caused it.
LEMMA RollbackInv ==
    ASSUME IInv, NEW t \in Txs, pc[t] # "idle", Rollback(t)
    PROVE  IInv'
<1>1. Typing'
      BY RollbackTyping DEF IInv
<1>2. /\ pc' = [pc EXCEPT ![t] = "aborted"]
      /\ draft' = [draft EXCEPT ![t] = [i \in Items |-> 0]]
      /\ wrote' = [wrote EXCEPT ![t] = {}]
      /\ moves' = [moves EXCEPT ![t] = [i \in Items |-> 0]]
      /\ ReleaseLocks(t)
      /\ qty' = qty /\ ledger' = ledger /\ kind' = kind /\ lines' = lines /\ at' = at
      BY DEF Rollback, Goto, dbVars
<1>3. NonNegativeStock' /\ LedgerMatchesSnapshot'
      BY <1>2 DEF IInv, NonNegativeStock, LedgerMatchesSnapshot
<1>4. \A i \in Items : qty'[i] \in Nat
      BY <1>2 DEF IInv, Typing, TypeOK, NonNegativeStock
<1>5. TxInv(t)'
      BY <1>2, <1>4, EndedInv DEF IInv, Typing, TypeOK
<1>6. ASSUME NEW u \in Txs, u # t PROVE TxInv(u)'
      <2>1. \A i \in Items : rowLock[i] = u => rowLock'[i] = u
            BY <1>2, <1>6, LocksOfOthers DEF IInv, Typing
      <2>2. /\ pc'[u] = pc[u] /\ kind'[u] = kind[u] /\ lines'[u] = lines[u] /\ at'[u] = at[u]
            /\ draft'[u] = draft[u] /\ wrote'[u] = wrote[u] /\ moves'[u] = moves[u]
            BY <1>2, <1>6 DEF IInv, Typing, TypeOK
      <2>3. QED
            BY <1>2, <1>4, <2>1, <2>2, Frame
<1>7. QED
      BY <1>1, <1>3, <1>5, <1>6 DEF IInv

LEMMA StepInv ==
    ASSUME IInv, NEW t \in Txs, Step(t)
    PROVE  IInv'
<1>1. Typing'
      BY StepTyping DEF IInv
<1>2. TypeOK /\ pc[t] \in Active /\ pc[t] # "idle"
      <2>1. pc[t] \in Active
            BY DEF Step, CheckoutTake, CheckoutShort, VoidReturn, SaleMovement, ReceiveLock,
                   ReceiveMovement, ReceiveUpsert, ReadForUpdate, ReadAbsent, AdjustmentShort,
                   AdjustmentMovement, OpeningMovement, OpeningTwice, ApplyUpdate, ApplyNoRow,
                   ApplyInsert, ApplyDuplicate, NextNumber, Commit, Active
      <2>2. QED
            BY <2>1 DEF IInv, Typing, Active
<1>3. CASE CheckoutShort(t) \/ AdjustmentShort(t) \/ OpeningTwice(t) \/ ApplyDuplicate(t)
      BY <1>2, <1>3, RollbackInv DEF CheckoutShort, AdjustmentShort, OpeningTwice, ApplyDuplicate
<1>4. CASE Commit(t)
      <2>1. NonNegativeStock' /\ LedgerMatchesSnapshot' /\ \A i \in Items : qty'[i] \in Nat
            BY <1>4, CommitKeepsLedger
      <2>2. pc'[t] = "committed" /\ wrote'[t] = {} /\ moves'[t] = [i \in Items |-> 0]
            BY <1>2, <1>4 DEF Commit, Goto, TypeOK
      <2>3. TxInv(t)'
            BY <2>1, <2>2, EndedInv
      <2>4. ASSUME NEW u \in Txs, u # t PROVE TxInv(u)'
            <3>1. \A i \in Items : rowLock[i] = u => rowLock'[i] = u
                  BY <1>2, <1>4, <2>4, LocksOfOthers DEF Commit
            <3>2. ASSUME NEW i \in Items, rowLock[i] = u PROVE qty'[i] = qty[i]
                  <4>1. i \notin wrote[t]
                        BY <2>4, <3>2 DEF IInv, TxInv, Owned
                  <4>2. QED
                        BY <1>4, <4>1 DEF Commit, Value
            <3>3. /\ pc'[u] = pc[u] /\ kind'[u] = kind[u] /\ lines'[u] = lines[u] /\ at'[u] = at[u]
                  /\ draft'[u] = draft[u] /\ wrote'[u] = wrote[u] /\ moves'[u] = moves[u]
                  BY <1>2, <1>4, <2>4, StepOfOne
            <3>4. QED
                  BY <2>1, <3>1, <3>2, <3>3, Frame
      <2>5. QED
            BY <1>1, <2>1, <2>3, <2>4 DEF IInv
<1>5. CASE ~(CheckoutShort(t) \/ AdjustmentShort(t) \/ OpeningTwice(t) \/ ApplyDuplicate(t) \/ Commit(t))
      <2>1. qty' = qty /\ ledger' = ledger
            BY <1>5 DEF Step, CheckoutTake, VoidReturn, SaleMovement, ReceiveLock, ReceiveMovement,
                        ReceiveUpsert, ReadForUpdate, ReadAbsent, AdjustmentMovement,
                        OpeningMovement, ApplyUpdate, ApplyNoRow, ApplyInsert, NextNumber, dbVars
      <2>2. NonNegativeStock' /\ LedgerMatchesSnapshot'
            BY <2>1 DEF IInv, NonNegativeStock, LedgerMatchesSnapshot
      <2>3. \A i \in Items : qty'[i] \in Nat
            BY <2>1 DEF IInv, Typing, TypeOK, NonNegativeStock
      <2>4. TxInv(t)'
            BY <1>5, SaleWrite, SaleCatchesUp, MovementFirst, WriteCatchesUp, LocalStep DEF Step
      <2>5. ASSUME NEW u \in Txs, u # t PROVE TxInv(u)'
            <3>1. /\ pc'[u] = pc[u] /\ kind'[u] = kind[u] /\ lines'[u] = lines[u] /\ at'[u] = at[u]
                  /\ draft'[u] = draft[u] /\ wrote'[u] = wrote[u] /\ moves'[u] = moves[u]
                  /\ \/ rowLock' = rowLock
                     \/ CanLock(t, Item(t)) /\ rowLock' = [rowLock EXCEPT ![Item(t)] = t]
                     \/ ReleaseLocks(t)
                  BY <1>2, <2>5, StepOfOne
            <3>2. \A i \in Items : rowLock[i] = u => rowLock'[i] = u
                  BY <1>2, <2>5, <3>1, LocksOfOthers
            <3>3. QED
                  BY <2>1, <2>3, <3>1, <3>2, Frame
      <2>6. QED
            BY <1>1, <2>2, <2>4, <2>5 DEF IInv
<1>6. QED
      BY <1>3, <1>4, <1>5

LEMMA SubmitInv ==
    ASSUME IInv, NEW t \in Txs, Submit(t)
    PROVE  IInv'
<1>1. Typing'
      BY SubmitTyping DEF IInv
<1>2. /\ pc[t] = "idle" /\ pc'[t] \in {"lock", "number", "line"}
      /\ \A u \in Txs \ {t} : kind'[u] = kind[u] /\ lines'[u] = lines[u] /\ pc'[u] = pc[u]
      /\ UNCHANGED <<dbVars, lockVars, at, draft, wrote, moves, number>>
      BY DEF Submit, Goto, FirstStep, IInv, Typing, TypeOK
<1>3. NonNegativeStock' /\ LedgerMatchesSnapshot' /\ \A i \in Items : qty'[i] \in Nat
      BY <1>2 DEF dbVars, IInv, Typing, TypeOK, NonNegativeStock, LedgerMatchesSnapshot
<1>4. TxInv(t)'
      <2>1. TxInv(t) /\ wrote[t] = {}
            BY <1>2 DEF IInv, TxInv, Quiet, Active
      <2>2. Owned(t)' /\ Quiet(t)' /\ DraftsNonNegative(t)' /\ CheckHolds(t)'
            BY <1>2, <2>1 DEF Owned, Quiet, DraftsNonNegative, CheckHolds
      <2>3. \A i \in Items : Ahead(t, i) = 0 /\ Ahead(t, i)' = 0
            BY <1>2 DEF Ahead
      <2>4. \A i \in Items : Value(t, i)' = Value(t, i)
            BY <1>2 DEF Value, dbVars
      <2>5. Balanced(t)'
            BY <1>2, <2>1, <2>3, <2>4 DEF TxInv, Balanced, dbVars
      <2>6. QED
            BY <2>2, <2>5 DEF TxInv
<1>5. ASSUME NEW u \in Txs, u # t PROVE TxInv(u)'
      BY <1>2, <1>3, <1>5, Frame DEF dbVars, lockVars
<1>6. QED
      BY <1>1, <1>3, <1>4, <1>5 DEF IInv

LEMMA InitInv == Init => IInv
<1> SUFFICES ASSUME Init PROVE IInv
    OBVIOUS
<1>1. Typing
      BY InitTyping
<1>2. NonNegativeStock /\ LedgerMatchesSnapshot
      BY StockTxAssumption DEF Init, NonNegativeStock, LedgerMatchesSnapshot
<1>3. ASSUME NEW t \in Txs PROVE TxInv(t)
      <2>1. /\ pc[t] = "idle" /\ wrote[t] = {} /\ kind[t] = "none"
            /\ moves[t] = [i \in Items |-> 0]
            BY DEF Init
      <2>2. Balanced(t)
            <3>1. \A i \in Items : Ahead(t, i) = 0 /\ moves[t][i] = 0
                  BY <2>1 DEF Ahead
            <3>2. \A i \in Items : Value(t, i) = qty[i] /\ qty[i] \in Int
                  BY <1>1, <2>1 DEF Value, Typing, TypeOK
            <3>3. ASSUME NEW i \in Items PROVE Value(t, i) - qty[i] = moves[t][i] + Ahead(t, i)
                  <4>1. Value(t, i) - qty[i] = 0
                        BY <3>2
                  <4>2. QED
                        BY <3>1, <4>1
            <3>4. QED
                  BY <3>3 DEF Balanced
      <2>3. QED
            BY <2>1, <2>2 DEF TxInv, Owned, Quiet, DraftsNonNegative, CheckHolds
<1>4. QED
      BY <1>1, <1>2, <1>3 DEF IInv

LEMMA NextInv == IInv /\ [Next]_vars => IInv'
<1> SUFFICES ASSUME IInv, [Next]_vars PROVE IInv'
    OBVIOUS
<1>1. CASE UNCHANGED vars
      <2>1. Typing'
            BY <1>1, StutterTyping DEF IInv
      <2>2. NonNegativeStock' /\ LedgerMatchesSnapshot' /\ \A i \in Items : qty'[i] \in Nat
            BY <1>1 DEF vars, dbVars, IInv, Typing, TypeOK, NonNegativeStock, LedgerMatchesSnapshot
      <2>3. ASSUME NEW t \in Txs PROVE TxInv(t)'
            BY <1>1, <2>2, Frame DEF vars, dbVars, lockVars
      <2>4. QED
            BY <2>1, <2>2, <2>3 DEF IInv
<1>2. ASSUME NEW t \in Txs, Submit(t) PROVE IInv'
      BY <1>2, SubmitInv
<1>3. ASSUME NEW t \in Txs, Step(t) PROVE IInv'
      BY <1>3, StepInv
<1>4. ASSUME NEW t \in Txs, Cancel(t) \/ DeadlockVictim(t) PROVE IInv'
      <2>1. Rollback(t) /\ pc[t] # "idle"
            BY <1>4 DEF Cancel, DeadlockVictim, InCycle, Circle, WaitsFor, Active
      <2>2. QED
            BY <2>1, RollbackInv
<1>5. QED
      BY <1>1, <1>2, <1>3, <1>4 DEF Next

\* Locks, drafts and movements agree after every statement and every rollback.
THEOREM Invariance == Spec => []IInv
BY InitInv, NextInv, PTL DEF Spec

\* Whatever interleaves, no committed quantity is ever negative.
THEOREM StockSafe == Spec => []NonNegativeStock
<1>1. IInv => NonNegativeStock
      BY DEF IInv
<1>2. QED
      BY <1>1, Invariance, PTL

\* Whatever interleaves, fails or deadlocks, ledger and snapshot agree.
THEOREM LedgerSafe == Spec => []LedgerMatchesSnapshot
<1>1. IInv => LedgerMatchesSnapshot
      BY DEF IInv
<1>2. QED
      BY <1>1, Invariance, PTL

\* The check of an adjustment line is still true when the line is applied.
THEOREM CheckSafe == Spec => []CheckStaysTrue
<1>1. IInv => CheckStaysTrue
      BY DEF IInv, TxInv, CheckHolds, CheckStaysTrue
<1>2. QED
      BY <1>1, Invariance, PTL

------------------------------------------------------------------------------
(* Document numbers and waiting sales *)

IsSale(t) == kind[t] \in {"CHECKOUT", "VOID"}

\* From NextNumber to its end a transaction has a number that is not in the
\* committed row of its sequence yet.
HasNumber(t) ==
    \/ pc[t] = "commit" /\ kind[t] # "COMPLETE"
    \/ pc[t] \in {"move", "write", "insert"} /\ kind[t] \in {"RECEIVE", "OPENING"}

\* The rows a sale has locked are those of the lines it has come to; nobody
\* but a receipt locks products FOR UPDATE.
RowsHeld(t) ==
    \A i \in Items :
        /\ rowLock[i] = t =>
              /\ pc[t] \in Active
              /\ IsSale(t) => \E n \in 1..at[t] : lines[t][n].item = i
        /\ keyUpdate[i] = t => pc[t] \in Active /\ kind[t] = "RECEIVE"

\* Who holds a sequence has its next number, and a sale that does has nothing
\* left but to commit.
NumberHeld(t) ==
    /\ \A s \in SequenceTypes : seqLock[s] = t =>
          /\ pc[t] \in Active
          /\ SequenceOf(kind[t]) = s
          /\ number[t] = last[s] + 1
          /\ IsSale(t) => pc[t] = "commit"
    /\ HasNumber(t) => seqLock[SequenceOf(kind[t])] = t

HeldInv == Typing /\ NumbersAreGapFree /\ \A t \in Txs : RowsHeld(t) /\ NumberHeld(t)

\* The transactions whose numbers are in use.
Ended(s) == {t \in Txs : pc[t] = "committed" /\ SequenceOf(kind[t]) = s}

GapFree(s) ==
    /\ {number[t] : t \in Ended(s)} = 1..last[s]
    /\ \A t, u \in Ended(s) : t # u => number[t] # number[u]

LEMMA GapFreeSequences == NumbersAreGapFree <=> \A s \in SequenceTypes : GapFree(s)
BY DEF NumbersAreGapFree, GapFree, Ended

\* Without an end of a transaction that has a number nothing changes.
LEMMA SameNumbers ==
    ASSUME NEW s \in SequenceTypes, GapFree(s), last'[s] = last[s],
           Ended(s)' = Ended(s), \A t \in Ended(s) : number'[t] = number[t]
    PROVE  GapFree(s)'
<1>1. {number'[t] : t \in Ended(s)'} = {number[t] : t \in Ended(s)}
      OBVIOUS
<1>2. QED
      BY <1>1 DEF GapFree

\* A transaction is not disturbed by a step that leaves it its locks.
LEMMA HeldFrame ==
    ASSUME Typing, NEW u \in Txs, RowsHeld(u), NumberHeld(u),
           pc'[u] = pc[u], kind'[u] = kind[u], lines'[u] = lines[u], at'[u] = at[u],
           number'[u] = number[u],
           \A i \in Items : /\ rowLock'[i] = u => rowLock[i] = u
                            /\ keyUpdate'[i] = u => keyUpdate[i] = u,
           \A s \in SequenceTypes : /\ seqLock'[s] = u <=> seqLock[s] = u
                                    /\ seqLock[s] = u => last'[s] = last[s]
    PROVE  RowsHeld(u)' /\ NumberHeld(u)'
<1>1. RowsHeld(u)'
      BY DEF RowsHeld, IsSale
<1>2. HasNumber(u) => SequenceOf(kind[u]) \in SequenceTypes
      <2> SUFFICES ASSUME HasNumber(u) PROVE SequenceOf(kind[u]) \in SequenceTypes
          OBVIOUS
      <2>1. pc[u] # "idle" /\ kind[u] # "COMPLETE"
            BY DEF HasNumber
      <2>2. kind[u] \in AllKinds
            BY <2>1, CurrentLine DEF Typing
      <2>3. QED
            BY <2>1, <2>2, SequenceOfKind
<1>3. NumberHeld(u)'
      BY <1>2 DEF NumberHeld, HasNumber, IsSale
<1>4. QED
      BY <1>1, <1>3

\* What the statements between the first and nextNumber have in common.
LEMMA PlainStep ==
    ASSUME Typing, NEW t \in Txs, Step(t), ~Rollback(t), ~NextNumber(t), ~Commit(t)
    PROVE  /\ UNCHANGED <<last, seqLock, kind, lines, number>>
           /\ pc[t] \in Active \ {"commit"} /\ pc'[t] \in Active
           /\ \A u \in Txs \ {t} : pc'[u] = pc[u] /\ at'[u] = at[u]
           /\ HasNumber(t)' => HasNumber(t)
           /\ IsSale(t) => at'[t] \in Nat /\ at[t] <= at'[t]
           /\ \/ rowLock' = rowLock
              \/ CanLock(t, Item(t)) /\ rowLock' = [rowLock EXCEPT ![Item(t)] = t]
           /\ \/ keyUpdate' = keyUpdate
              \/ kind[t] = "RECEIVE" /\ keyUpdate' = [keyUpdate EXCEPT ![Item(t)] = t]
<1> USE DEF Typing, TypeOK, PcOfKind, Goto, WriteRow, InsertMovement, NextLine, LineStep, LastStep,
            HasNumber, IsSale, Active, dbVars, lockVars
<1>1. CASE CheckoutTake(t) BY <1>1 DEF CheckoutTake
<1>2. CASE VoidReturn(t) BY <1>2 DEF VoidReturn
<1>3. CASE SaleMovement(t)
      <2>1. at \in [Txs -> Nat \ {0}] /\ pc \in [Txs -> Active \cup {"idle", "committed", "aborted"}]
            OBVIOUS
      <2>2. \/ at' = at /\ pc' = [pc EXCEPT ![t] = "number"]
            \/ at' = [at EXCEPT ![t] = at[t] + 1] /\ pc' = [pc EXCEPT ![t] = "line"]
            BY <1>3 DEF SaleMovement
      <2>3. /\ pc[t] \in Active \ {"commit"} /\ pc'[t] \in {"number", "line"}
            /\ \A u \in Txs \ {t} : pc'[u] = pc[u] /\ at'[u] = at[u]
            BY <1>3, <2>1, <2>2 DEF SaleMovement
      <2>4. at'[t] \in Nat /\ at[t] <= at'[t]
            BY <2>1, <2>2
      <2>5. UNCHANGED <<last, seqLock, kind, lines, number, rowLock, keyUpdate>>
            BY <1>3 DEF SaleMovement
      <2>6. QED
            BY <2>3, <2>4, <2>5
<1>4. CASE ReceiveLock(t) BY <1>4 DEF ReceiveLock
<1>5. CASE ReceiveMovement(t) BY <1>5 DEF ReceiveMovement
<1>6. CASE ReceiveUpsert(t) BY <1>6 DEF ReceiveUpsert
<1>7. CASE ReadForUpdate(t) BY <1>7 DEF ReadForUpdate
<1>8. CASE ReadAbsent(t) BY <1>8 DEF ReadAbsent
<1>9. CASE AdjustmentMovement(t) BY <1>9 DEF AdjustmentMovement
<1>10. CASE OpeningMovement(t) BY <1>10 DEF OpeningMovement
<1>11. CASE ApplyUpdate(t) BY <1>11 DEF ApplyUpdate
<1>12. CASE ApplyNoRow(t) BY <1>12 DEF ApplyNoRow
<1>13. CASE ApplyInsert(t) BY <1>13 DEF ApplyInsert
<1>14. QED
      BY <1>1, <1>2, <1>3, <1>4, <1>5, <1>6, <1>7, <1>8, <1>9, <1>10, <1>11, <1>12, <1>13
      DEF Step, CheckoutShort, AdjustmentShort, OpeningTwice, ApplyDuplicate

LEMMA PlainStepHeld ==
    ASSUME HeldInv, NEW t \in Txs, Step(t), ~Rollback(t), ~NextNumber(t), ~Commit(t)
    PROVE  HeldInv'
<1>1. /\ UNCHANGED <<last, seqLock, kind, lines, number>>
      /\ pc[t] \in Active \ {"commit"} /\ pc'[t] \in Active
      /\ \A u \in Txs \ {t} : pc'[u] = pc[u] /\ at'[u] = at[u]
      /\ HasNumber(t)' => HasNumber(t)
      /\ IsSale(t) => at'[t] \in Nat /\ at[t] <= at'[t]
      /\ \/ rowLock' = rowLock
         \/ CanLock(t, Item(t)) /\ rowLock' = [rowLock EXCEPT ![Item(t)] = t]
      /\ \/ keyUpdate' = keyUpdate
         \/ kind[t] = "RECEIVE" /\ keyUpdate' = [keyUpdate EXCEPT ![Item(t)] = t]
      BY PlainStep DEF HeldInv
<1>2. Typing'
      BY StepTyping DEF HeldInv
<1>3. pc[t] # "idle" /\ pc[t] # "committed" /\ pc'[t] # "committed"
      BY <1>1 DEF Active
<1>4. /\ Item(t) \in Items
      /\ at[t] \in Nat \ {0}
      /\ rowLock \in [Items -> Txs \cup {None}]
      /\ keyUpdate \in [Items -> Txs \cup {None}]
      BY <1>3, CurrentLine DEF HeldInv, Typing, TypeOK
<1>5. NumbersAreGapFree'
      <2>1. ASSUME NEW s \in SequenceTypes PROVE GapFree(s)'
            <3>1. Ended(s)' = Ended(s)
                  BY <1>1, <1>3 DEF Ended
            <3>2. QED
                  BY <1>1, <3>1, SameNumbers, GapFreeSequences DEF HeldInv
      <2>2. QED
            BY <2>1 DEF NumbersAreGapFree, GapFree, Ended
<1>6. RowsHeld(t)'
      <2>1. ASSUME NEW i \in Items, rowLock'[i] = t, IsSale(t)
            PROVE  \E n \in 1..at[t] : lines[t][n].item = i
            <3>1. CASE rowLock[i] = t
                  BY <2>1, <3>1 DEF HeldInv, RowsHeld
            <3>2. CASE rowLock[i] # t
                  <4>1. i = Item(t)
                        BY <1>1, <1>4, <2>1, <3>2
                  <4>2. at[t] \in 1..at[t]
                        BY <1>4
                  <4>3. QED
                        BY <4>1, <4>2 DEF Item
            <3>3. QED
                  BY <3>1, <3>2
      <2>2. ASSUME NEW i \in Items, rowLock'[i] = t, IsSale(t)'
            PROVE  \E n \in 1..at'[t] : lines'[t][n].item = i
            <3>1. IsSale(t)
                  BY <1>1, <2>2 DEF IsSale
            <3>2. PICK n \in 1..at[t] : lines[t][n].item = i
                  BY <2>1, <2>2, <3>1
            <3>3. n \in 1..at'[t]
                  BY <1>1, <1>4, <3>1
            <3>4. QED
                  BY <1>1, <3>2, <3>3
      <2>3. ASSUME NEW i \in Items, keyUpdate'[i] = t PROVE kind'[t] = "RECEIVE"
            BY <1>1, <1>4, <2>3 DEF HeldInv, RowsHeld
      <2>4. QED
            BY <1>1, <2>2, <2>3 DEF RowsHeld
<1>7. NumberHeld(t)'
      <2>1. NumberHeld(t)
            BY DEF HeldInv
      <2>2. QED
            BY <1>1, <2>1 DEF NumberHeld, IsSale
<1>8. ASSUME NEW u \in Txs, u # t PROVE RowsHeld(u)' /\ NumberHeld(u)'
      <2>1. \A i \in Items : /\ rowLock'[i] = u => rowLock[i] = u
                             /\ keyUpdate'[i] = u => keyUpdate[i] = u
            BY <1>1, <1>4, <1>8
      <2>2. QED
            BY <1>1, <1>8, <2>1, HeldFrame DEF HeldInv
<1>9. QED
      BY <1>2, <1>5, <1>6, <1>7, <1>8 DEF HeldInv

LEMMA NextNumberHeld ==
    ASSUME HeldInv, NEW t \in Txs, NextNumber(t)
    PROVE  HeldInv'
<1> DEFINE s0 == SequenceOf(kind[t])
<1>1. /\ pc[t] = "number" /\ kind[t] \in AllKinds /\ kind[t] # "COMPLETE"
      BY CurrentLine DEF NextNumber, HeldInv, Typing, PcOfKind
<1>2. s0 \in SequenceTypes
      BY <1>1, SequenceOfKind
<1>3. /\ seqLock[s0] = None
      /\ seqLock' = [seqLock EXCEPT ![s0] = t]
      /\ number' = [number EXCEPT ![t] = last[s0] + 1]
      /\ pc' = [pc EXCEPT ![t] = IF IsSale(t) THEN "commit" ELSE "move"]
      /\ UNCHANGED <<last, rowLock, keyUpdate, kind, lines, at>>
      BY DEF NextNumber, Goto, IsSale, dbVars
<1>4. /\ pc \in [Txs -> Active \cup {"idle", "committed", "aborted"}]
      /\ number \in [Txs -> Nat]
      /\ seqLock \in [SequenceTypes -> Txs \cup {None}]
      /\ \A u \in Txs : u # None
      BY StockTxAssumption DEF HeldInv, Typing, TypeOK
<1>5. pc'[t] \in {"commit", "move"} /\ number'[t] = last[s0] + 1
      BY <1>3, <1>4
<1>6. Typing'
      BY StepTyping DEF Step, HeldInv
<1>7. NumbersAreGapFree'
      <2>1. ASSUME NEW s \in SequenceTypes PROVE GapFree(s)'
            <3>1. Ended(s)' = Ended(s) /\ t \notin Ended(s)
                  BY <1>1, <1>3, <1>4 DEF Ended
            <3>2. \A u \in Ended(s) : number'[u] = number[u]
                  BY <1>3, <1>4, <3>1 DEF Ended
            <3>3. GapFree(s) /\ last'[s] = last[s]
                  BY <1>3, GapFreeSequences DEF HeldInv
            <3>4. QED
                  BY <3>1, <3>2, <3>3, SameNumbers
      <2>2. QED
            BY <2>1 DEF NumbersAreGapFree, GapFree, Ended
<1>8. RowsHeld(t)'
      BY <1>3, <1>5 DEF HeldInv, RowsHeld, IsSale, Active
<1>9. NumberHeld(t)'
      <2>1. \A s \in SequenceTypes : seqLock[s] # t
            BY <1>3, <1>4 DEF HeldInv, NumberHeld
      <2>2. QED
            BY <1>2, <1>3, <1>4, <1>5, <2>1 DEF NumberHeld, IsSale, Active
<1>10. ASSUME NEW u \in Txs, u # t PROVE RowsHeld(u)' /\ NumberHeld(u)'
      <2>1. /\ pc'[u] = pc[u] /\ number'[u] = number[u]
            /\ \A s \in SequenceTypes : seqLock'[s] = u <=> seqLock[s] = u
            BY <1>2, <1>3, <1>4, <1>10
      <2>2. RowsHeld(u) /\ NumberHeld(u) /\ Typing
            BY DEF HeldInv
      <2>3. QED
            BY <1>3, <1>10, <2>1, <2>2, HeldFrame
<1>11. QED
      BY <1>6, <1>7, <1>8, <1>9, <1>10 DEF HeldInv

\* The end of a transaction frees its locks and nothing else.
LEMMA Released ==
    ASSUME Typing, NEW t \in Txs, ReleaseLocks(t)
    PROVE  \A u \in Txs :
              /\ \A i \in Items : /\ rowLock'[i] = u <=> u # t /\ rowLock[i] = u
                                  /\ keyUpdate'[i] = u <=> u # t /\ keyUpdate[i] = u
              /\ \A s \in SequenceTypes : seqLock'[s] = u <=> u # t /\ seqLock[s] = u
<1>1. \A u \in Txs : u # None
      BY StockTxAssumption
<1>2. QED
      BY <1>1 DEF ReleaseLocks

LEMMA RollbackHeld ==
    ASSUME HeldInv, NEW t \in Txs, Rollback(t), pc[t] \in Active
    PROVE  HeldInv'
<1>1. /\ pc' = [pc EXCEPT ![t] = "aborted"]
      /\ number' = [number EXCEPT ![t] = 0]
      /\ ReleaseLocks(t)
      /\ UNCHANGED <<last, kind, lines, at>>
      BY DEF Rollback, Goto, dbVars
<1>2. /\ pc \in [Txs -> Active \cup {"idle", "committed", "aborted"}]
      /\ number \in [Txs -> Nat]
      BY DEF HeldInv, Typing, TypeOK
<1>3. pc[t] # "idle" /\ pc[t] # "committed" /\ pc'[t] = "aborted"
      BY <1>1, <1>2 DEF Active
<1>4. Typing'
      BY <1>3, RollbackTyping DEF HeldInv
<1>5. NumbersAreGapFree'
      <2>1. ASSUME NEW s \in SequenceTypes PROVE GapFree(s)'
            <3>1. Ended(s)' = Ended(s) /\ t \notin Ended(s)
                  BY <1>1, <1>2, <1>3 DEF Ended
            <3>2. \A u \in Ended(s) : number'[u] = number[u]
                  BY <1>1, <1>2, <3>1 DEF Ended
            <3>3. GapFree(s) /\ last'[s] = last[s]
                  BY <1>1, GapFreeSequences DEF HeldInv
            <3>4. QED
                  BY <3>1, <3>2, <3>3, SameNumbers
      <2>2. QED
            BY <2>1 DEF NumbersAreGapFree, GapFree, Ended
<1>6. RowsHeld(t)' /\ NumberHeld(t)'
      BY <1>1, <1>3, Released DEF HeldInv, RowsHeld, NumberHeld, HasNumber
<1>7. ASSUME NEW u \in Txs, u # t PROVE RowsHeld(u)' /\ NumberHeld(u)'
      <2>1. /\ pc'[u] = pc[u] /\ number'[u] = number[u]
            BY <1>1, <1>2, <1>7
      <2>2. RowsHeld(u) /\ NumberHeld(u) /\ Typing
            BY DEF HeldInv
      <2>3. QED
            BY <1>1, <1>7, <2>1, <2>2, Released, HeldFrame
<1>8. QED
      BY <1>4, <1>5, <1>6, <1>7 DEF HeldInv

\* The number of the transaction that commits is the next one.
LEMMA CommitNumbers ==
    ASSUME HeldInv, NEW t \in Txs, Commit(t), NEW s \in SequenceTypes
    PROVE  GapFree(s)'
<1>1. /\ pc[t] = "commit"
      /\ pc' = [pc EXCEPT ![t] = "committed"]
      /\ last' = [r \in SequenceTypes |-> IF seqLock[r] = t THEN number[t] ELSE last[r]]
      /\ UNCHANGED <<kind, number>>
      BY DEF Commit, Goto
<1>2. /\ pc \in [Txs -> Active \cup {"idle", "committed", "aborted"}]
      /\ last \in [SequenceTypes -> Nat]
      /\ kind[t] \in AllKinds
      BY <1>1, CurrentLine DEF HeldInv, Typing, TypeOK
<1>3. GapFree(s) /\ NumberHeld(t)
      BY GapFreeSequences DEF HeldInv
<1>4. CASE SequenceOf(kind[t]) = s
      <2>1. kind[t] # "COMPLETE"
            BY <1>4 DEF SequenceOf, SequenceTypes
      <2>2. seqLock[s] = t
            BY <1>1, <1>3, <1>4, <2>1 DEF NumberHeld, HasNumber
      <2>3. number[t] = last[s] + 1 /\ last'[s] = last[s] + 1
            BY <1>1, <1>3, <2>2 DEF NumberHeld
      <2>4. Ended(s)' = Ended(s) \cup {t} /\ t \notin Ended(s)
            BY <1>1, <1>2, <1>4 DEF Ended
      <2>5. {number[u] : u \in Ended(s)} = 1..last[s] /\ last[s] \in Nat
            BY <1>2, <1>3 DEF GapFree
      <2>6. \A u \in Ended(s) : number[u] # number[t]
            BY <2>3, <2>5
      <2>7. {number[u] : u \in Ended(s) \cup {t}} = 1..(last[s] + 1)
            <3>1. {number[u] : u \in Ended(s) \cup {t}} = {number[u] : u \in Ended(s)} \cup {number[t]}
                  OBVIOUS
            <3>2. 1..(last[s] + 1) = 1..last[s] \cup {last[s] + 1}
                  BY <2>5
            <3>3. QED
                  BY <2>3, <2>5, <3>1, <3>2
      <2>8. {number'[u] : u \in Ended(s)'} = 1..last'[s]
            BY <1>1, <2>3, <2>4, <2>7
      <2>9. \A u, v \in Ended(s)' : u # v => number'[u] # number'[v]
            BY <1>1, <1>3, <2>4, <2>6 DEF GapFree
      <2>10. QED
            BY <2>8, <2>9 DEF GapFree
<1>5. CASE SequenceOf(kind[t]) # s
      <2>1. seqLock[s] # t
            BY <1>3, <1>5 DEF NumberHeld
      <2>2. last'[s] = last[s] /\ Ended(s)' = Ended(s)
            BY <1>1, <1>2, <1>5, <2>1 DEF Ended
      <2>3. QED
            BY <1>1, <1>3, <2>2, SameNumbers
<1>6. QED
      BY <1>4, <1>5

LEMMA CommitHeld ==
    ASSUME HeldInv, NEW t \in Txs, Commit(t)
    PROVE  HeldInv'
<1>1. /\ pc[t] = "commit"
      /\ pc' = [pc EXCEPT ![t] = "committed"]
      /\ last' = [s \in SequenceTypes |-> IF seqLock[s] = t THEN number[t] ELSE last[s]]
      /\ ReleaseLocks(t)
      /\ UNCHANGED <<kind, lines, at, number>>
      BY DEF Commit, Goto
<1>2. pc'[t] = "committed" /\ \A u \in Txs \ {t} : pc'[u] = pc[u]
      BY <1>1 DEF HeldInv, Typing, TypeOK
<1>3. Typing'
      BY StepTyping DEF Step, HeldInv
<1>4. NumbersAreGapFree'
      BY CommitNumbers DEF NumbersAreGapFree, GapFree, Ended
<1>5. RowsHeld(t)' /\ NumberHeld(t)'
      BY <1>1, <1>2, Released DEF HeldInv, RowsHeld, NumberHeld, HasNumber
<1>6. ASSUME NEW u \in Txs, u # t PROVE RowsHeld(u)' /\ NumberHeld(u)'
      <2>1. RowsHeld(u) /\ NumberHeld(u) /\ Typing
            BY DEF HeldInv
      <2>2. \A s \in SequenceTypes : seqLock[s] = u => last'[s] = last[s]
            BY <1>1, <1>6
      <2>3. QED
            BY <1>1, <1>2, <1>6, <2>1, <2>2, Released, HeldFrame DEF HeldInv
<1>7. QED
      BY <1>3, <1>4, <1>5, <1>6 DEF HeldInv

LEMMA SubmitHeld ==
    ASSUME HeldInv, NEW t \in Txs, Submit(t)
    PROVE  HeldInv'
<1>1. /\ pc[t] = "idle" /\ pc'[t] \in {"lock", "number", "line"}
      /\ \A u \in Txs \ {t} : kind'[u] = kind[u] /\ lines'[u] = lines[u] /\ pc'[u] = pc[u]
      /\ UNCHANGED <<last, rowLock, keyUpdate, seqLock, at, number>>
      BY DEF Submit, Goto, FirstStep, HeldInv, Typing, TypeOK, dbVars, lockVars
<1>2. Typing'
      BY SubmitTyping DEF HeldInv
<1>3. NumbersAreGapFree'
      <2>1. ASSUME NEW s \in SequenceTypes PROVE GapFree(s)'
            <3>1. Ended(s)' = Ended(s)
                  BY <1>1 DEF Ended
            <3>2. QED
                  BY <1>1, <3>1, SameNumbers, GapFreeSequences DEF HeldInv
      <2>2. QED
            BY <2>1 DEF NumbersAreGapFree, GapFree, Ended
<1>4. RowsHeld(t)' /\ NumberHeld(t)'
      BY <1>1 DEF HeldInv, RowsHeld, NumberHeld, HasNumber, Active
<1>5. ASSUME NEW u \in Txs, u # t PROVE RowsHeld(u)' /\ NumberHeld(u)'
      BY <1>1, <1>5, HeldFrame DEF HeldInv
<1>6. QED
      BY <1>2, <1>3, <1>4, <1>5 DEF HeldInv

LEMMA InitHeld == Init => HeldInv
<1> SUFFICES ASSUME Init PROVE HeldInv
    OBVIOUS
<1>1. Typing
      BY InitTyping
<1>2. NumbersAreGapFree
      <2>1. \A s \in SequenceTypes : last[s] = 0 /\ Ended(s) = {}
            BY DEF Init, Ended
      <2>2. \A s \in SequenceTypes : GapFree(s)
            BY <2>1 DEF GapFree
      <2>3. QED
            BY <2>2, GapFreeSequences
<1>3. \A t \in Txs : RowsHeld(t) /\ NumberHeld(t)
      BY StockTxAssumption DEF Init, RowsHeld, NumberHeld, HasNumber
<1>4. QED
      BY <1>1, <1>2, <1>3 DEF HeldInv

LEMMA StepActive ==
    ASSUME NEW t \in Txs, Step(t)
    PROVE  pc[t] \in Active
BY DEF Step, CheckoutTake, CheckoutShort, VoidReturn, SaleMovement, ReceiveLock,
       ReceiveMovement, ReceiveUpsert, ReadForUpdate, ReadAbsent, AdjustmentShort,
       AdjustmentMovement, OpeningMovement, OpeningTwice, ApplyUpdate, ApplyNoRow,
       ApplyInsert, ApplyDuplicate, NextNumber, Commit, Active

\* Locks and numbers go together after every statement and every rollback.
THEOREM Holding == Spec => []HeldInv
<1>1. HeldInv /\ [Next]_vars => HeldInv'
      <2> SUFFICES ASSUME HeldInv, [Next]_vars PROVE HeldInv'
          OBVIOUS
      <2>1. CASE UNCHANGED vars
            <3>1. Typing'
                  BY <2>1, StutterTyping DEF HeldInv
            <3>2. NumbersAreGapFree' /\ \A t \in Txs : RowsHeld(t)' /\ NumberHeld(t)'
                  BY <2>1 DEF vars, dbVars, lockVars, HeldInv, NumbersAreGapFree, RowsHeld, NumberHeld,
                              HasNumber, IsSale
            <3>3. QED
                  BY <3>1, <3>2 DEF HeldInv
      <2>2. ASSUME NEW t \in Txs, Submit(t) PROVE HeldInv'
            BY <2>2, SubmitHeld
      <2>3. ASSUME NEW t \in Txs, Step(t) PROVE HeldInv'
            <3>1. Typing /\ pc[t] \in Active
                  BY <2>3, StepActive DEF HeldInv
            <3>2. QED
                  BY <2>3, <3>1, PlainStepHeld, NextNumberHeld, CommitHeld, RollbackHeld
      <2>4. ASSUME NEW t \in Txs, Cancel(t) \/ DeadlockVictim(t) PROVE HeldInv'
            <3>1. Rollback(t) /\ pc[t] \in Active
                  BY <2>4 DEF Cancel, DeadlockVictim, InCycle, Circle, WaitsFor
            <3>2. QED
                  BY <3>1, RollbackHeld
      <2>5. QED
            BY <2>1, <2>2, <2>3, <2>4 DEF Next
<1>2. QED
      BY <1>1, InitHeld, PTL DEF Spec

\* Whatever interleaves, fails or deadlocks, numbers are given without gaps
\* and without duplicates.
THEOREM NumbersSafe == Spec => []NumbersAreGapFree
<1>1. HeldInv => NumbersAreGapFree
      BY DEF HeldInv
<1>2. QED
      BY <1>1, Holding, PTL

\* A sale that waits for a waiting sale waits for the row of its line: numbers
\* are taken last, and no sale locks products FOR UPDATE.
LEMMA SaleWaitsForRow ==
    ASSUME HeldInv, NEW t \in Txs, NEW u \in Txs, NEW v \in Txs,
           IsSale(t), IsSale(u), WaitsFor(t, u), WaitsFor(u, v)
    PROVE  pc[t] = "line" /\ rowLock[Item(t)] = u /\ u # t /\ Item(t) \in Items
<1>1. u # t /\ pc[t] \in Active /\ pc[t] # "idle" /\ pc[u] # "commit"
      BY DEF WaitsFor, WaitsForRow, WaitsForKey, WaitsForNumber, Active
<1>2. Item(t) \in Items /\ kind[t] \in AllKinds
      BY <1>1, CurrentLine DEF HeldInv, Typing
<1>3. pc[t] \notin {"lock", "write", "insert"}
      BY DEF HeldInv, Typing, PcOfKind, IsSale
<1>4. ~WaitsForKey(t, u)
      BY <1>2, <1>3 DEF WaitsForKey, HeldInv, RowsHeld, IsSale
<1>5. ~WaitsForNumber(t, u)
      <2> SUFFICES ASSUME pc[t] = "number", seqLock[SequenceOf(kind[t])] = u PROVE FALSE
          BY DEF WaitsForNumber
      <2>1. SequenceOf(kind[t]) \in SequenceTypes
            BY <1>2, SequenceOfKind DEF IsSale
      <2>2. QED
            BY <1>1, <2>1 DEF HeldInv, NumberHeld
<1>6. QED
      BY <1>1, <1>2, <1>3, <1>4, <1>5 DEF WaitsFor, WaitsForRow

\* Along a chain of waiting sales the products only go up.
LEMMA WaitsForHigher ==
    ASSUME HeldInv, NEW t \in Txs, NEW u \in Txs, NEW v \in Txs, NEW w \in Txs,
           IsSale(t), IsSale(u), IsSale(v),
           WaitsFor(t, u), WaitsFor(u, v), WaitsFor(v, w)
    PROVE  Item(t) \in Nat /\ Item(u) \in Nat /\ Item(t) < Item(u)
<1>1. /\ rowLock[Item(t)] = u /\ Item(t) \in Items
      /\ rowLock[Item(u)] = v /\ Item(u) \in Items /\ v # u
      BY SaleWaitsForRow
<1>2. Item(t) \in Nat /\ Item(u) \in Nat
      BY <1>1, StockTxAssumption
<1>3. PICK n \in 1..at[u] : lines[u][n].item = Item(t)
      BY <1>1 DEF HeldInv, RowsHeld
<1>4. lines[u] \in Requests(kind[u]) /\ at[u] \in DOMAIN lines[u] /\ kind[u] \in AllKinds
      <2>1. pc[u] # "idle"
            BY DEF WaitsFor, Active
      <2>2. QED
            BY <2>1, CurrentLine DEF HeldInv, Typing, TypeOK
<1>5. InOrder(kind[u], lines[u]) /\ DOMAIN lines[u] = 1..Len(lines[u]) /\ Len(lines[u]) \in Nat
      BY <1>4, RequestLine DEF Requests
<1>6. n \in DOMAIN lines[u] /\ n <= at[u]
      BY <1>4, <1>5
<1>7. n < at[u] => lines[u][n].item <= lines[u][at[u]].item
      BY <1>4, <1>5, <1>6 DEF InOrder, IsSale
<1>8. Item(t) <= Item(u)
      BY <1>2, <1>3, <1>4, <1>5, <1>6, <1>7 DEF Item
<1>9. Item(t) # Item(u)
      BY <1>1
<1>10. QED
      BY <1>2, <1>8, <1>9

\* A circle of sales would have no highest product.
LEMMA NoCircleOfSales ==
    ASSUME HeldInv, NEW S \in SUBSET Txs, \A t \in S : IsSale(t), Circle(S), S # {}
    PROVE  FALSE
<1>1. PICK m \in Items : \A i \in Items : i <= m
      BY LastItemAssumption
<1>2. \A t \in S : \E u \in S : WaitsFor(t, u)
      BY DEF Circle
<1>3. ASSUME NEW t \in S
      PROVE  Item(t) \in Nat /\ Item(t) <= m /\ \E u \in S : Item(u) \in Nat /\ Item(t) < Item(u)
      <2>1. PICK u \in S : WaitsFor(t, u)
            BY <1>2
      <2>2. PICK v \in S : WaitsFor(u, v)
            BY <1>2
      <2>3. PICK w \in S : WaitsFor(v, w)
            BY <1>2
      <2>4. Item(t) \in Nat /\ Item(u) \in Nat /\ Item(t) < Item(u)
            BY <2>1, <2>2, <2>3, WaitsForHigher
      <2>5. Item(t) \in Items
            BY <2>1, <2>2, SaleWaitsForRow
      <2>6. QED
            BY <1>1, <2>4, <2>5
<1> DEFINE Less == {e \in Nat \X Nat : e[1] < e[2]}
           Distances == {m - Item(t) : t \in S}
<1>4. m \in Nat
      BY StockTxAssumption
<1>5. \A t \in S : m - Item(t) \in Nat
      BY <1>3, <1>4
<1>6. Distances \subseteq Nat /\ Distances # {}
      BY <1>5
<1>7. IsWellFoundedOn(Less, Nat)
      BY NatLessThanWellFounded DEF OpToRel
<1> HIDE DEF Less
<1>8. PICK d \in Distances : \A e \in Distances : ~(<<e, d>> \in Less)
      BY <1>6, <1>7, WFMin
<1>9. PICK t \in S : d = m - Item(t)
      BY <1>8
<1>10. PICK u \in S : Item(u) \in Nat /\ Item(t) < Item(u)
      BY <1>3
<1>11. m - Item(u) \in Distances /\ m - Item(u) < d /\ <<m - Item(u), d>> \in Nat \X Nat
      BY <1>3, <1>4, <1>5, <1>9, <1>10
<1>12. QED
      BY <1>8, <1>11 DEF Less

\* Checkouts and voids never wait in a circle, however many they are: they lock
\* rows in the order of the products, and take the number of the payment last.
THEOREM SalesSafe == Spec => []SalesNeverDeadlock
<1>1. HeldInv => SalesNeverDeadlock
      BY NoCircleOfSales DEF SalesNeverDeadlock, IsSale
<1>2. QED
      BY <1>1, Holding, PTL

------------------------------------------------------------------------------
(* Refinement of StockLedger *)

\* What the first k lines of s add to item i.
NetTo(s, k, i) ==
    SumFunctionOnSet([n \in DOMAIN s |-> s[n].delta], {n \in 1..k : s[n].item = i})

\* The number of lines whose movement is already inserted.
Inserted(t) ==
    IF pc[t] \in {"line", "move"} THEN at[t] - 1
    ELSE IF pc[t] \in {"write", "insert"} THEN at[t]
    ELSE IF pc[t] = "commit" \/ (pc[t] = "number" /\ IsSale(t)) THEN Len(lines[t])
    ELSE 0

\* The uncommitted movements are those of the lines already done.
Posted(t) == \A i \in Items : moves[t][i] = NetTo(lines[t], Inserted(t), i)

\* A receipt and an opening stock take their number before their first line.
FromTheTop(t) == pc[t] = "number" /\ ~IsSale(t) => at[t] = 1

PostInv == IInv /\ \A t \in Txs : Posted(t) /\ FromTheTop(t)

\* No line, no movement.
LEMMA NetOfNone == \A s, i : NetTo(s, 0, i) = 0
<1> SUFFICES ASSUME NEW s, NEW i PROVE NetTo(s, 0, i) = 0
    OBVIOUS
<1>1. {n \in 1..0 : s[n].item = i} = {}
      OBVIOUS
<1>2. QED
      BY <1>1, SumOfNothing DEF NetTo

\* One line more.
LEMMA NetOfNext ==
    ASSUME NEW s \in Seq([item : Items, delta : Int]), NEW k \in 1..Len(s), NEW i
    PROVE  NetTo(s, k, i) = NetTo(s, k - 1, i) + IF s[k].item = i THEN s[k].delta ELSE 0
<1> DEFINE f == [n \in DOMAIN s |-> s[n].delta]
           S == {n \in 1..k : s[n].item = i}
           T == {n \in 1..(k - 1) : s[n].item = i}
<1>1. DOMAIN s = 1..Len(s) /\ Len(s) \in Nat /\ k \in Nat
      OBVIOUS
<1>2. \A n \in 1..k : f[n] \in Int /\ f[n] = s[n].delta
      <2> SUFFICES ASSUME NEW n \in 1..k PROVE f[n] \in Int /\ f[n] = s[n].delta
          OBVIOUS
      <2> DEFINE R == [item : Items, delta : Int]
      <2>1. n \in DOMAIN s /\ s[n] \in R
            <3>1. n \in 1..Len(s)
                  BY <1>1
            <3>2. s \in Seq(R)
                  OBVIOUS
            <3> HIDE DEF R
            <3>3. QED
                  BY <3>1, <3>2
      <2>2. s[n].delta \in Int
            BY <2>1
      <2>3. f[n] = s[n].delta
            BY <2>1
      <2>4. QED
            BY <2>2, <2>3
<1>3. NetTo(s, k, i) = SumFunctionOnSet(f, S) /\ NetTo(s, k - 1, i) = SumFunctionOnSet(f, T)
      BY DEF NetTo
<1>4. IsFiniteSet(S) /\ IsFiniteSet(T)
      <2>1. IsFiniteSet(1..k) /\ IsFiniteSet(1..(k - 1))
            BY <1>1, FS_Interval
      <2>2. QED
            BY <2>1, FS_Subset
<1>5. (\A n \in S : f[n] \in Int) /\ (\A n \in T : f[n] \in Int)
      <2>1. S \subseteq 1..k /\ T \subseteq 1..k
            BY <1>1
      <2> HIDE DEF f, S, T
      <2>2. QED
            BY <1>2, <2>1
<1>6. k \in S => S \ {k} = T
      BY <1>1
<1>7. k \notin S => S = T
      BY <1>1
<1>8. k \in S <=> s[k].item = i
      BY <1>1
<1>9. f[k] = s[k].delta /\ f[k] \in Int
      <2>1. k \in 1..k
            BY <1>1
      <2> HIDE DEF f
      <2>2. QED
            BY <1>2, <2>1
<1> HIDE DEF f, S, T
<1>10. SumFunctionOnSet(f, T) \in Int
      BY <1>4, <1>5, SumIsInt
<1>11. k \in S => SumFunctionOnSet(f, S) = f[k] + SumFunctionOnSet(f, T)
      BY <1>4, <1>5, <1>6, SumWithout
<1>12. QED
      BY <1>3, <1>7, <1>8, <1>9, <1>10, <1>11

\* Both modules take their sums from the same library.
LEMMA LedgerSum == \A f, S : Ledger!SumFunctionOnSet(f, S) = SumFunctionOnSet(f, S)
BY DEF SumFunctionOnSet, FoldFunctionOnSet, MapThenFoldSet,
       Ledger!SumFunctionOnSet, Ledger!FoldFunctionOnSet, Ledger!MapThenFoldSet

\* All lines: what the abstract ledger posts.
LEMMA NetOfAll ==
    ASSUME NEW s \in Seq([item : Items, delta : Int]), NEW i
    PROVE  NetTo(s, Len(s), i) = Ledger!Net(s, i)
<1>1. DOMAIN s = 1..Len(s)
      OBVIOUS
<1>2. QED
      BY <1>1, LedgerSum DEF NetTo, Ledger!Net

\* After the current line's movement and NextLine, that line is done.
LEMMA NextLineCounts ==
    ASSUME TypeOK, NEW t \in Txs, pc[t] # "idle", NextLine(t),
           kind'[t] = kind[t], lines'[t] = lines[t]
    PROVE  Inserted(t)' = at[t]
<1>1. /\ Len(lines[t]) \in Nat /\ DOMAIN lines[t] = 1..Len(lines[t])
      /\ at[t] \in DOMAIN lines[t]
      BY CurrentLine DEF TypeOK
<1>2. at \in [Txs -> Nat \ {0}] /\ pc \in [Txs -> Active \cup {"idle", "committed", "aborted"}]
      BY DEF TypeOK
<1>3. CASE at[t] < Len(lines[t])
      <2>1. at' = [at EXCEPT ![t] = at[t] + 1] /\ pc'[t] \in {"line", "move"}
            BY <1>2, <1>3 DEF NextLine, Goto, LineStep
      <2>2. at'[t] = at[t] + 1
            BY <1>2, <2>1
      <2>3. QED
            BY <1>1, <1>2, <2>1, <2>2 DEF Inserted
<1>4. CASE ~(at[t] < Len(lines[t]))
      <2>1. at[t] = Len(lines[t])
            BY <1>1, <1>4
      <2>2. at' = at /\ pc'[t] = IF IsSale(t) THEN "number" ELSE "commit"
            BY <1>2, <1>4 DEF NextLine, Goto, LastStep, IsSale
      <2>3. IsSale(t)' = IsSale(t)
            BY DEF IsSale
      <2>4. QED
            BY <2>1, <2>2, <2>3 DEF Inserted
<1>5. QED
      BY <1>3, <1>4

\* A step that inserts the current line's movement.
LEMMA PostedNext ==
    ASSUME IInv, NEW t \in Txs, Posted(t), pc[t] = "move", InsertMovement(t),
           lines'[t] = lines[t], Inserted(t)' = at[t]
    PROVE  Posted(t)'
<1> SUFFICES ASSUME NEW i \in Items PROVE moves'[t][i] = NetTo(lines'[t], Inserted(t)', i)
    BY DEF Posted
<1>1. Inserted(t) = at[t] - 1
      BY DEF Inserted
<1>2. moves[t][i] = NetTo(lines[t], at[t] - 1, i)
      BY <1>1 DEF Posted
<1>3. moves'[t][i] = moves[t][i] + IF i = Item(t) THEN Delta(t) ELSE 0
      BY InsertMovementEffect
<1>4. lines[t] \in Seq([item : Items, delta : Int]) /\ at[t] \in 1..Len(lines[t])
      BY CurrentLine DEF IInv, Typing, TypeOK
<1>5. NetTo(lines[t], at[t], i) = NetTo(lines[t], at[t] - 1, i) + IF Item(t) = i THEN Delta(t) ELSE 0
      BY <1>4, NetOfNext DEF Item, Delta
<1>6. QED
      BY <1>2, <1>3, <1>5

\* A step that inserts none.
LEMMA PostedStays ==
    ASSUME NEW t \in Txs, Posted(t), moves'[t] = moves[t], lines'[t] = lines[t],
           Inserted(t)' = Inserted(t)
    PROVE  Posted(t)'
BY DEF Posted

\* The end of a transaction.
LEMMA PostedEnd ==
    ASSUME NEW t \in Txs, pc'[t] \in {"committed", "aborted"}, moves'[t] = [i \in Items |-> 0]
    PROVE  Posted(t)' /\ FromTheTop(t)'
<1>1. Inserted(t)' = 0
      BY DEF Inserted
<1>2. \A i \in Items : moves'[t][i] = NetTo(lines'[t], 0, i)
      BY NetOfNone
<1>3. QED
      BY <1>1, <1>2 DEF Posted, FromTheTop

LEMMA PostedStep ==
    ASSUME PostInv, NEW t \in Txs, Step(t)
    PROVE  Posted(t)' /\ FromTheTop(t)'
<1>0. /\ IInv /\ Typing /\ TypeOK /\ PcOfKind
      /\ Posted(t) /\ FromTheTop(t)
      BY DEF PostInv, IInv, Typing
<1>a. pc[t] \in Active /\ pc[t] # "idle"
      BY StepActive, <1>0 DEF Active
<1>t. /\ at \in [Txs -> Nat \ {0}] /\ pc \in [Txs -> Active \cup {"idle", "committed", "aborted"}]
      /\ moves \in [Txs -> [Items -> Int]]
      BY <1>0 DEF TypeOK
<1>1. CASE CheckoutTake(t) \/ VoidReturn(t) \/ ReadForUpdate(t) \/ ReadAbsent(t)
      <2>1. /\ pc[t] = "line" /\ pc'[t] = "move"
            /\ at' = at /\ lines' = lines /\ moves' = moves
            BY <1>1, <1>t DEF CheckoutTake, VoidReturn, ReadForUpdate, ReadAbsent, Goto
      <2>2. Inserted(t)' = Inserted(t) /\ FromTheTop(t)'
            BY <2>1 DEF Inserted, FromTheTop
      <2>3. QED
            BY <1>0, <2>1, <2>2, PostedStays
<1>2. CASE SaleMovement(t)
      <2>1. /\ pc[t] = "move" /\ InsertMovement(t) /\ NextLine(t)
            /\ lines' = lines /\ kind' = kind /\ kind[t] \in {"CHECKOUT", "VOID"}
            BY <1>2 DEF SaleMovement
      <2>2. Inserted(t)' = at[t]
            BY <1>0, <1>a, <2>1, NextLineCounts
      <2>3. FromTheTop(t)'
            BY <2>1 DEF FromTheTop, IsSale
      <2>4. QED
            BY <1>0, <2>1, <2>2, <2>3, PostedNext
<1>3. CASE ReceiveLock(t)
      <2>1. /\ pc[t] = "lock" /\ pc'[t] \in {"lock", "number"}
            /\ pc'[t] = "number" => at'[t] = 1
            /\ kind[t] = "RECEIVE" /\ kind' = kind /\ lines' = lines /\ moves' = moves
            BY <1>0, <1>3, <1>t DEF ReceiveLock, Goto, PcOfKind
      <2>2. ~IsSale(t) /\ ~IsSale(t)'
            BY <2>1 DEF IsSale
      <2>3. Inserted(t)' = Inserted(t) /\ FromTheTop(t)'
            BY <2>1, <2>2 DEF Inserted, FromTheTop
      <2>4. QED
            BY <1>0, <2>1, <2>3, PostedStays
<1>4. CASE ReceiveMovement(t) \/ AdjustmentMovement(t) \/ OpeningMovement(t)
      <2>1. /\ pc[t] = "move" /\ pc'[t] = "write" /\ InsertMovement(t)
            /\ lines' = lines /\ at' = at
            BY <1>4, <1>t DEF ReceiveMovement, AdjustmentMovement, OpeningMovement, Goto
      <2>2. Inserted(t)' = at[t] /\ FromTheTop(t)'
            BY <2>1 DEF Inserted, FromTheTop
      <2>3. QED
            BY <1>0, <2>1, <2>2, PostedNext
<1>5. CASE ReceiveUpsert(t) \/ ApplyUpdate(t) \/ ApplyInsert(t)
      <2>1. /\ pc[t] \in {"write", "insert"} /\ NextLine(t)
            /\ lines' = lines /\ kind' = kind /\ moves' = moves
            BY <1>5 DEF ReceiveUpsert, ApplyUpdate, ApplyInsert
      <2>2. ~IsSale(t)
            BY <1>0, <2>1 DEF IsSale, PcOfKind
      <2>3. Inserted(t)' = at[t] /\ Inserted(t) = at[t]
            BY <1>0, <1>a, <2>1, NextLineCounts DEF Inserted
      <2>4. pc'[t] \in {"line", "move", "commit"}
            BY <1>0, <1>a, <2>1, <2>2, NextLineTyping DEF LineStep, LastStep, IsSale
      <2>5. FromTheTop(t)'
            BY <2>4 DEF FromTheTop
      <2>6. QED
            BY <1>0, <2>1, <2>3, <2>5, PostedStays
<1>6. CASE ApplyNoRow(t)
      <2>1. /\ pc[t] = "write" /\ pc'[t] = "insert"
            /\ at' = at /\ lines' = lines /\ moves' = moves
            BY <1>6, <1>t DEF ApplyNoRow, Goto
      <2>2. Inserted(t)' = Inserted(t) /\ FromTheTop(t)'
            BY <2>1 DEF Inserted, FromTheTop
      <2>3. QED
            BY <1>0, <2>1, <2>2, PostedStays
<1>7. CASE NextNumber(t)
      <2>1. /\ pc[t] = "number" /\ pc'[t] = IF IsSale(t) THEN "commit" ELSE "move"
            /\ at' = at /\ lines' = lines /\ moves' = moves /\ kind' = kind
            BY <1>7, <1>t DEF NextNumber, Goto, IsSale
      <2>2. ~IsSale(t) => at[t] = 1
            BY <1>0, <2>1 DEF FromTheTop
      <2>3. Inserted(t)' = Inserted(t)
            BY <2>1, <2>2 DEF Inserted
      <2>4. FromTheTop(t)'
            BY <2>1 DEF FromTheTop
      <2>5. QED
            BY <1>0, <2>1, <2>3, <2>4, PostedStays
<1>8. CASE Commit(t)
      <2>1. pc'[t] = "committed" /\ moves'[t] = [i \in Items |-> 0]
            BY <1>8, <1>t DEF Commit, Goto
      <2>2. QED
            BY <2>1, PostedEnd
<1>9. CASE CheckoutShort(t) \/ AdjustmentShort(t) \/ OpeningTwice(t) \/ ApplyDuplicate(t)
      <2>1. pc'[t] = "aborted" /\ moves'[t] = [i \in Items |-> 0]
            BY <1>9, <1>t DEF CheckoutShort, AdjustmentShort, OpeningTwice, ApplyDuplicate, Rollback, Goto
      <2>2. QED
            BY <2>1, PostedEnd
<1>10. QED
      BY <1>1, <1>2, <1>3, <1>4, <1>5, <1>6, <1>7, <1>8, <1>9 DEF Step

\* A transaction another one's step leaves alone.
LEMMA PostedFrame ==
    ASSUME NEW u \in Txs, Posted(u), FromTheTop(u),
           pc'[u] = pc[u], kind'[u] = kind[u], lines'[u] = lines[u], at'[u] = at[u],
           moves'[u] = moves[u]
    PROVE  Posted(u)' /\ FromTheTop(u)'
<1>1. IsSale(u)' = IsSale(u)
      BY DEF IsSale
<1>2. Inserted(u)' = Inserted(u)
      BY <1>1 DEF Inserted
<1>3. QED
      BY <1>1, <1>2 DEF Posted, FromTheTop

LEMMA PostedSubmit ==
    ASSUME PostInv, NEW t \in Txs, Submit(t)
    PROVE  Posted(t)' /\ FromTheTop(t)'
<1>0. TypeOK /\ Resting /\ Posted(t)
      BY DEF PostInv, IInv, Typing
<1>1. /\ pc[t] = "idle" /\ pc'[t] \in {"lock", "number", "line"}
      /\ pc'[t] = "number" => kind'[t] = "OPENING"
      /\ at' = at /\ moves' = moves
      BY <1>0 DEF Submit, Goto, FirstStep, TypeOK
<1>2. at[t] = 1
      BY <1>0, <1>1 DEF Resting
<1>3. Inserted(t) = 0 /\ Inserted(t)' = 0
      BY <1>1, <1>2 DEF Inserted, IsSale
<1>4. \A i \in Items : moves[t][i] = 0
      BY <1>0, <1>3, NetOfNone DEF Posted
<1>5. Posted(t)'
      BY <1>1, <1>3, <1>4, NetOfNone DEF Posted
<1>6. QED
      BY <1>1, <1>2, <1>5 DEF FromTheTop

LEMMA PostedNextStep == PostInv /\ [Next]_vars => PostInv'
<1> SUFFICES ASSUME PostInv, [Next]_vars PROVE PostInv'
    OBVIOUS
<1>1. IInv'
      BY NextInv DEF PostInv
<1>2. TypeOK
      BY DEF PostInv, IInv, Typing
<1>3. CASE UNCHANGED vars
      BY <1>1, <1>3, PostedFrame DEF PostInv, vars
<1>4. ASSUME NEW t \in Txs, NEW u \in Txs, Submit(t) PROVE Posted(u)' /\ FromTheTop(u)'
      <2>1. CASE u = t
            BY <1>4, <2>1, PostedSubmit
      <2>2. CASE u # t
            <3>1. /\ pc'[u] = pc[u] /\ kind'[u] = kind[u] /\ lines'[u] = lines[u]
                  /\ at'[u] = at[u] /\ moves'[u] = moves[u]
                  BY <1>2, <1>4, <2>2 DEF Submit, Goto, TypeOK
            <3>2. QED
                  BY <3>1, PostedFrame DEF PostInv
      <2>3. QED
            BY <2>1, <2>2
<1>5. ASSUME NEW t \in Txs, NEW u \in Txs, Step(t) PROVE Posted(u)' /\ FromTheTop(u)'
      <2>1. CASE u = t
            BY <1>5, <2>1, PostedStep
      <2>2. CASE u # t
            BY <1>2, <1>5, <2>2, StepOfOne, PostedFrame DEF PostInv
      <2>3. QED
            BY <2>1, <2>2
<1>6. ASSUME NEW t \in Txs, NEW u \in Txs, Cancel(t) \/ DeadlockVictim(t)
      PROVE  Posted(u)' /\ FromTheTop(u)'
      <2>1. /\ pc' = [pc EXCEPT ![t] = "aborted"]
            /\ moves' = [moves EXCEPT ![t] = [i \in Items |-> 0]]
            /\ kind' = kind /\ lines' = lines /\ at' = at
            BY <1>6 DEF Cancel, DeadlockVictim, Rollback, Goto
      <2>2. CASE u = t
            BY <1>2, <2>1, <2>2, PostedEnd DEF TypeOK
      <2>3. CASE u # t
            BY <1>2, <2>1, <2>3, PostedFrame DEF PostInv, TypeOK
      <2>4. QED
            BY <2>2, <2>3
<1>7. QED
      BY <1>1, <1>3, <1>4, <1>5, <1>6 DEF Next, PostInv

LEMMA PostedInit == Init => PostInv
<1> SUFFICES ASSUME Init, NEW t \in Txs PROVE Posted(t) /\ FromTheTop(t)
    BY InitInv DEF PostInv
<1>1. pc[t] = "idle" /\ \A i \in Items : moves[t][i] = 0
      BY DEF Init
<1>2. Inserted(t) = 0
      BY <1>1 DEF Inserted
<1>3. QED
      BY <1>1, <1>2, NetOfNone DEF Posted, FromTheTop

\* The movements of a transaction are those of the lines it has come through.
THEOREM Posting == Spec => []PostInv
BY PostedInit, PostedNextStep, PTL DEF Spec

\* What the mapping of LedgerSpec says of a transaction.
Outcome == [t \in Txs |->
    CASE pc[t] = "idle"      -> "none"
      [] pc[t] = "committed" -> "committed"
      [] pc[t] = "aborted"   -> "aborted"
      [] OTHER               -> "pending"]

\* Moving the program counter of one transaction moves its outcome only.
LEMMA OutcomeMoves ==
    ASSUME TypeOK, NEW t \in Txs, \A u \in Txs \ {t} : pc'[u] = pc[u]
    PROVE  /\ pc'[t] = "aborted" => Outcome' = [Outcome EXCEPT ![t] = "aborted"]
           /\ pc'[t] = "committed" => Outcome' = [Outcome EXCEPT ![t] = "committed"]
           /\ pc'[t] \in Active => Outcome' = [Outcome EXCEPT ![t] = "pending"]
           /\ pc[t] = "idle" => Outcome[t] = "none"
           /\ pc[t] \in Active => Outcome[t] = "pending"
BY DEF Outcome, Active

LEMMA InitRefines == Init => Ledger!Init
<1> SUFFICES ASSUME Init PROVE Ledger!Init
    OBVIOUS
<1>1. qty \in [Items -> Nat]
      BY StockTxAssumption DEF Init
<1>2. QED
      BY <1>1 DEF Init, Ledger!Init

LEMMA SubmitRefines ==
    ASSUME TypeOK, NEW t \in Txs, Submit(t)
    PROVE  Ledger!Submit(t)
<1>1. /\ pc[t] = "idle" /\ pc'[t] \in Active
      /\ \A u \in Txs \ {t} : pc'[u] = pc[u] /\ lines'[u] = lines[u]
      /\ qty' = qty /\ ledger' = ledger
      BY DEF Submit, Goto, FirstStep, Active, TypeOK, dbVars
<1>2. Outcome[t] = "none" /\ Outcome' = [Outcome EXCEPT ![t] = "pending"]
      BY <1>1, OutcomeMoves
<1>3. QED
      BY <1>1, <1>2 DEF Ledger!Submit, Outcome

LEMMA RollbackRefines ==
    ASSUME TypeOK, NEW t \in Txs, pc[t] \in Active, Rollback(t)
    PROVE  Ledger!Abort(t)
<1>1. /\ pc'[t] = "aborted"
      /\ \A u \in Txs \ {t} : pc'[u] = pc[u]
      /\ qty' = qty /\ ledger' = ledger /\ lines' = lines
      BY DEF Rollback, Goto, TypeOK, dbVars
<1>2. Outcome[t] = "pending" /\ Outcome' = [Outcome EXCEPT ![t] = "aborted"]
      BY <1>1, OutcomeMoves
<1>3. QED
      BY <1>1, <1>2 DEF Ledger!Abort, Outcome

\* At its end a transaction has posted all its lines, to the snapshot and to
\* the ledger alike.
LEMMA CommitRefines ==
    ASSUME PostInv, NEW t \in Txs, Commit(t)
    PROVE  Ledger!Commit(t)
<1>0. TypeOK /\ IInv /\ Posted(t)
      BY DEF PostInv, IInv, Typing
<1>1. /\ pc[t] = "commit" /\ pc'[t] = "committed"
      /\ \A u \in Txs \ {t} : pc'[u] = pc[u]
      /\ qty' = [i \in Items |-> Value(t, i)]
      /\ ledger' = [i \in Items |-> ledger[i] + moves[t][i]]
      /\ lines' = lines
      BY <1>0 DEF Commit, Goto, TypeOK
<1>2. Outcome[t] = "pending" /\ Outcome' = [Outcome EXCEPT ![t] = "committed"]
      BY <1>0, <1>1, OutcomeMoves DEF Active
<1>3. ASSUME NEW i \in Items
      PROVE  /\ moves[t][i] = Ledger!Net(lines[t], i)
             /\ Value(t, i) = qty[i] + Ledger!Net(lines[t], i)
      <2>1. Inserted(t) = Len(lines[t])
            BY <1>1 DEF Inserted
      <2>2. lines[t] \in Seq([item : Items, delta : Int])
            BY <1>0 DEF TypeOK
      <2>3. moves[t][i] = Ledger!Net(lines[t], i)
            BY <1>0, <2>1, <2>2, NetOfAll DEF Posted
      <2>4. Value(t, i) - qty[i] = moves[t][i] + 0
            BY <1>0, <1>1 DEF IInv, TxInv, Balanced, Ahead
      <2>5. Value(t, i) \in Nat /\ qty[i] \in Int /\ moves[t][i] \in Int
            BY <1>0, ValueNonNegative DEF TypeOK
      <2>6. QED
            BY <2>3, <2>4, <2>5
<1>4. \A i \in Items : qty'[i] >= 0
      BY <1>0, CommitKeepsLedger DEF NonNegativeStock
<1>5. /\ qty' = [i \in Items |-> qty[i] + Ledger!Net(lines[t], i)]
      /\ ledger' = [i \in Items |-> ledger[i] + Ledger!Net(lines[t], i)]
      BY <1>1, <1>3
<1>6. QED
      BY <1>1, <1>2, <1>4, <1>5 DEF Ledger!Commit, Outcome

\* The statements before the last one are invisible.
LEMMA StepRefines ==
    ASSUME PostInv, NEW t \in Txs, Step(t)
    PROVE  Ledger!Commit(t) \/ Ledger!Abort(t) \/ UNCHANGED Ledger!vars
<1>0. TypeOK /\ pc[t] \in Active
      BY StepActive DEF PostInv, IInv, Typing
<1>1. CASE Commit(t)
      BY <1>1, CommitRefines
<1>2. CASE CheckoutShort(t) \/ AdjustmentShort(t) \/ OpeningTwice(t) \/ ApplyDuplicate(t)
      BY <1>0, <1>2, RollbackRefines DEF CheckoutShort, AdjustmentShort, OpeningTwice, ApplyDuplicate
<1>3. CASE ~(CheckoutShort(t) \/ AdjustmentShort(t) \/ OpeningTwice(t) \/ ApplyDuplicate(t) \/ Commit(t))
      <2>1. qty' = qty /\ ledger' = ledger /\ lines' = lines
            BY <1>3 DEF Step, CheckoutTake, VoidReturn, SaleMovement, ReceiveLock, ReceiveMovement,
                        ReceiveUpsert, ReadForUpdate, ReadAbsent, AdjustmentMovement,
                        OpeningMovement, ApplyUpdate, ApplyNoRow, ApplyInsert, NextNumber, dbVars
      <2>2. pc'[t] \in Active /\ \A u \in Txs \ {t} : pc'[u] = pc[u]
            <3>1. \A u \in Txs \ {t} : pc'[u] = pc[u]
                  BY <1>0, StepOfOne
            <3>2. pc \in [Txs -> Active \cup {"idle", "committed", "aborted"}] /\ pc[t] # "idle"
                  BY <1>0 DEF TypeOK, Active
            <3>3. CASE SaleMovement(t) \/ ReceiveUpsert(t) \/ ApplyUpdate(t) \/ ApplyInsert(t)
                  BY <1>0, <3>1, <3>2, <3>3, NextLineTyping
                  DEF SaleMovement, ReceiveUpsert, ApplyUpdate, ApplyInsert, Active
            <3>4. CASE ~(SaleMovement(t) \/ ReceiveUpsert(t) \/ ApplyUpdate(t) \/ ApplyInsert(t))
                  BY <1>0, <1>3, <3>1, <3>2, <3>4
                  DEF Step, CheckoutTake, VoidReturn, ReceiveLock, ReceiveMovement,
                      ReadForUpdate, ReadAbsent, AdjustmentMovement, OpeningMovement,
                      ApplyNoRow, NextNumber, Goto, Active
            <3>5. QED
                  BY <3>1, <3>3, <3>4
      <2>3. Outcome' = Outcome
            BY <1>0, <2>2 DEF Outcome, Active
      <2>4. QED
            BY <2>1, <2>3 DEF Ledger!vars, Outcome
<1>4. QED
      BY <1>1, <1>2, <1>3

LEMMA NextRefines == PostInv /\ [Next]_vars => [Ledger!Next]_(Ledger!vars)
<1> SUFFICES ASSUME PostInv, [Next]_vars PROVE [Ledger!Next]_(Ledger!vars)
    OBVIOUS
<1>0. TypeOK
      BY DEF PostInv, IInv, Typing
<1>1. CASE UNCHANGED vars
      BY <1>1 DEF vars, dbVars, Ledger!vars
<1>2. ASSUME NEW t \in Txs, Submit(t) PROVE Ledger!Next
      BY <1>0, <1>2, SubmitRefines DEF Ledger!Next
<1>3. ASSUME NEW t \in Txs, Step(t) PROVE Ledger!Next \/ UNCHANGED Ledger!vars
      BY <1>3, StepRefines DEF Ledger!Next
<1>4. ASSUME NEW t \in Txs, Cancel(t) \/ DeadlockVictim(t) PROVE Ledger!Next
      <2>1. Rollback(t) /\ pc[t] \in Active
            BY <1>4 DEF Cancel, DeadlockVictim, InCycle, Circle, WaitsFor
      <2>2. QED
            BY <1>0, <2>1, RollbackRefines DEF Ledger!Next
<1>5. QED
      BY <1>1, <1>2, <1>3, <1>4 DEF Next

\* The transactions implement the abstract ledger: seen from the committed
\* tables, every request posts all its lines in one step or none at all.
THEOREM Refinement == Spec => LedgerSpec
BY Posting, InitRefines, NextRefines, PTL DEF Spec, LedgerSpec, Ledger!Spec
==============================================================================
