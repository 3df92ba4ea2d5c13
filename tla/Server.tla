-------------------------------- MODULE Server --------------------------------
(***************************************************************************)
(* The life of an API process (cmd/api/main.go): it migrates, serves, and  *)
(* after SIGTERM drains and closes its connection pool.  A request asks    *)
(* the pool for a connection per query or transaction; some operations ask *)
(* for a second one while they hold the first:                             *)
(*                                                                         *)
(*   CompleteStockAdjustment   loadAdjustmentLines inside its transaction  *)
(*   GetPurchase               the lines of a receipt, rows of receipts open *)
(*   ListParties               loadPartyDetails, rows of parties open      *)
(*                                                                         *)
(* Waiters are served first come first served; a client that goes away     *)
(* cancels its request, and nothing else ends a wait.                      *)
(***************************************************************************)
EXTENDS Migrations, Sequences, FiniteSets

CONSTANTS
    Requests,   \* places for requests under way at the same time
    Plans,      \* what requests do with connections, one entry per operation
    MaxConns    \* the size of the pool of a process

ASSUME ServerAssumption ==
    /\ Plans \subseteq Seq({"plain", "nested"}) \ {<<>>}
    /\ MaxConns \in Nat \ {0}
    /\ NoReplica \notin Requests

VARIABLES
    at,         \* the process that handles a request
    plan,       \* the operations still to come, the current one first
    conn        \* how the request stands with the pool

poolVars == <<at, plan, conn>>
serverVars == <<migrationVars, poolVars>>

Waiting == {"first", "second"}

------------------------------------------------------------------------------
(* The pool *)

HeldBy(q) ==
    CASE conn[q] \in {"one", "second"} -> 1
      [] conn[q] = "two"               -> 2
      [] OTHER                         -> 0

Of(r) == {q \in Requests : at[q] = r}
InUse(r) ==
    Cardinality({q \in Of(r) : HeldBy(q) >= 1}) + Cardinality({q \in Of(r) : HeldBy(q) = 2})
Free(r) == InUse(r) < MaxConns
Closed(r) == stage[r] = "closing"

Put(q, c) == conn' = [conn EXCEPT ![q] = c]

\* The handler returns, with an answer or with an error; its deferred calls
\* give back what it holds.
End(q) ==
    /\ at' = [at EXCEPT ![q] = NoReplica]
    /\ plan' = [plan EXCEPT ![q] = <<>>]
    /\ Put(q, "none")

------------------------------------------------------------------------------
(* A request *)

Arrive(q) ==
    /\ at[q] = NoReplica
    /\ \E r \in Replicas :
        /\ stage[r] = "serving"
        /\ at' = [at EXCEPT ![q] = r]
    /\ \E p \in Plans : plan' = [plan EXCEPT ![q] = p]
    /\ Put(q, "none")

\* pool.Query, pool.Begin: a closed pool refuses at once.
Ask(q) ==
    /\ at[q] # NoReplica /\ conn[q] = "none"
    /\ IF Closed(at[q]) THEN End(q) ELSE Put(q, "first") /\ UNCHANGED <<at, plan>>

\* Who is in the queue already finds out when a connection becomes free.
Obtain(q) ==
    /\ conn[q] = "first"
    /\ Free(at[q])
    /\ IF Closed(at[q]) THEN End(q) ELSE Put(q, "one") /\ UNCHANGED <<at, plan>>

\* Mutated: one more operation queries the pool inside its transaction.
AskSecondAnywhere(q) ==
    /\ conn[q] = "one"
    /\ IF Closed(at[q]) THEN End(q) ELSE Put(q, "second") /\ UNCHANGED <<at, plan>>

AskSecond(q) ==
    /\ conn[q] = "one" /\ Head(plan[q]) = "nested"
    /\ IF Closed(at[q]) THEN End(q) ELSE Put(q, "second") /\ UNCHANGED <<at, plan>>

ObtainSecond(q) ==
    /\ conn[q] = "second"
    /\ Free(at[q])
    /\ IF Closed(at[q]) THEN End(q) ELSE Put(q, "two") /\ UNCHANGED <<at, plan>>

\* The inner rows are read to their end; the outer operation goes on.
ReturnSecond(q) ==
    /\ conn[q] = "two"
    /\ Put(q, "one")
    /\ plan' = [plan EXCEPT ![q] = <<"plain">> \o Tail(@)]
    /\ UNCHANGED at

\* Rows closed, committed or rolled back: on to the next operation.
Return(q) ==
    /\ conn[q] = "one" /\ Head(plan[q]) = "plain"
    /\ IF Tail(plan[q]) = <<>>
       THEN End(q)
       ELSE /\ plan' = [plan EXCEPT ![q] = Tail(@)]
            /\ Put(q, "none")
            /\ UNCHANGED at

\* The client goes away, or the handler returns early with an error.
GiveUp(q) == at[q] # NoReplica /\ End(q)

------------------------------------------------------------------------------
(* The end of a process *)

SigTerm(r) ==
    /\ stage[r] = "serving"
    /\ To(r, "draining")
    /\ UNCHANGED <<recorded, executed, advisory, embedded, passed, poolVars>>

\* server.Shutdown returns, because no request is left or because
\* SHUTDOWN_TIMEOUT is over, and the deferred pool.Close begins.
ClosePool(r) ==
    /\ stage[r] = "draining"
    /\ To(r, "closing")
    /\ UNCHANGED <<recorded, executed, advisory, embedded, passed, poolVars>>

Killed(r) ==
    /\ at' = [q \in Requests |-> IF at[q] = r THEN NoReplica ELSE at[q]]
    /\ plan' = [q \in Requests |-> IF at[q] = r THEN <<>> ELSE plan[q]]
    /\ conn' = [q \in Requests |-> IF at[q] = r THEN "none" ELSE conn[q]]

\* Close returns when every connection is back; main ends, and with it the
\* requests that hold none.
Exit(r) ==
    /\ stage[r] = "closing"
    /\ InUse(r) = 0
    /\ To(r, "down")
    /\ Killed(r)
    /\ UNCHANGED <<recorded, executed, advisory, embedded, passed>>

\* The process is killed or its machine fails.
CrashProcess(r) ==
    /\ stage[r] # "down"
    /\ Release(r)
    /\ To(r, "down")
    /\ Killed(r)
    /\ UNCHANGED <<recorded, executed, embedded, passed>>

------------------------------------------------------------------------------
(* Specification *)

ServerInit ==
    /\ MigrationInit
    /\ at = [q \in Requests |-> NoReplica]
    /\ plan = [q \in Requests |-> <<>>]
    /\ conn = [q \in Requests |-> "none"]

StartUp(r) == (Start(r) \/ UpStep(r) \/ FailToStart(r)) /\ UNCHANGED poolVars

Handle(q) ==
    /\ Ask(q) \/ Obtain(q) \/ AskSecond(q) \/ ObtainSecond(q) \/ ReturnSecond(q) \/ Return(q)
    /\ UNCHANGED migrationVars

ServerNext ==
    \/ \E r \in Replicas : StartUp(r) \/ SigTerm(r) \/ ClosePool(r) \/ Exit(r) \/ CrashProcess(r)
    \/ \E q \in Requests : (Arrive(q) \/ GiveUp(q)) /\ UNCHANGED migrationVars
    \/ \E q \in Requests : Handle(q)

ServerSpec == ServerInit /\ [][ServerNext]_serverVars

\* A handler runs on, and as the queue of the pool is first come first served
\* it gets a connection when one is free again and again.  A process runs on
\* in its start-up and its shutdown, whose wait is limited by a timeout.
FairServerSpec ==
    /\ ServerSpec
    /\ \A q \in Requests : SF_serverVars(Handle(q))
    /\ \A r \in Replicas : /\ SF_serverVars(UpStep(r) /\ UNCHANGED poolVars)
                           /\ WF_serverVars(ClosePool(r))
                           /\ WF_serverVars(Exit(r))

------------------------------------------------------------------------------
(* Properties *)

\* Fewer connections are held by operations that need a second one than the
\* pool has.
Nested(q) == HeldBy(q) >= 1 /\ Head(plan[q]) = "nested"
FewNested == \A r \in Replicas : Cardinality({q \in Of(r) : Nested(q)}) < MaxConns

\* As long as fewer operations hold a connection and need a second one than
\* there are connections, nothing hangs: no request waits for ever, and a
\* process that is told to stop does stop, although Close waits for handlers
\* that still need the pool it is closing.  This is the condition under which
\* the nested queries of completion, receipts and parties are harmless.
NothingHangs ==
    []FewNested =>
        /\ \A q \in Requests : at[q] # NoReplica ~> at[q] = NoReplica
        /\ \A r \in Replicas : stage[r] \in {"draining", "closing"} ~> stage[r] = "down"

\* A replica waits for the migrations of another, not for ever: it gets to
\* serve, unless its start-up fails.
EveryStartEnds ==
    \A r \in Replicas : stage[r] \in Starting ~> stage[r] \in {"serving", "down"}
==============================================================================
