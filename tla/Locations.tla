------------------------------ MODULE Locations ------------------------------
(***************************************************************************)
(* The locations of one business and the default one                       *)
(* (repository_locations.go, service_locations.go), as concurrent          *)
(* PostgreSQL transactions under READ COMMITTED.                           *)
(*                                                                         *)
(* Whoever makes a location the default first clears the flag of all the   *)
(* others its statement sees, row by row, and then sets its own; a partial *)
(* unique index allows one default per business.  An update that does not  *)
(* mention the flag keeps the value the service read before the            *)
(* transaction began.                                                      *)
(***************************************************************************)
EXTENDS Integers, FiniteSets

CONSTANTS
    Locs,       \* the locations there may ever be
    Txs,        \* places for requests under way at the same time
    None        \* no location, no transaction

ASSUME LocationsAssumption ==
    /\ None \notin Locs \cup Txs
    /\ Locs # {}

VARIABLES
    \* committed state
    exists,     \* the rows of locations
    defaults,   \* those with is_default
    active,     \* those with status ACTIVE
    \* locks
    rowLock,    \* holder of a row, or of its uncommitted insert
    seqLock,    \* holder of the LOCATION row of number_sequences
    \* requests
    pc,
    own,        \* the location a request is about, None before a create inserts
    asked,      \* what the request says of is_default
    stays,      \* the status the request gives: TRUE for ACTIVE
    wants,      \* input.IsDefault
    clearing,   \* the rows the clearing UPDATE still has to write
    cleared,    \* the rows it has written
    since       \* history: the defaults there were since the request began

dbVars == <<exists, defaults, active>>
lockVars == <<rowLock, seqLock>>
requestVars == <<own, asked, stays, wants>>
vars == <<dbVars, lockVars, pc, requestVars, clearing, cleared, since>>

Active == {"count", "read", "lock", "clear", "number", "insert", "set", "commit"}

Goto(t, step) == pc' = [pc EXCEPT ![t] = step]

------------------------------------------------------------------------------
(* Transactions *)

ReleaseLocks(t) ==
    /\ rowLock' = [l \in Locs |-> IF rowLock[l] = t THEN None ELSE rowLock[l]]
    /\ seqLock' = IF seqLock = t THEN None ELSE seqLock

\* The place is free for the next request.
End(t) ==
    /\ ReleaseLocks(t)
    /\ Goto(t, "idle")
    /\ own' = [own EXCEPT ![t] = None]
    /\ asked' = [asked EXCEPT ![t] = "no"]
    /\ stays' = [stays EXCEPT ![t] = TRUE]
    /\ wants' = [wants EXCEPT ![t] = FALSE]
    /\ clearing' = [clearing EXCEPT ![t] = {}]
    /\ cleared' = [cleared EXCEPT ![t] = {}]

Rollback(t) == End(t) /\ UNCHANGED <<dbVars, since>>

\* A claim is an uncommitted entry of the unique index.
Claims(t) == pc[t] = "commit" /\ wants[t]

\* The index makes a claim wait for another claim, and for a transaction that
\* is clearing the default it meets.
MustWait(t, u) ==
    /\ u # t
    /\ \/ Claims(u)
       \/ (cleared[u] \ cleared[t]) \cap defaults # {}

\* A default the clearing UPDATE has not seen, committed in the meantime.
InTheWay(t) == defaults \ (cleared[t] \cup {own[t]})

MayClaim(t) == (\A u \in Txs : ~MustWait(t, u)) /\ InTheWay(t) = {}
Conflicts(t) == (\A u \in Txs : ~MustWait(t, u)) /\ InTheWay(t) # {}

------------------------------------------------------------------------------
(* CreateLocation *)

SubmitCreate(t) ==
    /\ pc[t] = "idle"
    /\ \E a \in {"yes", "no"} : asked' = [asked EXCEPT ![t] = a]
    /\ since' = [since EXCEPT ![t] = defaults]
    /\ Goto(t, "count")
    /\ UNCHANGED <<dbVars, lockVars, own, stays, wants, clearing, cleared>>

\* The first active location becomes the default unasked.
CountActive(t) ==
    /\ pc[t] = "count"
    /\ LET default == asked[t] = "yes" \/ active = {}
       IN  /\ wants' = [wants EXCEPT ![t] = default]
           /\ Goto(t, IF default THEN "clear" ELSE "number")
           /\ clearing' = [clearing EXCEPT ![t] = IF default THEN exists ELSE {}]
    /\ UNCHANGED <<dbVars, lockVars, own, asked, stays, cleared, since>>

NextNumber(t) ==
    /\ pc[t] = "number"
    /\ seqLock = None
    /\ seqLock' = t
    /\ Goto(t, "insert")
    /\ UNCHANGED <<dbVars, rowLock, requestVars, clearing, cleared, since>>

InsertLocation(t) ==
    /\ pc[t] = "insert"
    /\ wants[t] => MayClaim(t)
    /\ \E l \in Locs \ exists :
        /\ rowLock[l] = None
        /\ rowLock' = [rowLock EXCEPT ![l] = t]
        /\ own' = [own EXCEPT ![t] = l]
    /\ Goto(t, "commit")
    /\ UNCHANGED <<dbVars, seqLock, asked, stays, wants, clearing, cleared, since>>

------------------------------------------------------------------------------
(* UpdateLocation *)

\* The service refuses an inactive default before anything is read.
SubmitUpdate(t) ==
    /\ pc[t] = "idle"
    /\ \E l \in exists, a \in {"yes", "no", "omitted"}, s \in BOOLEAN :
        /\ a = "yes" => s
        /\ own' = [own EXCEPT ![t] = l]
        /\ asked' = [asked EXCEPT ![t] = a]
        /\ stays' = [stays EXCEPT ![t] = s]
        /\ wants' = [wants EXCEPT ![t] = (a = "yes")]
        /\ Goto(t, IF a = "omitted" THEN "read" ELSE "lock")
    /\ since' = [since EXCEPT ![t] = defaults]
    /\ UNCHANGED <<dbVars, lockVars, clearing, cleared>>

\* Mutated: the first location of the list instead of the one with the code.
FlagOfFirst(t) == TRUE

\* ListLocations, the default first; the one with the code is looked for.
FlagOf(t) == own[t] \in defaults

\* An update without is_default: the flag is read now and written later.  A
\* failing read counts as false, and an inactive default is refused.
ReadFlag(t) ==
    /\ pc[t] = "read"
    /\ \E flag \in BOOLEAN :
        /\ flag => FlagOf(t) /\ stays[t]
        /\ wants' = [wants EXCEPT ![t] = flag]
    /\ Goto(t, "lock")
    /\ UNCHANGED <<dbVars, lockVars, own, asked, stays, clearing, cleared, since>>

ReadRefused(t) ==
    /\ pc[t] = "read"
    /\ FlagOf(t) /\ ~stays[t]
    /\ Rollback(t)

\* The default stays a default and active, unless another takes over.
Permitted(t) == own[t] \in defaults => wants[t] /\ stays[t]

Proceed(t) ==
    /\ Permitted(t)
    /\ Goto(t, IF wants[t] THEN "clear" ELSE "set")
    /\ clearing' = [clearing EXCEPT ![t] = IF wants[t] THEN exists \ {own[t]} ELSE {}]

\* Mutated: SELECT without FOR UPDATE.
ReadLocation(t) ==
    /\ pc[t] = "lock"
    /\ Proceed(t)
    /\ UNCHANGED <<dbVars, lockVars, requestVars, cleared, since>>

\* SELECT ... FOR UPDATE, and the snapshot of the clearing UPDATE.
LockLocation(t) ==
    /\ pc[t] = "lock"
    /\ rowLock[own[t]] = None
    /\ rowLock' = [rowLock EXCEPT ![own[t]] = t]
    /\ Proceed(t)
    /\ UNCHANGED <<dbVars, seqLock, requestVars, cleared, since>>

\* LOCATION_CONFLICT, or LOCATION_NOT_FOUND for an inactive default.
LockRefused(t) ==
    /\ pc[t] = "lock"
    /\ rowLock[own[t]] = None
    /\ ~Permitted(t)
    /\ Rollback(t)

\* UPDATE of the location itself, which a claim makes wait or fail as above.
SetLocation(t) ==
    /\ pc[t] = "set"
    /\ rowLock[own[t]] \in {None, t}
    /\ wants[t] => MayClaim(t)
    /\ rowLock' = [rowLock EXCEPT ![own[t]] = t]
    /\ Goto(t, "commit")
    /\ UNCHANGED <<dbVars, seqLock, requestVars, clearing, cleared, since>>

------------------------------------------------------------------------------
(* Both *)

\* UPDATE locations SET is_default = false: row by row, in any order, waiting
\* for each; a row that has become the default in the meantime is cleared
\* like the others.
ClearRow(t) ==
    /\ pc[t] = "clear"
    /\ \E l \in clearing[t] :
        /\ rowLock[l] \in {None, t}
        /\ rowLock' = [rowLock EXCEPT ![l] = t]
        /\ cleared' = [cleared EXCEPT ![t] = @ \cup {l}]
        /\ clearing' = [clearing EXCEPT ![t] = @ \ {l}]
    /\ UNCHANGED <<dbVars, seqLock, pc, requestVars, since>>

ClearedAll(t) ==
    /\ pc[t] = "clear" /\ clearing[t] = {}
    /\ Goto(t, IF own[t] = None THEN "number" ELSE "set")
    /\ UNCHANGED <<dbVars, lockVars, requestVars, clearing, cleared, since>>

\* 23505 from locations_one_default_per_business_idx.
IndexRefuses(t) ==
    /\ pc[t] \in {"insert", "set"}
    /\ wants[t] /\ Conflicts(t)
    /\ Rollback(t)

Commit(t) ==
    /\ pc[t] = "commit"
    /\ exists' = exists \cup {own[t]}
    /\ defaults' = (defaults \ (cleared[t] \cup {own[t]})) \cup {l \in {own[t]} : wants[t]}
    /\ active' = IF stays[t] THEN active \cup {own[t]} ELSE active \ {own[t]}
    /\ since' = [u \in Txs |-> since[u] \cup defaults']
    /\ End(t)

Cancel(t) == pc[t] \in Active /\ Rollback(t)

\* What the next statement of t needs is held by u.
WaitsFor(t, u) ==
    /\ u # t
    /\ \/ pc[t] \in {"lock", "set"} /\ rowLock[own[t]] = u
       \/ /\ pc[t] = "clear"
          /\ \A l \in clearing[t] : rowLock[l] \notin {None, t}
          /\ \E l \in clearing[t] : rowLock[l] = u
       \/ pc[t] = "number" /\ seqLock = u
       \/ pc[t] \in {"insert", "set"} /\ wants[t] /\ MustWait(t, u)

\* The deadlock detector aborts one of a circle of waiting transactions.
DeadlockVictim(t) ==
    /\ \E S \in SUBSET Txs :
        /\ t \in S
        /\ \A u \in S : \E v, w \in S : WaitsFor(u, v) /\ WaitsFor(w, u)
    /\ Rollback(t)

------------------------------------------------------------------------------
(* Specification *)

Step(t) ==
    \/ CountActive(t) \/ NextNumber(t) \/ InsertLocation(t)
    \/ ReadFlag(t) \/ ReadRefused(t) \/ LockLocation(t) \/ LockRefused(t) \/ SetLocation(t)
    \/ ClearRow(t) \/ ClearedAll(t) \/ IndexRefuses(t) \/ Commit(t)

\* CreateBusiness inserts the first location as the default; others follow.
Init ==
    /\ exists \in (SUBSET Locs) \ {{}}
    /\ active \in (SUBSET exists) \ {{}}
    /\ \E l \in active : defaults = {l}
    /\ rowLock = [l \in Locs |-> None]
    /\ seqLock = None
    /\ pc = [t \in Txs |-> "idle"]
    /\ own = [t \in Txs |-> None]
    /\ asked = [t \in Txs |-> "no"]
    /\ stays = [t \in Txs |-> TRUE]
    /\ wants = [t \in Txs |-> FALSE]
    /\ clearing = [t \in Txs |-> {}]
    /\ cleared = [t \in Txs |-> {}]
    /\ since = [t \in Txs |-> {}]

Next ==
    \E t \in Txs :
        SubmitCreate(t) \/ SubmitUpdate(t) \/ Step(t) \/ Cancel(t) \/ DeadlockVictim(t)

Spec == Init /\ [][Next]_vars

------------------------------------------------------------------------------
(* Properties *)

TypeOK ==
    /\ exists \subseteq Locs
    /\ defaults \subseteq exists
    /\ active \subseteq exists
    /\ rowLock \in [Locs -> Txs \cup {None}]
    /\ seqLock \in Txs \cup {None}
    /\ pc \in [Txs -> Active \cup {"idle"}]
    /\ own \in [Txs -> Locs \cup {None}]
    /\ asked \in [Txs -> {"yes", "no", "omitted"}]
    /\ stays \in [Txs -> BOOLEAN]
    /\ wants \in [Txs -> BOOLEAN]
    /\ clearing \in [Txs -> SUBSET Locs]
    /\ cleared \in [Txs -> SUBSET Locs]
    /\ since \in [Txs -> SUBSET Locs]

\* Sales and purchases without a location go to the default one: there is
\* exactly one at any time, and it is active, however requests that create,
\* move, deactivate and rename interleave.
ExactlyOneDefault == \E l \in active : defaults = {l}

\* The default only moves to a location whose request asked for it, or which
\* has been the default since that request began: an update that does not
\* mention is_default can bring a lost default back (the value it keeps is of
\* the time the service read it), but cannot take it anew.
DefaultMovesByRequest ==
    [][defaults' # defaults =>
         \E t \in Txs :
             /\ pc[t] = "commit" /\ pc'[t] = "idle"
             /\ defaults' = {own[t]}
             /\ asked[t] = "yes" \/ own[t] \in since[t]]_vars
==============================================================================
