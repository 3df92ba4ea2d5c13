-------------------------- MODULE Locations_proofs --------------------------
(***************************************************************************)
(* One default location, for any number of locations and of concurrent     *)
(* requests.                                                               *)
(***************************************************************************)
EXTENDS Locations, TLAPS

------------------------------------------------------------------------------
(* The inductive invariant *)

\* Which location a request is about, and which rows it has written.
About(t) ==
    /\ pc[t] \in {"idle", "count", "number", "insert"} => own[t] = None
    /\ pc[t] \in {"read", "lock", "set", "commit"} => own[t] # None
    /\ pc[t] \notin {"clear", "number", "insert", "set", "commit"} \/ ~wants[t] => cleared[t] = {}
    /\ pc[t] = "clear" => wants[t]
    /\ pc[t] \in {"idle", "count"} => wants[t] = FALSE /\ stays[t] = TRUE

\* Only active locations are made the default, by those who ask for it or
\* found it the default.
Wanted(t) ==
    /\ pc[t] # "idle" /\ wants[t] => stays[t] /\ (asked[t] = "yes" \/ own[t] \in since[t])
    /\ pc[t] # "idle" => defaults \subseteq since[t]

\* The rows written stay locked, as does the location itself from the lock on.
Held(t) ==
    /\ \A l \in cleared[t] : rowLock[l] = t
    /\ pc[t] \in {"clear", "set", "commit"} /\ own[t] # None => rowLock[own[t]] = t

\* Before it commits, a claim has every default there is under its locks;
\* whoever does not claim writes no default.
Claimed(t) ==
    /\ pc[t] = "commit" /\ wants[t] => defaults \subseteq cleared[t] \cup {own[t]}
    /\ pc[t] \in {"set", "commit"} /\ ~wants[t] => own[t] \notin defaults

TxInv(t) == About(t) /\ Wanted(t) /\ Held(t) /\ Claimed(t)

\* The unique index holds one uncommitted default at a time.
OneClaim == \A t, u \in Txs : Claims(t) /\ Claims(u) => t = u

IInv == TypeOK /\ ExactlyOneDefault /\ OneClaim /\ \A t \in Txs : TxInv(t)

Submit(t) == SubmitCreate(t) \/ SubmitUpdate(t)
AnyStep(t) == Submit(t) \/ Step(t) \/ Rollback(t)

------------------------------------------------------------------------------
(* Types *)

LEMMA EndTypes ==
    ASSUME TypeOK, NEW t \in Txs, End(t)
    PROVE  /\ rowLock' \in [Locs -> Txs \cup {None}]
           /\ seqLock' \in Txs \cup {None}
           /\ pc' \in [Txs -> Active \cup {"idle"}]
           /\ own' \in [Txs -> Locs \cup {None}]
           /\ asked' \in [Txs -> {"yes", "no", "omitted"}]
           /\ stays' \in [Txs -> BOOLEAN]
           /\ wants' \in [Txs -> BOOLEAN]
           /\ clearing' \in [Txs -> SUBSET Locs]
           /\ cleared' \in [Txs -> SUBSET Locs]
<1>1. rowLock' \in [Locs -> Txs \cup {None}] /\ seqLock' \in Txs \cup {None}
      BY DEF TypeOK, End, ReleaseLocks
<1>2. pc' \in [Txs -> Active \cup {"idle"}]
      BY DEF TypeOK, End, Goto
<1>3. own' \in [Txs -> Locs \cup {None}] /\ asked' \in [Txs -> {"yes", "no", "omitted"}]
      BY DEF TypeOK, End
<1>4. stays' \in [Txs -> BOOLEAN] /\ wants' \in [Txs -> BOOLEAN]
      BY DEF TypeOK, End
<1>5. clearing' \in [Txs -> SUBSET Locs] /\ cleared' \in [Txs -> SUBSET Locs]
      BY DEF TypeOK, End
<1>6. QED
      BY <1>1, <1>2, <1>3, <1>4, <1>5

LEMMA RollbackTypes ==
    ASSUME TypeOK, NEW t \in Txs, Rollback(t)
    PROVE  TypeOK'
BY EndTypes DEF Rollback, TypeOK, dbVars

LEMMA CommitTypes ==
    ASSUME TypeOK, NEW t \in Txs, TxInv(t), Commit(t)
    PROVE  TypeOK'
<1>1. own[t] \in Locs
      BY DEF TypeOK, Commit, TxInv, About
<1>2. exists' \subseteq Locs /\ defaults' \subseteq exists' /\ active' \subseteq exists'
      BY <1>1 DEF TypeOK, Commit
<1>3. since' \in [Txs -> SUBSET Locs]
      BY <1>2 DEF TypeOK, Commit
<1>4. QED
      BY <1>2, <1>3, EndTypes DEF Commit, TypeOK

LEMMA SubmitTypes ==
    ASSUME TypeOK, NEW t \in Txs, Submit(t)
    PROVE  TypeOK'
<1> USE DEF Goto, dbVars, lockVars
<1>1. since' \in [Txs -> SUBSET Locs]
      BY DEF TypeOK, Submit, SubmitCreate, SubmitUpdate
<1>2. CASE SubmitCreate(t)
      <2>1. asked' \in [Txs -> {"yes", "no", "omitted"}]
            BY <1>2 DEF TypeOK, SubmitCreate
      <2>2. pc' \in [Txs -> Active \cup {"idle"}]
            BY <1>2 DEF TypeOK, SubmitCreate, Active
      <2>3. QED
            BY <1>1, <1>2, <2>1, <2>2 DEF TypeOK, SubmitCreate
<1>3. CASE SubmitUpdate(t)
      <2>1. PICK l \in exists : \E a \in {"yes", "no", "omitted"}, s \in BOOLEAN :
                /\ own' = [own EXCEPT ![t] = l]
                /\ asked' = [asked EXCEPT ![t] = a]
                /\ stays' = [stays EXCEPT ![t] = s]
                /\ wants' = [wants EXCEPT ![t] = (a = "yes")]
                /\ pc' = [pc EXCEPT ![t] = IF a = "omitted" THEN "read" ELSE "lock"]
            BY <1>3 DEF SubmitUpdate
      <2>2. own' \in [Txs -> Locs \cup {None}]
            BY <2>1 DEF TypeOK
      <2>3. asked' \in [Txs -> {"yes", "no", "omitted"}] /\ stays' \in [Txs -> BOOLEAN]
            BY <2>1 DEF TypeOK
      <2>4. wants' \in [Txs -> BOOLEAN]
            BY <2>1 DEF TypeOK
      <2>5. pc' \in [Txs -> Active \cup {"idle"}]
            BY <2>1 DEF TypeOK, Active
      <2>6. QED
            BY <1>1, <1>3, <2>2, <2>3, <2>4, <2>5 DEF TypeOK, SubmitUpdate
<1>4. QED
      BY <1>2, <1>3 DEF Submit

LEMMA StepTypes ==
    ASSUME TypeOK, NEW t \in Txs, Step(t), TxInv(t)
    PROVE  TypeOK'
<1> USE DEF Goto, dbVars, lockVars, requestVars
<1>1. CASE CountActive(t)
      <2>1. wants' \in [Txs -> BOOLEAN]
            BY <1>1 DEF CountActive, TypeOK
      <2>2. clearing' \in [Txs -> SUBSET Locs]
            BY <1>1 DEF CountActive, TypeOK
      <2>3. pc' \in [Txs -> Active \cup {"idle"}]
            BY <1>1 DEF CountActive, TypeOK, Active
      <2>4. QED
            BY <1>1, <2>1, <2>2, <2>3 DEF CountActive, TypeOK
<1>2. CASE NextNumber(t)
      BY <1>2 DEF NextNumber, TypeOK, Active
<1>3. CASE InsertLocation(t)
      <2>1. PICK l \in Locs : /\ rowLock' = [rowLock EXCEPT ![l] = t]
                              /\ own' = [own EXCEPT ![t] = l]
            BY <1>3 DEF InsertLocation
      <2>2. rowLock' \in [Locs -> Txs \cup {None}] /\ own' \in [Txs -> Locs \cup {None}]
            BY <2>1 DEF TypeOK
      <2>3. pc' \in [Txs -> Active \cup {"idle"}]
            BY <1>3 DEF InsertLocation, TypeOK, Active
      <2>4. QED
            BY <1>3, <2>2, <2>3 DEF InsertLocation, TypeOK
<1>4. CASE ReadFlag(t)
      <2>1. wants' \in [Txs -> BOOLEAN]
            BY <1>4 DEF ReadFlag, TypeOK
      <2>2. pc' \in [Txs -> Active \cup {"idle"}]
            BY <1>4 DEF ReadFlag, TypeOK, Active
      <2>3. QED
            BY <1>4, <2>1, <2>2 DEF ReadFlag, TypeOK
<1>5. CASE LockLocation(t)
      <2>1. rowLock' \in [Locs -> Txs \cup {None}]
            BY <1>5 DEF LockLocation, TypeOK
      <2>2. clearing' \in [Txs -> SUBSET Locs]
            BY <1>5 DEF LockLocation, Proceed, TypeOK
      <2>3. pc' \in [Txs -> Active \cup {"idle"}]
            BY <1>5 DEF LockLocation, Proceed, TypeOK, Active
      <2>4. QED
            BY <1>5, <2>1, <2>2, <2>3 DEF LockLocation, Proceed, TypeOK
<1>6. CASE SetLocation(t)
      <2>1. rowLock' \in [Locs -> Txs \cup {None}]
            BY <1>6 DEF SetLocation, TypeOK
      <2>2. pc' \in [Txs -> Active \cup {"idle"}]
            BY <1>6 DEF SetLocation, TypeOK, Active
      <2>3. QED
            BY <1>6, <2>1, <2>2 DEF SetLocation, TypeOK
<1>7. CASE ClearRow(t)
      <2>1. PICK l \in clearing[t] : /\ rowLock' = [rowLock EXCEPT ![l] = t]
                                     /\ cleared' = [cleared EXCEPT ![t] = @ \cup {l}]
                                     /\ clearing' = [clearing EXCEPT ![t] = @ \ {l}]
            BY <1>7 DEF ClearRow
      <2>2. l \in Locs
            BY <2>1 DEF TypeOK
      <2>3. rowLock' \in [Locs -> Txs \cup {None}]
            BY <2>1, <2>2 DEF TypeOK
      <2>4. cleared' \in [Txs -> SUBSET Locs] /\ clearing' \in [Txs -> SUBSET Locs]
            BY <2>1, <2>2 DEF TypeOK
      <2>5. QED
            BY <1>7, <2>3, <2>4 DEF ClearRow, TypeOK
<1>8. CASE ClearedAll(t)
      <2>1. pc' \in [Txs -> Active \cup {"idle"}]
            BY <1>8 DEF ClearedAll, TypeOK, Active
      <2>2. QED
            BY <1>8, <2>1 DEF ClearedAll, TypeOK
<1>9. CASE ReadRefused(t) \/ LockRefused(t) \/ IndexRefuses(t)
      BY <1>9, RollbackTypes DEF ReadRefused, LockRefused, IndexRefuses
<1>10. CASE Commit(t)
      BY <1>10, CommitTypes
<1>11. QED
      BY <1>1, <1>2, <1>3, <1>4, <1>5, <1>6, <1>7, <1>8, <1>9, <1>10 DEF Step
------------------------------------------------------------------------------
(* What a step leaves to the other requests *)

LEMMA EndOfOne ==
    ASSUME TypeOK, NEW t \in Txs, End(t), NEW v \in Txs, v # t
    PROVE  /\ pc'[v] = pc[v] /\ own'[v] = own[v] /\ asked'[v] = asked[v]
           /\ stays'[v] = stays[v] /\ wants'[v] = wants[v] /\ cleared'[v] = cleared[v]
           /\ \A l \in Locs : rowLock[l] = v => rowLock'[l] = v
BY DEF End, ReleaseLocks, Goto, TypeOK

\* A step changes nothing in the other requests under way, and takes no lock
\* from them.
LEMMA StepOfOne ==
    ASSUME TypeOK, NEW t \in Txs, AnyStep(t), NEW v \in Txs, v # t
    PROVE  /\ pc'[v] = pc[v] /\ own'[v] = own[v] /\ asked'[v] = asked[v]
           /\ stays'[v] = stays[v] /\ wants'[v] = wants[v] /\ cleared'[v] = cleared[v]
           /\ \A l \in Locs : rowLock[l] = v => rowLock'[l] = v
<1> DEFINE Same == /\ pc'[v] = pc[v] /\ own'[v] = own[v] /\ asked'[v] = asked[v]
                   /\ stays'[v] = stays[v] /\ wants'[v] = wants[v] /\ cleared'[v] = cleared[v]
                   /\ \A l \in Locs : rowLock[l] = v => rowLock'[l] = v
<1> USE DEF Goto, lockVars, requestVars
<1>1. Rollback(t) \/ Commit(t) => Same
      BY EndOfOne DEF Rollback, Commit
<1>2. ReadRefused(t) \/ LockRefused(t) \/ IndexRefuses(t) => Same
      BY <1>1 DEF ReadRefused, LockRefused, IndexRefuses
<1>3. SubmitCreate(t) \/ SubmitUpdate(t) => Same
      BY DEF SubmitCreate, SubmitUpdate, TypeOK
<1>4. CountActive(t) \/ NextNumber(t) \/ ReadFlag(t) \/ ClearedAll(t) => Same
      BY DEF CountActive, NextNumber, ReadFlag, ClearedAll, TypeOK
<1>5. InsertLocation(t) => Same
      BY LocationsAssumption DEF InsertLocation, TypeOK
<1>6. LockLocation(t) => Same
      BY LocationsAssumption DEF LockLocation, Proceed, TypeOK
<1>7. SetLocation(t) => Same
      BY LocationsAssumption DEF SetLocation, TypeOK
<1>8. ClearRow(t) => Same
      BY LocationsAssumption DEF ClearRow, TypeOK
<1>9. QED
      BY <1>1, <1>2, <1>3, <1>4, <1>5, <1>6, <1>7, <1>8 DEF AnyStep, Submit, Step

\* Only a commit changes locations, and only the start of a request forgets
\* the defaults there were.
LEMMA LocationsOfStep ==
    ASSUME TypeOK, NEW t \in Txs, AnyStep(t)
    PROVE  \/ Commit(t)
           \/ /\ UNCHANGED dbVars
              /\ \A v \in Txs : v # t => since'[v] = since[v]
              /\ UNCHANGED since \/ (Submit(t) /\ since'[t] = defaults)
<1>1. CASE Submit(t)
      BY <1>1 DEF Submit, SubmitCreate, SubmitUpdate, TypeOK
<1>2. CASE Step(t)
      BY <1>2 DEF Step, Rollback, CountActive, NextNumber, InsertLocation, ReadFlag, ReadRefused,
                  LockLocation, LockRefused, SetLocation, ClearRow, ClearedAll, IndexRefuses
<1>3. CASE Rollback(t)
      BY <1>3 DEF Rollback
<1>4. QED
      BY <1>1, <1>2, <1>3 DEF AnyStep

\* A commit leaves the one default there was, or makes its location the one.
LEMMA DefaultsOfCommit ==
    ASSUME TypeOK, ExactlyOneDefault, NEW t \in Txs, TxInv(t), Commit(t)
    PROVE  /\ own[t] \in Locs /\ rowLock[own[t]] = t
           /\ wants[t] => defaults' = {own[t]} /\ own[t] \in active'
           /\ ~wants[t] => defaults' = defaults /\ own[t] \notin defaults
           /\ active \ {own[t]} \subseteq active'
           /\ \A v \in Txs : since'[v] = since[v] \cup defaults'
<1>1. pc[t] = "commit" /\ pc[t] # "idle"
      BY DEF Commit
<1>2. own[t] \in Locs /\ rowLock[own[t]] = t
      BY <1>1 DEF TypeOK, TxInv, About, Held
<1>3. wants[t] => defaults' = {own[t]} /\ own[t] \in active'
      BY <1>1 DEF TxInv, Claimed, Wanted, Commit
<1>4. ~wants[t] => defaults' = defaults /\ own[t] \notin defaults
      BY <1>1 DEF TxInv, Claimed, About, Commit
<1>5. active \ {own[t]} \subseteq active'
      BY DEF Commit
<1>6. \A v \in Txs : since'[v] = since[v] \cup defaults'
      BY DEF Commit
<1>7. QED
      BY <1>2, <1>3, <1>4, <1>5, <1>6

LEMMA OthersKept ==
    ASSUME TypeOK, ExactlyOneDefault, OneClaim, NEW t \in Txs, AnyStep(t), TxInv(t),
           NEW v \in Txs, v # t, TxInv(v)
    PROVE  TxInv(v)'
<1>1. /\ pc'[v] = pc[v] /\ own'[v] = own[v] /\ asked'[v] = asked[v]
      /\ stays'[v] = stays[v] /\ wants'[v] = wants[v] /\ cleared'[v] = cleared[v]
      /\ \A l \in Locs : rowLock[l] = v => rowLock'[l] = v
      BY StepOfOne
<1>2. About(v)'
      BY <1>1 DEF TxInv, About
<1>3. Held(v)'
      BY <1>1 DEF TxInv, Held, TypeOK
<1>4. CASE UNCHANGED dbVars /\ since'[v] = since[v]
      BY <1>1, <1>2, <1>3, <1>4 DEF TxInv, Wanted, Claimed, dbVars
<1>5. CASE Commit(t)
      <2>1. Wanted(v)'
            BY <1>1, <1>5, DefaultsOfCommit DEF TxInv, Wanted
      <2>2. Claims(v) => ~wants[t]
            BY <1>5 DEF OneClaim, Claims, Commit
      <2>3. pc[v] \in {"set", "commit"} => own[v] # own[t]
            <3>1. pc[v] \in {"set", "commit"} => rowLock[own[v]] = v
                  BY DEF TxInv, Held, About
            <3>2. QED
                  BY <1>5, <3>1, DefaultsOfCommit
      <2>4. (wants[t] /\ defaults' = {own[t]}) \/ (~wants[t] /\ defaults' = defaults)
            BY <1>5, DefaultsOfCommit DEF TypeOK
      <2>5. Claimed(v)'
            BY <1>1, <2>2, <2>3, <2>4 DEF TxInv, Claimed, Claims
      <2>6. QED
            BY <1>2, <1>3, <2>1, <2>5 DEF TxInv
<1>6. QED
      BY <1>4, <1>5, LocationsOfStep

------------------------------------------------------------------------------
(* What a step does for its own request *)

LEMMA EndKept ==
    ASSUME TypeOK, NEW t \in Txs, End(t)
    PROVE  TxInv(t)'
<1>1. pc'[t] = "idle" /\ own'[t] = None /\ wants'[t] = FALSE /\ stays'[t] = TRUE /\ cleared'[t] = {}
      BY DEF End, Goto, TypeOK
<1>2. QED
      BY <1>1 DEF TxInv, About, Wanted, Held, Claimed

LEMMA SubmitKept ==
    ASSUME TypeOK, NEW t \in Txs, Submit(t), TxInv(t)
    PROVE  TxInv(t)'
<1>1. CASE SubmitCreate(t)
      <2>1. /\ pc'[t] = "count" /\ own'[t] = None /\ since'[t] = defaults /\ wants'[t] = wants[t]
            /\ stays'[t] = TRUE /\ cleared'[t] = {} /\ wants[t] = FALSE /\ UNCHANGED <<defaults, rowLock>>
            BY <1>1 DEF SubmitCreate, Goto, TxInv, About, TypeOK, dbVars, lockVars
      <2>2. QED
            BY <2>1 DEF TxInv, About, Wanted, Held, Claimed
<1>2. CASE SubmitUpdate(t)
      <2>1. PICK l \in exists : \E a \in {"yes", "no", "omitted"}, w \in BOOLEAN :
                /\ a = "yes" => w
                /\ own' = [own EXCEPT ![t] = l]
                /\ asked' = [asked EXCEPT ![t] = a]
                /\ stays' = [stays EXCEPT ![t] = w]
                /\ wants' = [wants EXCEPT ![t] = (a = "yes")]
                /\ pc' = [pc EXCEPT ![t] = IF a = "omitted" THEN "read" ELSE "lock"]
            BY <1>2 DEF SubmitUpdate, Goto
      <2>2. /\ own'[t] = l /\ l # None /\ pc'[t] \in {"read", "lock"} /\ since'[t] = defaults
            /\ wants'[t] => stays'[t] /\ asked'[t] = "yes"
            /\ cleared'[t] = {} /\ defaults' = defaults
            BY <1>2, <2>1, LocationsAssumption DEF SubmitUpdate, TypeOK, TxInv, About, dbVars
      <2>3. QED
            BY <2>2 DEF TxInv, About, Wanted, Held, Claimed
<1>3. QED
      BY <1>1, <1>2 DEF Submit

\* A claim that meets no default out of its hands.
LEMMA ClaimKept ==
    ASSUME NEW t \in Txs, MayClaim(t)
    PROVE  /\ defaults \subseteq cleared[t] \cup {own[t]}
           /\ \A u \in Txs : Claims(u) => u = t
BY DEF MayClaim, InTheWay, MustWait

LEMMA StepKept ==
    ASSUME TypeOK, ExactlyOneDefault, NEW t \in Txs, Step(t), TxInv(t)
    PROVE  TxInv(t)'
<1> USE DEF Goto, dbVars, lockVars, requestVars
<1>1. CASE CountActive(t)
      <2>1. active # {}
            BY DEF ExactlyOneDefault
      <2>2. /\ pc'[t] = IF wants'[t] THEN "clear" ELSE "number"
            /\ wants'[t] => asked[t] = "yes" /\ stays[t]
            /\ own'[t] = None /\ cleared'[t] = {} /\ pc[t] # "idle"
            /\ UNCHANGED <<defaults, own, asked, stays, since, rowLock>>
            <3>1. CASE asked[t] = "yes"
                  BY <1>1, <2>1, <3>1 DEF CountActive, TypeOK, TxInv, About
            <3>2. CASE asked[t] # "yes"
                  <4>1. wants' = [wants EXCEPT ![t] = (asked[t] = "yes" \/ active = {})]
                        BY <1>1 DEF CountActive
                  <4>2. ~wants'[t]
                        BY <2>1, <3>2, <4>1, Zenon DEF TypeOK
                  <4>3. pc'[t] = "number"
                        BY <1>1, <2>1, <3>2 DEF CountActive, TypeOK
                  <4>4. QED
                        BY <1>1, <4>2, <4>3 DEF CountActive, TypeOK, TxInv, About
            <3>3. QED
                  BY <3>1, <3>2
      <2>3. QED
            BY <2>2 DEF TxInv, About, Wanted, Held, Claimed
<1>2. CASE NextNumber(t)
      BY <1>2 DEF NextNumber, TypeOK, TxInv, About, Wanted, Held, Claimed
<1>3. CASE InsertLocation(t)
      <2>1. PICK l \in Locs \ exists : /\ rowLock' = [rowLock EXCEPT ![l] = t]
                                        /\ own' = [own EXCEPT ![t] = l]
            BY <1>3 DEF InsertLocation
      <2>2. /\ pc[t] = "insert" /\ pc'[t] = "commit" /\ own'[t] = l /\ l # None /\ l \notin defaults
            /\ rowLock'[l] = t /\ \A k \in Locs : rowLock[k] = t => rowLock'[k] = t
            /\ own[t] = None /\ None \notin defaults /\ None \notin since[t]
            /\ UNCHANGED <<defaults, asked, stays, wants, since, cleared>>
            BY <1>3, <2>1, LocationsAssumption DEF InsertLocation, TypeOK, TxInv, About
      <2>3. wants[t] => defaults \subseteq cleared[t] \cup {own[t]}
            BY <1>3, ClaimKept DEF InsertLocation
      <2>4. QED
            BY <2>2, <2>3 DEF TxInv, About, Wanted, Held, Claimed, TypeOK
<1>4. CASE ReadFlag(t)
      <2>1. wants'[t] => stays[t] /\ own[t] \in defaults
            BY <1>4 DEF ReadFlag, FlagOf, TypeOK
      <2>2. /\ pc[t] = "read" /\ pc'[t] = "lock"
            /\ UNCHANGED <<defaults, own, asked, stays, since, cleared, rowLock>>
            BY <1>4 DEF ReadFlag, TypeOK
      <2>3. QED
            BY <2>1, <2>2 DEF TxInv, About, Wanted, Held, Claimed
<1>5. CASE LockLocation(t)
      <2>1. /\ pc[t] = "lock" /\ own[t] \in Locs /\ cleared[t] = {}
            /\ rowLock'[own[t]] = t
            /\ wants[t] => pc'[t] = "clear"
            /\ ~wants[t] => pc'[t] = "set" /\ own[t] \notin defaults
            /\ UNCHANGED <<defaults, own, asked, stays, wants, since, cleared>>
            BY <1>5 DEF LockLocation, Proceed, Permitted, TypeOK, TxInv, About
      <2>2. QED
            BY <2>1 DEF TxInv, About, Wanted, Held, Claimed
<1>6. CASE SetLocation(t)
      <2>1. /\ pc[t] = "set" /\ pc'[t] = "commit" /\ own[t] \in Locs
            /\ rowLock'[own[t]] = t
            /\ \A l \in Locs : rowLock[l] = t => rowLock'[l] = t
            /\ UNCHANGED <<defaults, own, asked, stays, wants, since, cleared>>
            BY <1>6 DEF SetLocation, TypeOK, TxInv, About
      <2>2. wants[t] => defaults \subseteq cleared[t] \cup {own[t]}
            BY <1>6, ClaimKept DEF SetLocation
      <2>3. QED
            BY <2>1, <2>2 DEF TxInv, About, Wanted, Held, Claimed, TypeOK
<1>7. CASE ClearRow(t)
      <2>1. PICK l \in clearing[t] : /\ rowLock' = [rowLock EXCEPT ![l] = t]
                                     /\ cleared' = [cleared EXCEPT ![t] = @ \cup {l}]
            BY <1>7 DEF ClearRow
      <2>2. /\ pc[t] = "clear" /\ l \in Locs
            /\ rowLock'[l] = t /\ cleared'[t] = cleared[t] \cup {l}
            /\ \A k \in Locs : rowLock[k] = t => rowLock'[k] = t
            /\ UNCHANGED <<pc, defaults, own, asked, stays, wants, since>>
            BY <1>7, <2>1 DEF ClearRow, TypeOK
      <2>3. cleared[t] \subseteq Locs /\ own[t] \in Locs \cup {None}
            BY DEF TypeOK
      <2>4. QED
            BY <2>2, <2>3 DEF TxInv, About, Wanted, Held, Claimed
<1>8. CASE ClearedAll(t)
      <2>1. /\ pc[t] = "clear" /\ pc'[t] = (IF own[t] = None THEN "number" ELSE "set")
            /\ UNCHANGED <<defaults, own, asked, stays, wants, since, cleared, rowLock>>
            BY <1>8 DEF ClearedAll, TypeOK
      <2>2. QED
            BY <2>1 DEF TxInv, About, Wanted, Held, Claimed
<1>9. CASE ReadRefused(t) \/ LockRefused(t) \/ IndexRefuses(t) \/ Commit(t)
      BY <1>9, EndKept DEF ReadRefused, LockRefused, IndexRefuses, Rollback, Commit
<1>10. QED
      BY <1>1, <1>2, <1>3, <1>4, <1>5, <1>6, <1>7, <1>8, <1>9 DEF Step

LEMMA OwnKept ==
    ASSUME TypeOK, ExactlyOneDefault, NEW t \in Txs, AnyStep(t), TxInv(t)
    PROVE  TxInv(t)'
BY SubmitKept, StepKept, EndKept DEF AnyStep, Rollback

------------------------------------------------------------------------------
(* The invariant *)

\* A step that makes a claim meets no other; the others only lose theirs.
LEMMA ClaimsOfStep ==
    ASSUME TypeOK, OneClaim, NEW t \in Txs, AnyStep(t), TxInv(t)
    PROVE  OneClaim'
<1>1. \A v \in Txs : v # t => (Claims(v)' <=> Claims(v))
      BY StepOfOne DEF Claims
<1>2. Claims(t)' => (\A u \in Txs : Claims(u) => u = t)
      <2>1. CASE InsertLocation(t) \/ SetLocation(t)
            BY <2>1, ClaimKept DEF InsertLocation, SetLocation, Claims, requestVars
      <2>2. CASE Submit(t)
            BY <2>2 DEF Submit, SubmitCreate, SubmitUpdate, Goto, Claims, TypeOK
      <2>3. CASE Rollback(t) \/ Commit(t) \/ ReadRefused(t) \/ LockRefused(t) \/ IndexRefuses(t)
            BY <2>3 DEF Rollback, Commit, ReadRefused, LockRefused, IndexRefuses, End, Goto, Claims, TypeOK
      <2>4. CASE CountActive(t) \/ NextNumber(t) \/ ReadFlag(t) \/ LockLocation(t) \/ ClearRow(t)
                 \/ ClearedAll(t)
            BY <2>4 DEF CountActive, NextNumber, ReadFlag, LockLocation, Proceed, ClearRow, ClearedAll,
                        Goto, Claims, TypeOK
      <2>5. QED
            BY <2>1, <2>2, <2>3, <2>4 DEF AnyStep, Step
<1>3. QED
      BY <1>1, <1>2 DEF OneClaim

LEMMA DefaultKept ==
    ASSUME TypeOK, ExactlyOneDefault, NEW t \in Txs, AnyStep(t), TxInv(t)
    PROVE  ExactlyOneDefault'
<1>1. CASE UNCHANGED dbVars
      BY <1>1 DEF ExactlyOneDefault, dbVars
<1>2. CASE Commit(t)
      BY <1>2, DefaultsOfCommit DEF ExactlyOneDefault
<1>3. QED
      BY <1>1, <1>2, LocationsOfStep

LEMMA InitInv == Init => IInv
<1>1. Init => TypeOK
      BY LocationsAssumption DEF Init, TypeOK, Active
<1>2. Init => ExactlyOneDefault
      BY DEF Init, ExactlyOneDefault
<1>3. Init => OneClaim
      BY DEF Init, OneClaim, Claims
<1>4. Init => \A t \in Txs : TxInv(t)
      BY DEF Init, TxInv, About, Wanted, Held, Claimed
<1>5. QED
      BY <1>1, <1>2, <1>3, <1>4 DEF IInv

LEMMA NextOfOne == Next => \E t \in Txs : AnyStep(t)
BY DEF Next, AnyStep, Submit, Cancel, DeadlockVictim

LEMMA NextInv == IInv /\ [Next]_vars => IInv'
<1>1. CASE UNCHANGED vars
      BY <1>1 DEF IInv, vars, dbVars, lockVars, requestVars, TypeOK, ExactlyOneDefault, OneClaim, Claims,
                  TxInv, About, Wanted, Held, Claimed
<1>2. ASSUME IInv, NEW t \in Txs, AnyStep(t) PROVE IInv'
      <2>1. TypeOK'
            BY <1>2, SubmitTypes, StepTypes, RollbackTypes DEF AnyStep, IInv
      <2>2. ExactlyOneDefault' /\ OneClaim'
            BY <1>2, DefaultKept, ClaimsOfStep DEF IInv
      <2>3. \A v \in Txs : TxInv(v)'
            BY <1>2, OwnKept, OthersKept DEF IInv
      <2>4. QED
            BY <2>1, <2>2, <2>3 DEF IInv
<1>3. QED
      BY <1>1, <1>2, NextOfOne

\* The inductive invariant holds in every reachable state: the rows a request
\* has cleared stay locked until it ends, a claim covers every default, and no
\* two requests hold a claim (repository_locations.go:27-98).
THEOREM Invariance == Spec => []IInv
BY InitInv, NextInv, PTL DEF Spec

\* A business always has exactly one default location, and it is active.
THEOREM OneDefault == Spec => []ExactlyOneDefault
<1>1. IInv => ExactlyOneDefault
      BY DEF IInv
<1>2. QED
      BY <1>1, Invariance, PTL

\* The default moves only to a location whose request asked for it, or which
\* was the default at some time since that request began.
THEOREM DefaultMoves == Spec => DefaultMovesByRequest
<1>1. IInv /\ [Next]_vars =>
          [defaults' # defaults =>
             \E t \in Txs :
                 /\ pc[t] = "commit" /\ pc'[t] = "idle"
                 /\ defaults' = {own[t]}
                 /\ asked[t] = "yes" \/ own[t] \in since[t]]_vars
      <2>1. SUFFICES ASSUME IInv, NEW t \in Txs, AnyStep(t), defaults' # defaults
                     PROVE  /\ pc[t] = "commit" /\ pc'[t] = "idle"
                            /\ defaults' = {own[t]}
                            /\ asked[t] = "yes" \/ own[t] \in since[t]
            BY NextOfOne
      <2>2. Commit(t)
            BY <2>1, LocationsOfStep DEF IInv, dbVars
      <2>3. wants[t] /\ defaults' = {own[t]}
            BY <2>1, <2>2, DefaultsOfCommit DEF IInv, TypeOK
      <2>4. pc[t] = "commit" /\ pc'[t] = "idle"
            BY <2>1, <2>2 DEF Commit, End, Goto, IInv, TypeOK
      <2>5. QED
            BY <2>1, <2>3, <2>4 DEF IInv, TxInv, Wanted
<1>2. QED
      BY <1>1, Invariance, PTL DEF Spec, DefaultMovesByRequest
=============================================================================
