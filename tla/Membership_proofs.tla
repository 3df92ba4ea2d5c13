-------------------------- MODULE Membership_proofs --------------------------
(***************************************************************************)
(* Ownership of a business for any number of users, roles and concurrent   *)
(* requests.                                                               *)
(***************************************************************************)
EXTENDS Membership, FiniteSetTheorems, TLAPS

------------------------------------------------------------------------------
(* The inductive invariant *)

\* Where an update and where an invitation can be.
PcOfKind(t) ==
    /\ pc[t] \in {"select", "member", "user", "role", "count", "write"} =>
           request[t].kind = "UPDATE"
    /\ pc[t] \in {"insert", "shareUser"} => request[t].kind = "INVITE"

\* Only a request admitted as an owner's assigns the role OWNER, and an
\* invitation makes nobody active.
Assigned(t) ==
    pc[t] # "idle" =>
        /\ request[t].role = "OWNER" => admitted[t] = "OWNER"
        /\ request[t].kind = "INVITE" => request[t].status = "INVITED"

\* The locks a request has collected, and what it may rely on under them.
Selecting(t) ==
    /\ pc[t] \in {"member", "user", "role"} => seenRole[t] \in Roles
    /\ pc[t] \in {"user", "role"} => memberLock[Target(t)] = t

Located(t) ==
    pc[t] \in {"count", "write"} \cup Written /\ request[t].kind = "UPDATE" =>
        /\ memberLock[Target(t)] = t
        /\ seenRole[t] \in Roles
        /\ roleUpdate[seenRole[t]] = t
        /\ role[Target(t)] = seenRole[t]
        /\ status[Target(t)] = seenStatus[t]
        /\ MayTouch(t)

Inviting(t) ==
    pc[t] \in Written /\ request[t].kind = "INVITE" =>
        /\ memberLock[Target(t)] = t
        /\ role[Target(t)] = None

\* Past the count, somebody else is an active owner.
OthersOwn(t) ==
    pc[t] \in {"write"} \cup Written /\ request[t].kind = "UPDATE"
      /\ seenRole[t] = "OWNER" /\ GivesUp(t) =>
        \E u \in Users \ {Target(t)} : ActiveOwner(u)

TxInv(t) ==
    PcOfKind(t) /\ Assigned(t) /\ Selecting(t) /\ Located(t) /\ Inviting(t) /\ OthersOwn(t)

IInv == TypeOK /\ OwnerRemains /\ \A t \in Txs : TxInv(t)

------------------------------------------------------------------------------
(* Types *)

LEMMA RequestOf ==
    ASSUME TypeOK, NEW t \in Txs, pc[t] # "idle"
    PROVE  /\ request[t] \in Requests
           /\ request[t].kind \in {"INVITE", "UPDATE"}
           /\ request[t].actor \in Users /\ Target(t) \in Users
           /\ request[t].role \in Roles /\ request[t].status \in Statuses
BY DEF TypeOK, Requests, Target

LEMMA ReleaseTypes ==
    ASSUME TypeOK, NEW t \in Txs, ReleaseLocks(t)
    PROVE  /\ memberLock' \in [Users -> Txs \cup {None}]
           /\ userUpdate' \in [Users -> Txs \cup {None}]
           /\ userShare' \in [Users -> SUBSET Txs]
           /\ roleUpdate' \in [Roles -> Txs \cup {None}]
           /\ roleShare' \in [Roles -> SUBSET Txs]
<1>1. memberLock' \in [Users -> Txs \cup {None}]
      BY DEF TypeOK, ReleaseLocks
<1>2. userUpdate' \in [Users -> Txs \cup {None}]
      BY DEF TypeOK, ReleaseLocks
<1>3. userShare' \in [Users -> SUBSET Txs]
      BY DEF TypeOK, ReleaseLocks
<1>4. roleUpdate' \in [Roles -> Txs \cup {None}]
      BY DEF TypeOK, ReleaseLocks
<1>5. roleShare' \in [Roles -> SUBSET Txs]
      BY DEF TypeOK, ReleaseLocks
<1>6. QED
      BY <1>1, <1>2, <1>3, <1>4, <1>5

LEMMA EndTypes ==
    ASSUME TypeOK, NEW t \in Txs, End(t),
           role' \in [Users -> Roles \cup {None}],
           status' \in [Users -> Statuses \cup {None}]
    PROVE  TypeOK'
<1>1. /\ memberLock' \in [Users -> Txs \cup {None}]
      /\ userUpdate' \in [Users -> Txs \cup {None}]
      /\ userShare' \in [Users -> SUBSET Txs]
      /\ roleUpdate' \in [Roles -> Txs \cup {None}]
      /\ roleShare' \in [Roles -> SUBSET Txs]
      BY ReleaseTypes DEF End
<1>2. /\ pc' \in [Txs -> Active \cup {"idle"}]
      /\ request' \in [Txs -> Requests \cup {None}]
      BY DEF End, Goto, TypeOK
<1>3. \A u \in Txs : pc'[u] # "idle" => request'[u] \in Requests
      BY DEF End, Goto, TypeOK
<1>4. admitted' \in [Txs -> Roles \cup {None}]
      BY DEF End, TypeOK
<1>5. seenRole' \in [Txs -> Roles \cup {None}]
      BY DEF End, TypeOK
<1>6. seenStatus' \in [Txs -> Statuses \cup {None}]
      BY DEF End, TypeOK
<1>7. QED
      BY <1>1, <1>2, <1>3, <1>4, <1>5, <1>6 DEF TypeOK

LEMMA AdmitTypes ==
    ASSUME TypeOK, NEW t \in Txs, Admit(t)
    PROVE  TypeOK'
<1>1. PICK q \in Requests :
          /\ role[q.actor] \in {"OWNER", "ADMIN"}
          /\ request' = [request EXCEPT ![t] = q]
          /\ admitted' = [admitted EXCEPT ![t] = role[q.actor]]
          /\ pc' = [pc EXCEPT ![t] = IF q.kind = "INVITE" THEN "insert" ELSE "select"]
          /\ UNCHANGED <<dbVars, lockVars, seenRole, seenStatus>>
      BY DEF Admit, Goto
<1>2. pc' \in [Txs -> Active \cup {"idle"}]
      BY <1>1 DEF TypeOK, Active
<1>3. /\ request' \in [Txs -> Requests \cup {None}]
      /\ \A u \in Txs : pc'[u] # "idle" => request'[u] \in Requests
      BY <1>1 DEF TypeOK
<1>4. admitted' \in [Txs -> Roles \cup {None}]
      <2>1. role[q.actor] \in Roles
            BY <1>1, MembershipAssumption
      <2>2. QED
            BY <1>1, <2>1 DEF TypeOK
<1>5. QED
      BY <1>1, <1>2, <1>3, <1>4 DEF TypeOK, dbVars, lockVars

LEMMA StepTypes ==
    ASSUME TypeOK, NEW t \in Txs, Step(t), TxInv(t)
    PROVE  TypeOK'
<1> USE DEF Goto, dbVars, lockVars
<1>1. pc[t] # "idle"
      BY DEF Step, Select, SelectNothing, LockMember, LockUser, LockRole, Refuse, CountOwners,
             Write, Insert, InsertDuplicate, ShareUser, ShareRole, Audit, Commit
<1>2. /\ Target(t) \in Users /\ request[t].actor \in Users
      /\ request[t].role \in Roles /\ request[t].status \in Statuses
      BY <1>1, RequestOf
<1>3. ASSUME Rollback(t) PROVE TypeOK'
      BY <1>3, EndTypes DEF Rollback, TypeOK
<1>4. ASSUME NEW s \in Active, pc' = [pc EXCEPT ![t] = s], UNCHANGED <<dbVars, request, admitted>>,
             memberLock' \in [Users -> Txs \cup {None}],
             userUpdate' \in [Users -> Txs \cup {None}],
             userShare' \in [Users -> SUBSET Txs],
             roleUpdate' \in [Roles -> Txs \cup {None}],
             roleShare' \in [Roles -> SUBSET Txs],
             seenRole' \in [Txs -> Roles \cup {None}],
             seenStatus' \in [Txs -> Statuses \cup {None}]
      PROVE  TypeOK'
      <2>1. pc' \in [Txs -> Active \cup {"idle"}]
            BY <1>4 DEF TypeOK
      <2>2. \A u \in Txs : pc'[u] # "idle" => request'[u] \in Requests
            BY <1>1, <1>4 DEF TypeOK
      <2>3. QED
            BY <1>4, <2>1, <2>2 DEF TypeOK
<1>5. CASE Select(t)
      <2>1. seenRole' \in [Txs -> Roles \cup {None}]
            BY <1>2, <1>5 DEF Select, TypeOK
      <2>2. QED
            BY <1>4, <1>5, <2>1 DEF Select, TypeOK, Active
<1>6. CASE SelectNothing(t)
      BY <1>3, <1>6 DEF SelectNothing
<1>7. CASE LockMember(t)
      <2>1. memberLock' \in [Users -> Txs \cup {None}]
            BY <1>7 DEF LockMember, TypeOK
      <2>2. QED
            BY <1>4, <1>7, <2>1 DEF LockMember, TypeOK, Active
<1>8. CASE LockUser(t)
      <2>1. userUpdate' \in [Users -> Txs \cup {None}]
            BY <1>8 DEF LockUser, TypeOK
      <2>2. QED
            BY <1>4, <1>8, <2>1 DEF LockUser, TypeOK, Active
<1>9. CASE LockRole(t)
      <2>1. roleUpdate' \in [Roles -> Txs \cup {None}]
            BY <1>9 DEF LockRole, TypeOK
      <2>2. seenStatus' \in [Txs -> Statuses \cup {None}]
            BY <1>2, <1>9 DEF LockRole, TypeOK
      <2>3. PICK s \in {"count", "write"} : pc' = [pc EXCEPT ![t] = s]
            BY <1>9 DEF LockRole
      <2>4. QED
            BY <1>4, <1>9, <2>1, <2>2, <2>3 DEF LockRole, TypeOK, Active
<1>10. CASE Refuse(t)
      BY <1>3, <1>10 DEF Refuse
<1>11. CASE CountOwners(t)
      <2>1. CASE Rollback(t)
            BY <1>3, <2>1
      <2>2. CASE /\ pc' = [pc EXCEPT ![t] = "write"]
                 /\ UNCHANGED <<dbVars, lockVars, request, admitted, seenRole, seenStatus>>
            BY <1>4, <2>2 DEF TypeOK, Active
      <2>3. QED
            BY <1>11, <2>1, <2>2 DEF CountOwners
<1>12. CASE Write(t)
      <2>1. PICK s \in {"audit", "shareRole"} : pc' = [pc EXCEPT ![t] = s]
            BY <1>12 DEF Write
      <2>2. QED
            BY <1>4, <1>12, <2>1 DEF Write, TypeOK, Active
<1>13. CASE Insert(t)
      <2>1. memberLock' \in [Users -> Txs \cup {None}]
            BY <1>13 DEF Insert, TypeOK
      <2>2. QED
            BY <1>4, <1>13, <2>1 DEF Insert, TypeOK, Active
<1>14. CASE InsertDuplicate(t)
      BY <1>3, <1>14 DEF InsertDuplicate
<1>15. CASE ShareUser(t)
      <2>1. userShare' \in [Users -> SUBSET Txs]
            BY <1>15 DEF ShareUser, TypeOK
      <2>2. QED
            BY <1>4, <1>15, <2>1 DEF ShareUser, TypeOK, Active
<1>16. CASE ShareRole(t)
      <2>1. roleShare' \in [Roles -> SUBSET Txs]
            BY <1>16 DEF ShareRole, TypeOK
      <2>2. QED
            BY <1>4, <1>16, <2>1 DEF ShareRole, TypeOK, Active
<1>17. CASE Audit(t)
      <2>1. userShare' \in [Users -> SUBSET Txs]
            BY <1>17 DEF Audit, TypeOK
      <2>2. QED
            BY <1>4, <1>17, <2>1 DEF Audit, TypeOK, Active
<1>18. CASE Commit(t)
      <2>1. role' \in [Users -> Roles \cup {None}]
            BY <1>2, <1>18 DEF Commit, TypeOK
      <2>2. status' \in [Users -> Statuses \cup {None}]
            BY <1>2, <1>18 DEF Commit, TypeOK
      <2>3. QED
            BY <1>18, <2>1, <2>2, EndTypes DEF Commit
<1>19. QED
      BY <1>5, <1>6, <1>7, <1>8, <1>9, <1>10, <1>11, <1>12, <1>13, <1>14, <1>15, <1>16, <1>17, <1>18 DEF Step

------------------------------------------------------------------------------
(* What a step leaves to the other requests *)

\* A step changes nothing in the requests under way beside its own, and takes
\* no lock from them.
LEMMA StepOfOne ==
    ASSUME TypeOK, NEW t \in Txs, Admit(t) \/ Step(t) \/ Rollback(t), NEW v \in Txs, v # t
    PROVE  /\ pc'[v] = pc[v] /\ request'[v] = request[v] /\ admitted'[v] = admitted[v]
           /\ seenRole'[v] = seenRole[v] /\ seenStatus'[v] = seenStatus[v]
<1> DEFINE Same == /\ pc'[v] = pc[v] /\ request'[v] = request[v] /\ admitted'[v] = admitted[v]
                   /\ seenRole'[v] = seenRole[v] /\ seenStatus'[v] = seenStatus[v]
<1>1. End(t) => Same
      BY DEF End, Goto, TypeOK
<1>2. Rollback(t) \/ Commit(t) => Same
      BY <1>1 DEF Rollback, Commit
<1>3. Admit(t) => Same
      BY DEF Admit, Goto, TypeOK
<1>4. Select(t) \/ LockMember(t) \/ LockUser(t) \/ LockRole(t) => Same
      BY DEF Select, LockMember, LockUser, LockRole, Goto, TypeOK
<1>5. Write(t) \/ Insert(t) \/ ShareUser(t) \/ ShareRole(t) \/ Audit(t) => Same
      BY DEF Write, Insert, ShareUser, ShareRole, Audit, Goto, TypeOK
<1>6. CountOwners(t) => Same
      BY <1>2 DEF CountOwners, Goto, TypeOK
<1>7. SelectNothing(t) \/ Refuse(t) \/ InsertDuplicate(t) => Same
      BY <1>2 DEF SelectNothing, Refuse, InsertDuplicate
<1>8. QED
      BY <1>2, <1>3, <1>4, <1>5, <1>6, <1>7 DEF Step

LEMMA LocksOfOthers ==
    ASSUME TypeOK, NEW t \in Txs, Admit(t) \/ Step(t) \/ Rollback(t), NEW v \in Txs, v # t
    PROVE  /\ \A u \in Users : memberLock[u] = v => memberLock'[u] = v
           /\ \A r \in Roles : roleUpdate[r] = v => roleUpdate'[r] = v
<1> DEFINE Kept == /\ \A u \in Users : memberLock[u] = v => memberLock'[u] = v
                   /\ \A r \in Roles : roleUpdate[r] = v => roleUpdate'[r] = v
<1>1. ReleaseLocks(t) => Kept
      BY DEF ReleaseLocks
<1>2. Rollback(t) \/ Commit(t) => Kept
      BY <1>1 DEF Rollback, Commit, End
<1>3. UNCHANGED <<memberLock, roleUpdate>> => Kept
      OBVIOUS
<1>4. Admit(t) \/ Select(t) \/ LockUser(t) \/ Write(t) \/ ShareUser(t) \/ ShareRole(t) \/ Audit(t) => Kept
      BY <1>3 DEF Admit, Select, LockUser, Write, ShareUser, ShareRole, Audit, lockVars
<1>5. LockMember(t) \/ Insert(t) => Kept
      BY MembershipAssumption DEF LockMember, Insert, TypeOK
<1>6. LockRole(t) => Kept
      BY MembershipAssumption DEF LockRole, CanUpdate, TypeOK
<1>7. CountOwners(t) => Kept
      BY <1>2, <1>3 DEF CountOwners, lockVars
<1>8. SelectNothing(t) \/ Refuse(t) \/ InsertDuplicate(t) => Kept
      BY <1>2 DEF SelectNothing, Refuse, InsertDuplicate
<1>9. QED
      BY <1>2, <1>4, <1>5, <1>6, <1>7, <1>8 DEF Step

\* Only a commit changes members.
LEMMA MembersOfStep ==
    ASSUME NEW t \in Txs, Admit(t) \/ Step(t) \/ Rollback(t)
    PROVE  Commit(t) \/ UNCHANGED dbVars
BY DEF Admit, Step, Rollback, Select, SelectNothing, LockMember, LockUser, LockRole, Refuse,
       CountOwners, Write, Insert, InsertDuplicate, ShareUser, ShareRole, Audit

\* A commit writes the row it has locked.  It takes an owner away only under
\* the lock of the row of the role OWNER.
LEMMA MembersOfCommit ==
    ASSUME TypeOK, NEW t \in Txs, TxInv(t), Commit(t)
    PROVE  /\ Target(t) \in Users /\ memberLock[Target(t)] = t
           /\ role' = [role EXCEPT ![Target(t)] = request[t].role]
           /\ status' = [status EXCEPT ![Target(t)] = request[t].status]
           /\ role[Target(t)] = "OWNER" =>
                 /\ request[t].kind = "UPDATE" /\ seenRole[t] = "OWNER"
                 /\ roleUpdate["OWNER"] = t /\ admitted[t] = "OWNER"
<1>1. pc[t] = "commit" /\ pc[t] # "idle" /\ pc[t] \in Written
      BY DEF Commit, Written
<1>2. Target(t) \in Users /\ request[t].kind \in {"INVITE", "UPDATE"}
      BY <1>1, RequestOf
<1>3. CASE request[t].kind = "UPDATE"
      BY <1>1, <1>2, <1>3 DEF TxInv, Located, MayTouch, Commit
<1>4. CASE request[t].kind = "INVITE"
      BY <1>1, <1>2, <1>4, MembershipAssumption DEF TxInv, Inviting, Commit
<1>5. QED
      BY <1>2, <1>3, <1>4

\* A request is not disturbed while its locks and its rows are left alone.
LEMMA Frame ==
    ASSUME NEW v \in Txs, TxInv(v), "OWNER" \in Roles, TypeOK,
           pc'[v] = pc[v], request'[v] = request[v], admitted'[v] = admitted[v],
           seenRole'[v] = seenRole[v], seenStatus'[v] = seenStatus[v],
           \A u \in Users : memberLock[u] = v => memberLock'[u] = v,
           \A r \in Roles : roleUpdate[r] = v => roleUpdate'[r] = v,
           \A u \in Users : memberLock[u] = v => role'[u] = role[u] /\ status'[u] = status[u],
           roleUpdate["OWNER"] = v => \A u \in Users : ActiveOwner(u) => ActiveOwner(u)'
    PROVE  TxInv(v)'
<1>1. Target(v)' = Target(v) /\ GivesUp(v)' = GivesUp(v) /\ MayTouch(v)' = MayTouch(v)
      BY DEF Target, GivesUp, MayTouch
<1>2. PcOfKind(v)' /\ Assigned(v)'
      BY DEF TxInv, PcOfKind, Assigned
<1>3. pc[v] # "idle" => Target(v) \in Users
      BY RequestOf
<1>4. Selecting(v)'
      BY <1>1, <1>3 DEF TxInv, Selecting
<1>5. Located(v)'
      BY <1>1, <1>3 DEF TxInv, Located, Written
<1>6. Inviting(v)'
      BY <1>1, <1>3 DEF TxInv, Inviting, Written
<1>7. OthersOwn(v)'
      <2>1. SUFFICES ASSUME pc[v] \in {"write"} \cup Written, request[v].kind = "UPDATE",
                            seenRole[v] = "OWNER", GivesUp(v)
                     PROVE  \E u \in Users \ {Target(v)} : ActiveOwner(u)'
            BY <1>1 DEF OthersOwn
      <2>2. PICK u \in Users \ {Target(v)} : ActiveOwner(u)
            BY <2>1 DEF TxInv, OthersOwn
      <2>3. roleUpdate["OWNER"] = v
            BY <2>1 DEF TxInv, Located
      <2>4. QED
            BY <2>2, <2>3
<1>8. QED
      BY <1>2, <1>4, <1>5, <1>6, <1>7 DEF TxInv

LEMMA OthersKept ==
    ASSUME TypeOK, NEW t \in Txs, Admit(t) \/ Step(t) \/ Rollback(t), TxInv(t),
           NEW v \in Txs, v # t, TxInv(v)
    PROVE  TxInv(v)'
<1>1. CASE UNCHANGED dbVars
      BY <1>1, StepOfOne, LocksOfOthers, Frame, MembershipAssumption DEF dbVars, ActiveOwner
<1>2. CASE Commit(t)
      <2>1. \A u \in Users : memberLock[u] = v => role'[u] = role[u] /\ status'[u] = status[u]
            BY <1>2, MembersOfCommit DEF TypeOK
      <2>2. roleUpdate["OWNER"] = v => \A u \in Users : ActiveOwner(u) => ActiveOwner(u)'
            BY <1>2, MembersOfCommit DEF TypeOK, ActiveOwner
      <2>3. QED
            BY <2>1, <2>2, StepOfOne, LocksOfOthers, Frame, MembershipAssumption
<1>3. QED
      BY <1>1, <1>2, MembersOfStep

------------------------------------------------------------------------------
(* What a step does for its own request *)

\* After its end nothing is asked of a request.
LEMMA EndKept ==
    ASSUME TypeOK, NEW t \in Txs, End(t)
    PROVE  TxInv(t)'
<1>1. pc'[t] = "idle"
      BY DEF End, Goto, TypeOK
<1>2. QED
      BY <1>1 DEF TxInv, PcOfKind, Assigned, Selecting, Located, Inviting, OthersOwn, Written

LEMMA AdmitKept ==
    ASSUME TypeOK, NEW t \in Txs, Admit(t)
    PROVE  TxInv(t)'
<1>1. PICK q \in Requests :
          /\ q.role = "OWNER" => role[q.actor] = "OWNER"
          /\ q.kind = "INVITE" => q.status = "INVITED"
          /\ request' = [request EXCEPT ![t] = q]
          /\ admitted' = [admitted EXCEPT ![t] = role[q.actor]]
          /\ pc' = [pc EXCEPT ![t] = IF q.kind = "INVITE" THEN "insert" ELSE "select"]
      BY DEF Admit, Goto, MayAssign
<1>2. /\ request'[t] = q /\ admitted'[t] = role[q.actor]
      /\ pc'[t] = IF q.kind = "INVITE" THEN "insert" ELSE "select"
      BY <1>1 DEF TypeOK
<1>3. q.kind \in {"INVITE", "UPDATE"}
      BY DEF Requests
<1>4. QED
      BY <1>1, <1>2, <1>3 DEF TxInv, PcOfKind, Assigned, Selecting, Located, Inviting, OthersOwn, Written

\* When two are counted, no member is the last active owner.
LEMMA AnotherOwner ==
    ASSUME NEW x, ~(Cardinality(ActiveOwners) <= 1)
    PROVE  \E u \in Users \ {x} : ActiveOwner(u)
<1>1. SUFFICES ASSUME ActiveOwners \subseteq {x} PROVE FALSE
      BY DEF ActiveOwners
<1>2. IsFiniteSet({x}) /\ Cardinality({x}) = 1
      BY FS_Singleton
<1>3. Cardinality(ActiveOwners) \in Nat /\ Cardinality(ActiveOwners) <= 1
      BY <1>1, <1>2, FS_Subset, FS_CardinalityType
<1>4. QED
      BY <1>3

LEMMA StepKept ==
    ASSUME TypeOK, NEW t \in Txs, TxInv(t), Step(t)
    PROVE  TxInv(t)'
<1> DEFINE Fixed == request'[t] = request[t] /\ admitted'[t] = admitted[t]
<1> USE DEF TxInv, PcOfKind, Assigned, Selecting, Located, Inviting, OthersOwn, Target, GivesUp, MayTouch
<1>1. ASSUME Rollback(t) PROVE TxInv(t)'
      BY <1>1, EndKept DEF Rollback
<1>2. CASE Select(t)
      <2>1. pc'[t] = "member" /\ seenRole'[t] = role[Target(t)] /\ Fixed
            BY <1>2 DEF Select, Goto, TypeOK
      <2>2. seenRole'[t] \in Roles /\ request[t].kind = "UPDATE" /\ pc[t] # "idle"
            BY <1>2, <2>1, RequestOf DEF Select, TypeOK
      <2>3. QED
            BY <2>1, <2>2 DEF Written
<1>3. CASE SelectNothing(t)
      BY <1>1, <1>3 DEF SelectNothing
<1>4. CASE LockMember(t)
      <2>1. pc'[t] = "user" /\ seenRole' = seenRole /\ Fixed
            BY <1>4 DEF LockMember, Goto, TypeOK
      <2>2. memberLock'[Target(t)] = t
            BY <1>4, RequestOf DEF LockMember, TypeOK
      <2>3. QED
            BY <1>4, <2>1, <2>2 DEF LockMember, Written
<1>5. CASE LockUser(t)
      <2>1. pc'[t] = "role" /\ UNCHANGED <<seenRole, memberLock>> /\ Fixed
            BY <1>5 DEF LockUser, Goto, TypeOK
      <2>2. QED
            BY <1>5, <2>1 DEF LockUser, Written
<1>6. CASE LockRole(t)
      <2>1. /\ pc[t] = "role" /\ pc'[t] \in {"count", "write"} /\ Fixed
            /\ pc'[t] = "write" => ~(seenRole[t] = "OWNER" /\ GivesUp(t))
            /\ UNCHANGED <<dbVars, memberLock, seenRole>>
            BY <1>6 DEF LockRole, Goto, TypeOK
      <2>2. seenRole[t] \in Roles /\ Target(t) \in Users
            BY <2>1, RequestOf
      <2>3. roleUpdate'[seenRole[t]] = t /\ seenStatus'[t] = status[Target(t)]
            BY <1>6, <2>2 DEF LockRole, TypeOK
      <2>4. role[Target(t)] = seenRole[t] /\ MayTouch(t)
            BY <1>6 DEF LockRole, StillFound
      <2>5. QED
            BY <2>1, <2>2, <2>3, <2>4 DEF Written, dbVars
<1>7. CASE Refuse(t)
      BY <1>1, <1>7 DEF Refuse
<1>8. CASE CountOwners(t)
      <2>1. CASE Rollback(t)
            BY <1>1, <2>1
      <2>2. CASE /\ ~(Cardinality(ActiveOwners) <= 1)
                 /\ pc' = [pc EXCEPT ![t] = "write"]
                 /\ UNCHANGED <<dbVars, lockVars, request, admitted, seenRole, seenStatus>>
            <3>1. \E u \in Users \ {Target(t)} : ActiveOwner(u)'
                  BY <2>2, AnotherOwner DEF ActiveOwner, dbVars
            <3>2. pc[t] = "count" /\ pc'[t] = "write"
                  BY <1>8, <2>2 DEF CountOwners, TypeOK
            <3>3. QED
                  BY <2>2, <3>1, <3>2 DEF dbVars, lockVars, Written
      <2>3. QED
            BY <1>8, <2>1, <2>2 DEF CountOwners, Goto
<1>9. CASE Write(t)
      <2>1. pc[t] = "write" /\ pc'[t] \in {"audit", "shareRole"}
            /\ UNCHANGED <<dbVars, lockVars, request, admitted, seenRole, seenStatus>>
            BY <1>9 DEF Write, Goto, TypeOK
      <2>2. QED
            BY <2>1 DEF dbVars, lockVars, Written, ActiveOwner
<1>10. CASE Insert(t)
      <2>1. /\ pc[t] = "insert" /\ pc'[t] = "shareUser" /\ role[Target(t)] = None
            /\ UNCHANGED <<dbVars, request, admitted, seenRole>>
            BY <1>10 DEF Insert, Goto, TypeOK
      <2>2. memberLock'[Target(t)] = t
            BY <1>10, RequestOf DEF Insert, TypeOK
      <2>3. QED
            BY <2>1, <2>2 DEF dbVars, Written
<1>11. CASE InsertDuplicate(t)
      BY <1>1, <1>11 DEF InsertDuplicate
<1>12. CASE ShareUser(t) \/ ShareRole(t) \/ Audit(t)
      <2>1. /\ pc[t] \in Written /\ pc'[t] \in Written
            /\ pc'[t] # "shareUser"
            /\ UNCHANGED <<dbVars, memberLock, roleUpdate, request, admitted, seenRole, seenStatus>>
            BY <1>12 DEF ShareUser, ShareRole, Audit, Goto, TypeOK, Written
      <2>2. QED
            BY <2>1 DEF dbVars, Written, ActiveOwner
<1>13. CASE Commit(t)
      BY <1>13, EndKept DEF Commit
<1>14. QED
      BY <1>2, <1>3, <1>4, <1>5, <1>6, <1>7, <1>8, <1>9, <1>10, <1>11, <1>12, <1>13 DEF Step

------------------------------------------------------------------------------
(* The invariant holds *)

LEMMA CommitKeepsOwner ==
    ASSUME IInv, NEW t \in Txs, Commit(t)
    PROVE  OwnerRemains'
<1>1. TypeOK /\ TxInv(t) /\ pc[t] = "commit"
      BY DEF IInv, Commit
<1>2. /\ Target(t) \in Users
      /\ role' = [role EXCEPT ![Target(t)] = request[t].role]
      /\ status' = [status EXCEPT ![Target(t)] = request[t].status]
      /\ role[Target(t)] = "OWNER" => request[t].kind = "UPDATE" /\ seenRole[t] = "OWNER"
      BY <1>1, MembersOfCommit
<1>3. CASE ActiveOwner(Target(t)) /\ ~GivesUp(t)
      BY <1>1, <1>2, <1>3 DEF TypeOK, GivesUp, ActiveOwner, ActiveOwners, OwnerRemains
<1>4. ASSUME NEW u \in Users \ {Target(t)}, ActiveOwner(u) PROVE OwnerRemains'
      BY <1>1, <1>2, <1>4 DEF TypeOK, ActiveOwner, ActiveOwners, OwnerRemains
<1>5. CASE ActiveOwner(Target(t)) /\ GivesUp(t)
      BY <1>1, <1>2, <1>4, <1>5 DEF TxInv, OthersOwn, Written, ActiveOwner
<1>6. CASE ~ActiveOwner(Target(t))
      BY <1>4, <1>6 DEF IInv, OwnerRemains, ActiveOwners
<1>7. QED
      BY <1>3, <1>5, <1>6

LEMMA InitInv == Init => IInv
<1> SUFFICES ASSUME Init PROVE IInv
    OBVIOUS
<1>1. TypeOK
      BY DEF Init, TypeOK
<1>2. ASSUME NEW t \in Txs PROVE TxInv(t)
      BY DEF Init, TxInv, PcOfKind, Assigned, Selecting, Located, Inviting, OthersOwn, Written
<1>3. QED
      BY <1>1, <1>2 DEF Init, IInv, OwnerRemains

LEMMA NextInv == IInv /\ [Next]_vars => IInv'
<1> SUFFICES ASSUME IInv, [Next]_vars PROVE IInv'
    OBVIOUS
<1>1. CASE UNCHANGED vars
      <2>1. TypeOK' /\ OwnerRemains'
            BY <1>1 DEF vars, dbVars, lockVars, IInv, TypeOK, OwnerRemains, ActiveOwners, ActiveOwner
      <2>2. ASSUME NEW v \in Txs PROVE TxInv(v)'
            BY <1>1, Frame, MembershipAssumption DEF vars, dbVars, lockVars, IInv, ActiveOwner
      <2>3. QED
            BY <2>1, <2>2 DEF IInv
<1>2. ASSUME NEW t \in Txs, Admit(t) \/ Step(t) \/ Rollback(t) PROVE IInv'
      <2>1. TypeOK'
            BY <1>2, AdmitTypes, StepTypes, EndTypes DEF IInv, Rollback, TypeOK, dbVars
      <2>2. OwnerRemains'
            BY <1>2, CommitKeepsOwner, MembersOfStep DEF IInv, dbVars, OwnerRemains, ActiveOwners, ActiveOwner
      <2>3. TxInv(t)'
            BY <1>2, AdmitKept, StepKept, EndKept DEF IInv, Rollback
      <2>4. ASSUME NEW v \in Txs, v # t PROVE TxInv(v)'
            BY <1>2, <2>4, OthersKept DEF IInv
      <2>5. QED
            BY <2>1, <2>2, <2>3, <2>4 DEF IInv
<1>3. QED
      BY <1>1, <1>2 DEF Next, Cancel, DeadlockVictim

\* Under the lock of the role row, whoever stops being an owner leaves one.
THEOREM Invariance == Spec => []IInv
BY InitInv, NextInv, PTL DEF Spec

\* However many owners demote each other at once, one remains.
THEOREM OwnerAlwaysRemains == Spec => []OwnerRemains
<1>1. IInv => OwnerRemains
      BY DEF IInv
<1>2. QED
      BY <1>1, Invariance, PTL

\* Ownership changes only at the word of an owner.
THEOREM OwnersDecide == Spec => OwnershipByOwners
<1>1. IInv /\ [Next]_vars =>
        [\A u \in Users :
            (role'[u] = "OWNER") # (role[u] = "OWNER") =>
                \E t \in Txs :
                    pc[t] = "commit" /\ pc'[t] = "idle" /\ Target(t) = u /\ admitted[t] = "OWNER"]_vars
      <2> SUFFICES ASSUME IInv, Next, NEW u \in Users, (role'[u] = "OWNER") # (role[u] = "OWNER")
                   PROVE  \E t \in Txs :
                             pc[t] = "commit" /\ pc'[t] = "idle" /\ Target(t) = u /\ admitted[t] = "OWNER"
          OBVIOUS
      <2>1. PICK t \in Txs : Admit(t) \/ Step(t) \/ Rollback(t)
            BY DEF Next, Cancel, DeadlockVictim
      <2>2. Commit(t)
            BY <2>1, MembersOfStep DEF dbVars
      <2>3. pc[t] = "commit" /\ pc[t] # "idle" /\ pc'[t] = "idle"
            BY <2>2 DEF Commit, End, Goto, IInv, TypeOK
      <2>4. Target(t) = u
            BY <2>2, MembersOfCommit DEF IInv, TypeOK
      <2>5. admitted[t] = "OWNER"
            BY <2>2, <2>3, <2>4, MembersOfCommit DEF IInv, TypeOK, TxInv, Assigned
      <2>6. QED
            BY <2>3, <2>4, <2>5
<1>2. QED
      BY <1>1, Invariance, PTL DEF Spec, OwnershipByOwners

\* The audit log tells what an update found.
THEOREM AuditIsTrue == Spec => AuditTellsChanges
<1>1. IInv /\ [Next]_vars =>
        [\A t \in Txs :
            Commit(t) /\ request[t].kind = "UPDATE" =>
                /\ role[Target(t)] = seenRole[t]
                /\ status[Target(t)] = seenStatus[t]]_vars
      BY DEF IInv, TxInv, Located, Commit, Written
<1>2. QED
      BY <1>1, Invariance, PTL DEF Spec, AuditTellsChanges
==============================================================================
