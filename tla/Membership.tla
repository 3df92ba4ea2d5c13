------------------------------ MODULE Membership ------------------------------
(***************************************************************************)
(* The members of one business (repository_members.go): invitations and    *)
(* updates of role and status, as concurrent PostgreSQL transactions under *)
(* READ COMMITTED.                                                         *)
(*                                                                         *)
(* A request is admitted by the middleware, which reads the role of its    *)
(* user before the transaction begins.  An update then selects the member  *)
(* FOR UPDATE from business_members JOIN users JOIN roles, which locks one *)
(* row of each, in that order; the row of roles is shared by all members   *)
(* of a role.  When the member has changed since the statement began, it   *)
(* is joined again with the rows already locked: with another role it is   *)
(* not found any more.  Foreign keys take FOR KEY SHARE on users and roles, *)
(* which FOR UPDATE excludes.                                              *)
(***************************************************************************)
EXTENDS Integers, FiniteSets

CONSTANTS
    Users,      \* the registered users
    Roles,      \* the roles of the business
    Statuses,   \* the statuses a member may have
    Txs,        \* places for requests under way at the same time
    None        \* no role, status, transaction or request

ASSUME MembershipAssumption ==
    /\ IsFiniteSet(Users)
    /\ {"OWNER", "ADMIN"} \subseteq Roles
    /\ {"ACTIVE", "INVITED"} \subseteq Statuses
    /\ None \notin Roles \cup Statuses \cup Txs

VARIABLES
    \* committed state
    role,       \* the role of each user in the business, None for outsiders
    status,     \* the status of each member, None for outsiders
    \* locks
    memberLock, \* holder of the business_members row, or of its uncommitted insert
    userUpdate, \* holder of the users row FOR UPDATE
    userShare,  \* holders of the users row FOR KEY SHARE
    roleUpdate, \* holder of the roles row FOR UPDATE
    roleShare,  \* holders of the roles row FOR KEY SHARE
    \* requests
    pc,
    request,    \* what is asked, by whom, of whom
    admitted,   \* the role the middleware read
    seenRole,   \* the role and the status the select returned, which the audit
    seenStatus  \* entry gives as the state before

dbVars == <<role, status>>
lockVars == <<memberLock, userUpdate, userShare, roleUpdate, roleShare>>
vars == <<dbVars, lockVars, pc, request, admitted, seenRole, seenStatus>>

------------------------------------------------------------------------------
(* Requests and transactions *)

Requests ==
    [kind : {"INVITE", "UPDATE"}, actor : Users, target : Users,
     role : Roles, status : Statuses]

Active == {"select", "member", "user", "role", "count", "insert", "write",
           "shareUser", "shareRole", "audit", "commit"}

\* The statements after the row itself is written.
Written == {"shareUser", "shareRole", "audit", "commit"}

Target(t) == request[t].target
Goto(t, step) == pc' = [pc EXCEPT ![t] = step]

ActiveOwner(u) == role[u] = "OWNER" /\ status[u] = "ACTIVE"
ActiveOwners == {u \in Users : ActiveOwner(u)}

\* An update that leaves its member without active ownership.
GivesUp(t) == request[t].role # "OWNER" \/ request[t].status # "ACTIVE"

\* A lock is free for t when nobody else holds it in a mode that conflicts.
CanUpdate(t, update, share, x) == update[x] \in {None, t} /\ share[x] \subseteq {t}
CanShare(t, update, x) == update[x] \in {None, t}

ReleaseLocks(t) ==
    /\ memberLock' = [u \in Users |-> IF memberLock[u] = t THEN None ELSE memberLock[u]]
    /\ userUpdate' = [u \in Users |-> IF userUpdate[u] = t THEN None ELSE userUpdate[u]]
    /\ userShare' = [u \in Users |-> userShare[u] \ {t}]
    /\ roleUpdate' = [r \in Roles |-> IF roleUpdate[r] = t THEN None ELSE roleUpdate[r]]
    /\ roleShare' = [r \in Roles |-> roleShare[r] \ {t}]

\* The place is free for the next request.
End(t) ==
    /\ ReleaseLocks(t)
    /\ Goto(t, "idle")
    /\ request' = [request EXCEPT ![t] = None]
    /\ admitted' = [admitted EXCEPT ![t] = None]
    /\ seenRole' = [seenRole EXCEPT ![t] = None]
    /\ seenStatus' = [seenStatus EXCEPT ![t] = None]

Rollback(t) == End(t) /\ UNCHANGED dbVars

------------------------------------------------------------------------------
(* The middleware and the service *)

\* Mutated: the role an administrator assigns is not looked at.
MayAssignAny(r, actorRole) == TRUE

\* Only an owner assigns the role OWNER.
MayAssign(r, actorRole) == r = "OWNER" => actorRole = "OWNER"

\* requireBusiness reads the membership of the user, requireRole and the
\* service check it, and the transaction begins.
Admit(t) ==
    /\ pc[t] = "idle"
    /\ \E q \in Requests :
        /\ status[q.actor] = "ACTIVE"
        /\ role[q.actor] \in {"OWNER", "ADMIN"}
        /\ MayAssign(q.role, role[q.actor])
        /\ q.kind = "INVITE" => q.status = "INVITED"
        /\ request' = [request EXCEPT ![t] = q]
        /\ admitted' = [admitted EXCEPT ![t] = role[q.actor]]
        /\ Goto(t, IF q.kind = "INVITE" THEN "insert" ELSE "select")
    /\ UNCHANGED <<dbVars, lockVars, seenRole, seenStatus>>

------------------------------------------------------------------------------
(* UpdateBusinessMember *)

\* The snapshot of SELECT ... FOR UPDATE; an outsider is not found.
Select(t) ==
    /\ pc[t] = "select"
    /\ role[Target(t)] # None
    /\ seenRole' = [seenRole EXCEPT ![t] = role[Target(t)]]
    /\ Goto(t, "member")
    /\ UNCHANGED <<dbVars, lockVars, request, admitted, seenStatus>>

SelectNothing(t) ==
    /\ pc[t] = "select"
    /\ role[Target(t)] = None
    /\ Rollback(t)

LockMember(t) ==
    /\ pc[t] = "member"
    /\ memberLock[Target(t)] = None
    /\ memberLock' = [memberLock EXCEPT ![Target(t)] = t]
    /\ Goto(t, "user")
    /\ UNCHANGED <<dbVars, userUpdate, userShare, roleUpdate, roleShare,
                   request, admitted, seenRole, seenStatus>>

LockUser(t) ==
    /\ pc[t] = "user"
    /\ CanUpdate(t, userUpdate, userShare, Target(t))
    /\ userUpdate' = [userUpdate EXCEPT ![Target(t)] = t]
    /\ Goto(t, "role")
    /\ UNCHANGED <<dbVars, memberLock, userShare, roleUpdate, roleShare,
                   request, admitted, seenRole, seenStatus>>

\* Mutated: the join is not looked at again after the wait.
StillFoundAlways(t) == TRUE

\* The member as it is now, joined with the row of roles that was locked.
StillFound(t) == role[Target(t)] = seenRole[t]

\* An owner is left to owners.
MayTouch(t) == admitted[t] = "OWNER" \/ seenRole[t] # "OWNER"

\* Mutated: SELECT ... FOR UPDATE OF bm.
LockMemberOnly(t) ==
    /\ pc[t] = "role"
    /\ StillFound(t) /\ MayTouch(t)
    /\ seenStatus' = [seenStatus EXCEPT ![t] = status[Target(t)]]
    /\ Goto(t, IF seenRole[t] = "OWNER" /\ GivesUp(t) THEN "count" ELSE "write")
    /\ UNCHANGED <<dbVars, lockVars, request, admitted, seenRole>>

LockRole(t) ==
    /\ pc[t] = "role"
    /\ CanUpdate(t, roleUpdate, roleShare, seenRole[t])
    /\ StillFound(t) /\ MayTouch(t)
    /\ roleUpdate' = [roleUpdate EXCEPT ![seenRole[t]] = t]
    /\ seenStatus' = [seenStatus EXCEPT ![t] = status[Target(t)]]
    /\ Goto(t, IF seenRole[t] = "OWNER" /\ GivesUp(t) THEN "count" ELSE "write")
    /\ UNCHANGED <<dbVars, memberLock, userUpdate, userShare, roleShare,
                   request, admitted, seenRole>>

\* MEMBER_NOT_FOUND or MEMBER_OWNER_PROTECTED.
Refuse(t) ==
    /\ pc[t] = "role"
    /\ CanUpdate(t, roleUpdate, roleShare, seenRole[t])
    /\ ~(StillFound(t) /\ MayTouch(t))
    /\ Rollback(t)

CountOwners(t) ==
    /\ pc[t] = "count"
    /\ IF Cardinality(ActiveOwners) <= 1
       THEN Rollback(t)
       ELSE /\ Goto(t, "write")
            /\ UNCHANGED <<dbVars, lockVars, request, admitted, seenRole, seenStatus>>

\* UPDATE business_members: the row is locked already.  Its foreign key to
\* roles is only checked when the role changes.
Write(t) ==
    /\ pc[t] = "write"
    /\ Goto(t, IF request[t].role = seenRole[t] THEN "audit" ELSE "shareRole")
    /\ UNCHANGED <<dbVars, lockVars, request, admitted, seenRole, seenStatus>>

------------------------------------------------------------------------------
(* InviteBusinessMember *)

\* UNIQUE (business_id, user_id): an insert waits for an uncommitted one ...
Insert(t) ==
    /\ pc[t] = "insert"
    /\ role[Target(t)] = None
    /\ memberLock[Target(t)] = None
    /\ memberLock' = [memberLock EXCEPT ![Target(t)] = t]
    /\ Goto(t, "shareUser")
    /\ UNCHANGED <<dbVars, userUpdate, userShare, roleUpdate, roleShare,
                   request, admitted, seenRole, seenStatus>>

\* ... and fails with MEMBER_CONFLICT when the user is a member; a row that
\* is being updated is waited for first.
InsertDuplicate(t) ==
    /\ pc[t] = "insert"
    /\ role[Target(t)] # None
    /\ memberLock[Target(t)] # None => pc[memberLock[Target(t)]] \notin Written
    /\ Rollback(t)

ShareUser(t) ==
    /\ pc[t] = "shareUser"
    /\ CanShare(t, userUpdate, Target(t))
    /\ userShare' = [userShare EXCEPT ![Target(t)] = @ \cup {t}]
    /\ Goto(t, "shareRole")
    /\ UNCHANGED <<dbVars, memberLock, userUpdate, roleUpdate, roleShare,
                   request, admitted, seenRole, seenStatus>>

------------------------------------------------------------------------------
(* The end of both, and failures *)

ShareRole(t) ==
    /\ pc[t] = "shareRole"
    /\ CanShare(t, roleUpdate, request[t].role)
    /\ roleShare' = [roleShare EXCEPT ![request[t].role] = @ \cup {t}]
    /\ Goto(t, "audit")
    /\ UNCHANGED <<dbVars, memberLock, userUpdate, userShare, roleUpdate,
                   request, admitted, seenRole, seenStatus>>

\* INSERT INTO audit_logs refers to the user who acts.
Audit(t) ==
    /\ pc[t] = "audit"
    /\ CanShare(t, userUpdate, request[t].actor)
    /\ userShare' = [userShare EXCEPT ![request[t].actor] = @ \cup {t}]
    /\ Goto(t, "commit")
    /\ UNCHANGED <<dbVars, memberLock, userUpdate, roleUpdate, roleShare,
                   request, admitted, seenRole, seenStatus>>

Commit(t) ==
    /\ pc[t] = "commit"
    /\ role' = [role EXCEPT ![Target(t)] = request[t].role]
    /\ status' = [status EXCEPT ![Target(t)] = request[t].status]
    /\ End(t)

\* The request is cancelled, the connection is lost or the server crashes.
Cancel(t) == pc[t] \in Active /\ Rollback(t)

\* The lock the next statement of t needs is held by v.
WaitsFor(t, v) ==
    /\ t # v
    /\ \/ pc[t] = "member" /\ memberLock[Target(t)] = v
       \/ /\ pc[t] = "insert" /\ memberLock[Target(t)] = v
          /\ role[Target(t)] = None \/ pc[v] \in Written
       \/ pc[t] = "user" /\ (userUpdate[Target(t)] = v \/ v \in userShare[Target(t)])
       \/ pc[t] = "role" /\ (roleUpdate[seenRole[t]] = v \/ v \in roleShare[seenRole[t]])
       \/ pc[t] = "shareUser" /\ userUpdate[Target(t)] = v
       \/ pc[t] = "shareRole" /\ roleUpdate[request[t].role] = v
       \/ pc[t] = "audit" /\ userUpdate[request[t].actor] = v

\* The deadlock detector aborts one of a circle of waiting transactions.
DeadlockVictim(t) ==
    /\ \E S \in SUBSET Txs :
        /\ t \in S
        /\ \A u \in S : \E v, w \in S : WaitsFor(u, v) /\ WaitsFor(w, u)
    /\ Rollback(t)

------------------------------------------------------------------------------
(* Specification *)

Step(t) ==
    \/ Select(t) \/ SelectNothing(t) \/ LockMember(t) \/ LockUser(t)
    \/ LockRole(t) \/ Refuse(t) \/ CountOwners(t) \/ Write(t)
    \/ Insert(t) \/ InsertDuplicate(t) \/ ShareUser(t)
    \/ ShareRole(t) \/ Audit(t) \/ Commit(t)

\* CreateBusiness makes its user an active owner; invitations and updates
\* lead to any other composition.
Init ==
    /\ role \in [Users -> Roles \cup {None}]
    /\ status \in {s \in [Users -> Statuses \cup {None}] :
                     \A u \in Users : s[u] = None <=> role[u] = None}
    /\ ActiveOwners # {}
    /\ memberLock = [u \in Users |-> None]
    /\ userUpdate = [u \in Users |-> None]
    /\ userShare = [u \in Users |-> {}]
    /\ roleUpdate = [r \in Roles |-> None]
    /\ roleShare = [r \in Roles |-> {}]
    /\ pc = [t \in Txs |-> "idle"]
    /\ request = [t \in Txs |-> None]
    /\ admitted = [t \in Txs |-> None]
    /\ seenRole = [t \in Txs |-> None]
    /\ seenStatus = [t \in Txs |-> None]

Next == \E t \in Txs : Admit(t) \/ Step(t) \/ Cancel(t) \/ DeadlockVictim(t)

Spec == Init /\ [][Next]_vars

------------------------------------------------------------------------------
(* Properties *)

TypeOK ==
    /\ role \in [Users -> Roles \cup {None}]
    /\ status \in [Users -> Statuses \cup {None}]
    /\ memberLock \in [Users -> Txs \cup {None}]
    /\ userUpdate \in [Users -> Txs \cup {None}]
    /\ userShare \in [Users -> SUBSET Txs]
    /\ roleUpdate \in [Roles -> Txs \cup {None}]
    /\ roleShare \in [Roles -> SUBSET Txs]
    /\ pc \in [Txs -> Active \cup {"idle"}]
    /\ request \in [Txs -> Requests \cup {None}]
    /\ \A t \in Txs : pc[t] # "idle" => request[t] \in Requests
    /\ admitted \in [Txs -> Roles \cup {None}]
    /\ seenRole \in [Txs -> Roles \cup {None}]
    /\ seenStatus \in [Txs -> Statuses \cup {None}]

\* A business keeps an active owner, also when its owners demote, suspend or
\* leave each other at the same time (UpdateBusinessMember counts the owners
\* in a statement of its own, before it writes).
OwnerRemains == ActiveOwners # {}

\* Nobody becomes or stops being an owner but by a request of somebody the
\* middleware let in as an owner: an administrator can neither appoint nor
\* depose one, not even when the member becomes an owner during the request.
OwnershipByOwners ==
    [][\A u \in Users :
         (role'[u] = "OWNER") # (role[u] = "OWNER") =>
             \E t \in Txs :
                 pc[t] = "commit" /\ pc'[t] = "idle" /\ Target(t) = u /\ admitted[t] = "OWNER"]_vars

\* The entry of an update in the audit log names the role and the status the
\* member had just before it: no other update slips in between the two.
AuditTellsChanges ==
    [][\A t \in Txs :
         Commit(t) /\ request[t].kind = "UPDATE" =>
             /\ role[Target(t)] = seenRole[t]
             /\ status[Target(t)] = seenStatus[t]]_vars
==============================================================================
