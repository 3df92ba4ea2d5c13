------------------------------ MODULE Migrations ------------------------------
(***************************************************************************)
(* Schema migrations at start-up (db/migrations/migrations.go): replicas,  *)
(* each built with the files of its release, take an advisory lock and     *)
(* apply in order of version what schema_migrations does not have yet.     *)
(* The lock belongs to the database session, not to a transaction: it ends *)
(* with the unlock or with the connection.                                 *)
(***************************************************************************)
EXTENDS Integers

CONSTANTS
    Replicas,   \* the processes of the API
    Releases,   \* the sets of versions a release may embed
    NoReplica        \* no replica

ASSUME MigrationsAssumption ==
    /\ Releases \subseteq SUBSET Nat
    /\ NoReplica \notin Replicas

Versions == UNION Releases

VARIABLES
    \* the database
    recorded,   \* the versions in schema_migrations
    executed,   \* how often the statements of each file took effect
    advisory,   \* the replica whose session holds the advisory lock
    \* the replicas
    stage,      \* where the process is
    embedded,   \* the versions of its release
    passed      \* the versions its loop is done with

migrationVars == <<recorded, executed, advisory, stage, embedded, passed>>

Running == {"check", "apply", "record", "commit"}
Starting == {"lock", "unlock"} \cup Running

To(r, s) == stage' = [stage EXCEPT ![r] = s]

\* The file the loop of r is at: sort.Slice orders them by name, which is by
\* version.
Left(r) == embedded[r] \ passed[r]
Current(r) == CHOOSE v \in Left(r) : \A w \in Left(r) : v <= w

------------------------------------------------------------------------------
(* Up *)

\* A process of some release starts: the old and the new one side by side, or
\* an older one again.
Start(r) ==
    /\ stage[r] = "down"
    /\ \E rel \in Releases : embedded' = [embedded EXCEPT ![r] = rel]
    /\ passed' = [passed EXCEPT ![r] = {}]
    /\ To(r, "lock")
    /\ UNCHANGED <<recorded, executed, advisory>>

\* SELECT pg_advisory_lock waits for the session that has it.
Lock(r) ==
    /\ stage[r] = "lock"
    /\ advisory = NoReplica
    /\ advisory' = r
    /\ To(r, "check")
    /\ UNCHANGED <<recorded, executed, embedded, passed>>

Pass(r) == passed' = [passed EXCEPT ![r] = @ \cup {Current(r)}]

Skip(r) ==
    /\ stage[r] = "check"
    /\ Left(r) # {} /\ Current(r) \in recorded
    /\ Pass(r)
    /\ UNCHANGED <<recorded, executed, advisory, stage, embedded>>

Begin(r) ==
    /\ stage[r] = "check"
    /\ Left(r) # {} /\ Current(r) \notin recorded
    /\ To(r, "apply")
    /\ UNCHANGED <<recorded, executed, advisory, embedded, passed>>

\* Mutated: the statements of the file run outside the transaction.
ApplyOutside(r) ==
    /\ stage[r] = "apply"
    /\ executed' = [executed EXCEPT ![Current(r)] = @ + 1]
    /\ To(r, "record")
    /\ UNCHANGED <<recorded, advisory, embedded, passed>>

\* The statements of the file, inside the transaction.
Apply(r) ==
    /\ stage[r] = "apply"
    /\ To(r, "record")
    /\ UNCHANGED <<recorded, executed, advisory, embedded, passed>>

\* INSERT INTO schema_migrations; version is the primary key.  Nobody else
\* has an uncommitted one: only the holder of the lock gets here.
Record(r) ==
    /\ stage[r] = "record"
    /\ Current(r) \notin recorded
    /\ To(r, "commit")
    /\ UNCHANGED <<recorded, executed, advisory, embedded, passed>>

CommitFile(r) ==
    /\ stage[r] = "commit"
    /\ recorded' = recorded \cup {Current(r)}
    /\ executed' = [executed EXCEPT ![Current(r)] = @ + 1]
    /\ Pass(r)
    /\ To(r, "check")
    /\ UNCHANGED <<advisory, embedded>>

EndOfFiles(r) ==
    /\ stage[r] = "check"
    /\ Left(r) = {}
    /\ To(r, "unlock")
    /\ UNCHANGED <<recorded, executed, advisory, embedded, passed>>

Release(r) == advisory' = IF advisory = r THEN NoReplica ELSE advisory

\* Mutated: the connection goes back to the pool without the unlock.
UnlockForgotten(r) ==
    /\ stage[r] = "unlock"
    /\ To(r, "serving")
    /\ UNCHANGED <<recorded, executed, advisory, embedded, passed>>

\* The deferred pg_advisory_unlock; then the server listens.
Unlock(r) ==
    /\ stage[r] = "unlock"
    /\ Release(r)
    /\ To(r, "serving")
    /\ UNCHANGED <<recorded, executed, embedded, passed>>

\* A statement fails, the 30 seconds of the start-up are over or a signal
\* arrives: main exits, and its session ends with transaction and lock.
FailToStart(r) ==
    /\ stage[r] \in Starting
    /\ Release(r)
    /\ To(r, "down")
    /\ UNCHANGED <<recorded, executed, embedded, passed>>

UpStep(r) ==
    \/ Lock(r) \/ Skip(r) \/ Begin(r) \/ Apply(r) \/ Record(r) \/ CommitFile(r)
    \/ EndOfFiles(r) \/ Unlock(r)

MigrationInit ==
    /\ recorded = {}
    /\ executed = [v \in Versions |-> 0]
    /\ advisory = NoReplica
    /\ stage = [r \in Replicas |-> "down"]
    /\ embedded = [r \in Replicas |-> {}]
    /\ passed = [r \in Replicas |-> {}]

------------------------------------------------------------------------------
(* Properties *)

\* Whichever releases start, fail and start again side by side, a file takes
\* effect once and is recorded exactly when it did, and a process that
\* answers requests has every file of its release behind it.
MigratedOnce ==
    /\ \A v \in Versions : executed[v] = IF v \in recorded THEN 1 ELSE 0
    /\ \A r \in Replicas : stage[r] \notin Starting \cup {"down"} => embedded[r] \subseteq recorded
==============================================================================
