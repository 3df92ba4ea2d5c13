SPECIFICATION FairServerSpec
CONSTANTS
    Replicas = {r1, r2}
    Releases <- MCReleases
    NoReplica = NoReplica
    Requests = {q1, q2}
    Plans <- MCPlans
    MaxConns = 2
INVARIANT MigratedOnce
PROPERTIES
    NothingHangs
    EveryStartEnds
CHECK_DEADLOCK FALSE
