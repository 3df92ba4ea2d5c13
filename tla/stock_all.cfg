SPECIFICATION Spec
CONSTANTS
    Items = {1, 2}
    Txs = {t1, t2}
    None = None
    Kinds = {"CHECKOUT", "VOID", "RECEIVE", "COMPLETE", "OPENING"}
    Qtys = {1}
    MaxLines = 2
    MaxInitial = 1
SYMMETRY Symmetry
INVARIANTS
    TypeOK
    NonNegativeStock
    LedgerMatchesSnapshot
    CheckStaysTrue
    NumbersAreGapFree
    SalesNeverDeadlock
PROPERTY LedgerSpec
CHECK_DEADLOCK FALSE
