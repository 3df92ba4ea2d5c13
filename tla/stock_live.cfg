SPECIFICATION FairSpec
CONSTANTS
    Items = {1, 2}
    Txs = {t1, t2}
    None = None
    Kinds = {"CHECKOUT", "RECEIVE", "COMPLETE"}
    Qtys = {1}
    MaxLines = 2
    MaxInitial = 1
PROPERTY EveryTransactionEnds
CHECK_DEADLOCK FALSE
