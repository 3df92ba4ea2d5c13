SPECIFICATION Spec
CONSTANTS
    Locs = {l1, l2, l3}
    Txs = {t1, t2}
    None = None
SYMMETRY Symmetry
INVARIANT
    ExactlyOneDefault
PROPERTY DefaultMovesByRequest
CHECK_DEADLOCK FALSE
