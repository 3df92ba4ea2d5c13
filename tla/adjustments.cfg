SPECIFICATION Spec
CONSTANTS
    Docs = {d1, d2}
    NoDoc = NoDoc
    Products = {x1, x2}
    Quantities = {1}
    Counts = {0, 1}
    MultScale = 2
    Multipliers = {3}
    MaxStock = 2
SYMMETRY Symmetry
INVARIANTS
    TypeOK
    StockExplained
    CountsAreCurrent
PROPERTY CountStands
CHECK_DEADLOCK FALSE
