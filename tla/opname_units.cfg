SPECIFICATION Spec
CONSTANTS
    Docs = {d1}
    NoDoc = NoDoc
    Products = {x1}
    Quantities = {1}
    Counts = {0, 1, 2}
    MultScale = 1
    Multipliers = {2}
    MaxStock = 3
PROPERTY OpnameReachesCount
CHECK_DEADLOCK FALSE
