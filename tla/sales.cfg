SPECIFICATION Spec
CONSTANTS
    SaleIds = {s1, s2}
    Products = {apple, service}
    TrackedAtFirst = {apple}
    Retrackable = {service}
    NoProduct = NoProduct
    Accounts = {till, bank}
    NoAccount = NoAccount
    Quantities = {1, 2}
    Openings = {3}
    Subtotals = {0, 2}
    Adjusts = {0}
    LeastAdjust = 0
    MaxLines = 2
SYMMETRY Symmetry
INVARIANTS
    TypeOK
    MovementsTellStatus
    CashTellsSales
    SteadyLedger
    PaymentsTellSales
PROPERTY SettledSalesAreFrozen
CHECK_DEADLOCK FALSE
