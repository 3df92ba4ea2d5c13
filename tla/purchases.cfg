SPECIFICATION Spec
CONSTANTS
    PurchaseIds = {p1}
    Products = {apple, service}
    Tracked = {apple}
    NoProduct = NoProduct
    Quantities = {49, 50, 100, 150}
    Subtotals = {1, 2}
    Discounts = {0, 1}
    Taxes = {0, 1}
    Amounts = {1, 2}
    MaxLines = 2
INVARIANTS
    TypeOK
    StatusTellsReceipts
    OverReceiptBounded
    LedgerExplainedByLines
    CashExplainedByPayments
PROPERTY FinalStaysFinal
CHECK_DEADLOCK FALSE
