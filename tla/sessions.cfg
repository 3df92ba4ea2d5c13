SPECIFICATION SessionSpec
CONSTANTS
    b1 = b1
    Browsers = {b1}
    Tabs = {t1, t2}
    BrowserOf <- MCBrowserOf
    Users = {u1}
    Tokens = {k1, k2, k3}
    Businesses = {x1, x2}
    None = None
    Keep = Keep
SYMMETRY Symmetry
INVARIANT
    NoStraySession
    AccessIsRecent
PROPERTY BornActive
CHECK_DEADLOCK FALSE
