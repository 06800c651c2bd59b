SPECIFICATION Spec
CONSTANTS
    b1 = b1
    t1 = t1
    t2 = t2
    s1 = s1
    a1 = a1
    a2 = a2
    None = None
    Keep = Keep
    Browsers = {b1}
    Tabs = {t1, t2}
    BrowserOf <- OneBrowser
    Sources = {s1}
    SourceOf <- OneSource
    Accounts = {a1, a2}
    Tokens = {1, 2, 3}
    SessionIds = {1, 2}
    Limit = 1
    Window = 3
    SessionTtl = 1
    Second = 2
    MaxTime = 3
INVARIANTS
    TypeOK
    LimiterHolds
    RetryIsHonoured
    FormsAccepted
PROPERTIES
    FirstAccountStays
CHECK_DEADLOCK FALSE
SYMMETRY Interchangeable
