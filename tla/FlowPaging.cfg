SPECIFICATION Spec
CONSTANTS
    m1 = m1
    m2 = m2
    None = None
    FlowIds = {1, 2, 3, 9}
    Macs = {m1, m2}
    ClientMac <- PagedClientMac
    Windows = {1, 2}
    Limits = {1, 2}
    MaxPageLimit = 2
    Retention = 1
    MaxLag = 1
    MaxTime = 2
INVARIANTS
    TypeOK
    IssuedCursorsAccepted
    PageIsRun
    ThereAndBack
    NothingMissed
PROPERTIES
    NothingTwice
