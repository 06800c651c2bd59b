SPECIFICATION Spec
CONSTANTS
    f1 = f1
    f2 = f2
    m1 = m1
    m2 = m2
    ip1 = ip1
    d1 = d1
    d2 = d2
    None = None
    FlowIds = {f1, f2}
    Macs = {m1, m2}
    Ips = {ip1}
    Domains = {d1, d2}
    ClientMac <- SharedClientMac
    DestIp <- SharedDestIp
    FirstSeen <- SharedFirstSeen
    Attributions <- SharedAttributions
    Bindings <- SharedBindings
    LegacyFlows = {f1}
    MaxTime = 1
    MinuteLen = 1
    MaxLag = 0
    MaxBytes = 2
    MaxBatch = 2
    MaxErasures = 1
    FlowRetention = 0
    AggRetention = 0
INVARIANTS
    TypeOK
    AggregateCoversLedger
    LedgerAgreesWithFlow
    LedgerWithinFlow
    BackfillsConfluent
PROPERTIES
    ImplementsStore
    AggregateFollowsLedger
    AttributionNeverWeakens
CHECK_DEADLOCK FALSE
