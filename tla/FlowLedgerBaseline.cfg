SPECIFICATION Spec
CONSTANTS
    f1 = f1
    f2 = f2
    m1 = m1
    m2 = m2
    ip1 = ip1
    d1 = d1
    d2 = d2
    None = None
    FlowIds = {f1}
    Macs = {m1}
    Ips = {ip1}
    Domains = {d1, d2}
    ClientMac <- SoleClientMac
    DestIp <- SoleDestIp
    FirstSeen <- SoleFirstSeen
    Attributions <- SharedAttributions
    Bindings <- SharedBindings
    LegacyFlows = {}
    MaxTime = 2
    MinuteLen = 1
    MaxLag = 1
    MaxBytes = 2
    MaxBatch = 1
    MaxErasures = 2
    FlowRetention = 1
    AggRetention = 1
PROPERTIES
    BaselineOnlyForLegacyFlows
CHECK_DEADLOCK FALSE
