SPECIFICATION PipelineSpec
CONSTANTS
    m1 = m1
    m2 = m2
    x = x
    f1 = f1
    f2 = f2
    d1 = d1
    d2 = d2
    None = None
    Macs = {m1, m2}
    ClientIps = {x}
    TargetIps = {1}
    Domains = {d1}
    FlowIds = {f1, f2}
    ClientMac <- HandoverClientMac
    ClientIp <- HandoverClientIp
    FirstSeen <- HandoverFirstSeen
    Holder <- HandoverHolder
    DestIp <- HandoverDestIp
    Answers <- OneName
    Callers = {"dns", "collector"}
    Grace = 1
    IdleRetention = 2
    PendingAge = 2
    MaxPending = 2
    MaxResolved = 2
    MaxTime = 2
    MaxQueue = 1
    Deletions <- HandoverDeletions
    MaxQueries = 1
    MaxBatches = 2
    MaxDeletions = 1
INVARIANTS
    PipelineTypeOK
    BindingsFollowLease
    StoredFollowsLease
    CleanDeletionIsFinal
PROPERTIES
    StoredWithinLifetime
CHECK_DEADLOCK FALSE
