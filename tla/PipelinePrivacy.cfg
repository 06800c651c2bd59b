SPECIFICATION PipelineSpec
CONSTANTS
    m1 = m1
    m2 = m2
    x = x
    f1 = f1
    f2 = f2
    d1 = d1
    d2 = d2
    None = None
    Macs = {m1}
    ClientIps = {x}
    TargetIps = {1}
    Domains = {d1}
    FlowIds = {f1}
    ClientMac <- AloneClientMac
    ClientIp <- AloneClientIp
    FirstSeen <- AloneFirstSeen
    Holder <- AloneHolder
    DestIp <- AloneDestIp
    Answers <- OneName
    Callers = {"dns", "collector"}
    Grace = 1
    IdleRetention = 1
    PendingAge = 2
    MaxPending = 2
    MaxResolved = 1
    MaxTime = 1
    MaxQueue = 1
    Deletions <- NameEverywhere
    MaxQueries = 1
    MaxBatches = 2
    MaxDeletions = 1
INVARIANTS
    DeletionIsFinal
CHECK_DEADLOCK FALSE
