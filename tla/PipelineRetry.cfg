SPECIFICATION FairPipeline
CONSTANTS
    m1 = m1
    m2 = m2
    x = x
    f1 = f1
    f2 = f2
    d1 = d1
    d2 = d2
    None = None
    Macs = {m1}
    ClientIps = {x}
    TargetIps = {1, 2}
    Domains = {d1}
    FlowIds = {f1}
    ClientMac <- AloneClientMac
    ClientIp <- AloneClientIp
    FirstSeen <- AloneFirstSeen
    Holder <- AloneHolder
    DestIp <- AloneDestIp
    Answers <- TwoTargets
    Callers = {"dns", "collector"}
    Grace = 1
    IdleRetention = 1
    PendingAge = 2
    MaxPending = 1
    MaxResolved = 1
    MaxTime = 1
    MaxQueue = 1
    Deletions <- NoDeletions
    MaxQueries = 2
    MaxBatches = 2
    MaxDeletions = 0
PROPERTIES
    ResolvedReachesStored
CHECK_DEADLOCK FALSE
