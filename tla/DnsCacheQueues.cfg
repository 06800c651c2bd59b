SPECIFICATION Spec
CONSTANTS
    m1 = m1
    m2 = m2
    x = x
    f1 = f1
    f2 = f2
    d1 = d1
    d2 = d2
    None = None
    Macs = {m1}
    ClientIps = {x}
    TargetIps = {1, 2}
    Domains = {d1, d2}
    FlowIds = {f1}
    ClientMac <- OneDeviceMac
    ClientIp <- OneDeviceIp
    FirstSeen <- OneDeviceFirst
    Holder <- OneHolder
    Answers <- WideAnswers
    Callers = {"dns", "flows"}
    Grace = 1
    IdleRetention = 1
    PendingAge = 2
    MaxPending = 2
    MaxResolved = 1
    MaxTime = 1
    MaxQueue = 1
INVARIANTS
    TypeOK
    QueuedIsSole
PROPERTIES
    BindingsNeverRegress
