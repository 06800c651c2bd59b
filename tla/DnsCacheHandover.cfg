SPECIFICATION Spec
CONSTANTS
    m1 = m1
    m2 = m2
    x = x
    f1 = f1
    f2 = f2
    d1 = d1
    d2 = d2
    None = None
    Macs = {m1, m2}
    ClientIps = {x}
    TargetIps = {1}
    Domains = {d1, d2}
    FlowIds = {f1, f2}
    ClientMac <- TwoClientMac
    ClientIp <- TwoClientIp
    FirstSeen <- TwoFirstSeen
    Holder <- TwoHolder
    Answers <- TwoAnswers
    Callers = {"dns"}
    Grace = 1
    IdleRetention = 2
    PendingAge = 2
    MaxPending = 1
    MaxResolved = 1
    MaxTime = 3
    MaxQueue = 1
INVARIANTS
    BindingsBelongToAsker
