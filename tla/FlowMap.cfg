SPECIFICATION FairSpec
CONSTANTS
    None = None
    c1 = c1
    c2 = c2
    Keys = {1, 2}
    Cpus = {c1, c2}
    MaxEntries = 2
    IdleTimeout = 1
    NsPerMs = 1
    LastArrival <- SlowAndFast
    Loads <- AloneOrBeside
    LastLoss = 3
    MaxTime = 6
    MaxFailures = 1
INVARIANTS
    TypeOK
    NeverOvercharged
PROPERTIES
    LiveFlowsReported
    RejectionEnds
