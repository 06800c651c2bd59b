SPECIFICATION Spec
CONSTANTS
    client = client
    remote = remote
    wan1 = wan1
    wan2 = wan2
    Endpoints <- MCEndpoints
    FlowTuple <- MCFlowTuple
    Entries <- MCEntries
    KernelStates = {"syn_sent", "tcp_established"}
    Refresh = 2
    MaxTime = 3
    MaxChanges = 3
    MaxBatches = 2
    None = None
INVARIANTS
    MappingWhole
    StateFresh
    SteadyEntryShows
CHECK_DEADLOCK FALSE
