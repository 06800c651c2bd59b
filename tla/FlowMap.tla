------------------------------ MODULE FlowMap ------------------------------
(***************************************************************************)
(* The flow map of src/src/routescope_tc.c, the collector that walks it    *)
(* (src/src/collector.rs), and what the collection loop of src/src/main.rs *)
(* makes of a walk: counters stored or a batch rejected as a whole, and    *)
(* the health that readiness is derived from (src/src/state.rs).           *)
(*                                                                         *)
(* Packets on several CPUs change an entry without a lock or an atomic     *)
(* add, the kernel evicts entries, and user space reads and removes them   *)
(* one system call at a time.                                              *)
(***************************************************************************)
EXTENDS Integers, Sequences, FiniteSets, FiniteSetsExt, SequencesExt

CONSTANTS
    Keys,           \* flow_key values, numbered in the order the map walks them
    Cpus,
    MaxEntries,     \* max_entries of flow_stats
    IdleTimeout,    \* FLOW_IDLE_TIMEOUT_NS
    NsPerMs,        \* nanoseconds to a millisecond, scaled down
    LastArrival,    \* bound: no packet of a key arrives later on a CPU
    Loads,          \* bound: how many packets of each key may arrive together
    LastLoss,       \* bound: no entry is evicted, and no process killed, later
    MaxTime,        \* bound on the monotonic clock
    MaxFailures,    \* bound: consecutive_failures saturates here
    None

Times == 0 .. MaxTime
FlowId == [key: Keys, first: Times]
Count == 0 .. MaxTime
Value == [first: Times, last: Times, count: Count]
Flow == [id: FlowId, first: Int, last: Int, count: Count]

ASSUME MapBounds ==
    /\ Keys \subseteq Nat /\ IsFiniteSet(Keys) /\ IsFiniteSet(Cpus)
    /\ MaxEntries \in Nat \ {0} /\ IdleTimeout \in Nat /\ NsPerMs \in Nat \ {0}
    /\ LastArrival \in [Cpus -> [Keys -> Nat]] /\ Loads \subseteq [Keys -> Nat]
    /\ LastLoss \in Nat /\ MaxTime \in Nat /\ MaxFailures \in Nat \ {0}
    /\ \A c \in Cpus, k \in Keys : LastArrival[c][k] + IdleTimeout < MaxTime
ASSUME MapNone == None \notin Keys \cup Value \cup Times

VARIABLES
    clock,      \* CLOCK_MONOTONIC, which every packet reads at a different ns
    map,        \* flow_stats; one counter stands for packets and bytes
    cpu,        \* where each CPU is in record_packet
    walk,       \* the collect call under way
    rows,       \* the stored counters by flow_id
    health,     \* CollectorHealthSnapshot
    delivered   \* packets seen of each key, whatever became of them

vars == <<clock, map, cpu, walk, rows, health, delivered>>

-----------------------------------------------------------------------------
(* record_packet, and the map it is compiled against.                       *)

Idle == [at |-> "idle"]

Packet(c, k) ==
    /\ cpu[c] = Idle /\ clock < LastArrival[c][k]
    /\ clock' = clock + 1
    /\ cpu' = [cpu EXCEPT ![c] = [at |-> "lookup", key |-> k, now |-> clock']]
    /\ delivered' = [delivered EXCEPT ![k] = @ + 1] /\ delivered' \in Loads
    /\ UNCHANGED <<map, walk, rows, health>>

Entries == {k \in Keys : map[k] # None}

\* walk.steady is what the map held when the walk began, without the entries
\* that packets or the kernel have changed since.
Disturbed(ks) == walk' = [walk EXCEPT !.steady = {e \in @ : e.key \notin ks}]
Entry(k) == [key |-> k, value |-> map[k]]

Lookup(c) ==
    /\ cpu[c].at = "lookup"
    /\ LET value == map[cpu[c].key]
       IN  cpu' = [cpu EXCEPT ![c] =
                       IF value = None
                       THEN [at |-> "create", key |-> @.key, now |-> @.now]
                       ELSE [at |-> "touch", key |-> @.key, now |-> @.now,
                             entry |-> value.first]]
    /\ UNCHANGED <<clock, map, walk, rows, health, delivered>>

\* bpf_map_update_elem with BPF_ANY: an entry that another CPU made since the
\* lookup is replaced, and in a full map another entry goes.
Create(c) ==
    LET k == cpu[c].key
        full == map[k] = None /\ Cardinality(Entries) = MaxEntries
    IN  /\ cpu[c].at = "create"
        /\ \E gone \in IF full THEN Entries ELSE {k} :
               /\ map' = [map EXCEPT ![gone] = None,
                                     ![k] = [first |-> cpu[c].now, last |-> cpu[c].now,
                                             count |-> 1]]
               /\ Disturbed({gone, k})
        /\ cpu' = [cpu EXCEPT ![c] = Idle]
        /\ UNCHANGED <<clock, rows, health, delivered>>

\* What a pointer from Lookup refers to: writes through it are lost once the
\* entry is gone or replaced. first_seen_ns tells an entry from its successors.
Alive(c) == map[cpu[c].key] # None /\ map[cpu[c].key].first = cpu[c].entry

\* last_seen_ns is written, and the counter read for the +=.
Touch(c) ==
    LET k == cpu[c].key
        read == IF Alive(c) THEN map[k].count ELSE 0
    IN  /\ cpu[c].at = "touch"
        /\ map' = IF Alive(c) THEN [map EXCEPT ![k].last = cpu[c].now] ELSE map
        /\ cpu' = [cpu EXCEPT ![c] = [at |-> "add", key |-> k, entry |-> @.entry,
                                      read |-> read]]
        /\ Disturbed(IF Alive(c) THEN {k} ELSE {})
        /\ UNCHANGED <<clock, rows, health, delivered>>

\* The += writes what was read plus one, over what others added meanwhile.
Add(c) ==
    LET k == cpu[c].key
    IN  /\ cpu[c].at = "add"
        /\ map' = IF Alive(c) THEN [map EXCEPT ![k].count = cpu[c].read + 1] ELSE map
        /\ cpu' = [cpu EXCEPT ![c] = Idle]
        /\ Disturbed(IF Alive(c) THEN {k} ELSE {})
        /\ UNCHANGED <<clock, rows, health, delivered>>

\* The LRU map may give up an entry before it is full.
Evict(k) ==
    /\ map[k] # None /\ clock <= LastLoss
    /\ map' = [map EXCEPT ![k] = None]
    /\ Disturbed({k})
    /\ UNCHANGED <<clock, cpu, rows, health, delivered>>

Tick ==
    /\ clock < MaxTime /\ clock' = clock + 1
    /\ UNCHANGED <<map, cpu, walk, rows, health, delivered>>

-----------------------------------------------------------------------------
(* CollectorHealthTracker                                                   *)

Starting == [ready |-> FALSE, failures |-> 0]

OneMore(n) == IF n < MaxFailures THEN n + 1 ELSE n

\* record_failure, and record_batch when the batch could not be stored.
Failed == health' = [ready |-> FALSE, failures |-> OneMore(health.failures)]

\* record_batch; a batch that can be stored is healthy, or degraded when
\* conntrack could not be read, and never unhealthy.
Succeeded == health' = [ready |-> TRUE, failures |-> 0]

-----------------------------------------------------------------------------
(* TcEbpfCollector::collect                                                 *)

NoWalk == [at |-> "idle", now |-> None, cursor |-> None, entries |-> <<>>,
           flows |-> <<>>, steady |-> {}]

BeginWalk ==
    /\ walk.at = "idle"
    /\ walk' = [NoWalk EXCEPT !.at = "next", !.now = clock,
                          !.steady = {Entry(k) : k \in Entries}]
    /\ UNCHANGED <<clock, map, cpu, rows, health, delivered>>

\* A clock, mutex or map that cannot be read.
SourceUnavailable ==
    /\ walk.at = "idle"
    /\ Failed
    /\ UNCHANGED <<clock, map, cpu, walk, rows, delivered>>

\* bpf_map_get_next_key: after a key that is gone it starts again at the first.
NextKey ==
    LET from == walk.cursor
        after == IF from \in Entries THEN {k \in Entries : k > from} ELSE Entries
    IN  /\ walk.at = "next"
        /\ walk' = IF after = {} THEN [walk EXCEPT !.at = "expire"]
                   ELSE [walk EXCEPT !.at = "read", !.cursor = Min(after)]
        /\ UNCHANGED <<clock, map, cpu, rows, health, delivered>>

\* A key without a value any more is skipped.
ReadValue ==
    LET k == walk.cursor
        read == IF map[k] = None THEN <<>> ELSE <<Entry(k)>>
    IN  /\ walk.at = "read"
        /\ walk' = [walk EXCEPT !.at = "next", !.entries = @ \o read]
        /\ UNCHANGED <<clock, map, cpu, rows, health, delivered>>

\* Slip: an event after the walk began has a negative age.
SignedAge(now, event) == now - event

\* saturating_sub
Age(now, event) == IF event < now THEN now - event ELSE 0

\* Slips: the age of the flow instead of its last packet's; no expiry at all.
TooOld(value) == Age(walk.now, value.first) > IdleTimeout
NeverExpired(value) == FALSE

Expired(value) == Age(walk.now, value.last) > IdleTimeout

\* monotonic_timestamp_ms, relative to observed_at_ms
TimestampMs(event) == 0 - Age(walk.now, event) \div NsPerMs

\* Slip: a flow_id that changes with every packet.
IdByLastPacket(key, value) == [key |-> key, first |-> value.last]

FlowIdOf(key, value) == [key |-> key, first |-> value.first]

FlowFromEntry(key, value) ==
    [id |-> FlowIdOf(key, value), first |-> TimestampMs(value.first),
     last |-> TimestampMs(value.last), count |-> value.count]

\* An idle flow is removed, as it is by now; the others become flows.
ExpireOrKeep ==
    LET head == Head(walk.entries)
        rest == [walk EXCEPT !.entries = Tail(@)]
    IN  /\ walk.at = "expire" /\ walk.entries # <<>>
        /\ IF Expired(head.value)
           THEN /\ map[head.key] # None
                /\ map' = [map EXCEPT ![head.key] = None]
                /\ walk' = rest
           ELSE /\ walk' = [rest EXCEPT !.flows =
                                Append(@, FlowFromEntry(head.key, head.value))]
                /\ UNCHANGED map
        /\ UNCHANGED <<clock, cpu, rows, health, delivered>>

\* The entry to remove was evicted meanwhile: the whole walk fails.
ExpireFails ==
    /\ walk.at = "expire" /\ walk.entries # <<>>
    /\ Expired(Head(walk.entries).value) /\ map[Head(walk.entries).key] = None
    /\ Failed /\ walk' = NoWalk
    /\ UNCHANGED <<clock, map, cpu, rows, delivered>>

-----------------------------------------------------------------------------
(* validate_batch and what the collection loop does with the result.        *)

WalkDone == walk.at = "expire" /\ walk.entries = <<>>

Valid(flows) ==
    /\ IsInjective([i \in DOMAIN flows |-> flows[i].id])
    /\ \A i \in DOMAIN flows : flows[i].first <= flows[i].last

Rejected ==
    /\ WalkDone /\ ~Valid(walk.flows)
    /\ Failed /\ walk' = NoWalk
    /\ UNCHANGED <<clock, map, cpu, rows, delivered>>

\* FlowCounters::delta_from
Grown(flow) == rows[flow.id] <= flow.count

Stored ==
    /\ WalkDone /\ Valid(walk.flows) /\ \A i \in DOMAIN walk.flows : Grown(walk.flows[i])
    /\ rows' = [id \in FlowId |->
                   LET now == {f \in ToSet(walk.flows) : f.id = id}
                   IN  IF now = {} THEN rows[id] ELSE (CHOOSE f \in now : TRUE).count]
    /\ Succeeded
    /\ walk' = NoWalk
    /\ UNCHANGED <<clock, map, cpu, delivered>>

\* CounterReset in one flow, or any other error, rolls back the whole batch.
NotStored ==
    /\ WalkDone /\ Valid(walk.flows)
    /\ Failed
    /\ walk' = NoWalk
    /\ UNCHANGED <<clock, map, cpu, rows, delivered>>

\* The process ends, its programs are detached and its map goes with them.
Restart ==
    /\ clock <= LastLoss
    /\ map' = [k \in Keys |-> None] /\ cpu' = [c \in Cpus |-> Idle]
    /\ walk' = NoWalk /\ health' = Starting
    /\ UNCHANGED <<clock, rows, delivered>>

Init ==
    /\ clock = 0 /\ map = [k \in Keys |-> None] /\ cpu = [c \in Cpus |-> Idle]
    /\ walk = NoWalk /\ health = Starting
    /\ rows = [id \in FlowId |-> 0]
    /\ delivered = [k \in Keys |-> 0]

CpuStep(c) == Lookup(c) \/ Create(c) \/ Touch(c) \/ Add(c)
WalkStep == NextKey \/ ReadValue \/ ExpireOrKeep \/ ExpireFails \/ Rejected

Next ==
    \/ \E c \in Cpus, k \in Keys : Packet(c, k)
    \/ \E c \in Cpus : CpuStep(c)
    \/ \E k \in Keys : Evict(k)
    \/ Tick
    \/ BeginWalk \/ SourceUnavailable \/ WalkStep
    \/ Stored \/ NotStored
    \/ Restart

Spec == Init /\ [][Next]_vars

\* Programs end and time passes; the loop begins a walk on every tick of its
\* timer and takes it to its end; a database that can take a batch does so at
\* some time if it is asked again and again.
Fairness ==
    /\ WF_vars(\E c \in Cpus : CpuStep(c)) /\ WF_vars(Tick)
    /\ WF_vars(BeginWalk \/ WalkStep \/ NotStored)
    /\ SF_vars(Stored)

FairSpec == Spec /\ Fairness

-----------------------------------------------------------------------------
(* Properties.                                                              *)

\* State is well formed, the map keeps its limit, and no flow is reported with
\* a packet after the time it was observed at.
TypeOK ==
    /\ clock \in Times
    /\ map \in [Keys -> Value \cup {None}] /\ Cardinality(Entries) <= MaxEntries
    /\ \A c \in Cpus : cpu[c].at \in {"idle", "lookup", "create", "touch", "add"}
    /\ walk.at \in {"idle", "next", "read", "expire"}
    /\ walk.flows \in Seq(Flow) /\ \A f \in ToSet(walk.flows) : f.last <= 0
    /\ walk.steady \subseteq [key: Keys, value: Value]
    /\ rows \in [FlowId -> Count]
    /\ health \in [ready: BOOLEAN, failures: 0 .. MaxFailures]
    /\ health.ready => health.failures = 0
    /\ delivered \in [Keys -> Count]

\* No packet is charged twice, by whatever entries, evictions and walks: all
\* that is stored for a key is at most what arrived for it.
NeverOvercharged ==
    \A k \in Keys :
        SumFunction([t \in Times |-> rows[[key |-> k, first |-> t]]]) <= delivered[k]

\* A batch that is stored holds every flow that had a packet within the idle
\* timeout when the walk began and stayed as it was, with all that was counted.
LiveFlowsReported ==
    [][Stored => \A e \in walk.steady :
           walk.now - e.value.last <= IdleTimeout
               => rows'[[key |-> e.key, first |-> e.value.first]] = e.value.count]_vars

\* A rejected batch, because of a counter or a time that went back, a flow met
\* twice or an entry gone, never blocks the collector for good: packets on two CPUs
\* that leave an entry no batch can be stored with do so only until it is idle.
RejectionEnds == health.failures > 0 ~> health.failures = 0
=============================================================================
