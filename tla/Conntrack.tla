----------------------------- MODULE Conntrack -----------------------------
(***************************************************************************)
(* Conntrack enrichment: src/src/conntrack.rs, ConntrackEnrichedCollector  *)
(* of src/src/collector.rs, and the columns it fills in upsert_flow_tx of  *)
(* src/src/storage.rs.                                                     *)
(*                                                                         *)
(* One tuple of a LAN client is followed.  The kernel's table changes at   *)
(* any moment, and a dump walks it while it changes.  The collection loop  *)
(* reads the flows, joins them with a snapshot that may be cached, and     *)
(* stores the batch; ticks of the clock pass between these steps.          *)
(***************************************************************************)
EXTENDS Integers, FiniteSets

CONSTANTS
    Endpoints,      \* address and port
    FlowTuple,      \* the tuple of the flow, as NetworkTuple::from_flow builds it
    Entries,        \* [original, reply] that the kernel may hold
    KernelStates,   \* what the kernel says of a connection
    Refresh,        \* conntrack_refresh_interval_secs, in ticks
    MaxTime,        \* bound on the clock
    MaxChanges,     \* bound on the changes of the kernel's table
    MaxBatches,     \* bound on the batches collected
    None

Times == 0 .. MaxTime
NetworkTuple == [source: Endpoints, destination: Endpoints]
ConnectionState == {"unknown", "new", "established", "closing", "closed"}
\* An entry as a dump reports it.
ConntrackEntry == [entry: Entries, state: ConnectionState]
Optional(S) == S \cup {None}

\* state_from_kernel: the TCP states, and a status of any other protocol.
StateFromKernel(k) ==
    CASE k \in {"syn_sent", "syn_recv", "unconfirmed"} -> "new"
      [] k \in {"tcp_established", "confirmed"} -> "established"
      [] k \in {"fin_wait", "close_wait", "last_ack", "time_wait"} -> "closing"
      [] k = "close" -> "closed"
      [] k = "none" -> "unknown"

ASSUME ConntrackBounds ==
    /\ Refresh \in Nat \ {0}    \* main.rs takes at least one second
    /\ MaxTime \in Nat /\ MaxChanges \in Nat /\ MaxBatches \in Nat
ASSUME ConntrackTuples ==
    /\ FlowTuple \in NetworkTuple
    /\ Entries \subseteq [original: NetworkTuple, reply: NetworkTuple]
    /\ \A k \in KernelStates : StateFromKernel(k) \in ConnectionState
ASSUME ConntrackNone == None \notin Endpoints \cup Times

VARIABLES
    now,        \* monotonic clock
    table,      \* the kernel's entries, each None or [state, since]
    held,       \* when an entry last was in a state before the present one
    changes,    \* changes of the table so far
    flow,       \* the flow of the tuple in the flow map, by its first packet
    cache,      \* CachedConntrackReader::cache
    col,        \* the collection under way
    rows,       \* stored flows of the tuple, by their first packet
    batches     \* batches collected so far

vars == <<now, table, held, changes, flow, cache, col, rows, batches>>

Snapshot == [at: Times, entries: SUBSET ConntrackEntry]
Batch == [first: Times, at: Times, enriched: BOOLEAN, state: ConnectionState,
          natSource: Optional(Endpoints), natDestination: Optional(Endpoints)]
Rest == [at |-> "rest"]

Live == {e \in Entries : table[e] # None}
Tuples(e) == {e.original, e.reply}

-----------------------------------------------------------------------------
(* The kernel.  A tuple, in either direction, belongs to one entry.         *)

Tick ==
    /\ now < MaxTime /\ now' = now + 1
    /\ UNCHANGED <<table, held, changes, flow, cache, col, rows, batches>>

\* A change that a dump under way may see half of.
Change(e, value) ==
    /\ changes < MaxChanges /\ changes' = changes + 1
    /\ table' = [table EXCEPT ![e] = value]
    /\ held' = IF table[e] = None THEN held ELSE [held EXCEPT ![e][table[e].state] = now]
    /\ col' = IF col.at = "dump" THEN [col EXCEPT !.steady = @ \ {e}] ELSE col
    /\ UNCHANGED <<now, flow, cache, rows, batches>>

Tracked(e, k) ==
    /\ table[e] = None /\ \A other \in Live : Tuples(e) \cap Tuples(other) = {}
    /\ Change(e, [state |-> k, since |-> now])

Moves(e, k) ==
    /\ table[e] # None /\ table[e].state # k
    /\ Change(e, [state |-> k, since |-> now])

Forgotten(e) == table[e] # None /\ Change(e, None)

-----------------------------------------------------------------------------
(* The flow map, as far as flows come and go, and its collector.            *)

FirstPacket ==
    /\ flow = None /\ flow' = now
    /\ UNCHANGED <<now, table, held, changes, cache, col, rows, batches>>

\* The walk of the base collector removes a flow that has been idle.
FlowExpires ==
    /\ col = Rest /\ flow # None /\ flow < now /\ flow' = None
    /\ UNCHANGED <<now, table, held, changes, cache, col, rows, batches>>

\* self.base.collect(): the flow, with nothing of conntrack.
BaseCollect ==
    /\ col = Rest /\ flow # None /\ batches < MaxBatches
    /\ batches' = batches + 1
    /\ col' = [at |-> "collected",
               batch |-> [first |-> flow, at |-> now, enriched |-> FALSE, state |-> "unknown",
                          natSource |-> None, natDestination |-> None]]
    /\ UNCHANGED <<now, table, held, changes, flow, cache, rows>>

-----------------------------------------------------------------------------
(* ConntrackSnapshot::associate and ConntrackEntry::nat_mapping.            *)

\* Slip: only the original direction is indexed.
CandidatesByOriginal(entries) == {c \in entries : FlowTuple = c.entry.original}

\* The candidates of the flow's tuple, by the index of both directions.
Candidates(entries) == {c \in entries : FlowTuple \in Tuples(c.entry)}

\* The entry the flow is matched with: none if none or several answer to it.
Associate(entries) ==
    LET found == Candidates(entries) IN IF Cardinality(found) = 1 THEN found ELSE {}

ReverseOf(t) == [source |-> t.destination, destination |-> t.source]
NatMapping(e) == IF e.reply = ReverseOf(e.original) THEN None ELSE ReverseOf(e.reply)

Enriched(batch, entries) ==
    IF Associate(entries) = {} THEN [batch EXCEPT !.enriched = TRUE]
    ELSE LET entry == CHOOSE c \in Associate(entries) : TRUE
             nat == NatMapping(entry.entry)
         IN  [batch EXCEPT !.enriched = TRUE, !.state = entry.state,
                           !.natSource = IF nat = None THEN @ ELSE nat.source,
                           !.natDestination = IF nat = None THEN @ ELSE nat.destination]

-----------------------------------------------------------------------------
(* CachedConntrackReader::snapshot over a dump by netlink.                  *)

\* The cached snapshot is young enough to be used again.
Fresh == cache # None /\ now - cache.at < Refresh

SnapshotCached ==
    /\ col.at = "collected" /\ Fresh
    /\ col' = [at |-> "enriched", batch |-> Enriched(col.batch, cache.entries)]
    /\ UNCHANGED <<now, table, held, changes, flow, cache, rows, batches>>

\* The time of the snapshot is read before the dump begins.  steady collects
\* the entries that the dump cannot miss.
BeginDump ==
    /\ col.at = "collected" /\ ~Fresh
    /\ col' = [at |-> "dump", batch |-> col.batch, started |-> now,
               steady |-> Live, read |-> {}]
    /\ UNCHANGED <<now, table, held, changes, flow, cache, rows, batches>>

ReadEntry(e) ==
    /\ col.at = "dump" /\ e \in Live /\ \A c \in col.read : c.entry # e
    /\ LET read == [entry |-> e, state |-> StateFromKernel(table[e].state)]
       IN  col' = [col EXCEPT !.read = @ \cup {read}]
    /\ UNCHANGED <<now, table, held, changes, flow, cache, rows, batches>>

\* Slip: the snapshot is dated when the dump is over.
RefreshedAtEnd == now

\* refreshed_at of the snapshot that a dump yields.
RefreshedAt == col.started

EndDump ==
    /\ col.at = "dump" /\ \A e \in col.steady : \E c \in col.read : c.entry = e
    /\ cache' = [at |-> RefreshedAt, entries |-> col.read]
    /\ col' = [at |-> "enriched", batch |-> Enriched(col.batch, col.read)]
    /\ UNCHANGED <<now, table, held, changes, flow, rows, batches>>

\* The batch goes on as it is, with a degraded health, and the old snapshot
\* is neither used nor dropped.
DumpFails ==
    /\ col.at = "dump"
    /\ col' = [at |-> "enriched", batch |-> col.batch]
    /\ UNCHANGED <<now, table, held, changes, flow, cache, rows, batches>>

-----------------------------------------------------------------------------
(* The loop ingests the batch.                                              *)

Coalesce(new, old) == IF new = None THEN old ELSE new

\* Slip: one of the two ends is taken from the first report.
UpsertKeepingDestination(old, batch) ==
    [batch EXCEPT !.natSource = IF old = None THEN @ ELSE Coalesce(@, old.natSource),
                  !.natDestination = IF old = None THEN @ ELSE Coalesce(old.natDestination, @)]

\* The row that the upsert leaves: a mapping is kept, a state is not.
Upsert(old, batch) ==
    [batch EXCEPT !.natSource = IF old = None THEN @ ELSE Coalesce(@, old.natSource),
                  !.natDestination = IF old = None THEN @ ELSE Coalesce(@, old.natDestination)]

Ingest ==
    /\ col.at = "enriched"
    /\ rows' = [rows EXCEPT ![col.batch.first] = Upsert(@, col.batch)]
    /\ col' = Rest
    /\ UNCHANGED <<now, table, held, changes, flow, cache, batches>>

IngestFails ==
    /\ col.at = "enriched" /\ col' = Rest
    /\ UNCHANGED <<now, table, held, changes, flow, cache, rows, batches>>

-----------------------------------------------------------------------------

Init ==
    /\ now = 0 /\ changes = 0 /\ batches = 0 /\ flow = None
    /\ table = [e \in Entries |-> None]
    /\ held = [e \in Entries |-> [k \in KernelStates |-> None]]
    /\ cache = None /\ col = Rest
    /\ rows = [t \in Times |-> None]

Next ==
    \/ Tick
    \/ \E e \in Entries, k \in KernelStates : Tracked(e, k) \/ Moves(e, k)
    \/ \E e \in Entries : Forgotten(e) \/ ReadEntry(e)
    \/ FirstPacket \/ FlowExpires
    \/ BaseCollect \/ SnapshotCached \/ BeginDump \/ EndDump \/ DumpFails
    \/ Ingest \/ IngestFails

Spec == Init /\ [][Next]_vars

-----------------------------------------------------------------------------
(* Properties.                                                              *)

\* Values keep their shape through the steps of a collection.
TypeOK ==
    /\ now \in Times /\ changes \in 0 .. MaxChanges /\ batches \in 0 .. MaxBatches
    /\ table \in [Entries -> Optional([state: KernelStates, since: Times])]
    /\ held \in [Entries -> [KernelStates -> Optional(Times)]]
    /\ flow \in Optional(Times)
    /\ cache \in Optional(Snapshot)
    /\ rows \in [Times -> Optional(Batch)]
    /\ col # Rest => col.batch \in Batch

\* e was in state k at some moment after t.
HeldAfter(e, k, t) ==
    \/ table[e] # None /\ table[e].state = k
    \/ held[e][k] # None /\ held[e][k] > t

OfFlow == {e \in Entries : FlowTuple \in Tuples(e)}

\* A stored translation is the translation of one connection of the flow's own
\* tuple, whole, and that connection was still tracked less than a refresh
\* interval before the flow began: neither the COALESCE of one column after
\* the other nor a cached snapshot mixes in a connection long gone.
MappingWhole ==
    \A t \in Times :
        rows[t] # None /\ (rows[t].natSource # None \/ rows[t].natDestination # None) =>
            \E e \in OfFlow :
                /\ NatMapping(e) # None
                /\ NatMapping(e).source = rows[t].natSource
                /\ NatMapping(e).destination = rows[t].natDestination
                /\ \E k \in KernelStates : HeldAfter(e, k, t - Refresh)

\* A stored state is one that a connection of the tuple was in at most a
\* refresh interval before the flows of the row's last batch were read,
\* whatever was cached and however many dumps failed since.
StateFresh ==
    \A t \in Times :
        rows[t] # None /\ rows[t].state # "unknown" =>
            \E e \in OfFlow, k \in KernelStates :
                /\ StateFromKernel(k) = rows[t].state
                /\ HeldAfter(e, k, rows[t].at - Refresh)

\* The only connection of the tuple, unchanged for a refresh interval before
\* the batch was read, shows in the row with its state and its translation,
\* on whichever side of it the LAN client is.
SteadyEntryShows ==
    \A t \in Times, e \in OfFlow :
        LET since == table[e].since
            alone == \A other \in OfFlow \ {e} :
                         table[other] = None /\ \A k \in KernelStates : ~HeldAfter(other, k, since)
        IN  rows[t] # None /\ rows[t].enriched /\ table[e] # None
                /\ since + Refresh <= rows[t].at /\ alone =>
                /\ rows[t].state = StateFromKernel(table[e].state)
                /\ NatMapping(e) # None =>
                       /\ rows[t].natSource = NatMapping(e).source
                       /\ rows[t].natDestination = NatMapping(e).destination
=============================================================================
