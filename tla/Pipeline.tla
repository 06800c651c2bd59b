------------------------------ MODULE Pipeline ------------------------------
(***************************************************************************)
(* The tasks of src/src/main.rs around the DNS cache and the repository:   *)
(* the DNS loop and the collection loop, which share the cache, and the    *)
(* deletion handlers of src/src/api/mod.rs, which erase from the           *)
(* repository first and from the cache after.  The repository is seen as   *)
(* its devices and flow rows only; FlowLedger models what stands under     *)
(* them.                                                                   *)
(*                                                                         *)
(* A task is the sequence of cache and repository calls its loop makes,    *)
(* one step per call; between two calls the other task and the handlers    *)
(* may move.  Either write may fail.                                       *)
(***************************************************************************)
EXTENDS DnsCache

CONSTANTS
    DestIp,         \* [FlowIds -> TargetIps], part of the flow's identity
    Deletions,      \* what the deletion handlers are asked to delete
    MaxQueries,     \* bound on the answers the proxy sees
    MaxBatches,     \* bound on the batches the collector returns
    MaxDeletions    \* bound on the deletions

FlowRow == [last: Times, attr: Entry \cup {None}]
Scope == [kind: {"device"}, mac: Macs]
         \cup [kind: {"domain"}, mac: Macs \cup {None}, domain: Domains]
         \cup [kind: {"range"}, from: Times, to: 1 .. MaxTime + 1]
Steps == {"idle", "learn", "take", "collect", "purge", "drain", "flush",
           "attribute"}

ASSUME PipelineAssumption ==
    /\ Callers \subseteq {"dns", "collector"}
    /\ DestIp \in [FlowIds -> TargetIps]
    /\ Deletions \subseteq Scope
    /\ MaxQueries \in Nat /\ MaxBatches \in Nat /\ MaxDeletions \in Nat
ASSUME PipelineNone == None \notin FlowRow /\ None \notin Times

VARIABLES
    devices,    \* devices of the repository
    flows,      \* its flow rows, None where there is none
    pc,         \* the call each task makes next
    asOf,       \* the time its round works with, read when the round began
    batch,      \* the batch the collection loop is working on
    unmatched,  \* the flows of the batch it has still to attribute
    deleting,   \* the deletion whose cache purge is still to come, or None
    asked,      \* answers so far
    collected,  \* batches so far
    deleted,    \* deletions so far
    forgotten,  \* when a domain was last deleted everywhere, and whether
                \* anything about it was still under way outside the cache
    evicted     \* bindings that a full backfill queue pushed out

repository == <<devices, flows>>
work == <<batch, unmatched>>
counters == <<asked, collected, deleted>>
history == <<forgotten, evicted>>
cacheVars == <<now, queue, taken, cache, todo, drained, restoring>>
pipeline == <<cacheVars, repository, pc, asOf, work, deleting, counters, history>>

-----------------------------------------------------------------------------
(* The repository: an attribution gives way to one at least as recent       *)
(* (EffectiveAttribution of FlowLedger, all of them being DNS ones).        *)

Stronger(stored, incoming) ==
    IF incoming # None /\ (stored = None \/ incoming.at >= stored.at)
    THEN incoming ELSE stored

\* Slip: the lifetimes are not compared.
AppliesAnytime(b, f) == flows[f] # None /\ ClientMac[f] = b.mac /\ DestIp[f] = b.ip

AppliesTo(b, f) ==
    /\ flows[f] # None /\ ClientMac[f] = b.mac /\ DestIp[f] = b.ip
    /\ flows[f].last >= b.entry.at /\ FirstSeen[f] < b.entry.exp

\* backfill_domain_bindings; a pair is in the list at most once (QueuedIsSole).
Backfilled(bindings) ==
    [f \in FlowIds |->
        LET hits == {b \in ToSet(bindings) : AppliesTo(b, f)}
        IN  IF hits = {} THEN flows[f]
            ELSE [flows[f] EXCEPT !.attr = Stronger(@, (CHOOSE b \in hits : TRUE).entry)]]

\* upsert_flows
Upserted(rows) ==
    [f \in FlowIds |->
        IF rows[f] = None THEN flows[f]
        ELSE [last |-> rows[f].last,
              attr |-> Stronger(IF flows[f] = None THEN None ELSE flows[f].attr,
                                rows[f].attr)]]

\* delete_device_data, delete_domain_data, delete_data_range: what is left of a row
LeftOf(s, f) ==
    IF flows[f] = None THEN None
    ELSE CASE s.kind = "device" -> IF ClientMac[f] = s.mac THEN None ELSE flows[f]
           [] s.kind = "domain" ->
                IF /\ s.mac \in {ClientMac[f], None}
                   /\ flows[f].attr # None /\ flows[f].attr.domain = s.domain
                THEN [flows[f] EXCEPT !.attr = None] ELSE flows[f]
           [] s.kind = "range" ->
                IF FirstSeen[f] < s.to /\ flows[f].last >= s.from
                THEN None ELSE flows[f]

Erased(s) == [f \in FlowIds |-> LeftOf(s, f)]

PurgeFor(s) ==
    CASE s.kind = "device" -> PurgeDevice(s.mac)
      [] s.kind = "domain" -> PurgeDomain(s.mac, s.domain)
      [] s.kind = "range" -> PurgeRange(s.from, s.to)

-----------------------------------------------------------------------------
(* The two loops.                                                           *)

NoBatch == [f \in FlowIds |-> None]

PipelineInit ==
    /\ Init
    /\ devices = {} /\ flows = NoBatch
    /\ pc = [c \in Callers |-> "idle"] /\ asOf = [c \in Callers |-> None]
    /\ batch = NoBatch /\ unmatched = {}
    /\ deleting = None /\ asked = 0 /\ collected = 0 /\ deleted = 0
    /\ forgotten = [d \in Domains |-> None] /\ evicted = {}

\* A task waits for the mutex of the cache, and for its own call to end.
At(c, step) == Free /\ c \in Callers /\ pc[c] = step
Goto(c, step) == pc' = [pc EXCEPT ![c] = step]
AfterFlush(c) == Goto(c, IF c = "collector" THEN "attribute" ELSE "idle")

\* A round reads the clock once, for all of its calls that need a time.
BeginRound(c, step) ==
    /\ At(c, "idle") /\ Goto(c, step)
    /\ asOf' = [asOf EXCEPT ![c] = now]

WallClock ==
    /\ Tick
    /\ UNCHANGED <<repository, pc, asOf, work, deleting, counters, history>>

ProxyAnswer(ip, a) ==
    /\ asked < MaxQueries /\ asked' = asked + 1
    /\ Observe(ip, a)
    /\ UNCHANGED <<repository, pc, asOf, work, deleting, collected, deleted, history>>

DnsTick ==
    /\ BeginRound("dns", "take")
    /\ UNCHANGED <<cacheVars, repository, work, deleting, counters, history>>

\* collector.collect(); a failing collection changes nothing here.
Collect(last) ==
    /\ BeginRound("collector", "learn")
    /\ collected < MaxBatches /\ collected' = collected + 1
    /\ batch' = [f \in FlowIds |->
           IF last[f] = None THEN None ELSE [last |-> last[f], attr |-> None]]
    /\ unmatched' = {f \in FlowIds : last[f] # None}
    /\ UNCHANGED <<cacheVars, repository, deleting, asked, deleted, history>>

LearnBatch ==
    /\ At("collector", "learn") /\ Goto("collector", "take")
    /\ LearnFlowIdentities([f \in FlowIds |-> IF batch[f] = None THEN None ELSE batch[f].last],
                           asOf["collector"])
    /\ UNCHANGED <<repository, asOf, work, deleting, counters, history>>

\* refresh_dns_attribution: collect_from in two steps, then purge_expired.
TakeObservations(c) ==
    /\ At(c, "take") /\ Goto(c, "collect")
    /\ IF queue = <<>> THEN UNCHANGED cacheVars ELSE Take(c)
    /\ UNCHANGED <<repository, asOf, work, deleting, counters, history>>

ObserveTaken(c) ==
    /\ At(c, "collect") /\ Goto(c, "purge")
    /\ IF taken[c] = <<>> THEN UNCHANGED cacheVars ELSE CollectFrom(c, asOf[c])
    /\ UNCHANGED <<repository, asOf, work, deleting, counters, history>>

DropExpired(c) ==
    /\ At(c, "purge") /\ Goto(c, "drain")
    /\ PurgeExpired(asOf[c])
    /\ asOf' = [asOf EXCEPT ![c] = None]
    /\ UNCHANGED <<repository, work, deleting, counters, history>>

\* flush_dns_backfills: drain, then persist or requeue.
Drain(c) ==
    /\ At(c, "drain")
    /\ IF cache.resolved = <<>> THEN AfterFlush(c) /\ UNCHANGED cacheVars
       ELSE Goto(c, "flush") /\ DrainResolved(c)
    /\ UNCHANGED <<repository, asOf, work, deleting, counters, history>>

Flush(c) ==
    /\ At(c, "flush") /\ AfterFlush(c)
    /\ flows' = Backfilled(drained[c])
    /\ Persisted(c)
    /\ UNCHANGED <<devices, asOf, work, deleting, counters, history>>

\* Slip: a failing flush leaves the bindings where they are.
FlushFailsSilently(c) ==
    /\ At(c, "flush") /\ AfterFlush(c)
    /\ UNCHANGED <<cacheVars, repository, asOf, work, deleting, counters, history>>

FlushFails(c) ==
    /\ At(c, "flush") /\ AfterFlush(c)
    /\ BeginRequeue(c)
    /\ UNCHANGED <<repository, asOf, work, deleting, counters, history>>

\* A binding that leaves a full queue while it is the sole entry of its pair
\* gave way to one of another pair.
PushedOut ==
    {r \in ToSet(cache.resolved) :
        Len(cache.resolved) = MaxResolved /\ cache'.bindings[r.mac][r.ip] = {r.entry}}

CacheLoop ==
    /\ ResolveKeep \/ RequeueStep
           \/ \E m \in Macs, ip \in TargetIps : ResolveBind(m, ip)
    /\ evicted' = (evicted \cup PushedOut) \ ToSet(cache'.resolved)
    /\ UNCHANGED <<repository, pc, asOf, work, deleting, counters, forgotten>>

\* attribute_flow, which takes the mutex anew for each flow of attribute_flows.
AttributeFlow(f) ==
    /\ At("collector", "attribute") /\ f \in unmatched
    /\ unmatched' = unmatched \ {f}
    /\ LET hits == Matching(cache, f, DestIp[f], batch[f].last)
       IN  batch' = IF Cardinality(hits) # 1 THEN batch
                    ELSE [batch EXCEPT ![f].attr = CHOOSE e \in hits : TRUE]
    /\ UNCHANGED <<cacheVars, repository, pc, asOf, deleting, counters, history>>

\* ingest_flows: the batch is stored as a whole, or lost.
Ingest ==
    /\ At("collector", "attribute") /\ unmatched = {} /\ Goto("collector", "idle")
    /\ \/ /\ flows' = Upserted(batch)
          /\ devices' = devices \cup {ClientMac[f] : f \in {g \in FlowIds : batch[g] # None}}
       \/ UNCHANGED repository
    /\ batch' = NoBatch
    /\ UNCHANGED <<cacheVars, asOf, unmatched, deleting, counters, history>>

-----------------------------------------------------------------------------
(* The deletion handlers: the repository commits, then the cache is purged. *)

DeleteStored(s) ==
    /\ deleting = None /\ deleted < MaxDeletions /\ deleted' = deleted + 1
    /\ s.kind # "range" /\ s.mac # None => s.mac \in devices
    /\ s.kind = "range" => s.from < s.to
    /\ flows' = Erased(s)
    /\ devices' = IF s.kind = "device" THEN devices \ {s.mac} ELSE devices
    /\ deleting' = s
    /\ UNCHANGED <<cacheVars, pc, asOf, work, asked, collected, history>>

\* Something about d outside the cache: queued at the proxy, in the hands of a
\* task, or stored again since the repository was cleaned.
UnderWay(d) ==
    \/ \E o \in ToSet(queue) : o.domain = d
    \/ \E c \in Callers : \/ \E o \in ToSet(taken[c]) : o.domain = d
                          \/ \E r \in ToSet(drained[c]) : r.entry.domain = d
    \/ \E row \in {batch[f] : f \in FlowIds} \cup {flows[f] : f \in FlowIds} :
           row # None /\ row.attr # None /\ row.attr.domain = d

DeleteCached ==
    /\ deleting # None /\ deleting' = None
    /\ PurgeFor(deleting)
    /\ forgotten' =
           IF deleting.kind = "domain" /\ deleting.mac = None
           THEN [forgotten EXCEPT ![deleting.domain] =
                    [at |-> now, clean |-> ~UnderWay(deleting.domain)]]
           ELSE forgotten
    /\ UNCHANGED <<repository, pc, asOf, work, counters, evicted>>

\* The process is killed and starts again: what was in memory is gone.
Restart ==
    /\ queue' = <<>> /\ taken' = [c \in Callers |-> <<>>]
    /\ cache' = EmptyCache /\ todo' = <<>>
    /\ drained' = [c \in Callers |-> <<>>] /\ restoring' = None
    /\ pc' = [c \in Callers |-> "idle"] /\ asOf' = [c \in Callers |-> None]
    /\ batch' = NoBatch /\ unmatched' = {} /\ deleting' = None
    /\ UNCHANGED <<now, repository, counters, history>>

TaskStep(c) ==
    \/ TakeObservations(c) \/ ObserveTaken(c) \/ DropExpired(c)
    \/ Drain(c) \/ Flush(c) \/ FlushFails(c)

DnsLoop == DnsTick \/ TaskStep("dns")
CollectionLoop ==
    \/ \E last \in Batches(now) : Collect(last)
    \/ LearnBatch
    \/ TaskStep("collector")
    \/ \E f \in FlowIds : AttributeFlow(f)
    \/ Ingest

PipelineNext ==
    \/ WallClock
    \/ \E ip \in ClientIps, a \in Answers : ProxyAnswer(ip, a)
    \/ DnsTick
    \/ \E last \in Batches(now) : Collect(last)
    \/ LearnBatch
    \/ \E c \in Callers : TaskStep(c)
    \/ CacheLoop
    \/ \E f \in FlowIds : AttributeFlow(f)
    \/ Ingest
    \/ \E s \in Deletions : DeleteStored(s)
    \/ DeleteCached
    \/ Restart

PipelineSpec == PipelineInit /\ [][PipelineNext]_pipeline

\* The loops are timers that keep ticking until shutdown: a round, once begun,
\* goes on, and the DNS loop begins another (a collection may fail for good).  A
\* mutex is released by a loop that ends.  That a failing write is transient is the
\* premise under which main.rs requeues: it fails a finite number of times.
FairPipeline ==
    /\ PipelineSpec
    /\ WF_pipeline(CacheLoop)
    /\ WF_pipeline(DnsLoop)
    /\ WF_pipeline(CollectionLoop /\ pc["collector"] # "idle")
    /\ \A c \in Callers : SF_pipeline(Flush(c))

-----------------------------------------------------------------------------
(* Properties.                                                              *)

\* What the tasks hold is well formed, and they hold it only for as long as the
\* call that needs it: nothing is left in hand when a loop waits for its timer.
PipelineTypeOK ==
    /\ devices \subseteq Macs
    /\ flows \in [FlowIds -> FlowRow \cup {None}]
    /\ batch \in [FlowIds -> FlowRow \cup {None}]
    /\ unmatched \subseteq {f \in FlowIds : batch[f] # None}
    /\ pc \in [Callers -> Steps]
    /\ asOf \in [Callers -> Times \cup {None}]
    /\ deleting \in Scope \cup {None}
    /\ \A c \in Callers : /\ taken[c] # <<>> => pc[c] = "collect"
                          /\ drained[c] # <<>> => pc[c] = "flush" \/ restoring = c
                          /\ asOf[c] # None <=> pc[c] \in {"learn", "take", "collect", "purge"}
                          /\ c = "collector" /\ batch # NoBatch => pc[c] # "idle"

\* End to end, through both ways an attribution reaches a flow row (attributed
\* before ingestion, or backfilled after): the flow's device held a LAN address
\* around the query or gave it up at most Grace before.
StoredFollowsLease ==
    \A f \in FlowIds : flows[f] # None /\ flows[f].attr # None =>
        HeldAround(ClientMac[f], flows[f].attr.at)

\* A row takes a name only if the name's lifetime meets the flow's, as the row
\* stands from then on: what held when the flow of a batch was matched, or when the
\* bindings were drained, still holds when it is written, whatever the other loop
\* and the handlers stored or erased in between.  (Later the row may show an
\* earlier last packet, and keeps its name.)
TakesName(f) ==
    /\ flows'[f] # None /\ flows'[f].attr # None
    /\ flows[f] = None \/ flows[f].attr # flows'[f].attr
StoredWithinLifetime ==
    [][\A f \in FlowIds : TakesName(f) =>
           flows'[f].attr.at <= flows'[f].last /\ FirstSeen[f] < flows'[f].attr.exp]_flows

\* A domain deleted everywhere while nothing about it was under way outside the
\* cache comes back only through a later answer: the purge leaves no binding,
\* pending observation or queued backfill of it behind.
CleanDeletionIsFinal ==
    \A d \in Domains, f \in FlowIds :
        /\ forgotten[d] # None /\ forgotten[d].clean
        /\ flows[f] # None /\ flows[f].attr # None /\ flows[f].attr.domain = d
        => flows[f].attr.at >= forgotten[d].at

\* architecture.md:360-361 says a deleted domain can be recorded again by new
\* observations made after the deletion (and :330 that the repository and the
\* DNS state in memory are cleaned together).
DeletionIsFinal ==
    \A d \in Domains, f \in FlowIds :
        forgotten[d] # None /\ flows[f] # None /\ flows[f].attr # None
            /\ flows[f].attr.domain = d
        => flows[f].attr.at >= forgotten[d].at

\* README.md:14-15: a failing write keeps the binding for a later retry.  What a
\* stored flow has been resolved to reaches its row, unless before that the pair
\* becomes ambiguous, is renewed, expires or is deleted, the flow is deleted or
\* reported with a last packet before the answer, or newer bindings of other pairs
\* fill the queue, which gives up its oldest at MAX_RESOLVED_BINDINGS.
InHand(b) == \/ b \in ToSet(cache.resolved)
             \/ \E c \in Callers : b \in ToSet(drained[c])
ResolvableTo(f) ==
    {[mac |-> ClientMac[f], ip |-> DestIp[f],
      entry |-> [domain |-> a.domain, at |-> t, exp |-> t + a.ttl]] :
        a \in {b \in Answers : DestIp[f] \in b.targets}, t \in Times}
ResolvedReachesStored ==
    \A f \in FlowIds : \A b \in ResolvableTo(f) :
        (InHand(b) /\ AppliesTo(b, f)) ~>
            \/ ~AppliesTo(b, f)
            \/ flows[f].attr # None /\ flows[f].attr.at >= b.entry.at
            \/ cache.bindings[b.mac][b.ip] # {b.entry}
            \/ b \in evicted
=============================================================================
