# A TLA+ model of RouteScope

RouteScope watches the traffic of a Linux router, stores flows and per-minute
aggregates in SQLite, and names the remote end of a flow after the DNS answer
that led to it. This directory models the parts of it where state, order and
failure matter, checks them with TLC on small instances, and proves some of the
results for every instance with TLAPS.

Paths are those of the repository (`src/src/storage.rs` is the crate's
`storage.rs`). `PROJECT.json` maps each definition to the lines it models.

## 1. The system

| component | state | operations | hard behaviours |
|---|---|---|---|
| Repository write path (`storage.rs`, types of `domain.rs`) | one SQLite connection behind a mutex; tables `devices`, `flows`, `flow_minute_contributions`, `device_minute_stats`, `domain_minute_stats` | `upsert_flows`, `backfill_domain_bindings`, `delete_device_data`, `delete_domain_data`, `delete_data_range`, `delete_expired_data` | three tables that must agree; statements that fail inside a batch; a sweep that is not a transaction; rows of an older schema |
| DNS attribution cache (`dns.rs`) | the proxy's observation queue; bindings, client identities, pending observations and resolved bindings behind a mutex | `push`, `collect_from`, `learn_flow_identities`, `attribute_flows`, `purge_expired`, `drain_resolved_bindings`, `requeue_resolved_bindings`, three purges | addresses that DHCP hands on, answers out of order, ambiguity that comes and goes, queues at their limit, a requeue that races a purge |
| Background tasks (`main.rs`), deletion handlers (`api/mod.rs`, `service.rs`) | what a loop holds between two calls; the position of each loop | DNS loop, collection loop, retention loop, deletion in two halves | interleavings of loops and handlers over the cache and the repository; writes that fail; a killed process |
| TC flow map (`routescope_tc.c`), collectors (`collector.rs`) | an LRU hash map in the kernel; the clock offset in user space | packets on each CPU, map walk, batch validation | updates without atomics, eviction, counters that go back |
| Conntrack association (`conntrack.rs`, the enriched collector of `collector.rs`) | a cached snapshot; the NAT columns and the state of a flow row | dump, lookup, enrichment, upsert | a table that changes under the dump, stale or ambiguous tuples, columns kept one by one |
| Collector health and readiness (`state.rs`) | last result of each collector | record, readiness | a late failure after a success |
| Authentication (`auth.rs`, `web.rs`) | sessions, CSRF tokens, login limiter, the account; the cookies of browsers | login, logout, page, form, bootstrap | a login that awaits in the middle, tabs that share cookies, answers out of order, expiry windows |
| Flow pages (`service.rs`, `storage.rs`) | none; a cursor in the client's hand | page forward and back | rows that move while a client pages |
| DNS proxy (`dns_proxy.rs`) | two listeners, a handler per UDP query and per TCP connection that nobody joins | receive, forward, answer, record | late answers at a reused port, clients that hold a connection |
| The process (`main.rs`) | a watch channel, the task handles, the HTTP server | start, signal, drain, timeout, join, exit | tasks that must all end, requests that do not |
| Aggregate queries, rendering, configuration, scripts | none | read only, rendering, start-up | none that a model checker reaches |

The interactions: a collector returns a batch of flows with *cumulative*
counters. The collection loop learns the client identities of the batch, takes
what the DNS proxy observed, flushes resolved bindings into the repository,
attributes the batch from the cache and stores it. The DNS loop does the middle
part on its own timer. Deletion handlers change the repository first and the
cache second. Nothing but the repository survives a restart. A collector may be
wrapped by one that joins its flows with the kernel's conntrack table. Management
pages reach the repository and the handlers only with a session and, to change
anything, with the CSRF token of that session. All tasks end when `main` sets the
watch channel after a signal.

What makes each part correct:

* the repository: aggregates, ledger and flow rows agree at every commit, so
  that relabelling a flow can always take its bytes out of the old domain; no
  byte is charged twice; attributions only improve, or are erased with all that
  was derived from them;
* the cache: a name is bound to the device that asked; only unambiguous
  bindings are handed to the repository; a late answer never replaces a newer
  one; the queues keep their limits;
* the tasks: what was resolved reaches the stored flows in spite of failing
  writes; what was deleted stays deleted; what the proxy recorded is taken over;
* conntrack: a stored translation belongs to one connection of the flow and is
  not of one long gone; a state is as old as the refresh interval at most;
* authentication: the limiter bounds the guesses of a window and keeps the wait it
  announces; a form stays good as long as its session; the first account stays;
* the process: after a signal it ends, and cuts off no request before the timeout.

`PROJECT.json` lists the hazards behind these sentences, each with its line and
the properties that cover it, or the reason why none does yet.

## 2. The modules

```
FlowLedger     the tables of storage.rs and all that writes them
   ^
FlowRefinement <- MCFlowLedger   FlowLedger implements FlowStore
   |  ^        <- FlowLedgerProofs
   |  FlowStore                  what the write path promises a reader
DnsCache       <- MCDnsCache     dns.rs, method by method
   ^
Pipeline       <- MCPipeline, PipelineProofs   the loops of main.rs and the
                                 deletion handlers; the proofs include DnsCache
FlowMap        <- MCFlowMap, FlowMapProofs     the TC program, the collector, health
FlowPaging     <- MCFlowPaging, FlowPagingProofs   flow pages and their cursors
Conntrack      <- MCConntrack, ConntrackProofs     the dump, its cache, the row
Auth           <- MCAuth, AuthProofs   auth.rs, login and logout, cookies, forms
DnsProxy                         dns_proxy.rs
   ^
Runtime        <- MCRuntime, RuntimeProofs     the process from start to exit
TotalProofs    sums over finite sets, for FlowLedgerProofs and FlowMapProofs; the
               smallest number of a set, also for FlowPagingProofs
```

Each module contains, just before a definition it belongs to, a few *slips*:
variants with a plausible mistake (a dropped guard, a missing reset, a swapped
order). No specification uses them. `PROJECT.json` pairs each property with a
slip that breaks it, which shows that the property says something about that
line of the code.

### FlowLedger

`db` is the committed database: `devices`, `flows` (cumulative bytes, last
packet, attribution), `contribs` (the ledger, one row per flow and minute),
`deviceMin` and `domainMin` (the aggregates). One byte count stands for the
upload, download and packet counters, which the code updates side by side; a
missing aggregate row is a zero. Identity fields of a flow (device, destination,
first packet) are constants because `flow_id` determines them.

| code | model |
|---|---|
| the connection mutex and a `rusqlite` transaction | `open`, `work`, and `done` or `binding` for what the transaction is at |
| `upsert_flows`, `upsert_flow_tx` | `BeginUpsert`, `UpsertStep` per flow, `Commit` |
| `backfill_domain_bindings` | `BeginBackfill`, `BackfillBinding`, `BackfillStep` per flow, `Commit` |
| a failing statement, an I/O error, a crash | `Rollback`; a flow with `UpsertFails` can only be rolled back |
| `effective_attribution` | `EffectiveAttribution` over `Rank` and time |
| `reconcile_flow_contributions`, `subtract_domain_minute_bytes` | `Reconcile`, `Moved`, `CanReconcile` |
| `ensure_legacy_unattributed_baseline` | `NeedsBaseline`, `WithBaseline` |
| the three deletions | `DeleteDevice`, `DeleteDomain` (one device or all), `DeleteRange`, each a single transaction |
| `delete_expired_data` | `SweepFlows`, `SweepDeviceMinutes`, `SweepContribs`, `SweepDomainMinutes`; `SweepStops` is an error or a crash between them |
| `migrate` from schema v2 | `LegacyDatabase`: rows of flows and aggregates without a ledger |

The clock does not tick while a transaction or a sweep runs, because a batch and
the sweep's cutoffs carry the times they were started with. `erased` only bounds
the model.

### FlowStore and FlowRefinement

`FlowStore` is the abstract specification: three functions that a reader of the
committed database sees (`flows` with their bytes and attribution, `volume` of a
device, `named` bytes of a device and domain), and two kinds of step. `Absorb`
lets flows appear, grow and be attributed better, charges each device exactly what
its flows grew by, and puts no more bytes under names than flows with a name grew
by or gained one. `Forget` gives nothing to anybody, and a name taken from a flow
is gone from its device. There are no transactions, minutes, or ledger.

`FlowRefinement` maps `FlowLedger` to it: flows without their times, and the
sums of the aggregates over the minutes. `ImplementsStore` says that every step of
the write path is such a step or invisible.

### DnsCache

The cache is one record, as the struct behind the mutex is. The loops inside
`resolve_pending` and `requeue_resolved_bindings` are taken step by step with
the mutex held (`todo`, `restoring`), so that each step is small while no other
method moves in between. What a task holds between two calls is outside the
mutex: `taken` (observations drained from the proxy's queue and not yet handed
to the cache) and `drained` (bindings being persisted).

`Holder` is the ground truth that the program never sees: which device really
holds an address at each time. A collector reports only flows that their device
had while it held the address, and the proxy sees queries from whoever holds the
address. `Grace`, `IdleRetention`, `PendingAge`, `MaxPending` and `MaxResolved`
are the constants of `dns.rs`, scaled down. Targets of an answer are bound in
ascending order, as the code sorts them. A method is given its time by its
caller, who may have read the clock long before: `DnsCache` takes any time up to
now. SNI hints come from nowhere but the repository's inputs and are in
FlowLedger only.

`Batches` is what a collector may report. Nothing makes the last packet of a flow
grow from one report to the next: `routescope_tc.c:169` stores it without a
comparison, so that a slow CPU writes an older time over a newer one, and each
collection derives it from two clocks (`collector.rs:332`, `:497`). The first packet,
which is derived in the same way, is a constant of the flow here: the upsert
keeps the one it stored first, and the few milliseconds by which a later report
may differ are left out.

### Pipeline

Pipeline adds the program counters of the two loops (`pc`), the time a round
reads when it begins and passes to its calls (`asOf`), the batch of the collection
loop and the flows of it that are still to be attributed (`batch`, `unmatched`),
a repository reduced to devices and flow rows, the deletion
whose cache purge is still to come (`deleting`), failing writes (`FlushFails`,
the second alternative of `Ingest`) and `Restart`. Each call a loop makes is one
step, and `Free` makes it wait for the cache mutex; `attribute_flows` takes the
mutex anew for each flow, so `AttributeFlow` is a step per flow, in any order.
The upsert stores the last packet of a batch whatever the row had
(`storage.rs:861`) and keeps the attribution unless the batch has one at least as
recent. `Deletions` says which deletions are asked for; one is in progress at a
time.

There are two history variables. `forgotten` says when a domain was last deleted
everywhere, and whether anything about it was under way outside the cache;
`evicted` holds the bindings that newer ones pushed out of a full backfill queue.

The ranking of attributions is reduced to time here, since all of them come from
DNS with the same rank. That the repository's three tables follow its flow rows
is what FlowLedger shows.

### FlowMap

`map` is the kernel's LRU map, one counter for bytes and packets. A packet goes
through `Packet` (which reads the clock), `Lookup`, then `Create`, or `Touch` and
`Add`: the `+=` of the program is a load in `Touch` and a store in `Add`, as no
atomic instruction is compiled. A pointer to an entry that is gone or replaced
writes nowhere (`Alive`); that the kernel may meanwhile reuse the memory of a
freed entry for another key is left out. `Evict` is the LRU, which may free an
entry before the map is full.

`collect` is `BeginWalk`, `NextKey` and `ReadValue` per entry (a system call each;
after a key that is gone the kernel starts again at the first one), `ExpireOrKeep`
or `ExpireFails` per entry read, then `Rejected` by `validate_batch`, or `Stored` or
`NotStored` with the whole batch in one transaction. `rows` are the counters of
the repository by `flow_id`; deletions are FlowLedger's. Times of a flow are
relative to `observed_at_ms`. What conntrack adds to a batch changes neither
counters nor readiness. `Restart` empties the map and keeps the rows. Each packet
reads another nanosecond, so the first one's time tells an entry from its
successors, as it does in `flow_id`.

### FlowPaging

One client and the `flows` table, reduced to `last_seen`. `FlowPage` is what
`flow_page` returns, read through `ListFlowPage`; a cursor is the record that the
service encodes and decodes. `FirstPage` is a request with window and limit,
`OlderPage` and `NewerPage` use the cursors of the last page, at any later time
and whatever has been written since. `Store` and `Delete` are the writers, the
latter with any set of flows, as a deletion of a device or a range may hit any.
`walk` and `fresh` are history variables of the properties: what a walk from the
first page has shown, which flows have stayed put meanwhile, and whether anything
changed since the last page was read. No flow is stored with a time in the
future, which holds while the wall clock does not go back. `NearestFirst` is
`ORDER BY` without an algorithm: a row's place is the number of rows nearer.

### Conntrack

One tuple of a client is followed through the kernel's table (`Tracked`, `Moves`,
`Forgotten`, none of them code of the repository), a collection, and the row it is
stored in. `BaseCollect`, then either `SnapshotCached` or `BeginDump`, one
`ReadEntry` per entry and `EndDump` or `DumpFails`, then `Ingest` or `IngestFails`;
the clock and the table move in between. A dump reads each entry once at some
moment; those that exist unchanged throughout (`steady`) it cannot miss. `Associate`
and `NatMapping` are the functions of `conntrack.rs` on a pair of endpoints; the
protocol number is part of an endpoint. `Upsert` is the `ON CONFLICT` clause of the
repository for these columns: translations by `COALESCE`, one column after the
other, the state always replaced. A flow that expires and comes back gets a new
row, as its `flow_id` contains the first packet. `held` is a history variable:
when an entry was last in a state it has left.

### Auth

A tab shows a page or has one request under way: `verifying` while the password is
checked on another thread, `granted` between the two mutexes of a success,
`answered` until the browser takes over page and cookies (`Deliver`). Every other
handler runs in one step, since it awaits nothing. A verification whose thread
breaks off counts as a failure, also of the right password (`LoginFails`).
`Disconnect` is a connection that ends early: the handler is dropped at its
await, before a failure is counted, or the answer is lost with its cookies. Cookies belong to the browser
and are read when a request is sent. Expired sessions and attempts are dropped
where the code calls `retain` (`LiveSessions`, `CurrentAttempts`). Tokens and
session identifiers are numbers of which the smallest unused one is taken, which
stands for any fresh random value. `RetryAfter` rounds down to seconds and up to
one, for which a second has two ticks. `Start` takes any configured account or
none, so that a restart may come with another configuration.

`promised` and `muddled` are history variables: what a refused source was told,
and browsers of which the CSRF cookie was replaced by a refused login or by an
answer to a request that was sent before the login. Development bypass and
`SameSite` are not modelled.

### DnsProxy and Runtime

`DnsProxy` holds the two listeners of `run_until_shutdown`, the handler of each UDP
query (`Receive`, `Ask`, `Arrive`, `SendReply`, `RecordAnswer`, `UdpFails`) and of
each TCP connection (`Accept`, `ReadFrame`, `Forwarded`, ..., `ClientLeaves`). What
is sent upstream over UDP may be answered at any later time, more than once or
never, and what arrives at a port goes to whoever is bound to it (`network`). An
answer is the set of its A records.

`Runtime` extends it with `main`: `StartTasks`, `BindHttp`, `Signal`, `Drained` or
`TimeoutFires`, `Joined`, `Drop`. The body of a background loop is one step
(`LoopWork`), Pipeline has its inside; the two loops that refresh the cache
empty the observation queue. `Drop` is the end of the tokio runtime: a
task that is past its last await is still run to its end, all others vanish.

## 3. What TLC shows

| run | instance | what it shows | distinct states |
|---|---|---|---|
| `ledger_shared` | two flows of one device to one destination, one of them legacy, beside a device without flows; batches of two, one deletion or sweep | `TypeOK`, `AggregateCoversLedger`, `LedgerAgreesWithFlow`, `LedgerWithinFlow`, `BackfillsConfluent`, `ImplementsStore`, `AggregateFollowsLedger`, `AttributionNeverWeakens` | 137 thousand |
| `ledger_baseline` | a flow written under schema v3 | violates `BaselineOnlyForLegacyFlows` | stops at the first |
| `cache_queues` | two tasks, answers with two targets, without targets and without lifetime | `TypeOK` with the limits, `QueuedIsSole`, `BindingsNeverRegress` | 2.1 million |
| `cache_handover` | an address handed to another device and back, two names for one target, queues of length one | violates `BindingsBelongToAsker` | stops at the first |
| `pipeline_handover` | two devices, one address, both loops, a deletion, failures, restarts | `PipelineTypeOK`, `BindingsFollowLease`, `StoredFollowsLease`, `StoredWithinLifetime`, `CleanDeletionIsFinal` | 1.2 million |
| `pipeline_privacy` | one device and one name | violates `DeletionIsFinal` | stops at the first |
| `pipeline_retry` | one flow reported twice, a name of its target and one of another target, a backfill queue of length one, fair loops | `ResolvedReachesStored` | 156 thousand |
| `flow_map` | a flow with four packets alone, or with two beside the one of a quiet flow, two CPUs, eviction, expiry, restarts, fair collector | `TypeOK`, `NeverOvercharged`, `LiveFlowsReported`, `RejectionEnds` | 910 thousand |
| `flow_paging` | three flows of one device beside one of another, pages of one or two, windows shorter and longer than the retention | `TypeOK`, `IssuedCursorsAccepted`, `PageIsRun`, `ThereAndBack`, `NothingTwice`, `NothingMissed` | 234 thousand |
| `auth_tabs` | two tabs of one browser, two accounts, a limit of one failure, windows and sessions that end | `TypeOK`, `LimiterHolds`, `RetryIsHonoured`, `FormsAccepted`, `FirstAccountStays` | 3.3 million |
| `conntrack` | two translations of the client's connection and one forwarded to it, three changes of the table, two batches | `MappingWhole`, `StateFresh`, `SteadyEntryShows` | 2.2 million |
| `runtime` | two UDP queries at one port, one TCP query, one HTTP request, two loops, with and without a collector | `TypeOK`, `AnswersNotMixed`, `CutOnlyWhenLate`, `ExitsWhenAsked`, `RecordedIsTaken` | 238 thousand |

The properties in words:

* `AggregateCoversLedger`: the aggregate of a device, domain and minute is at
  least what the ledger rows of that domain hold. `subtract_domain_minute_bytes`
  fails otherwise, and with it every later batch that relabels the flow. The
  sweep keeps it because it drops ledger rows before the domain aggregates; the
  slip `SweepContribsTooLate` swaps the two and breaks it.
* `LedgerAgreesWithFlow`: each ledger row belongs to a stored flow and carries
  its attribution.
* `LedgerWithinFlow`: a flow's ledger never holds more than the flow counted.
* `ImplementsStore`: the write path is a `FlowStore`; among much else, a commit
  charges a device exactly what its flows grew by, and a byte has one name at most.
  `AggregateFollowsLedger`: a commit moves each aggregate exactly as ledger rows move.
* `BackfillsConfluent`: repeating a backfill changes nothing, and two of them
  that do not tie commute.
* `AttributionNeverWeakens`: an attribution gives way only to one at least as
  strong, or is erased together with its ledger rows and that minute aggregate.
* `QueuedIsSole`: what waits for the backfill is the only entry of its pair, and
  waits once. `BindingsNeverRegress`: an older answer never replaces a newer one.
* `BindingsFollowLease`, `StoredFollowsLease`: the device a name is bound to held
  an address before the query, and held it again or still at most the grace before
  the query or later. The second half is not stronger because a flow's interval
  may span a time in which another device had the address; in the cache, and end
  to end in the flow rows, through attribution before ingestion and backfill.
* `StoredWithinLifetime`: a row takes a name only if the name's lifetime meets the
  flow's, as the row stands from then on. The comparison is made when the flow
  of a batch is matched, long before it is stored, and the other loop and the
  handlers write meanwhile. It says nothing of a name a row already has: the next
  batch may bring an earlier last packet, and the row keeps its name.
* `CleanDeletionIsFinal`: if nothing about a domain was outside the cache when it
  was deleted everywhere, only a later answer brings it back.
* `ResolvedReachesStored`: a resolved binding that covers a stored flow reaches
  its row, unless before that the pair becomes ambiguous, is renewed, expires or is
  erased, the flow is erased or reported with a last packet before the answer, or the
  binding is pushed out of a full backfill queue by newer ones (`pop_front` in
  `add_domain_bindings` and in `requeue_resolved_bindings`). The last is a loss the code
  accepts at `MAX_RESOLVED_BINDINGS`; `evicted` holds exactly what was lost that way.
* `NeverOvercharged`: what is stored for a key over all its entries is at most what
  arrived. `LiveFlowsReported`: a stored batch holds every flow that was alive and
  quiet while the map was walked; of one that gets a packet after its entry was read
  and taken for idle it says nothing. `RejectionEnds`: whatever makes batches fail (a
  time before the first packet, a counter that went back, a flow met twice, an
  entry gone when it is to be removed, an I/O error), one is stored at some time. `TypeOK` of FlowMap includes that no flow is last seen
  after it was observed, which FlowPaging takes for granted.
* `PageIsRun`: a page is an unbroken run of the device's flows and lacks a cursor
  only where nothing follows; `ThereAndBack`: the cursor to the older page and the
  one back lead to the same page. `NothingTwice`, `NothingMissed`: a walk along
  older pages shows each flow that stayed put exactly once, whatever else moved.
  `IssuedCursorsAccepted`: a cursor never becomes invalid. (A newer page may come
  up empty, and then without any cursor, when the rows before it were deleted.)
* `MappingWhole`: both ends of a stored translation are those of one connection of
  the flow's tuple, tracked less than a refresh interval before the flow began.
  `StateFresh`: a stored state was held at most a refresh interval before the batch.
  `SteadyEntryShows`: a connection that is alone and unchanged for that long is
  found by the next enriched batch, from either side.
* `LimiterHolds`: failures counted and still being verified stay below the limit
  plus the requests under way, which is what asking first and counting later
  allows. `RetryIsHonoured`: who waits as long as told is not refused for the same
  failures. `FormsAccepted`: a form of the session is accepted while the session
  lives, whatever other tabs do, the two cases of `muddled` apart.
  `FirstAccountStays`: a later configuration does not replace the account.
* `AnswersNotMixed`: a question is joined to another's answer only if that query
  was over before this one was asked. `CutOnlyWhenLate`, `ExitsWhenAsked`: the
  signal leads to the exit, which cuts off requests only after the timeout.
  `RecordedIsTaken`: recorded observations do not stay in the queue.

### Bounds, and why they are enough

Two flows are what sharing an aggregate, a pair or a batch takes; two domains
what a relabelling takes; two devices what a wrong device takes. Two minutes (a
clock of 1) separate a ledger row from the flow's current minute, and let
a deletion or the sweep take one of them. One erasure may fall anywhere between
batches and backfills. In the cache a clock of 3 with `Grace` of 1 leaves a time
before, within and after the grace. Queue limits of one or two put every
second arrival at the limit. `MaxQueries`, `MaxBatches`, `MaxDeletions`,
`MaxErasures`, `MaxQueue`, `MaxBytes` and `MaxBatch` are bounds of the model and
not of the program; `MaxLag` bounds how late a batch reports a packet. Three flows with three times give
a page boundary between rows of the same time and rows on both sides of a page.

In `pipeline_retry` the device has another target and the queue one place, so that
the binding of the one target pushes out that of the other while it waits, or is
pushed out when it is requeued; the second report of the flow may have a last packet
before the answer. Without either exception of `ResolvedReachesStored` the run fails. In
`cache_queues` the backfill queue has one place, too: that a pair waits there at most
once (`QueuedIsSole`) is then its limit, and is shown for longer queues
by the theorem `QueuedAreSole`.

`flow_map` is sized for `RejectionEnds`, since its liveness is what limits the run. Each of
the causes it names occurs. An entry last seen before it was first seen and a flow met
twice take an idle timeout of a tick, so that a flow of the tick before the walk is
kept and an older one expires. A counter that is *lower* at a walk than at the one
before takes four packets on one flow: created, raised by two, and overwritten by the
addition that was loaded first. `LastArrival` and `Loads` give these packets to a slow CPU
and a fast one, the four to a flow alone and two to one beside a quiet flow, and end
the traffic so that what is left can become idle. `LastLoss` ends evictions and restarts
when entries have begun to expire. Neither bounds the theorems.

In `ledger_shared` a minute is one tick and a range starts and ends at a tick, so a
deletion whose bounds fall inside a minute is not in the instance; `AggregatesCover`
proves `AggregateCoversLedger` for those as well.

In `conntrack` an interval of two ticks and a clock of three have a snapshot of
each age between fresh and refreshed; three changes replace one connection by
another and change its state; two batches store over an older row. In `auth_tabs`
two tabs pass the limiter of one failure together and are answered out of order; the window
outlives the session, and both end within the clock. Tabs of the one browser, and
accounts, are interchangeable, and the run has no liveness property, so symmetry is
sound there; no other run uses it. In `runtime` the one port makes two queries follow one
another at it; whether they may overlap is what the mutant of `FreePorts` shows.
Which other background loops there are does not matter for the exit, as they
all have the same select.

Deadlock is on in the runs of the cache, the pages and the flow map, whose
actions never all stop. It is off where
the bounds let a run end: all batches collected or erasures used up, the clock at
its last value.

### Fairness

Three runs assume any. In `pipeline_retry` the DNS loop is a timer that ticks until
shutdown and makes its calls one after the other (weak fairness of `DnsLoop`), a round
of the collection loop that has begun goes on (weak fairness of `CollectionLoop` while
it is not idle; that another begins is not assumed, as collecting may fail for good), and
a loop under a mutex ends (weak fairness of `CacheLoop`). A write that fails is
retried by requeueing because failures are taken to be transient: a flush
that is tried again and again succeeds at some time (strong fairness of `Flush`). There
is no fairness on the clock, the proxy, the collector's input or a restart: the
property holds as well when time stands still or the process is killed, because a
killed cache has no binding left to deliver.

In `flow_map` some program on a CPU goes on while one is under way, time passes and the collection
loop takes its steps (weak fairness); a batch that can be stored is stored if it
is tried again and again (strong fairness of `Stored`), as I/O errors are taken to
be transient. Packets, eviction and restarts have no fairness. That the
traffic ends is a bound: with packets for ever a counter that went back catches up.

In `runtime`, `main` goes on when it can, and the shutdown timer fires in the end
(weak fairness); a loop's timer ticks and its body ends (weak fairness); a
`select!` takes a ready branch at random, so a loop that comes back to it again and
again sees the channel (strong fairness of `LoopSees`); the listeners, which
have nothing else to end for, see it too (weak fairness), and a handler that is past its last
await records (weak fairness). Nothing is assumed of clients, of the upstream,
of HTTP requests or of the signal.

### Disagreements with the documentation

1. `ledger_baseline`: `storage.rs:627` says a baseline is created only for an
   unattributed legacy flow. The code looks at whether the flow has ledger rows.
   A v3 flow that lost its rows to a deletion or to the sweep gets one as well,
   and the bytes that were just erased come back in the minute of its last packet.
2. `cache_handover`: `README.md:13` says that what is not certain waits and is not
   guessed by the reusable client address. Within five seconds after a device's
   last packet a query from its address is bound to it, also if the address has
   a new holder whose first flow has not been learnt yet. `BindingsFollowLease`
   states how far off a binding can be.
3. `pipeline_privacy`: `docs/architecture.md:330,360` says that the repository and
   the DNS state are cleaned together and that later observations may record a
   domain again. A batch attributed before the deletion, a binding drained before
   it or an answer still in the proxy's queue also records it again.
   `CleanDeletionIsFinal` states what does hold.

Two more that no run states, as the documents are too vague for a property:
`README.md:53` and `docs/architecture.md:423` say that DNS stops at the signal; the
listeners do, but handlers of open TCP connections go on serving until the runtime
is dropped, and what they record then is lost with the queue. `conntrack.rs:42`
describes a `NatMapping` as the tuple seen on the WAN side; for a connection from
outside that is forwarded to the client, it is the reverse of the reply tuple,
which is the LAN side.

## 4. What is proved

Every invariant and every action property of a passing run is also a theorem, for any sets of flows, devices, addresses, names,
tabs, queries and CPUs, any bounds, and any history of leases and batches. Liveness is left
to TLC (see the end of this section). The proofs rest on the
named assumptions of the modules, which say that sets of flows, domains, CPUs
and the like are finite and bounds are numbers, and which TLC evaluates on each run.

| module | theorem | states |
|---|---|---|
| `FlowLedgerProofs` | `TypeCorrect` | `Spec => []TypeOK` |
| | `LedgerAgreement` | `Spec => []LedgerAgreesWithFlow` |
| | `AttributionsNeverWeaken` | `Spec => AttributionNeverWeakens` |
| | `AggregatesCover` | `Spec => []AggregateCoversLedger` |
| | `SubtractionNeverFails` | `CanReconcile` holds of every stored flow at any time |
| | `AggregatesFollow` | `Spec => AggregateFollowsLedger` |
| | `LedgerStaysWithin` | `Spec => []LedgerWithinFlow` |
| | `BackfillsCommute` | `Spec => []BackfillsConfluent` |
| | `StoreImplemented` | `Spec => ImplementsStore`, the refinement of `FlowStore` |
| `PipelineProofs` (DnsCache) | `TypeCorrect` | `Spec => []TypeOK` |
| | `LeasesFollowed` | `Spec => []BindingsFollowLease` |
| | `QueuedAreSole` | `Spec => []QueuedIsSole` |
| | `NoRegress` | `Spec => BindingsNeverRegress` |
| `PipelineProofs` (Pipeline) | `PipelineTypeCorrect` | `PipelineSpec => []PipelineTypeOK` |
| | `PipelineLeasesFollowed` | `PipelineSpec => []BindingsFollowLease` |
| | `StoredFollowsLeases` | `PipelineSpec => []StoredFollowsLease` |
| | `StoredAlive` | `PipelineSpec => []StoredWithinLifetime` |
| | `CleanDeletionFinal` | `PipelineSpec => []CleanDeletionIsFinal` |
| `FlowMapProofs` | `TypeCorrect` | `Spec => []TypeOK` |
| | `Overcharging` | `Spec => []NeverOvercharged` |
| | `LiveFlowsAreReported` | `Spec => LiveFlowsReported` |
| `FlowPagingProofs` | `PageTyped` | `Spec => []TypeOK` |
| | `CursorsGood` | `Spec => []IssuedCursorsAccepted` |
| | `PagesAreRuns` | `Spec => []PageIsRun` |
| | `ThereAndBackAgain` | `Spec => []ThereAndBack` |
| | `NothingShownTwice` | `Spec => NothingTwice` |
| | `NothingLeftOut` | `Spec => []NothingMissed` |
| `ConntrackProofs` | `StatesFresh` | `Spec => []StateFresh` |
| | `MappingsWhole` | `Spec => []MappingWhole` |
| | `SteadyShows` | `Spec => []SteadyEntryShows` |
| `AuthProofs` | `TypeCorrect` | `Spec => []TypeOK` |
| | `FirstAccount` | `Spec => FirstAccountStays` |
| | `LimiterBound` | `Spec => []LimiterHolds` |
| | `RetryHonoured` | `Spec => []RetryIsHonoured` |
| | `FormsRemainAccepted` | `Spec => []FormsAccepted` |
| `RuntimeProofs` | `TypeCorrect` | `Spec => []TypeOK` |
| | `NotMixed` | `Spec => []AnswersNotMixed` |
| | `CutOnlyLate` | `Spec => []CutOnlyWhenLate` |

### FlowLedger

`TypeOK` is inductive by itself. Its content is that no aggregate becomes
negative: the guard of `subtract_domain_minute_bytes` (`CanReconcile`) carries
the subtraction in `Reconcile`.

`LedgerAgreesWithFlow` needs `TypeOK` (`LedgerInv` is both) and covers `work` as
well as `db`, since a commit makes the first into the second. The step with an
argument is the upsert: either the attribution does not change and the charged
row receives the label the others have, or `Reconcile` relabels all rows first. A
domain deletion keeps it because flows and rows are redacted by the same
condition, and agree by the invariant itself.

`AttributionNeverWeakens` compares two committed databases between which a
transaction has run many steps. `TxnInv` carries the comparison along: `work`
equals `db` when no transaction is open, and otherwise each attribution of
`work` is at least as strong as that of `db`.

`AggregateCoversLedger` is not inductive: a transaction moves aggregate and
ledger together, and a sweep drops ledger rows in one statement and aggregates
in another. The *slack* of a device, domain and minute is its aggregate less the
ledger rows under it. `CoverInv` says that the slack of `db` is never negative,
that `work` has the same slack as `db` (`SameSlack`: each write adds to
both sides the same), and that once a sweep deletes aggregates the ledger rows of
those minutes are gone (`SweepInv`). `AggregateFollowsLedger` is the same
equality between two commits. That the aggregate also covers what a relabelling
takes out of it gives `SubtractionNeverFails`: the error path of that function is
never taken for a stored flow. Deletions and sweeps are handled once, as an
`Erasure`: rows go, none changes, and an aggregate that goes leaves no row.

`LedgerWithinFlow` (`Within`, of `db` and `work`) needs that the baseline is charged
only to a flow without rows. `BackfillsConfluent` speaks of two backfills that
no transaction runs, so the proof computes what a backfill leaves
(`Relabelled`): relabelling twice with the same attribution changes nothing, and
with two that do not tie the stronger one wins in either order; that neither
order fails needs that the aggregates cover the ledger, which is why this is a
theorem of the specification and not of any two functions.

`StoreImplemented` shows that initial states map to initial states and every step
to an `Absorb`, a `Forget` or a stutter. A reader sees nothing of a transaction
until it commits, so the invariant `Pays` collects what `work` is ahead of `db`:
no flow counts back, each device is charged exactly what its flows grew by, and
no more bytes are put under names than flows with a name grew by or gained one.
`Pays` is reflexive (when a transaction begins) and transitive (with each upsert or
backfill), and at the commit it is what `Absorb` asks. An erasure also *fades*:
each flow stays, goes or loses its name together with every minute of that name
(`Fading`), which makes it a `Forget`. The refinement maps to sums
over all domains, so `FlowRefinement` assumes that they are finitely many; the
names a table can hold are.

### Sums

`SumFunctionOnSet` is defined by recursion over the chosen element of a set, and
an induction over sets is out of the provers' reach. `TotalProofs` gets the
laws that are needed (one more element, one changed term, two
functions with the same terms, a sum of sums) from a smallest counterexample: among the
sets for which a law fails one has the fewest elements, and removing the chosen
element from it gives a smaller one.

### DnsCache and Pipeline

The same entry may be in the proxy's queue, in the hands of a task, pending in
the cache, bound, resolved, drained or requeued. `Within(Seen)` says of all these places
at once that what is there was observed (`Seen`, a set of names and
times), belongs to a device that held an address around the query, and that the queues keep
their limits. It is preserved by each method for any set `Seen` that contains
what the proxy sees. With all names and times it gives `TypeOK` and
`BindingsFollowLease`. `QueuedIsSole` needs besides that a pair has one entry per name
(`Distinct`) and that the queue holds no pair twice: a renewal must replace,
not add, and a requeue must check both the queue and the bindings.

Pipeline's invariant `PipelineInv` uses the same lemmas with a smaller set:
`Possible`, the names and times that may still be around after the clean
deletions so far. A deletion with nothing under way leaves nothing older of the name
in any place (`CleanPurge`), and from then on only newer observations enter;
`CleanDeletionIsFinal` follows for the rows (`RowsOK(Possible)`). `RowsOK` also has
what a row's attribution owes to leases, for stored rows and for the batch in the
collection loop's hands. For `StoredWithinLifetime`, a flow of the batch that has been
given a name has one that was alive while the flow was (`Alive`). The upsert stores last
packet and name of the batch together or keeps the row's name, and a backfill compares the
lifetimes with the row it changes; that is why the property is about the step that
gives the name and not about the row later. `HandsInv` ties what a task holds to where it is.

### FlowMap

A flow of a key may have been in the map, read into a walk, made part of a batch
and stored, each with another count, and may have been created anew since. No sum of
these is bounded, as most of them count the same packets. The invariant says that
*there are* ceilings `hi`, one for each key and creation time, such that every count
known of that flow is below its ceiling, and the ceilings of a key together
with the packets still being counted are at most what arrived (`Ceilings`). A packet raises
one ceiling by one when it is counted; eviction, expiry, restarts, lost increments and
failed batches leave the ceilings as they are. Being existential, this invariant was not
evaluated by TLC. `LiveFlowsReported` follows from `FindsSteady`: a walk has met each
steady entry up to its cursor, also after it was sent back to the first key.

### FlowPaging

`IsPage` says what a page owes to a table, without the functions that compute it:
its rows are past the anchor, in order, no more than the limit, and none that
was left out is nearer to the anchor than one that is shown. `PageIs` proves
it of `FlowPage`; the rest of the proof uses `IsPage` only. `PageIsRun` follows
from the order. For `ThereAndBack` (`BackAgain`), the rows of the page and
those of the page read back are both the nearest ones above the older page, so
that one set contains the other, and the limit makes them equal, also when the
first page was reached backwards and is not full. The invariant of a walk (`Covered`): of the flows that
stayed put, those shown are at or above the last row of the page, and those at
or above it were shown. It has `NothingTwice` and `NothingMissed` as its two
halves, and neither half is inductive without the row of the cursor.
`IssuedCursorsAccepted` needs that no flow is seen later than now.

### Conntrack

A stored row says something of the kernel's past that can no longer be read off
the table. `SnapInv` says it of a snapshot with the time it was begun at: each entry was so
then or later, and everything that has not changed since is there. The chain is
`DumpInv` (a dump under way has not yet missed a steady entry), `CacheInv`, `ColInv`
(the batch before and after enrichment) and `RowsInv`. `MappingWhole` is
kept by an upsert since a batch has both columns or neither, so that `COALESCE` takes
both from one connection.

### Auth

`LimiterHolds` counts: the logins being verified at once are the tabs in
that stage (`Answering` names the handlers that change their number), and a failure moves one
of them to the failures of its source, or drops an outdated window (`Counted`).
`RetryIsHonoured` (`PromiseInv`) relates what was announced to the start of the window: rounding down loses
less than the second that the property allows, and a later window starts after the
promised end. `FormsAccepted` (`FormsInv`) needs what is on its way to a browser, too: an
answer that creates a session is the only place that knows of the session (`Unheld`), and
an answer that renders a form carries the token of the session it was sent under.

### DnsProxy and Runtime

`AnswersNotMixed` needs `PortsReused`: a datagram under way belongs to the query that
still has the port, or to one that was over before the socket was bound.
`CutOnlyWhenLate` needs that no request is open before the server runs nor after
a graceful stop (`RequestsInv`).

### Model-checked only

* Liveness under fairness: `ResolvedReachesStored`, `RejectionEnds`,
  `ExitsWhenAsked`, `RecordedIsTaken`. The prover has no `ENABLED`.
* The three properties that a document states and the code does not have; they
  are false.

## 5. What is not modelled, and why

* Counters: wrap-around and saturation. The code rejects a counter that goes
  back, which is modelled, and stores 64-bit counts that no router reaches.
* Device names, the query side of the repository and the service: they read, or
  write a column nothing else depends on.
* The retention loop is in FlowLedger only; the rows it expires are not named
  in Pipeline.
* A signal before the HTTP server runs, and the commands that end by themselves
  (`hash-password`, `benchmark-storage`).
* Web pages, configuration and scripts: rendering, parsing of requests and of the
  environment. The observations of the proxy are an input of DnsCache, those of
  `Runtime` a set.
* Descriptors and memory: an idle TCP client of the forwarder is never timed out,
  and after an error of `accept` the forwarder ends while the process goes on
  (`ListenerFails`); no property is about either, as nothing promises one.
* The simulator and the queries over aggregates.

## 6. Plan

Done, in the order of importance: FlowLedger, DnsCache, Pipeline, FlowMap,
FlowPaging, Auth, Conntrack, DnsProxy with Runtime, FlowStore and its refinement,
and the proofs of section 4. Next:

1. `FlowMap` composed with the counters of FlowLedger, to bound what is charged
   after a deletion: a flow that was erased and is reported again by the collector is charged
   its whole count a second time.
2. An abstract cache that DnsCache refines: which names a device may be given at
   a time, without queues and hands. `Within` is most of its refinement proof.
3. The aggregate queries: what a reader of several minutes sees while they are
   written, and the buckets of the trend chart.
4. Properties still wanted: which flows are certain to be named when a batch was
   attributed just before its binding resolved; what a purge of one candidate
   may do to a contested observation.
