----------------------------- MODULE FlowLedger -----------------------------
(***************************************************************************)
(* The SQLite write path of src/src/storage.rs: flow rows, the per-minute  *)
(* contribution ledger, and the device and domain minute aggregates that   *)
(* are derived from them.  A byte count stands for the upload, download    *)
(* and packet counters of a flow, which the code treats alike.             *)
(*                                                                         *)
(* The single connection behind a mutex is modelled by `open`: while a     *)
(* transaction runs, `work` is its uncommitted copy of the database and no *)
(* other writer moves.  The retention sweep is not a transaction: its four *)
(* statements commit one by one, and the process may stop between them.    *)
(***************************************************************************)
EXTENDS Integers, FiniteSets, Functions

CONSTANTS
    FlowIds,        \* flow_id values
    Macs,           \* device identities
    Ips,            \* destination addresses
    Domains,        \* normalised domain names
    ClientMac,      \* [FlowIds -> Macs], part of the flow's identity
    DestIp,         \* [FlowIds -> Ips], part of the flow's identity
    FirstSeen,      \* [FlowIds -> Times], part of the flow's identity
    Attributions,   \* attributions a collector batch may carry
    Bindings,       \* DNS bindings the backfill may deliver
    LegacyFlows,    \* flows written before the ledger existed (schema v2)
    MaxTime,        \* bound on the clock
    MinuteLen,      \* length of an aggregation minute
    MaxLag,         \* how old last_seen may be when a batch is written
    MaxBytes,       \* bound on a flow's cumulative counter
    MaxBatch,       \* bound on the flows of a batch
    MaxErasures,    \* bound on deletions and sweeps
    FlowRetention,  \* flow_retention_hours
    AggRetention,   \* aggregate_retention_days
    None            \* SQL NULL, and the absence of a row

Times == 0 .. MaxTime
Minutes == 0 .. MaxTime \div MinuteLen
Minute(t) == t \div MinuteLen           \* floor_to_minute_ms
Confidences == {"high", "low", "unknown"}
Sources == {"dns", "sni", "unknown"}
Attribution == [domain: Domains, confidence: Confidences, source: Sources,
                at: Times, exp: Nat]
Binding == [mac: Macs, ip: Ips, attr: Attribution]
FlowRow == [bytes: Nat, lastSeen: Times, attr: Attribution \cup {None}]
Contribution == [bytes: Nat, attr: Attribution \cup {None}]
Database == [devices: SUBSET Macs,
             flows: [FlowIds -> FlowRow \cup {None}],
             contribs: [FlowIds -> [Minutes -> Contribution \cup {None}]],
             deviceMin: [Macs -> [Minutes -> Nat]],
             domainMin: [Macs -> [Domains -> [Minutes -> Nat]]]]

ASSUME BoundsAssumption ==
    /\ MaxTime \in Nat /\ MinuteLen \in Nat \ {0} /\ MaxLag \in Nat
    /\ MaxBytes \in Nat \ {0} /\ MaxBatch \in Nat /\ MaxErasures \in Nat
    /\ FlowRetention \in Nat /\ AggRetention \in Nat
ASSUME IdentityAssumption ==
    /\ IsFiniteSet(FlowIds)
    /\ ClientMac \in [FlowIds -> Macs]
    /\ DestIp \in [FlowIds -> Ips]
    /\ FirstSeen \in [FlowIds -> Times]
    /\ LegacyFlows \subseteq FlowIds
ASSUME InputAssumption ==
    Attributions \subseteq Attribution /\ Bindings \subseteq Binding
ASSUME NoneAssumption == None \notin Attribution \cup FlowRow \cup Contribution

VARIABLES
    now,    \* wall clock
    db,     \* the committed database
    open,   \* the transaction that holds the connection, or "none"
    done,   \* flows an open upsert has written
    binding,\* binding an open backfill is applying, or None
    work,   \* its uncommitted database; equal to db when none is open
    erased, \* deletions and sweeps so far, only to bound the model
    sweep   \* the next statement of delete_expired_data, or "idle"

vars == <<now, db, open, done, binding, work, erased, sweep>>
txn == <<open, done, binding>>

-----------------------------------------------------------------------------
(* Attribution ranking.                                                     *)

ConfidenceRank == [high |-> 2, low |-> 1, unknown |-> 0]
SourceRank == [dns |-> 2, sni |-> 1, unknown |-> 0]
Rank(a) == 3 * ConfidenceRank[a.confidence] + SourceRank[a.source]

AtLeast(a, b) == \/ Rank(a) > Rank(b)
                 \/ Rank(a) = Rank(b) /\ a.at >= b.at

\* Slip: the newest attribution wins whatever its confidence.
LastWriterWins(stored, incoming) == IF incoming # None THEN incoming ELSE stored

EffectiveAttribution(stored, incoming) ==
    IF incoming # None /\ (stored = None \/ AtLeast(incoming, stored))
    THEN incoming ELSE stored

StoredAttr(d, f) == IF d.flows[f] = None THEN None ELSE d.flows[f].attr

Labelled(c, dom) == c # None /\ c.attr # None /\ c.attr.domain = dom
Conflicts(c, dom) == c # None /\ c.attr # None /\ c.attr.domain # dom

-----------------------------------------------------------------------------
(* The statements of a transaction, as operators on a database.             *)

\* Slip: a baseline even when the ledger already holds rows.
BaselineAlways(d, f) == d.flows[f].attr = None /\ d.flows[f].bytes > 0

\* ensure_legacy_unattributed_baseline: an unattributed flow with bytes and no
\* ledger row gets one row holding everything it ever counted.
NeedsBaseline(d, f) ==
    /\ d.flows[f].attr = None
    /\ d.flows[f].bytes > 0
    /\ \A t \in Minutes : d.contribs[f][t] = None

WithBaseline(d, f) ==
    IF NeedsBaseline(d, f)
    THEN [d.contribs[f] EXCEPT ![Minute(d.flows[f].lastSeen)] =
             [bytes |-> d.flows[f].bytes, attr |-> None]]
    ELSE d.contribs[f]

\* subtract_domain_minute_bytes fails when the aggregate is below the contribution.
CanReconcile(d, f, a) ==
    \A t \in Minutes :
        LET c == WithBaseline(d, f)[t]
        IN  Conflicts(c, a.domain) =>
                d.domainMin[ClientMac[f]][c.attr.domain][t] >= c.bytes

\* Slip: the old domain keeps what the new one receives.
MovedWithoutSubtraction(c, dom, a) ==
    IF c # None /\ ~Labelled(c, a.domain) /\ dom = a.domain THEN c.bytes ELSE 0

\* What reconcile_flow_contributions adds to the aggregate (dom, t): every row
\* not yet labelled with a's domain moves there, out of the domain it had.
Moved(c, dom, a) ==
    IF c = None \/ Labelled(c, a.domain) THEN 0
    ELSE IF dom = a.domain THEN c.bytes
    ELSE IF Labelled(c, dom) THEN -c.bytes ELSE 0

\* Slip: the aggregates move, the ledger rows keep their old label.
ReconcileKeepingLabels(d, f, a) ==
    LET rows == WithBaseline(d, f)
        mac == ClientMac[f]
    IN  [d EXCEPT
            !.contribs[f] = rows,
            !.domainMin[mac] = [dom \in Domains |-> [t \in Minutes |->
                d.domainMin[mac][dom][t] + Moved(rows[t], dom, a)]]]

Reconcile(d, f, a) ==
    LET rows == WithBaseline(d, f)
        mac == ClientMac[f]
    IN  [d EXCEPT
            !.contribs[f] = [t \in Minutes |->
                IF rows[t] = None THEN None ELSE [bytes |-> rows[t].bytes, attr |-> a]],
            !.domainMin[mac] = [dom \in Domains |-> [t \in Minutes |->
                d.domainMin[mac][dom][t] + Moved(rows[t], dom, a)]]]

\* upsert_flow_tx relabels a stored flow only when its attribution changes.
Relabels(d, o) ==
    LET a == EffectiveAttribution(StoredAttr(d, o.flow), o.attr)
    IN  d.flows[o.flow] # None /\ a # None /\ a # StoredAttr(d, o.flow)

\* Slip: the cumulative counter is charged as if it were an increment.
CumulativeDelta(d, o) == o.bytes

Delta(d, o) == o.bytes - (IF d.flows[o.flow] = None THEN 0 ELSE d.flows[o.flow].bytes)

\* Slip: no statement ever fails.
UpsertNeverFails(d, o) == FALSE

\* A counter that went backwards (CounterReset) or a failing subtraction.
UpsertFails(d, o) ==
    \/ Delta(d, o) < 0
    \/ Relabels(d, o) /\ ~CanReconcile(d, o.flow,
                              EffectiveAttribution(StoredAttr(d, o.flow), o.attr))

\* The flow row, then the increment on device, ledger and domain.
Charge(d, o, a, delta) ==
    LET f == o.flow
        mac == ClientMac[f]
        t == Minute(o.lastSeen)
        old == d.contribs[f][t]
        stored == [d EXCEPT
            !.devices = @ \cup {mac},
            !.flows[f] = [bytes |-> o.bytes, lastSeen |-> o.lastSeen, attr |-> a]]
        charged == [stored EXCEPT
            !.deviceMin[mac][t] = @ + delta,
            !.contribs[f][t] =
                [bytes |-> delta + (IF old = None THEN 0 ELSE old.bytes), attr |-> a]]
    IN  IF delta = 0 THEN stored
        ELSE IF a = None THEN charged
        ELSE [charged EXCEPT !.domainMin[mac][a.domain][t] = @ + delta]

UpsertFlow(d, o) ==
    LET a == EffectiveAttribution(StoredAttr(d, o.flow), o.attr)
        relabelled == IF Relabels(d, o) THEN Reconcile(d, o.flow, a) ELSE d
    IN  Charge(relabelled, o, a, Delta(d, o))

\* The flows a binding applies to, less those it would not change.
Matches(d, f, b) ==
    /\ d.flows[f] # None
    /\ ClientMac[f] = b.mac
    /\ DestIp[f] = b.ip
    /\ d.flows[f].lastSeen >= b.attr.at
    /\ FirstSeen[f] < b.attr.exp

Pending(d, b) ==
    {f \in FlowIds : /\ Matches(d, f, b)
                     /\ EffectiveAttribution(StoredAttr(d, f), b.attr) # StoredAttr(d, f)}

BackfillFlow(d, f, b) ==
    LET a == EffectiveAttribution(StoredAttr(d, f), b.attr)
    IN  [Reconcile(d, f, a) EXCEPT !.flows[f] = [d.flows[f] EXCEPT !.attr = a]]

\* Rows leave: dropping a flow row cascades to its ledger rows.
DropFlows(d, gone) ==
    [d EXCEPT
        !.flows = [f \in FlowIds |-> IF f \in gone THEN None ELSE d.flows[f]],
        !.contribs = [f \in FlowIds |->
            IF f \in gone THEN [t \in Minutes |-> None] ELSE d.contribs[f]]]

DropDeviceMinutes(d, macs, minutes) ==
    [d EXCEPT !.deviceMin = [m \in Macs |-> [t \in Minutes |->
        IF m \in macs /\ t \in minutes THEN 0 ELSE d.deviceMin[m][t]]]]

DropDomainMinutes(d, macs, doms, minutes) ==
    [d EXCEPT !.domainMin = [m \in Macs |-> [dom \in Domains |-> [t \in Minutes |->
        IF m \in macs /\ dom \in doms /\ t \in minutes
        THEN 0 ELSE d.domainMin[m][dom][t]]]]]

DropContribMinutes(d, minutes) ==
    [d EXCEPT !.contribs = [f \in FlowIds |-> [t \in Minutes |->
        IF t \in minutes THEN None ELSE d.contribs[f][t]]]]

DropContribsOf(d, macs, dom) ==
    [d EXCEPT !.contribs = [f \in FlowIds |-> [t \in Minutes |->
        IF ClientMac[f] \in macs /\ Labelled(d.contribs[f][t], dom)
        THEN None ELSE d.contribs[f][t]]]]

\* Slip: the device of the request is forgotten.
RedactEverywhere(d, macs, dom) ==
    [d EXCEPT !.flows = [f \in FlowIds |->
        IF Labelled(d.flows[f], dom) THEN [d.flows[f] EXCEPT !.attr = None] ELSE d.flows[f]]]

RedactFlows(d, macs, dom) ==
    [d EXCEPT !.flows = [f \in FlowIds |->
        IF ClientMac[f] \in macs /\ Labelled(d.flows[f], dom)
        THEN [d.flows[f] EXCEPT !.attr = None] ELSE d.flows[f]]]

MinutesFrom(from, to) == {t \in Minutes : t * MinuteLen >= from /\ t * MinuteLen < to}
MinutesBefore(cutoff) == {t \in Minutes : t * MinuteLen < cutoff}

-----------------------------------------------------------------------------
(* The database a v2 installation migrates in: legacy flows hold one byte   *)
(* each, counted in the aggregates but in no ledger row.                    *)

LegacyRow(f, a) == [bytes |-> 1, lastSeen |-> FirstSeen[f], attr |-> a]
LegacyIn(m, t) ==
    {f \in LegacyFlows : ClientMac[f] = m /\ Minute(FirstSeen[f]) = t}

LegacyDatabase(attr) ==
    [devices |-> {ClientMac[f] : f \in LegacyFlows},
     flows |-> [f \in FlowIds |->
         IF f \in LegacyFlows THEN LegacyRow(f, attr[f]) ELSE None],
     contribs |-> [f \in FlowIds |-> [t \in Minutes |-> None]],
     deviceMin |-> [m \in Macs |-> [t \in Minutes |-> Cardinality(LegacyIn(m, t))]],
     domainMin |-> [m \in Macs |-> [dom \in Domains |-> [t \in Minutes |->
         Cardinality({f \in LegacyIn(m, t) : Labelled(LegacyRow(f, attr[f]), dom)})]]]]

Init ==
    /\ now = 0
    /\ \E attr \in [LegacyFlows -> Attributions \cup {None}] : db = LegacyDatabase(attr)
    /\ open = "none" /\ done = {} /\ binding = None /\ work = db
    /\ erased = 0
    /\ sweep = "idle"

Free == open = "none" /\ sweep = "idle"

\* Time that passes while the connection is held changes nothing: a batch and
\* a sweep's cutoffs carry the times they were started with.
Tick == Free /\ now < MaxTime /\ now' = now + 1 /\ UNCHANGED <<db, txn, work, erased, sweep>>

\* What a collector may report: seen at most MaxLag ago and passing
\* Flow::validate (an invalid flow rejects its batch before the transaction).
Reported ==
    {o \in [flow: FlowIds, bytes: 0 .. MaxBytes, lastSeen: Times \cap ((now - MaxLag) .. now),
            attr: Attributions \cup {None}] :
        FirstSeen[o.flow] <= o.lastSeen}

BeginUpsert ==
    /\ Free
    /\ open' = "upsert"
    /\ UNCHANGED <<now, db, done, binding, work, erased, sweep>>

\* One flow of the batch; a batch holds a flow once (validate_batch).
UpsertStep(o) ==
    /\ open = "upsert" /\ o.flow \notin done /\ Cardinality(done) < MaxBatch
    /\ ~UpsertFails(work, o)
    /\ work' = UpsertFlow(work, o)
    /\ done' = done \cup {o.flow}
    /\ UNCHANGED <<now, db, open, binding, erased, sweep>>

\* The next binding of the list, once the previous one has nothing left to change.
BindingDone == binding # None => Pending(work, binding) = {}

BeginBackfill ==
    /\ Free
    /\ open' = "backfill"
    /\ UNCHANGED <<now, db, done, binding, work, erased, sweep>>

BackfillBinding(b) ==
    /\ open = "backfill" /\ BindingDone
    /\ binding' = b
    /\ UNCHANGED <<now, db, open, done, work, erased, sweep>>

BackfillStep(f) ==
    /\ open = "backfill" /\ binding # None
    /\ f \in Pending(work, binding)
    /\ CanReconcile(work, f, binding.attr)
    /\ work' = BackfillFlow(work, f, binding)
    /\ UNCHANGED <<now, db, txn, erased, sweep>>

Commit ==
    /\ open # "none" /\ BindingDone
    /\ db' = work
    /\ open' = "none" /\ done' = {} /\ binding' = None
    /\ UNCHANGED <<now, work, erased, sweep>>

\* A failing statement, an I/O error or a crash: the transaction rolls back.
Rollback ==
    /\ open # "none"
    /\ work' = db
    /\ open' = "none" /\ done' = {} /\ binding' = None
    /\ UNCHANGED <<now, db, erased, sweep>>

\* A change committed at once: no other writer can see it half done.
Apply(d) == db' = d /\ work' = d /\ UNCHANGED <<now, txn>>

Erases == erased < MaxErasures /\ erased' = erased + 1

DeleteDevice(m) ==
    /\ Free /\ Erases /\ m \in db.devices
    /\ LET kept == DropDomainMinutes(DropDeviceMinutes(db, {m}, Minutes),
                                     {m}, Domains, Minutes)
       IN  Apply([DropFlows(kept, {f \in FlowIds : ClientMac[f] = m})
                     EXCEPT !.devices = @ \ {m}])
    /\ UNCHANGED sweep

\* Slip: the ledger rows of the domain stay.
DeleteDomainKeepingLedger(macs, dom) ==
    /\ Free /\ Erases
    /\ Apply(RedactFlows(DropDomainMinutes(db, macs, {dom}, Minutes), macs, dom))
    /\ UNCHANGED sweep

\* delete_domain_data for one device (macs = {m}) or for all (macs = Macs)
DeleteDomain(macs, dom) ==
    /\ Free /\ Erases
    /\ Apply(RedactFlows(DropDomainMinutes(DropContribsOf(db, macs, dom),
                                           macs, {dom}, Minutes), macs, dom))
    /\ UNCHANGED sweep

DeleteRange(from, to) ==
    /\ Free /\ Erases /\ from < to
    /\ LET minutes == MinutesFrom(from, to)
           kept == DropContribMinutes(
                       DropDomainMinutes(DropDeviceMinutes(db, Macs, minutes),
                                         Macs, Domains, minutes), minutes)
       IN  Apply(DropFlows(kept, {f \in FlowIds : /\ db.flows[f] # None
                                                  /\ FirstSeen[f] < to
                                                  /\ db.flows[f].lastSeen >= from}))
    /\ UNCHANGED sweep

-----------------------------------------------------------------------------
(* delete_expired_data: four statements, each committed on its own.         *)

SweepFlows ==
    /\ Free /\ Erases
    /\ Apply(DropFlows(db, {f \in FlowIds : /\ db.flows[f] # None
                                            /\ db.flows[f].lastSeen < now - FlowRetention}))
    /\ sweep' = "device"

SweepDeviceMinutes ==
    /\ sweep = "device"
    /\ Apply(DropDeviceMinutes(db, Macs, MinutesBefore(now - AggRetention)))
    /\ sweep' = "contribs" /\ UNCHANGED erased

\* Slip: the aggregates go first, the ledger rows after them.
SweepContribsTooLate ==
    /\ sweep = "contribs"
    /\ Apply(DropDomainMinutes(db, Macs, Domains, MinutesBefore(now - AggRetention)))
    /\ sweep' = "domain" /\ UNCHANGED erased

SweepContribs ==
    /\ sweep = "contribs"
    /\ Apply(DropContribMinutes(db, MinutesBefore(now - AggRetention)))
    /\ sweep' = "domain" /\ UNCHANGED erased

SweepDomainMinutes ==
    /\ sweep = "domain"
    /\ Apply(DropDomainMinutes(db, Macs, Domains, MinutesBefore(now - AggRetention)))
    /\ sweep' = "idle" /\ UNCHANGED erased

\* An error or a crash leaves the statements already run committed.
SweepStops ==
    /\ sweep # "idle"
    /\ sweep' = "idle"
    /\ UNCHANGED <<now, db, txn, work, erased>>

Next ==
    \/ Tick
    \/ BeginUpsert
    \/ \E o \in Reported : UpsertStep(o)
    \/ BeginBackfill
    \/ \E b \in Bindings : BackfillBinding(b)
    \/ \E f \in FlowIds : BackfillStep(f)
    \/ Commit
    \/ Rollback
    \/ \E m \in Macs : DeleteDevice(m)
    \/ \E macs \in {{m} : m \in Macs} \cup {Macs}, dom \in Domains : DeleteDomain(macs, dom)
    \/ \E from \in Times, to \in 1 .. MaxTime + 1 : DeleteRange(from, to)
    \/ SweepFlows
    \/ SweepDeviceMinutes
    \/ SweepContribs
    \/ SweepDomainMinutes
    \/ SweepStops

Spec == Init /\ [][Next]_vars

-----------------------------------------------------------------------------
(* Properties.                                                              *)

\* The database is well formed: every aggregate is a natural number, so no
\* subtraction ever took more than the row held.
TypeOK ==
    /\ now \in Times
    /\ db \in Database /\ work \in Database
    /\ open \in {"none", "upsert", "backfill"}
    /\ done \subseteq FlowIds
    /\ binding \in Bindings \cup {None}
    /\ erased \in Nat
    /\ sweep \in {"idle", "device", "contribs", "domain"}

BytesOf(c) == IF c = None THEN 0 ELSE c.bytes

\* Bytes the ledger holds for a domain's minute on a device.
Share(d, f, m, dom, t) ==
    IF ClientMac[f] = m /\ Labelled(d.contribs[f][t], dom) THEN d.contribs[f][t].bytes ELSE 0
LedgerBytes(d, m, dom, t) == SumFunction([f \in FlowIds |-> Share(d, f, m, dom, t)])

Slack(d, m, dom, t) == d.domainMin[m][dom][t] - LedgerBytes(d, m, dom, t)

\* subtract_domain_minute_bytes (storage.rs:425) fails when an aggregate is
\* below the contribution to take out of it, and then every later batch that
\* relabels the flow fails too.  It cannot: an aggregate always covers the
\* ledger rows that carry its domain, whatever was deleted, expired or left
\* half swept.
AggregateCoversLedger ==
    \A m \in Macs, dom \in Domains, t \in Minutes :
        Slack(db, m, dom, t) >= 0 /\ Slack(work, m, dom, t) >= 0

\* Every ledger row belongs to a stored flow and carries the flow's current
\* attribution: relabelling, redaction and cascading deletion leave no row
\* behind that would later be subtracted from the wrong domain.
LedgerAgrees(d) ==
    \A f \in FlowIds, t \in Minutes :
        d.contribs[f][t] # None =>
            d.flows[f] # None /\ d.contribs[f][t].attr = d.flows[f].attr
LedgerAgreesWithFlow == LedgerAgrees(db) /\ LedgerAgrees(work)

Counted(d, f) == SumFunction([t \in Minutes |-> BytesOf(d.contribs[f][t])])

\* A flow's ledger never holds more than the flow counted: the baseline of a
\* legacy flow and the increments after it do not charge a byte twice.
LedgerWithinFlow ==
    \A f \in FlowIds : Counted(db, f) <= BytesOf(db.flows[f])

Backfilled(d, f, b) == IF f \in Pending(d, b) THEN BackfillFlow(d, f, b) ELSE d

\* A requeued backfill may arrive twice, or after a newer one: a repetition
\* changes nothing, and two bindings that do not tie leave the same flow, ledger
\* and aggregates whichever came first.
BackfillsConfluent ==
    \A f \in FlowIds, b, c \in Bindings :
        LET first == Backfilled(db, f, b)
        IN  /\ Backfilled(first, f, b) = first
            /\ ~(AtLeast(b.attr, c.attr) /\ AtLeast(c.attr, b.attr)) =>
                   Backfilled(first, f, c) = Backfilled(Backfilled(db, f, c), f, b)

\* An attribution is only ever replaced by one at least as strong and recent,
\* or erased; and where it is erased, no ledger row of the flow and no
\* aggregate of that device and domain survives.
KeepsAttributions ==
    \A f \in FlowIds :
        LET before == StoredAttr(db, f)
            after == StoredAttr(db', f)
        IN  before # None /\ db'.flows[f] # None =>
                \/ after # None /\ (after = before \/ AtLeast(after, before))
                \/ /\ after = None
                   /\ \A t \in Minutes :
                         /\ db'.contribs[f][t] = None
                         /\ db'.domainMin[ClientMac[f]][before.domain][t] = 0
AttributionNeverWeakens == [][KeepsAttributions]_db

\* A committed batch or backfill moves an aggregate exactly as the ledger rows
\* under it: relabelling takes out of one domain what it puts into another.
AggregateFollowsLedger ==
    [][open # "none" => \A m \in Macs, dom \in Domains, t \in Minutes :
         Slack(db', m, dom, t) = Slack(db, m, dom, t)]_db

\* storage.rs:627 says a baseline is created "only for an unattributed legacy
\* flow": a step that does not grow a flow written under schema v3 adds nothing
\* to its ledger.
BaselineOnlyForLegacyFlows ==
    [][\A f \in FlowIds \ LegacyFlows :
         db.flows[f] # None /\ db'.flows[f] # None /\ db'.flows[f].bytes = db.flows[f].bytes =>
             Counted(db', f) <= Counted(db, f)]_db
=============================================================================
