-------------------------- MODULE FlowLedgerProofs --------------------------
(***************************************************************************)
(* Proofs about FlowLedger for every set of flows, devices, domains and    *)
(* minutes.  Each statement of a transaction is first shown to map a       *)
(* well-formed database to a well-formed database, and a database whose    *)
(* ledger agrees with its flows to another one; the theorems then follow   *)
(* action by action.                                                       *)
(***************************************************************************)
EXTENDS FlowRefinement, TotalProofs, TLAPS

Observation == [flow: FlowIds, bytes: Nat, lastSeen: Times, attr: Attribution \cup {None}]

USE DEF Labelled, Conflicts, StoredAttr

-----------------------------------------------------------------------------
(* Time and attribution.                                                    *)

LEMMA MinuteInRange ==
    ASSUME NEW t \in Times PROVE Minute(t) \in Minutes
  BY BoundsAssumption DEF Minute, Minutes, Times

LEMMA EffectiveType ==
    ASSUME NEW s \in Attribution \cup {None}, NEW i \in Attribution \cup {None}
    PROVE  /\ EffectiveAttribution(s, i) \in Attribution \cup {None}
           /\ s # None => EffectiveAttribution(s, i) # None
           /\ i # None => EffectiveAttribution(s, i) # None
  BY DEF EffectiveAttribution

LEMMA RowsNotNone ==
    /\ \A r \in FlowRow : r # None
    /\ \A c \in Contribution : c # None
    /\ \A a \in Attribution : a # None
  BY NoneAssumption

LEMMA RankType == ASSUME NEW a \in Attribution PROVE Rank(a) \in Nat /\ a.at \in Int
  BY BoundsAssumption DEF Rank, Attribution, Confidences, Sources, ConfidenceRank, SourceRank, Times

\* What a backfill sets, it would not change again.
LEMMA EffectiveIdempotent ==
    ASSUME NEW s \in Attribution \cup {None}, NEW i \in Attribution \cup {None}
    PROVE  EffectiveAttribution(EffectiveAttribution(s, i), i) = EffectiveAttribution(s, i)
  BY RankType DEF EffectiveAttribution, AtLeast

-----------------------------------------------------------------------------
(* The statements keep a database well formed.                              *)

LEMMA BaselineType ==
    ASSUME NEW d \in Database, NEW f \in FlowIds, d.flows[f] # None
    PROVE  WithBaseline(d, f) \in [Minutes -> Contribution \cup {None}]
  <1>1. d.contribs[f] \in [Minutes -> Contribution \cup {None}]
    BY DEF Database
  <1>2. d.flows[f] \in FlowRow
    BY DEF Database
  <1>3. [bytes |-> d.flows[f].bytes, attr |-> None] \in Contribution
    BY <1>2 DEF FlowRow, Contribution
  <1>4. Minute(d.flows[f].lastSeen) \in Minutes
    BY <1>2, MinuteInRange DEF FlowRow
  <1>5. QED
    BY <1>1, <1>3, <1>4 DEF WithBaseline

LEMMA MovedType ==
    ASSUME NEW c \in Contribution \cup {None}, NEW dom \in Domains, NEW a \in Attribution
    PROVE  /\ Moved(c, dom, a) \in Int
           /\ Moved(c, dom, a) < 0 =>
                /\ Conflicts(c, a.domain) /\ c.attr.domain = dom
                /\ Moved(c, dom, a) = -c.bytes
  BY DEF Moved, Contribution

LEMMA ReconcileType ==
    ASSUME NEW d \in Database, NEW f \in FlowIds, NEW a \in Attribution,
           d.flows[f] # None, CanReconcile(d, f, a)
    PROVE  Reconcile(d, f, a) \in Database
  <1> DEFINE rows == WithBaseline(d, f)
             mac == ClientMac[f]
             newRows == [t \in Minutes |->
                IF rows[t] = None THEN None ELSE [bytes |-> rows[t].bytes, attr |-> a]]
             newDoms == [dom \in Domains |-> [t \in Minutes |->
                d.domainMin[mac][dom][t] + Moved(rows[t], dom, a)]]
  <1>1. rows \in [Minutes -> Contribution \cup {None}]
    BY BaselineType
  <1>2. mac \in Macs
    BY IdentityAssumption
  <1>3. newRows \in [Minutes -> Contribution \cup {None}]
    <2> SUFFICES ASSUME NEW t \in Minutes, rows[t] # None
                 PROVE  [bytes |-> rows[t].bytes, attr |-> a] \in Contribution
      OBVIOUS
    <2>1. rows[t] \in Contribution
      BY <1>1
    <2>2. QED
      BY <2>1 DEF Contribution
  <1>4. ASSUME NEW dom \in Domains, NEW t \in Minutes
        PROVE  d.domainMin[mac][dom][t] + Moved(rows[t], dom, a) \in Nat
    <2>1. d.domainMin[mac][dom][t] \in Nat
      BY <1>2 DEF Database
    <2>2. rows[t] \in Contribution \cup {None}
      BY <1>1
    <2>3. CASE Moved(rows[t], dom, a) < 0
      <3>1. Conflicts(rows[t], a.domain) /\ rows[t].attr.domain = dom
             /\ Moved(rows[t], dom, a) = -rows[t].bytes
        BY <2>2, <2>3, MovedType
      <3>2. d.domainMin[mac][dom][t] >= rows[t].bytes
        BY <3>1 DEF CanReconcile
      <3>3. rows[t].bytes \in Nat
        BY <2>2, <3>1 DEF Contribution
      <3>4. QED
        BY <2>1, <3>1, <3>2, <3>3
    <2>4. CASE ~(Moved(rows[t], dom, a) < 0)
      BY <2>1, <2>2, <2>4, MovedType
    <2>5. QED
      BY <2>3, <2>4
  <1>5. newDoms \in [Domains -> [Minutes -> Nat]]
    BY <1>4
  <1>6. Reconcile(d, f, a) = [d EXCEPT !.contribs[f] = newRows, !.domainMin[mac] = newDoms]
    BY DEF Reconcile
  <1> HIDE DEF newRows, newDoms, rows, mac
  <1>7. [d.contribs EXCEPT ![f] = newRows] \in [FlowIds -> [Minutes -> Contribution \cup {None}]]
    BY <1>3 DEF Database
  <1>8. [d.domainMin EXCEPT ![mac] = newDoms] \in [Macs -> [Domains -> [Minutes -> Nat]]]
    BY <1>2, <1>5 DEF Database
  <1>9. Reconcile(d, f, a) = [d EXCEPT !.contribs = [d.contribs EXCEPT ![f] = newRows],
                                       !.domainMin = [d.domainMin EXCEPT ![mac] = newDoms]]
    BY <1>6
  <1>10. QED
    BY <1>7, <1>8, <1>9 DEF Database

LEMMA ChargeType ==
    ASSUME NEW d \in Database, NEW o \in Observation,
           NEW a \in Attribution \cup {None}, NEW delta \in Nat
    PROVE  Charge(d, o, a, delta) \in Database
  <1> DEFINE f == o.flow
             mac == ClientMac[f]
             t == Minute(o.lastSeen)
             old == d.contribs[f][t]
             row == [bytes |-> o.bytes, lastSeen |-> o.lastSeen, attr |-> a]
             added == [bytes |-> delta + (IF old = None THEN 0 ELSE old.bytes), attr |-> a]
             stored == [d EXCEPT !.devices = d.devices \cup {mac},
                                 !.flows = [d.flows EXCEPT ![f] = row]]
             minutes == [d.deviceMin EXCEPT ![mac] =
                            [d.deviceMin[mac] EXCEPT ![t] = d.deviceMin[mac][t] + delta]]
             rows == [d.contribs EXCEPT ![f] = [d.contribs[f] EXCEPT ![t] = added]]
             charged == [stored EXCEPT !.deviceMin = minutes, !.contribs = rows]
             doms == [d.domainMin EXCEPT ![mac] = [d.domainMin[mac] EXCEPT ![a.domain] =
                        [d.domainMin[mac][a.domain] EXCEPT ![t] =
                            d.domainMin[mac][a.domain][t] + delta]]]
  <1>1. f \in FlowIds /\ mac \in Macs /\ t \in Minutes
    BY IdentityAssumption, MinuteInRange DEF Observation
  <1>2. row \in FlowRow
    BY DEF Observation, FlowRow
  <1>3. stored \in Database
    BY <1>1, <1>2 DEF Database
  <1>4. old \in Contribution \cup {None}
    BY <1>1 DEF Database
  <1>5. added \in Contribution
    BY <1>4 DEF Contribution
  <1>6. minutes \in [Macs -> [Minutes -> Nat]]
    BY <1>1 DEF Database
  <1>7. rows \in [FlowIds -> [Minutes -> Contribution \cup {None}]]
    BY <1>1, <1>5 DEF Database
  <1>8. charged \in Database
    BY <1>3, <1>6, <1>7 DEF Database
  <1>9. ASSUME a # None PROVE doms \in [Macs -> [Domains -> [Minutes -> Nat]]]
    <2>1. a.domain \in Domains
      BY <1>9 DEF Attribution
    <2>2. d.domainMin[mac][a.domain] \in [Minutes -> Nat]
      BY <1>1, <2>1 DEF Database
    <2>3. [d.domainMin[mac][a.domain] EXCEPT ![t] = d.domainMin[mac][a.domain][t] + delta]
            \in [Minutes -> Nat]
      BY <1>1, <2>2
    <2>4. QED
      BY <1>1, <2>1, <2>3 DEF Database
  <1>10. Charge(d, o, a, delta) = IF delta = 0 THEN stored
                                  ELSE IF a = None THEN charged
                                  ELSE [charged EXCEPT !.domainMin = doms]
    BY DEF Charge
  <1> HIDE DEF stored, charged, doms
  <1>11. a # None => [charged EXCEPT !.domainMin = doms] \in Database
    BY <1>8, <1>9 DEF Database
  <1>12. QED
    BY <1>3, <1>8, <1>10, <1>11

LEMMA StoredAttrType ==
    ASSUME NEW d \in Database, NEW f \in FlowIds
    PROVE  StoredAttr(d, f) \in Attribution \cup {None}
  BY DEF Database, FlowRow

LEMMA DeltaType ==
    ASSUME NEW d \in Database, NEW o \in Observation, ~UpsertFails(d, o)
    PROVE  Delta(d, o) \in Nat
  <1>1. o.flow \in FlowIds /\ o.bytes \in Nat
    BY DEF Observation
  <1>2. d.flows[o.flow] # None => d.flows[o.flow].bytes \in Nat
    BY <1>1 DEF Database, FlowRow
  <1>3. QED
    BY <1>1, <1>2 DEF UpsertFails, Delta

LEMMA UpsertType ==
    ASSUME NEW d \in Database, NEW o \in Observation, ~UpsertFails(d, o)
    PROVE  UpsertFlow(d, o) \in Database
  <1> DEFINE a == EffectiveAttribution(StoredAttr(d, o.flow), o.attr)
             r == IF Relabels(d, o) THEN Reconcile(d, o.flow, a) ELSE d
  <1>1. o.flow \in FlowIds /\ o.attr \in Attribution \cup {None}
    BY DEF Observation
  <1>2. a \in Attribution \cup {None}
    BY <1>1, StoredAttrType, EffectiveType
  <1>3. Relabels(d, o) => /\ d.flows[o.flow] # None /\ a \in Attribution
                          /\ CanReconcile(d, o.flow, a)
    BY <1>2 DEF UpsertFails, Relabels
  <1>4. r \in Database
    BY <1>1, <1>3, ReconcileType
  <1>5. UpsertFlow(d, o) = Charge(r, o, a, Delta(d, o))
    BY DEF UpsertFlow
  <1> HIDE DEF a, r
  <1>6. QED
    BY <1>2, <1>4, <1>5, DeltaType, ChargeType

LEMMA BackfillType ==
    ASSUME NEW d \in Database, NEW f \in FlowIds, NEW b \in Binding,
           f \in Pending(d, b), CanReconcile(d, f, b.attr)
    PROVE  /\ BackfillFlow(d, f, b) \in Database
           /\ EffectiveAttribution(StoredAttr(d, f), b.attr) = b.attr
  <1>1. b.attr \in Attribution
    BY DEF Binding
  <1>2. d.flows[f] # None /\ EffectiveAttribution(StoredAttr(d, f), b.attr) = b.attr
    BY DEF Pending, Matches, EffectiveAttribution
  <1>3. Reconcile(d, f, b.attr) \in Database
    BY <1>1, <1>2, ReconcileType
  <1>4. [d.flows[f] EXCEPT !.attr = b.attr] \in FlowRow
    BY <1>1, <1>2 DEF Database, FlowRow
  <1>5. BackfillFlow(d, f, b) =
          [Reconcile(d, f, b.attr) EXCEPT !.flows[f] = [d.flows[f] EXCEPT !.attr = b.attr]]
    BY <1>2 DEF BackfillFlow
  <1> DEFINE r == Reconcile(d, f, b.attr)
             row == [d.flows[f] EXCEPT !.attr = b.attr]
  <1> HIDE DEF r, row
  <1>6. [r.flows EXCEPT ![f] = row] \in [FlowIds -> FlowRow \cup {None}]
    BY <1>3, <1>4 DEF Database, r, row
  <1>7. [r EXCEPT !.flows = [r.flows EXCEPT ![f] = row]] \in Database
    BY <1>3, <1>6 DEF Database, r
  <1>8. BackfillFlow(d, f, b) = [r EXCEPT !.flows = [r.flows EXCEPT ![f] = row]]
    BY <1>5 DEF r, row
  <1>9. QED
    BY <1>2, <1>7, <1>8

LEMMA DropType ==
    ASSUME NEW d \in Database
    PROVE  /\ \A gone : DropFlows(d, gone) \in Database
           /\ \A macs, minutes : DropDeviceMinutes(d, macs, minutes) \in Database
           /\ \A macs, doms, minutes : DropDomainMinutes(d, macs, doms, minutes) \in Database
           /\ \A minutes : DropContribMinutes(d, minutes) \in Database
           /\ \A macs, dom : DropContribsOf(d, macs, dom) \in Database
           /\ \A macs, dom : RedactFlows(d, macs, dom) \in Database
           /\ \A macs : [d EXCEPT !.devices = d.devices \ macs] \in Database
  <1>1. ASSUME NEW gone PROVE DropFlows(d, gone) \in Database
    BY DEF DropFlows, Database
  <1>2. ASSUME NEW macs, NEW minutes PROVE DropDeviceMinutes(d, macs, minutes) \in Database
    <2> DEFINE kept == [m \in Macs |-> [t \in Minutes |->
                 IF m \in macs /\ t \in minutes THEN 0 ELSE d.deviceMin[m][t]]]
    <2>1. kept \in [Macs -> [Minutes -> Nat]]
      BY DEF Database
    <2> HIDE DEF kept
    <2>2. [d EXCEPT !.deviceMin = kept] \in Database
      BY <2>1 DEF Database
    <2>3. QED
      BY <2>2 DEF DropDeviceMinutes, kept
  <1>3. ASSUME NEW macs, NEW doms, NEW minutes
        PROVE  DropDomainMinutes(d, macs, doms, minutes) \in Database
    <2> DEFINE kept == [m \in Macs |-> [dom \in Domains |-> [t \in Minutes |->
                 IF m \in macs /\ dom \in doms /\ t \in minutes
                 THEN 0 ELSE d.domainMin[m][dom][t]]]]
    <2>1. kept \in [Macs -> [Domains -> [Minutes -> Nat]]]
      BY DEF Database
    <2> HIDE DEF kept
    <2>2. [d EXCEPT !.domainMin = kept] \in Database
      BY <2>1 DEF Database
    <2>3. QED
      BY <2>2 DEF DropDomainMinutes, kept
  <1>4. ASSUME NEW minutes PROVE DropContribMinutes(d, minutes) \in Database
    BY DEF DropContribMinutes, Database
  <1>5. ASSUME NEW macs, NEW dom PROVE DropContribsOf(d, macs, dom) \in Database
    BY ZenonT(60) DEF DropContribsOf, Database
  <1>6. ASSUME NEW macs, NEW dom PROVE RedactFlows(d, macs, dom) \in Database
    <2>1. ASSUME NEW f \in FlowIds, d.flows[f] # None
          PROVE  [d.flows[f] EXCEPT !.attr = None] \in FlowRow
      BY <2>1 DEF Database, FlowRow
    <2>2. QED
      BY <2>1 DEF RedactFlows, Database
  <1>7. ASSUME NEW macs PROVE [d EXCEPT !.devices = d.devices \ macs] \in Database
    BY DEF Database
  <1>8. QED
    BY <1>1, <1>2, <1>3, <1>4, <1>5, <1>6, <1>7

LEMMA LegacyType ==
    ASSUME NEW attr \in [LegacyFlows -> Attributions \cup {None}]
    PROVE  LegacyDatabase(attr) \in Database
  <1>1. ASSUME NEW m \in Macs, NEW t \in Minutes
        PROVE  IsFiniteSet(LegacyIn(m, t)) /\ Cardinality(LegacyIn(m, t)) \in Nat
    <2>1. LegacyIn(m, t) \subseteq FlowIds
      BY IdentityAssumption DEF LegacyIn
    <2>2. QED
      BY <2>1, IdentityAssumption, FS_Subset, FS_CardinalityType
  <1>2. ASSUME NEW m \in Macs, NEW dom \in Domains, NEW t \in Minutes
        PROVE  Cardinality({f \in LegacyIn(m, t) : Labelled(LegacyRow(f, attr[f]), dom)}) \in Nat
    <2> HIDE DEF Labelled
    <2>1. {f \in LegacyIn(m, t) : Labelled(LegacyRow(f, attr[f]), dom)} \subseteq LegacyIn(m, t)
      OBVIOUS
    <2>2. QED
      BY <1>1, <2>1, FS_Subset, FS_CardinalityType
  <1>3. ASSUME NEW f \in LegacyFlows PROVE LegacyRow(f, attr[f]) \in FlowRow
    BY IdentityAssumption, InputAssumption DEF LegacyRow, FlowRow
  <1>4. {ClientMac[f] : f \in LegacyFlows} \subseteq Macs
    BY IdentityAssumption
  <1>5. [f \in FlowIds |-> IF f \in LegacyFlows THEN LegacyRow(f, attr[f]) ELSE None]
          \in [FlowIds -> FlowRow \cup {None}]
    BY <1>3
  <1>6. [m \in Macs |-> [t \in Minutes |-> Cardinality(LegacyIn(m, t))]]
          \in [Macs -> [Minutes -> Nat]]
    BY <1>1
  <1>7. [m \in Macs |-> [dom \in Domains |-> [t \in Minutes |->
            Cardinality({f \in LegacyIn(m, t) : Labelled(LegacyRow(f, attr[f]), dom)})]]]
          \in [Macs -> [Domains -> [Minutes -> Nat]]]
    <2> HIDE DEF Labelled
    <2>1. QED
      BY <1>2
  <1>8. QED
    BY <1>4, <1>5, <1>6, <1>7 DEF LegacyDatabase, Database

-----------------------------------------------------------------------------
(* Type correctness.                                                        *)

LEMMA ReportedType == Reported \subseteq Observation
  BY BoundsAssumption, InputAssumption DEF Reported, Observation

LEMMA ApplyType ==
    ASSUME TypeOK, NEW d \in Database, Apply(d), erased' \in Nat,
           sweep' \in {"idle", "device", "contribs", "domain"}
    PROVE  TypeOK'
  BY DEF TypeOK, Apply, txn

LEMMA NextType == TypeOK /\ [Next]_vars => TypeOK'
  <1> SUFFICES ASSUME TypeOK, [Next]_vars PROVE TypeOK'
    OBVIOUS
  <1>1. CASE Tick
    BY <1>1, BoundsAssumption DEF TypeOK, Tick, txn, Times
  <1>2. CASE BeginUpsert \/ BeginBackfill
    BY <1>2 DEF TypeOK, BeginUpsert, BeginBackfill
  <1>3. ASSUME NEW o \in Reported, UpsertStep(o) PROVE TypeOK'
    <2>1. o \in Observation /\ o.flow \in FlowIds
      BY ReportedType DEF Reported
    <2>2. UpsertFlow(work, o) \in Database
      BY <1>3, <2>1, UpsertType DEF UpsertStep, TypeOK
    <2>3. QED
      BY <1>3, <2>1, <2>2 DEF UpsertStep, TypeOK
  <1>4. ASSUME NEW b \in Bindings, BackfillBinding(b) PROVE TypeOK'
    BY <1>4 DEF BackfillBinding, TypeOK
  <1>5. ASSUME NEW f \in FlowIds, BackfillStep(f) PROVE TypeOK'
    <2>1. binding \in Binding
      BY <1>5, InputAssumption DEF BackfillStep, TypeOK
    <2>2. BackfillFlow(work, f, binding) \in Database
      BY <1>5, <2>1, BackfillType DEF BackfillStep, TypeOK
    <2>3. QED
      BY <1>5, <2>2 DEF BackfillStep, TypeOK, txn
  <1>6. CASE Commit \/ Rollback
    BY <1>6 DEF TypeOK, Commit, Rollback
  <1>7. ASSUME NEW m \in Macs, DeleteDevice(m) PROVE TypeOK'
    <2> DEFINE minutes == DropDeviceMinutes(db, {m}, Minutes)
               doms == DropDomainMinutes(minutes, {m}, Domains, Minutes)
               flows == DropFlows(doms, {f \in FlowIds : ClientMac[f] = m})
    <2>1. minutes \in Database
      BY DropType DEF TypeOK
    <2>2. doms \in Database
      BY <2>1, DropType
    <2>3. flows \in Database
      BY <2>2, DropType
    <2>4. [flows EXCEPT !.devices = flows.devices \ {m}] \in Database
      BY <2>3, DropType
    <2>5. QED
      BY <1>7, <2>4, ApplyType DEF DeleteDevice, Erases, TypeOK
  <1>8. ASSUME NEW macs, NEW dom \in Domains, DeleteDomain(macs, dom) PROVE TypeOK'
    <2> DEFINE rows == DropContribsOf(db, macs, dom)
               doms == DropDomainMinutes(rows, macs, {dom}, Minutes)
    <2>1. rows \in Database
      BY DropType DEF TypeOK
    <2>2. doms \in Database
      BY <2>1, DropType
    <2>3. RedactFlows(doms, macs, dom) \in Database
      BY <2>2, DropType
    <2>4. QED
      BY <1>8, <2>3, ApplyType DEF DeleteDomain, Erases, TypeOK
  <1>9. ASSUME NEW from, NEW to, DeleteRange(from, to) PROVE TypeOK'
    <2> DEFINE span == MinutesFrom(from, to)
               minutes == DropDeviceMinutes(db, Macs, span)
               doms == DropDomainMinutes(minutes, Macs, Domains, span)
               rows == DropContribMinutes(doms, span)
               gone == {f \in FlowIds : /\ db.flows[f] # None
                                        /\ FirstSeen[f] < to
                                        /\ db.flows[f].lastSeen >= from}
    <2>1. minutes \in Database
      BY DropType DEF TypeOK
    <2>2. doms \in Database
      BY <2>1, DropType
    <2>3. rows \in Database
      BY <2>2, DropType
    <2>4. DropFlows(rows, gone) \in Database
      BY <2>3, DropType
    <2>5. QED
      BY <1>9, <2>4, ApplyType DEF DeleteRange, Erases, TypeOK
  <1>10. CASE SweepFlows
    <2> DEFINE gone == {f \in FlowIds : /\ db.flows[f] # None
                                        /\ db.flows[f].lastSeen < now - FlowRetention}
    <2>1. DropFlows(db, gone) \in Database
      BY DropType DEF TypeOK
    <2>2. QED
      BY <1>10, <2>1, ApplyType DEF SweepFlows, Erases, TypeOK
  <1>11. CASE SweepDeviceMinutes
    BY <1>11, DropType, ApplyType DEF SweepDeviceMinutes, TypeOK
  <1>12. CASE SweepContribs
    BY <1>12, DropType, ApplyType DEF SweepContribs, TypeOK
  <1>13. CASE SweepDomainMinutes
    BY <1>13, DropType, ApplyType DEF SweepDomainMinutes, TypeOK
  <1>14. CASE SweepStops
    BY <1>14 DEF SweepStops, TypeOK, txn
  <1>15. CASE UNCHANGED vars
    BY <1>15 DEF vars, TypeOK
  <1>16. QED
    BY <1>1, <1>2, <1>3, <1>4, <1>5, <1>6, <1>7, <1>8, <1>9, <1>10, <1>11,
       <1>12, <1>13, <1>14, <1>15 DEF Next

\* Every reachable database, committed or not, is well formed; in particular
\* every aggregate is a natural number (storage.rs:425 never goes negative).
THEOREM TypeCorrect == Spec => []TypeOK
  <1>1. Init => TypeOK
    <2> SUFFICES ASSUME Init PROVE TypeOK
      OBVIOUS
    <2>1. db \in Database
      BY LegacyType DEF Init
    <2>2. now \in Times
      BY BoundsAssumption DEF Init, Times
    <2>3. QED
      BY <2>1, <2>2 DEF Init, TypeOK
  <1>2. QED
    BY <1>1, NextType, PTL DEF Spec

-----------------------------------------------------------------------------
(* The ledger carries the attribution of its flow.                          *)

LEMMA ReconcileRows ==
    ASSUME NEW d \in Database, NEW f \in FlowIds, NEW a \in Attribution
    PROVE  /\ Reconcile(d, f, a).flows = d.flows
           /\ \A g \in FlowIds \ {f} : Reconcile(d, f, a).contribs[g] = d.contribs[g]
           /\ \A t \in Minutes : Reconcile(d, f, a).contribs[f][t] # None =>
                 Reconcile(d, f, a).contribs[f][t].attr = a
  <1> DEFINE newRows == [t \in Minutes |-> IF WithBaseline(d, f)[t] = None THEN None
                            ELSE [bytes |-> WithBaseline(d, f)[t].bytes, attr |-> a]]
  <1>1. /\ Reconcile(d, f, a).flows = d.flows
        /\ Reconcile(d, f, a).contribs = [d.contribs EXCEPT ![f] = newRows]
    BY DEF Reconcile, Database
  <1>2. \A t \in Minutes : newRows[t] # None => newRows[t].attr = a
    OBVIOUS
  <1>3. DOMAIN d.contribs = FlowIds
    BY DEF Database
  <1> HIDE DEF newRows
  <1>4. QED
    BY <1>1, <1>2, <1>3

LEMMA ChargeAgrees ==
    ASSUME NEW d \in Database, NEW o \in Observation,
           NEW a \in Attribution \cup {None}, NEW delta \in Nat,
           \A g \in FlowIds \ {o.flow}, t \in Minutes : d.contribs[g][t] # None =>
               d.flows[g] # None /\ d.contribs[g][t].attr = d.flows[g].attr,
           \A t \in Minutes : d.contribs[o.flow][t] # None => d.contribs[o.flow][t].attr = a
    PROVE  LedgerAgrees(Charge(d, o, a, delta))
  <1> DEFINE f == o.flow
             s == Minute(o.lastSeen)
             row == [bytes |-> o.bytes, lastSeen |-> o.lastSeen, attr |-> a]
             added == [bytes |-> delta + (IF d.contribs[f][s] = None THEN 0
                                          ELSE d.contribs[f][s].bytes), attr |-> a]
             r == Charge(d, o, a, delta)
  <1>1. r.flows = [d.flows EXCEPT ![f] = row]
    BY DEF Charge, Database
  <1>2. \/ r.contribs = d.contribs
        \/ r.contribs = [d.contribs EXCEPT ![f] = [d.contribs[f] EXCEPT ![s] = added]]
    BY DEF Charge, Database
  <1>3. f \in FlowIds /\ row \in FlowRow
    BY DEF Observation, FlowRow
  <1>4. DOMAIN d.flows = FlowIds /\ DOMAIN d.contribs = FlowIds /\ DOMAIN d.contribs[f] = Minutes
    BY <1>3 DEF Database
  <1>5. added.attr = a /\ row.attr = a /\ row # None
    BY <1>3, RowsNotNone
  <1> HIDE DEF r, row, added, f, s
  <1>6. ASSUME NEW g \in FlowIds, NEW t \in Minutes, r.contribs[g][t] # None
        PROVE  r.flows[g] # None /\ r.contribs[g][t].attr = r.flows[g].attr
    <2>1. CASE g = f
      <3>1. r.flows[g] = row
        BY <1>1, <1>3, <1>4, <2>1
      <3>2. r.contribs[g][t] = added \/ r.contribs[g][t] = d.contribs[g][t]
        BY <1>2, <1>3, <1>4, <2>1
      <3>3. QED
        BY <1>5, <1>6, <2>1, <3>1, <3>2 DEF f
    <2>2. CASE g # f
      <3>1. r.flows[g] = d.flows[g] /\ r.contribs[g] = d.contribs[g]
        BY <1>1, <1>2, <1>4, <2>2
      <3>2. QED
        BY <1>6, <2>2, <3>1 DEF f
    <2>3. QED
      BY <2>1, <2>2
  <1>7. QED
    BY <1>6 DEF LedgerAgrees, r

LEMMA UpsertAgrees ==
    ASSUME NEW d \in Database, NEW o \in Observation, ~UpsertFails(d, o), LedgerAgrees(d)
    PROVE  LedgerAgrees(UpsertFlow(d, o))
  <1> DEFINE f == o.flow
             a == EffectiveAttribution(StoredAttr(d, f), o.attr)
             r == IF Relabels(d, o) THEN Reconcile(d, f, a) ELSE d
  <1>1. f \in FlowIds /\ o.attr \in Attribution \cup {None}
    BY DEF Observation
  <1>2. a \in Attribution \cup {None}
    BY <1>1, StoredAttrType, EffectiveType
  <1>3. Relabels(d, o) => /\ d.flows[f] # None /\ a \in Attribution
                          /\ CanReconcile(d, f, a)
    BY <1>2 DEF UpsertFails, Relabels
  <1>4. r \in Database
    BY <1>1, <1>3, ReconcileType
  <1>5. /\ r.flows = d.flows
        /\ \A g \in FlowIds \ {f} : r.contribs[g] = d.contribs[g]
    BY <1>1, <1>3, ReconcileRows
  <1>6. \A t \in Minutes : r.contribs[f][t] # None => r.contribs[f][t].attr = a
    <2>1. CASE Relabels(d, o)
      BY <1>1, <1>3, <2>1, ReconcileRows
    <2>2. CASE ~Relabels(d, o)
      <3>1. d.flows[f] # None => a = d.flows[f].attr
        BY <1>1, <2>2, StoredAttrType, EffectiveType DEF Relabels
      <3>2. QED
        BY <1>1, <2>2, <3>1 DEF LedgerAgrees
    <2>3. QED
      BY <2>1, <2>2
  <1>7. UpsertFlow(d, o) = Charge(r, o, a, Delta(d, o))
    BY DEF UpsertFlow
  <1>8. \A g \in FlowIds \ {f}, t \in Minutes : r.contribs[g][t] # None =>
           r.flows[g] # None /\ r.contribs[g][t].attr = r.flows[g].attr
    BY ZenonT(60), <1>5 DEF LedgerAgrees
  <1>9. Delta(d, o) \in Nat
    BY DeltaType
  <1> HIDE DEF a, r
  <1>10. QED
    BY <1>2, <1>4, <1>6, <1>7, <1>8, <1>9, ChargeAgrees

LEMMA BackfillRows ==
    ASSUME NEW d \in Database, NEW f \in FlowIds, NEW b \in Binding,
           f \in Pending(d, b), CanReconcile(d, f, b.attr), LedgerAgrees(d)
    PROVE  /\ LedgerAgrees(BackfillFlow(d, f, b))
           /\ BackfillFlow(d, f, b).flows =
                [d.flows EXCEPT ![f] = [d.flows[f] EXCEPT !.attr = b.attr]]
  <1> DEFINE r == Reconcile(d, f, b.attr)
             row == [d.flows[f] EXCEPT !.attr = b.attr]
  <1>1. b.attr \in Attribution
    BY DEF Binding
  <1>2. d.flows[f] \in FlowRow
    BY DEF Pending, Matches, Database
  <1>3. r \in Database
    BY <1>1, <1>2, RowsNotNone, ReconcileType
  <1>4. BackfillFlow(d, f, b) = [r EXCEPT !.flows = [r.flows EXCEPT ![f] = row]]
    BY BackfillType DEF BackfillFlow
  <1>5. row \in FlowRow /\ row.attr = b.attr
    BY <1>1, <1>2 DEF FlowRow
  <1>6. /\ r.flows = d.flows
        /\ \A g \in FlowIds \ {f} : r.contribs[g] = d.contribs[g]
        /\ \A t \in Minutes : r.contribs[f][t] # None => r.contribs[f][t].attr = b.attr
    BY <1>1, ReconcileRows
  <1> HIDE DEF r, row
  <1>7. /\ BackfillFlow(d, f, b).flows = [d.flows EXCEPT ![f] = row]
        /\ BackfillFlow(d, f, b).contribs = r.contribs
    BY <1>3, <1>4, <1>6 DEF Database
  <1>8. DOMAIN d.flows = FlowIds
    BY DEF Database
  <1>9. LedgerAgrees(BackfillFlow(d, f, b))
    BY <1>5, <1>6, <1>7, <1>8, RowsNotNone DEF LedgerAgrees
  <1>10. QED
    BY <1>7, <1>9 DEF row

LEMMA DropAgrees ==
    ASSUME NEW d \in Database, LedgerAgrees(d)
    PROVE  /\ \A gone : LedgerAgrees(DropFlows(d, gone))
           /\ \A macs, minutes : LedgerAgrees(DropDeviceMinutes(d, macs, minutes))
           /\ \A macs, doms, minutes : LedgerAgrees(DropDomainMinutes(d, macs, doms, minutes))
           /\ \A minutes : LedgerAgrees(DropContribMinutes(d, minutes))
           /\ \A macs : LedgerAgrees([d EXCEPT !.devices = d.devices \ macs])
  <1>1. ASSUME NEW gone PROVE LedgerAgrees(DropFlows(d, gone))
    BY DEF DropFlows, LedgerAgrees, Database
  <1>2. ASSUME NEW macs, NEW minutes PROVE LedgerAgrees(DropDeviceMinutes(d, macs, minutes))
    BY DEF DropDeviceMinutes, LedgerAgrees, Database
  <1>3. ASSUME NEW macs, NEW doms, NEW minutes
        PROVE  LedgerAgrees(DropDomainMinutes(d, macs, doms, minutes))
    BY DEF DropDomainMinutes, LedgerAgrees, Database
  <1>4. ASSUME NEW minutes PROVE LedgerAgrees(DropContribMinutes(d, minutes))
    BY DEF DropContribMinutes, LedgerAgrees, Database
  <1>5. ASSUME NEW macs PROVE LedgerAgrees([d EXCEPT !.devices = d.devices \ macs])
    BY DEF LedgerAgrees, Database
  <1>6. QED
    BY <1>1, <1>2, <1>3, <1>4, <1>5

\* delete_domain_data_tx: what leaves the ledger, the aggregates and the flows.
Forget(d, macs, dom) ==
    RedactFlows(DropDomainMinutes(DropContribsOf(d, macs, dom), macs, {dom}, Minutes), macs, dom)

LEMMA ForgetRows ==
    ASSUME NEW d \in Database, NEW macs, NEW dom
    PROVE  /\ \A f \in FlowIds, t \in Minutes : Forget(d, macs, dom).contribs[f][t] =
                 IF ClientMac[f] \in macs /\ Labelled(d.contribs[f][t], dom)
                 THEN None ELSE d.contribs[f][t]
           /\ \A f \in FlowIds : Forget(d, macs, dom).flows[f] =
                 IF ClientMac[f] \in macs /\ Labelled(d.flows[f], dom)
                 THEN [d.flows[f] EXCEPT !.attr = None] ELSE d.flows[f]
           /\ \A m \in Macs, t \in Minutes :
                 m \in macs /\ dom \in Domains => Forget(d, macs, dom).domainMin[m][dom][t] = 0
  <1> HIDE DEF Labelled
  <1> DEFINE c == DropContribsOf(d, macs, dom)
             e == DropDomainMinutes(c, macs, {dom}, Minutes)
             r == RedactFlows(e, macs, dom)
             rows == [f \in FlowIds |-> [t \in Minutes |->
                 IF ClientMac[f] \in macs /\ Labelled(d.contribs[f][t], dom)
                 THEN None ELSE d.contribs[f][t]]]
             zeroed == [m \in Macs |-> [x \in Domains |-> [t \in Minutes |->
                 IF m \in macs /\ x \in {dom} /\ t \in Minutes
                 THEN 0 ELSE c.domainMin[m][x][t]]]]
             redacted == [f \in FlowIds |->
                 IF ClientMac[f] \in macs /\ Labelled(e.flows[f], dom)
                 THEN [e.flows[f] EXCEPT !.attr = None] ELSE e.flows[f]]
  <1>1. c = [d EXCEPT !.contribs = rows]
    BY DEF DropContribsOf
  <1>2. e = [c EXCEPT !.domainMin = zeroed]
    BY DEF DropDomainMinutes
  <1>3. r = [e EXCEPT !.flows = redacted]
    BY DEF RedactFlows
  <1>4. c \in Database /\ e \in Database
    BY DropType
  <1>5. Forget(d, macs, dom) = r
    BY DEF Forget
  <1>6. \A f \in FlowIds, t \in Minutes : rows[f][t] =
           IF ClientMac[f] \in macs /\ Labelled(d.contribs[f][t], dom)
           THEN None ELSE d.contribs[f][t]
    OBVIOUS
  <1>7. \A f \in FlowIds : redacted[f] =
           IF ClientMac[f] \in macs /\ Labelled(e.flows[f], dom)
           THEN [e.flows[f] EXCEPT !.attr = None] ELSE e.flows[f]
    OBVIOUS
  <1>8. \A m \in Macs, t \in Minutes :
           m \in macs /\ dom \in Domains => zeroed[m][dom][t] = 0
    OBVIOUS
  <1> HIDE DEF c, e, r, rows, zeroed, redacted
  <1>9. c.contribs = rows /\ c.flows = d.flows
    BY <1>1 DEF Database
  <1>10. e.contribs = rows /\ e.flows = d.flows /\ e.domainMin = zeroed
    BY <1>2, <1>4, <1>9 DEF Database
  <1>11. r.contribs = rows /\ r.flows = redacted /\ r.domainMin = zeroed
    BY <1>3, <1>4, <1>10 DEF Database
  <1>12. QED
    BY <1>5, <1>6, <1>7, <1>8, <1>10, <1>11

LEMMA ForgetAgrees ==
    ASSUME NEW d \in Database, LedgerAgrees(d), NEW macs, NEW dom
    PROVE  LedgerAgrees(Forget(d, macs, dom))
  <1> DEFINE r == Forget(d, macs, dom)
  <1> HIDE DEF Forget
  <1>1. ASSUME NEW f \in FlowIds, NEW t \in Minutes, r.contribs[f][t] # None
        PROVE  r.flows[f] # None /\ r.contribs[f][t].attr = r.flows[f].attr
    <2>1. /\ r.contribs[f][t] = d.contribs[f][t]
          /\ ~(ClientMac[f] \in macs /\ Labelled(d.contribs[f][t], dom))
      BY <1>1, ForgetRows
    <2>3. d.flows[f] # None /\ d.contribs[f][t].attr = d.flows[f].attr
      BY <1>1, <2>1 DEF LedgerAgrees
    <2>2. ~(ClientMac[f] \in macs /\ Labelled(d.flows[f], dom))
      BY <1>1, <2>1, <2>3
    <2>4. r.flows[f] = d.flows[f]
      <3>1. r.flows[f] = IF ClientMac[f] \in macs /\ Labelled(d.flows[f], dom)
                         THEN [d.flows[f] EXCEPT !.attr = None] ELSE d.flows[f]
        BY ForgetRows
      <3>2. QED
        BY <2>2, <3>1
    <2>5. QED
      BY <2>1, <2>3, <2>4
  <1>2. QED
    BY <1>1 DEF LedgerAgrees

\* The inductive invariant: agreement needs well-formed rows, and the working
\* copy of an open transaction must agree as the committed database does.
LedgerInv == TypeOK /\ LedgerAgreesWithFlow

LEMMA ApplyAgrees ==
    ASSUME NEW d, LedgerAgrees(d), Apply(d)
    PROVE  LedgerAgreesWithFlow'
  BY DEF LedgerAgreesWithFlow, LedgerAgrees, Apply

LEMMA NextLedger == LedgerInv /\ [Next]_vars => LedgerAgreesWithFlow'
  <1> SUFFICES ASSUME LedgerInv, [Next]_vars PROVE LedgerAgreesWithFlow'
    OBVIOUS
  <1> USE DEF LedgerInv
  <1>1. CASE UNCHANGED <<db, work>>
    BY <1>1 DEF LedgerAgreesWithFlow, LedgerAgrees
  <1>2. CASE Tick \/ BeginUpsert \/ BeginBackfill \/ SweepStops \/ UNCHANGED vars
    BY <1>1, <1>2 DEF Tick, BeginUpsert, BeginBackfill, SweepStops, vars
  <1>3. ASSUME NEW o \in Reported, UpsertStep(o) PROVE LedgerAgreesWithFlow'
    <2>1. LedgerAgrees(UpsertFlow(work, o))
      BY <1>3, ReportedType, UpsertAgrees DEF UpsertStep, TypeOK, LedgerAgreesWithFlow
    <2>2. QED
      BY <1>3, <2>1 DEF UpsertStep, LedgerAgreesWithFlow, LedgerAgrees
  <1>4. ASSUME NEW b \in Bindings, BackfillBinding(b) PROVE LedgerAgreesWithFlow'
    BY <1>1, <1>4 DEF BackfillBinding
  <1>5. ASSUME NEW f \in FlowIds, BackfillStep(f) PROVE LedgerAgreesWithFlow'
    <2>1. LedgerAgrees(BackfillFlow(work, f, binding))
      BY <1>5, InputAssumption, BackfillRows DEF BackfillStep, TypeOK, LedgerAgreesWithFlow
    <2>2. QED
      BY <1>5, <2>1 DEF BackfillStep, LedgerAgreesWithFlow, LedgerAgrees
  <1>6. CASE Commit \/ Rollback
    BY <1>6 DEF Commit, Rollback, LedgerAgreesWithFlow, LedgerAgrees
  <1>7. ASSUME NEW m \in Macs, DeleteDevice(m) PROVE LedgerAgreesWithFlow'
    <2> DEFINE minutes == DropDeviceMinutes(db, {m}, Minutes)
               doms == DropDomainMinutes(minutes, {m}, Domains, Minutes)
               flows == DropFlows(doms, {f \in FlowIds : ClientMac[f] = m})
    <2>1. minutes \in Database /\ LedgerAgrees(minutes)
      BY DropType, DropAgrees DEF TypeOK, LedgerAgreesWithFlow
    <2>2. doms \in Database /\ LedgerAgrees(doms)
      BY <2>1, DropType, DropAgrees
    <2>3. flows \in Database /\ LedgerAgrees(flows)
      BY <2>2, DropType, DropAgrees
    <2>4. LedgerAgrees([flows EXCEPT !.devices = flows.devices \ {m}])
      BY <2>3, DropAgrees
    <2>5. QED
      BY <1>7, <2>4, ApplyAgrees DEF DeleteDevice
  <1>8. ASSUME NEW macs, NEW dom \in Domains, DeleteDomain(macs, dom)
        PROVE  LedgerAgreesWithFlow'
    <2>1. LedgerAgrees(Forget(db, macs, dom))
      BY ForgetAgrees DEF TypeOK, LedgerAgreesWithFlow
    <2>2. Apply(Forget(db, macs, dom))
      BY <1>8 DEF DeleteDomain, Forget
    <2>3. QED
      BY <2>1, <2>2, ApplyAgrees
  <1>9. ASSUME NEW from, NEW to, DeleteRange(from, to) PROVE LedgerAgreesWithFlow'
    <2> DEFINE span == MinutesFrom(from, to)
               minutes == DropDeviceMinutes(db, Macs, span)
               doms == DropDomainMinutes(minutes, Macs, Domains, span)
               rows == DropContribMinutes(doms, span)
               gone == {f \in FlowIds : /\ db.flows[f] # None
                                        /\ FirstSeen[f] < to
                                        /\ db.flows[f].lastSeen >= from}
    <2>1. minutes \in Database /\ LedgerAgrees(minutes)
      BY DropType, DropAgrees DEF TypeOK, LedgerAgreesWithFlow
    <2>2. doms \in Database /\ LedgerAgrees(doms)
      BY <2>1, DropType, DropAgrees
    <2>3. rows \in Database /\ LedgerAgrees(rows)
      BY <2>2, DropType, DropAgrees
    <2>4. LedgerAgrees(DropFlows(rows, gone))
      BY <2>3, DropAgrees
    <2>5. QED
      BY <1>9, <2>4, ApplyAgrees DEF DeleteRange
  <1>10. CASE SweepFlows
    BY <1>10, DropAgrees, ApplyAgrees DEF SweepFlows, TypeOK, LedgerAgreesWithFlow
  <1>11. CASE SweepDeviceMinutes
    BY <1>11, DropAgrees, ApplyAgrees DEF SweepDeviceMinutes, TypeOK, LedgerAgreesWithFlow
  <1>12. CASE SweepContribs
    BY <1>12, DropAgrees, ApplyAgrees DEF SweepContribs, TypeOK, LedgerAgreesWithFlow
  <1>13. CASE SweepDomainMinutes
    BY <1>13, DropAgrees, ApplyAgrees DEF SweepDomainMinutes, TypeOK, LedgerAgreesWithFlow
  <1>14. QED
    BY <1>2, <1>3, <1>4, <1>5, <1>6, <1>7, <1>8, <1>9, <1>10, <1>11, <1>12, <1>13 DEF Next

\* Every ledger row belongs to a stored flow and carries its attribution,
\* whatever was relabelled, redacted, cascaded or left half swept.
THEOREM LedgerAgreement == Spec => []LedgerAgreesWithFlow
  <1>1. Init => LedgerAgreesWithFlow
    BY DEF Init, LegacyDatabase, LedgerAgreesWithFlow, LedgerAgrees
  <1>2. TypeOK /\ LedgerAgreesWithFlow /\ [Next]_vars => LedgerAgreesWithFlow'
    BY NextLedger DEF LedgerInv
  <1>3. QED
    BY <1>1, <1>2, TypeCorrect, PTL DEF Spec

-----------------------------------------------------------------------------
(* Attributions never weaken.                                               *)

\* Database e keeps every flow of d, and every attribution of d or a stronger one.
Stronger(e, d) ==
    \A f \in FlowIds : d.flows[f] # None =>
        /\ e.flows[f] # None
        /\ d.flows[f].attr # None =>
             /\ e.flows[f].attr # None
             /\ \/ e.flows[f].attr = d.flows[f].attr
                \/ AtLeast(e.flows[f].attr, d.flows[f].attr)

LEMMA EffectiveStrengthens ==
    ASSUME NEW s \in Attribution, NEW i \in Attribution \cup {None}
    PROVE  EffectiveAttribution(s, i) = s \/ AtLeast(EffectiveAttribution(s, i), s)
  BY RowsNotNone DEF EffectiveAttribution

LEMMA StrongerTransitive ==
    ASSUME NEW d \in Database, NEW e \in Database, NEW g \in Database,
           Stronger(e, d), Stronger(g, e)
    PROVE  Stronger(g, d)
  <1> SUFFICES ASSUME NEW f \in FlowIds, d.flows[f] # None
               PROVE  /\ g.flows[f] # None
                      /\ d.flows[f].attr # None =>
                           /\ g.flows[f].attr # None
                           /\ \/ g.flows[f].attr = d.flows[f].attr
                              \/ AtLeast(g.flows[f].attr, d.flows[f].attr)
    BY DEF Stronger
  <1>1. e.flows[f] # None /\ g.flows[f] # None
    BY DEF Stronger
  <1>2. ASSUME d.flows[f].attr # None
        PROVE  /\ g.flows[f].attr # None
               /\ g.flows[f].attr = d.flows[f].attr \/ AtLeast(g.flows[f].attr, d.flows[f].attr)
    <2> DEFINE x == d.flows[f].attr
               y == e.flows[f].attr
               z == g.flows[f].attr
    <2>1. y # None /\ (y = x \/ AtLeast(y, x))
      BY <1>2 DEF Stronger
    <2>2. z # None /\ (z = y \/ AtLeast(z, y))
      BY <1>1, <2>1 DEF Stronger
    <2>3. x \in Attribution /\ y \in Attribution /\ z \in Attribution
      BY <1>1, <1>2, <2>1, <2>2 DEF Database, FlowRow
    <2> HIDE DEF x, y, z
    <2>4. /\ Rank(x) \in Nat /\ Rank(y) \in Nat /\ Rank(z) \in Nat
          /\ x.at \in Int /\ y.at \in Int /\ z.at \in Int
      BY <2>3, RankType
    <2>5. z = x \/ AtLeast(z, x)
      BY <2>1, <2>2, <2>4 DEF AtLeast
    <2>6. QED
      BY <2>2, <2>5 DEF x, z
  <1>3. QED
    BY <1>1, <1>2

LEMMA UpsertStrengthens ==
    ASSUME NEW d \in Database, NEW o \in Observation, ~UpsertFails(d, o)
    PROVE  Stronger(UpsertFlow(d, o), d)
  <1> DEFINE f == o.flow
             a == EffectiveAttribution(StoredAttr(d, f), o.attr)
             row == [bytes |-> o.bytes, lastSeen |-> o.lastSeen, attr |-> a]
             r == IF Relabels(d, o) THEN Reconcile(d, f, a) ELSE d
  <1>1. f \in FlowIds /\ o.attr \in Attribution \cup {None}
    BY DEF Observation
  <1>2. a \in Attribution \cup {None}
    BY <1>1, StoredAttrType, EffectiveType
  <1>3. Relabels(d, o) => /\ d.flows[f] # None /\ a \in Attribution
                          /\ CanReconcile(d, f, a)
    BY <1>2 DEF UpsertFails, Relabels
  <1>4. r \in Database /\ r.flows = d.flows
    BY <1>1, <1>3, ReconcileType, ReconcileRows
  <1>5. UpsertFlow(d, o) = Charge(r, o, a, Delta(d, o))
    BY DEF UpsertFlow
  <1>6. row \in FlowRow
    BY <1>2 DEF FlowRow, Observation
  <1> HIDE DEF r
  <1>7. Charge(r, o, a, Delta(d, o)).flows = [r.flows EXCEPT ![f] = row]
    BY <1>4 DEF Charge, Database
  <1>8. d.flows[f] # None /\ d.flows[f].attr # None =>
           a # None /\ (a = d.flows[f].attr \/ AtLeast(a, d.flows[f].attr))
    <2> HIDE DEF a
    <2> SUFFICES ASSUME d.flows[f] # None, d.flows[f].attr # None
                 PROVE  a # None /\ (a = d.flows[f].attr \/ AtLeast(a, d.flows[f].attr))
      OBVIOUS
    <2>1. d.flows[f].attr \in Attribution
      BY <1>1 DEF Database, FlowRow
    <2>2. a = EffectiveAttribution(d.flows[f].attr, o.attr)
      BY DEF a
    <2>3. QED
      BY <1>1, <2>1, <2>2, EffectiveStrengthens, EffectiveType
  <1>9. DOMAIN d.flows = FlowIds
    BY DEF Database
  <1>10. row # None /\ row.attr = a
    BY <1>6, RowsNotNone
  <1> HIDE DEF a, row
  <1>11. UpsertFlow(d, o).flows = [d.flows EXCEPT ![f] = row]
    BY <1>4, <1>5, <1>7
  <1>12. QED
    BY <1>1, <1>8, <1>9, <1>10, <1>11 DEF Stronger

LEMMA BackfillStrengthens ==
    ASSUME NEW d \in Database, NEW f \in FlowIds, NEW b \in Binding,
           f \in Pending(d, b), CanReconcile(d, f, b.attr), LedgerAgrees(d)
    PROVE  Stronger(BackfillFlow(d, f, b), d)
  <1> DEFINE row == [d.flows[f] EXCEPT !.attr = b.attr]
  <1>1. BackfillFlow(d, f, b).flows = [d.flows EXCEPT ![f] = row]
    BY BackfillRows
  <1>2. d.flows[f] \in FlowRow /\ b.attr \in Attribution
    BY DEF Pending, Matches, Database, Binding
  <1>3. row \in FlowRow /\ row.attr = b.attr /\ row # None
    BY <1>2, RowsNotNone DEF FlowRow
  <1>4. d.flows[f].attr # None => b.attr = d.flows[f].attr \/ AtLeast(b.attr, d.flows[f].attr)
    <2>1. d.flows[f].attr # None => d.flows[f].attr \in Attribution
      BY <1>2 DEF FlowRow
    <2>2. d.flows[f].attr = StoredAttr(d, f)
      BY <1>2, RowsNotNone
    <2>3. EffectiveAttribution(d.flows[f].attr, b.attr) = b.attr
      BY <2>2, BackfillType
    <2>4. QED
      BY <1>2, <2>1, <2>3, EffectiveStrengthens
  <1>5. DOMAIN d.flows = FlowIds
    BY DEF Database
  <1> HIDE DEF row
  <1>6. QED
    BY <1>1, <1>2, <1>3, <1>4, <1>5, RowsNotNone DEF Stronger

\* What an open transaction has written so far only strengthens the database.
TxnInv == (open = "none" => work = db) /\ Stronger(work, db)

LEMMA StrongerReflexive == ASSUME NEW d PROVE Stronger(d, d)
  BY DEF Stronger

LEMMA NextTxn == TypeOK /\ LedgerAgreesWithFlow /\ TxnInv /\ [Next]_vars => TxnInv'
  <1> SUFFICES ASSUME TypeOK, LedgerAgreesWithFlow, TxnInv, [Next]_vars PROVE TxnInv'
    OBVIOUS
  <1>1. TypeOK'
    BY NextType
  <1>2. ASSUME NEW d, Apply(d) PROVE TxnInv'
    BY <1>2, StrongerReflexive DEF Apply, TxnInv, Stronger
  <1>3. CASE Tick \/ SweepStops \/ UNCHANGED vars
    BY <1>3 DEF Tick, SweepStops, vars, txn, TxnInv, Stronger
  <1>4. CASE BeginUpsert \/ BeginBackfill
    BY <1>4 DEF BeginUpsert, BeginBackfill, TxnInv, Stronger
  <1>5. ASSUME NEW b \in Bindings, BackfillBinding(b) PROVE TxnInv'
    BY <1>5 DEF BackfillBinding, TxnInv, Stronger
  <1>6. CASE Commit \/ Rollback
    BY <1>6, StrongerReflexive DEF Commit, Rollback, TxnInv, Stronger
  <1>7. ASSUME NEW o \in Reported, UpsertStep(o) PROVE TxnInv'
    <2>1. Stronger(UpsertFlow(work, o), work) /\ UpsertFlow(work, o) \in Database
      BY <1>7, ReportedType, UpsertStrengthens, UpsertType DEF UpsertStep, TypeOK
    <2>2. Stronger(UpsertFlow(work, o), db)
      BY <2>1, StrongerTransitive DEF TypeOK, TxnInv
    <2>3. QED
      BY <1>7, <2>2 DEF UpsertStep, TxnInv, Stronger
  <1>8. ASSUME NEW f \in FlowIds, BackfillStep(f) PROVE TxnInv'
    <2>1. /\ Stronger(BackfillFlow(work, f, binding), work)
          /\ BackfillFlow(work, f, binding) \in Database
      BY <1>8, InputAssumption, BackfillStrengthens, BackfillType
         DEF BackfillStep, TypeOK, LedgerAgreesWithFlow
    <2>2. Stronger(BackfillFlow(work, f, binding), db)
      BY <2>1, StrongerTransitive DEF TypeOK, TxnInv
    <2>3. QED
      BY <1>8, <2>2 DEF BackfillStep, txn, TxnInv, Stronger
  <1>9. ASSUME NEW m \in Macs, DeleteDevice(m) PROVE TxnInv'
    BY <1>2, <1>9 DEF DeleteDevice
  <1>10. ASSUME NEW macs, NEW dom, DeleteDomain(macs, dom) PROVE TxnInv'
    BY <1>2, <1>10 DEF DeleteDomain
  <1>11. ASSUME NEW from, NEW to, DeleteRange(from, to) PROVE TxnInv'
    BY <1>2, <1>11 DEF DeleteRange
  <1>12. CASE SweepFlows \/ SweepDeviceMinutes \/ SweepContribs \/ SweepDomainMinutes
    BY <1>2, <1>12 DEF SweepFlows, SweepDeviceMinutes, SweepContribs, SweepDomainMinutes
  <1>13. QED
    BY <1>3, <1>4, <1>5, <1>6, <1>7, <1>8, <1>9, <1>10, <1>11, <1>12 DEF Next

LEMMA DropKeeps ==
    ASSUME TypeOK, NEW gone, db'.flows = DropFlows(db, gone).flows \/ db'.flows = db.flows
    PROVE  KeepsAttributions
  <1>1. \A f \in FlowIds : DropFlows(db, gone).flows[f] = None
                            \/ DropFlows(db, gone).flows[f] = db.flows[f]
    BY DEF DropFlows, Database, TypeOK
  <1>2. \A f \in FlowIds : db'.flows[f] = None \/ db'.flows[f] = db.flows[f]
    BY <1>1
  <1>3. QED
    BY <1>2 DEF KeepsAttributions

LEMMA NextKeeps ==
    TypeOK /\ LedgerAgreesWithFlow /\ TxnInv /\ [Next]_vars => [KeepsAttributions]_db
  <1> SUFFICES ASSUME TypeOK, LedgerAgreesWithFlow, TxnInv, [Next]_vars, ~(UNCHANGED db)
               PROVE  KeepsAttributions
    OBVIOUS
  <1>1. CASE Commit
    <2>1. Stronger(db', db)
      BY <1>1 DEF Commit, TxnInv
    <2>2. QED
      BY <2>1 DEF Stronger, KeepsAttributions
  <1>2. ASSUME NEW m \in Macs, DeleteDevice(m) PROVE KeepsAttributions
    <2> DEFINE gone == {f \in FlowIds : ClientMac[f] = m}
               minutes == DropDeviceMinutes(db, {m}, Minutes)
               doms == DropDomainMinutes(minutes, {m}, Domains, Minutes)
               flows == DropFlows(doms, gone)
    <2>1. minutes \in Database /\ doms \in Database /\ flows \in Database
      BY DropType DEF TypeOK
    <2>2. doms.flows = db.flows
      BY <2>1 DEF DropDeviceMinutes, DropDomainMinutes, Database, TypeOK
    <2>3. flows.flows = DropFlows(db, gone).flows
      BY <2>1, <2>2 DEF DropFlows, Database, TypeOK
    <2>4. db' = [flows EXCEPT !.devices = flows.devices \ {m}]
      BY <1>2 DEF DeleteDevice, Apply
    <2> HIDE DEF flows
    <2>5. db'.flows = flows.flows
      BY <2>1, <2>4 DEF Database
    <2>6. QED
      BY <2>3, <2>5, DropKeeps
  <1>3. ASSUME NEW macs, NEW dom \in Domains, DeleteDomain(macs, dom) PROVE KeepsAttributions
    <2>1. db' = Forget(db, macs, dom)
      BY <1>3 DEF DeleteDomain, Apply, Forget
    <2> SUFFICES ASSUME NEW f \in FlowIds, StoredAttr(db, f) # None, db'.flows[f] # None,
                        StoredAttr(db', f) # StoredAttr(db, f)
                 PROVE  /\ StoredAttr(db', f) = None
                        /\ \A t \in Minutes :
                              /\ db'.contribs[f][t] = None
                              /\ db'.domainMin[ClientMac[f]][StoredAttr(db, f).domain][t] = 0
      BY DEF KeepsAttributions
    <2>2. db'.flows[f] = IF ClientMac[f] \in macs /\ Labelled(db.flows[f], dom)
                         THEN [db.flows[f] EXCEPT !.attr = None] ELSE db.flows[f]
      BY <2>1, ForgetRows DEF TypeOK
    <2>3. db.flows[f] \in FlowRow
      BY DEF TypeOK, Database
    <2>4. /\ ClientMac[f] \in macs /\ ClientMac[f] \in Macs
          /\ StoredAttr(db, f).domain = dom
          /\ StoredAttr(db', f) = None
      BY <2>2, <2>3, IdentityAssumption DEF FlowRow
    <2>5. ASSUME NEW t \in Minutes PROVE db'.contribs[f][t] = None
      <3>1. db'.contribs[f][t] = IF ClientMac[f] \in macs /\ Labelled(db.contribs[f][t], dom)
                                 THEN None ELSE db.contribs[f][t]
        BY <2>1, ForgetRows DEF TypeOK
      <3>2. db.contribs[f][t] # None => db.contribs[f][t].attr = StoredAttr(db, f)
        BY DEF LedgerAgreesWithFlow, LedgerAgrees
      <3>3. QED
        BY <2>4, <3>1, <3>2
    <2>6. ASSUME NEW t \in Minutes
          PROVE  db'.domainMin[ClientMac[f]][StoredAttr(db, f).domain][t] = 0
      BY SMTT(60), <2>1, <2>4, ForgetRows DEF TypeOK
    <2>7. QED
      BY <2>4, <2>5, <2>6
  <1>4. ASSUME NEW from, NEW to, DeleteRange(from, to) PROVE KeepsAttributions
    <2> DEFINE span == MinutesFrom(from, to)
               minutes == DropDeviceMinutes(db, Macs, span)
               doms == DropDomainMinutes(minutes, Macs, Domains, span)
               rows == DropContribMinutes(doms, span)
               gone == {f \in FlowIds : /\ db.flows[f] # None
                                        /\ FirstSeen[f] < to
                                        /\ db.flows[f].lastSeen >= from}
    <2>1. minutes \in Database /\ doms \in Database /\ rows \in Database
      BY DropType DEF TypeOK
    <2>2. rows.flows = db.flows
      BY <2>1 DEF DropDeviceMinutes, DropDomainMinutes, DropContribMinutes, Database, TypeOK
    <2>3. db' = DropFlows(rows, gone)
      BY <1>4 DEF DeleteRange, Apply
    <2>4. db'.flows = DropFlows(db, gone).flows
      BY <2>1, <2>2, <2>3 DEF DropFlows, Database, TypeOK
    <2>5. QED
      BY <2>4, DropKeeps
  <1>5. CASE SweepFlows
    BY <1>5, DropKeeps DEF SweepFlows, Apply
  <1>6. CASE SweepDeviceMinutes \/ SweepContribs \/ SweepDomainMinutes
    <2>1. db'.flows = db.flows
      BY <1>6 DEF SweepDeviceMinutes, SweepContribs, SweepDomainMinutes, Apply,
         DropDeviceMinutes, DropContribMinutes, DropDomainMinutes, TypeOK, Database
    <2>2. QED
      BY <2>1, DropKeeps
  <1>7. QED
    BY <1>1, <1>2, <1>3, <1>4, <1>5, <1>6
       DEF Next, vars, Tick, BeginUpsert, BeginBackfill, BackfillBinding, UpsertStep,
           BackfillStep, Rollback, SweepStops

LEMMA TxnInvariant == Spec => []TxnInv
  <1>1. Init => TxnInv
    BY StrongerReflexive DEF Init, TxnInv
  <1>2. TypeOK /\ LedgerAgreesWithFlow /\ TxnInv /\ [Next]_vars => TxnInv'
    BY NextTxn
  <1>3. QED
    BY <1>1, <1>2, TypeCorrect, LedgerAgreement, PTL DEF Spec

\* A stored attribution is only replaced by one at least as strong, or erased
\* together with every ledger row and aggregate that carried it.
THEOREM AttributionsNeverWeaken == Spec => AttributionNeverWeakens
  <1>1. TypeOK /\ LedgerAgreesWithFlow /\ TxnInv /\ [Next]_vars => [KeepsAttributions]_db
    BY NextKeeps
  <1>2. QED
    BY <1>1, TypeCorrect, LedgerAgreement, TxnInvariant, PTL DEF Spec, AttributionNeverWeakens

-----------------------------------------------------------------------------
(* Totals of the ledger.                                                    *)

Shares(d, m, dom, t) == [f \in FlowIds |-> Share(d, f, m, dom, t)]

LEMMA ShareType ==
    ASSUME NEW d \in Database, NEW f \in FlowIds, NEW m, NEW dom, NEW t \in Minutes
    PROVE  Share(d, f, m, dom, t) \in Nat
  <1>1. d.contribs[f][t] \in Contribution \cup {None}
    BY DEF Database
  <1>2. QED
    BY <1>1 DEF Share, Contribution

LEMMA LedgerBytesIs ==
    ASSUME NEW d, NEW m, NEW dom, NEW t
    PROVE  LedgerBytes(d, m, dom, t) = SumFunctionOnSet(Shares(d, m, dom, t), FlowIds)
  BY DEF LedgerBytes, SumFunction, Shares

LEMMA LedgerBytesType ==
    ASSUME NEW d \in Database, NEW m, NEW dom, NEW t \in Minutes
    PROVE  LedgerBytes(d, m, dom, t) \in Nat
  <1>1. \A f \in FlowIds : Shares(d, m, dom, t)[f] \in Nat
    BY ShareType DEF Shares
  <1>2. SumFunctionOnSet(Shares(d, m, dom, t), FlowIds) \in Nat
    BY <1>1, IdentityAssumption, SumType
  <1>3. QED
    BY <1>2, LedgerBytesIs

\* A statement that touches the ledger of one flow moves a total by what it
\* moves that flow's share.
LEMMA LedgerBytesChange ==
    ASSUME NEW d \in Database, NEW e \in Database, NEW f \in FlowIds,
           \A g \in FlowIds \ {f} : e.contribs[g] = d.contribs[g],
           NEW m, NEW dom, NEW t \in Minutes
    PROVE  LedgerBytes(e, m, dom, t) =
             LedgerBytes(d, m, dom, t) - Share(d, f, m, dom, t) + Share(e, f, m, dom, t)
  <1> DEFINE p == Shares(d, m, dom, t)
             q == Shares(e, m, dom, t)
  <1>1. \A g \in FlowIds : p[g] \in Int /\ q[g] \in Int
    BY ShareType DEF Shares
  <1>2. \A g \in FlowIds \ {f} : q[g] = p[g]
    BY DEF Shares, Share
  <1>3. p[f] = Share(d, f, m, dom, t) /\ q[f] = Share(e, f, m, dom, t)
    BY DEF Shares
  <1> HIDE DEF p, q
  <1>4. SumFunctionOnSet(q, FlowIds) = SumFunctionOnSet(p, FlowIds) - p[f] + q[f]
    BY <1>1, <1>2, IdentityAssumption, SumChange
  <1>5. QED
    BY <1>3, <1>4, LedgerBytesIs DEF p, q

LEMMA LedgerBytesDrop ==
    ASSUME NEW d \in Database, NEW e \in Database, NEW m, NEW dom, NEW t \in Minutes,
           \A f \in FlowIds : e.contribs[f][t] \in {None, d.contribs[f][t]}
    PROVE  LedgerBytes(e, m, dom, t) <= LedgerBytes(d, m, dom, t)
  <1> DEFINE p == Shares(d, m, dom, t)
             q == Shares(e, m, dom, t)
  <1>1. ASSUME NEW f \in FlowIds PROVE p[f] \in Int /\ q[f] \in Int /\ q[f] <= p[f]
    <2>1. Share(d, f, m, dom, t) \in Nat /\ Share(e, f, m, dom, t) \in Nat
      BY ShareType
    <2>2. Share(e, f, m, dom, t) \in {0, Share(d, f, m, dom, t)}
      BY DEF Share
    <2>3. QED
      BY <2>1, <2>2 DEF Shares
  <1> HIDE DEF p, q
  <1>2. SumFunctionOnSet(q, FlowIds) <= SumFunctionOnSet(p, FlowIds)
    BY <1>1, IdentityAssumption, SumAtMost
  <1>3. QED
    BY <1>2, LedgerBytesIs DEF p, q

LEMMA LedgerBytesNone ==
    ASSUME NEW d, NEW m, NEW dom, NEW t \in Minutes,
           \A f \in FlowIds : Share(d, f, m, dom, t) = 0
    PROVE  LedgerBytes(d, m, dom, t) = 0
  <1>1. \A f \in FlowIds : Shares(d, m, dom, t)[f] = 0
    BY DEF Shares
  <1>2. SumFunctionOnSet(Shares(d, m, dom, t), FlowIds) = 0
    BY <1>1, IdentityAssumption, SumZero
  <1>3. QED
    BY <1>2, LedgerBytesIs

\* An aggregate moves exactly as the ledger rows under it.
SameSlack(e, d) ==
    \A m \in Macs, dom \in Domains, t \in Minutes : Slack(e, m, dom, t) = Slack(d, m, dom, t)

LEMMA SlackType ==
    ASSUME NEW d \in Database, NEW m \in Macs, NEW dom \in Domains, NEW t \in Minutes
    PROVE  /\ d.domainMin[m][dom][t] \in Nat /\ LedgerBytes(d, m, dom, t) \in Nat
           /\ Slack(d, m, dom, t) = d.domainMin[m][dom][t] - LedgerBytes(d, m, dom, t)
           /\ Slack(d, m, dom, t) \in Int
  <1>1. d.domainMin[m][dom][t] \in Nat
    BY DEF Database
  <1>2. QED
    BY <1>1, LedgerBytesType DEF Slack

\* Relabelling one row: its share of (dom, t) changes by what Moved adds.
LEMMA MovedIsShare ==
    ASSUME NEW old \in Contribution \cup {None}, NEW row \in Contribution \cup {None},
           NEW a \in Attribution, NEW dom \in Domains,
           row = old \/ (old = None /\ row.attr = None)
    PROVE  (IF row # None /\ a.domain = dom THEN row.bytes ELSE 0) =
             (IF Labelled(old, dom) THEN old.bytes ELSE 0) + Moved(row, dom, a)
  <1>1. row # None => row.bytes \in Nat
    BY DEF Contribution
  <1>2. QED
    BY <1>1, RowsNotNone DEF Moved

LEMMA ReconcileSlack ==
    ASSUME NEW d \in Database, NEW f \in FlowIds, NEW a \in Attribution,
           d.flows[f] # None, CanReconcile(d, f, a)
    PROVE  SameSlack(Reconcile(d, f, a), d)
  <1> DEFINE rows == WithBaseline(d, f)
             mac == ClientMac[f]
             newRows == [t \in Minutes |->
                IF rows[t] = None THEN None ELSE [bytes |-> rows[t].bytes, attr |-> a]]
             newDoms == [dom \in Domains |-> [t \in Minutes |->
                d.domainMin[mac][dom][t] + Moved(rows[t], dom, a)]]
             e == Reconcile(d, f, a)
  <1>1. e \in Database
    BY ReconcileType
  <1>2. rows \in [Minutes -> Contribution \cup {None}]
    BY BaselineType
  <1>3. e = [d EXCEPT !.contribs = [d.contribs EXCEPT ![f] = newRows],
                      !.domainMin = [d.domainMin EXCEPT ![mac] = newDoms]]
    BY DEF Reconcile
  <1>4. \A t \in Minutes : newRows[t] =
           IF rows[t] = None THEN None ELSE [bytes |-> rows[t].bytes, attr |-> a]
    OBVIOUS
  <1>5. \A dom \in Domains, t \in Minutes :
           newDoms[dom][t] = d.domainMin[mac][dom][t] + Moved(rows[t], dom, a)
    OBVIOUS
  <1>6. \A t \in Minutes : \/ rows[t] = d.contribs[f][t]
                           \/ d.contribs[f][t] = None /\ rows[t].attr = None
    <2> DEFINE row == [bytes |-> d.flows[f].bytes, attr |-> None]
               x == Minute(d.flows[f].lastSeen)
    <2>1. DOMAIN d.contribs[f] = Minutes
      BY DEF Database
    <2>2. rows = IF NeedsBaseline(d, f) THEN [d.contribs[f] EXCEPT ![x] = row] ELSE d.contribs[f]
      BY DEF WithBaseline
    <2>3. row.attr = None
      OBVIOUS
    <2> HIDE DEF row, x, rows
    <2> SUFFICES ASSUME NEW t \in Minutes, rows[t] # d.contribs[f][t]
                 PROVE  d.contribs[f][t] = None /\ rows[t].attr = None
      OBVIOUS
    <2>4. QED
      BY <2>1, <2>2, <2>3 DEF NeedsBaseline
  <1>7. mac \in Macs
    BY IdentityAssumption
  <1> HIDE DEF newRows, newDoms, e, rows, mac
  <1>8. e.contribs = [d.contribs EXCEPT ![f] = newRows]
        /\ e.domainMin = [d.domainMin EXCEPT ![mac] = newDoms]
    BY <1>3 DEF Database
  <1>9. e.contribs[f] = newRows /\ \A g \in FlowIds \ {f} : e.contribs[g] = d.contribs[g]
    BY <1>8 DEF Database
  <1> SUFFICES ASSUME NEW m \in Macs, NEW dom \in Domains, NEW t \in Minutes
               PROVE  Slack(e, m, dom, t) = Slack(d, m, dom, t)
    BY DEF SameSlack, e
  <1>10. LedgerBytes(e, m, dom, t) =
           LedgerBytes(d, m, dom, t) - Share(d, f, m, dom, t) + Share(e, f, m, dom, t)
    BY <1>1, <1>9, LedgerBytesChange
  <1>11. Share(d, f, m, dom, t) \in Nat /\ Share(e, f, m, dom, t) \in Nat
    BY <1>1, ShareType
  <1>12. CASE m # mac
    <2>1. Share(d, f, m, dom, t) = 0 /\ Share(e, f, m, dom, t) = 0
      BY <1>12 DEF Share, mac
    <2>2. e.domainMin[m] = d.domainMin[m]
      BY <1>8, <1>12 DEF Database
    <2>3. QED
      BY <1>1, <1>10, <2>1, <2>2, SlackType
  <1>13. CASE m = mac
    <2>1. e.domainMin[m][dom][t] = d.domainMin[m][dom][t] + Moved(rows[t], dom, a)
      BY <1>5, <1>7, <1>8, <1>13 DEF Database
    <2>2. d.contribs[f][t] \in Contribution \cup {None} /\ rows[t] \in Contribution \cup {None}
      BY <1>2 DEF Database
    <2>3. Share(d, f, m, dom, t) =
             IF Labelled(d.contribs[f][t], dom) THEN d.contribs[f][t].bytes ELSE 0
      BY <1>13 DEF Share, mac
    <2>4. Share(e, f, m, dom, t) = IF rows[t] # None /\ a.domain = dom THEN rows[t].bytes ELSE 0
      <3>1. e.contribs[f][t] = IF rows[t] = None THEN None ELSE [bytes |-> rows[t].bytes, attr |-> a]
        BY <1>4, <1>9
      <3>2. rows[t] # None => [bytes |-> rows[t].bytes, attr |-> a] \in Contribution
        BY <2>2 DEF Contribution
      <3>3. rows[t] # None => [bytes |-> rows[t].bytes, attr |-> a] # None
        BY <3>2, RowsNotNone
      <3>4. ClientMac[f] = m /\ a # None
        BY <1>13, RowsNotNone DEF mac
      <3>5. QED
        BY <3>1, <3>3, <3>4 DEF Share
    <2>5. Share(e, f, m, dom, t) = Share(d, f, m, dom, t) + Moved(rows[t], dom, a)
      BY <1>6, <2>2, <2>3, <2>4, MovedIsShare
    <2>6. Moved(rows[t], dom, a) \in Int
      BY <2>2, MovedType
    <2>7. QED
      BY <1>1, <1>10, <1>11, <2>1, <2>5, <2>6, SlackType
  <1>14. QED
    BY <1>12, <1>13

\* The increment goes to one ledger row, which already carried a, and to the
\* aggregate of a's domain.
LEMMA ChargeSlack ==
    ASSUME NEW d \in Database, NEW o \in Observation,
           NEW a \in Attribution \cup {None}, NEW delta \in Nat,
           \A t \in Minutes : d.contribs[o.flow][t] # None => d.contribs[o.flow][t].attr = a
    PROVE  SameSlack(Charge(d, o, a, delta), d)
  <1> DEFINE f == o.flow
             mac == ClientMac[f]
             s == Minute(o.lastSeen)
             old == d.contribs[f][s]
             added == [bytes |-> delta + (IF old = None THEN 0 ELSE old.bytes), attr |-> a]
             rows == [d.contribs[f] EXCEPT ![s] = added]
             doms == [d.domainMin[mac] EXCEPT ![a.domain] =
                        [d.domainMin[mac][a.domain] EXCEPT ![s] =
                            d.domainMin[mac][a.domain][s] + delta]]
             e == Charge(d, o, a, delta)
  <1>1. e \in Database
    BY ChargeType
  <1>2. f \in FlowIds /\ mac \in Macs /\ s \in Minutes
    BY IdentityAssumption, MinuteInRange DEF Observation
  <1>3. /\ e.contribs = IF delta = 0 THEN d.contribs ELSE [d.contribs EXCEPT ![f] = rows]
        /\ e.domainMin = IF delta = 0 \/ a = None THEN d.domainMin
                         ELSE [d.domainMin EXCEPT ![mac] = doms]
    BY DEF Charge, Database
  <1>4. old \in Contribution \cup {None} /\ (old # None => old.attr = a)
    BY <1>2 DEF Database
  <1>5. added \in Contribution /\ added # None
    BY <1>4, RowsNotNone DEF Contribution
  <1>6. added.attr = a /\ added.bytes = delta + (IF old = None THEN 0 ELSE old.bytes)
    OBVIOUS
  <1>7. rows[s] = added /\ \A t \in Minutes \ {s} : rows[t] = d.contribs[f][t]
    BY <1>2 DEF Database
  <1>8. a # None => /\ a.domain \in Domains
                    /\ doms[a.domain][s] = d.domainMin[mac][a.domain][s] + delta
                    /\ \A dom \in Domains, t \in Minutes :
                         dom # a.domain \/ t # s => doms[dom][t] = d.domainMin[mac][dom][t]
    <2> SUFFICES ASSUME a # None
                 PROVE  /\ a.domain \in Domains
                        /\ doms[a.domain][s] = d.domainMin[mac][a.domain][s] + delta
                        /\ \A dom \in Domains, t \in Minutes :
                             dom # a.domain \/ t # s => doms[dom][t] = d.domainMin[mac][dom][t]
      OBVIOUS
    <2>1. a.domain \in Domains
      BY DEF Attribution
    <2>2. d.domainMin[mac] \in [Domains -> [Minutes -> Nat]]
      BY <1>2 DEF Database
    <2> HIDE DEF mac, s
    <2>3. QED
      BY <1>2, <2>1, <2>2
  <1> HIDE DEF rows, doms, added, old, e, s, mac
  <1> SUFFICES ASSUME NEW m \in Macs, NEW dom \in Domains, NEW t \in Minutes
               PROVE  Slack(e, m, dom, t) = Slack(d, m, dom, t)
    BY DEF SameSlack, e
  <1>9. \A g \in FlowIds \ {f} : e.contribs[g] = d.contribs[g]
    BY <1>3 DEF Database
  <1>10. LedgerBytes(e, m, dom, t) =
           LedgerBytes(d, m, dom, t) - Share(d, f, m, dom, t) + Share(e, f, m, dom, t)
    BY <1>1, <1>2, <1>9, LedgerBytesChange
  <1>11. Share(d, f, m, dom, t) \in Nat /\ Share(e, f, m, dom, t) \in Nat
    BY <1>1, <1>2, ShareType
  <1>12. CASE delta # 0 /\ a # None /\ m = mac /\ dom = a.domain /\ t = s
    <2>1. e.contribs[f][t] = added /\ e.domainMin[m][dom][t] = d.domainMin[m][dom][t] + delta
      BY <1>2, <1>3, <1>7, <1>8, <1>12 DEF Database
    <2>2. Share(e, f, m, dom, t) = added.bytes
      BY <1>5, <1>6, <1>12, <2>1 DEF Share, mac
    <2>3. Share(d, f, m, dom, t) = IF old = None THEN 0 ELSE old.bytes
      BY <1>4, <1>12 DEF Share, mac, old
    <2>4. Share(e, f, m, dom, t) = Share(d, f, m, dom, t) + delta
      BY <1>6, <1>11, <2>2, <2>3
    <2>5. QED
      BY <1>1, <1>10, <1>11, <2>1, <2>4, SlackType
  <1>13. CASE ~(delta # 0 /\ a # None /\ m = mac /\ dom = a.domain /\ t = s)
    <2>1. e.domainMin[m][dom][t] = d.domainMin[m][dom][t]
      BY <1>2, <1>3, <1>8, <1>13 DEF Database
    <2>2. Share(e, f, m, dom, t) = Share(d, f, m, dom, t)
      <3>1. CASE e.contribs[f][t] = d.contribs[f][t]
        BY <3>1 DEF Share
      <3>2. CASE e.contribs[f][t] # d.contribs[f][t]
        <4>1. delta # 0 /\ t = s /\ e.contribs[f][t] = added
          BY <1>2, <1>3, <1>7, <3>2 DEF Database
        <4>2. Share(e, f, m, dom, t) = 0
          BY <1>6, <1>13, <4>1 DEF Share, mac
        <4>3. Share(d, f, m, dom, t) = 0
          BY <1>4, <1>13, <4>1 DEF Share, mac, old
        <4>4. QED
          BY <4>2, <4>3
      <3>3. QED
        BY <3>1, <3>2
    <2>3. QED
      BY <1>1, <1>10, <1>11, <2>1, <2>2, SlackType
  <1>14. QED
    BY <1>12, <1>13

LEMMA SameSlackTransitive ==
    ASSUME NEW d, NEW e, NEW g, SameSlack(e, d), SameSlack(g, e)
    PROVE  SameSlack(g, d)
  BY DEF SameSlack

LEMMA UpsertSlack ==
    ASSUME NEW d \in Database, NEW o \in Observation, ~UpsertFails(d, o), LedgerAgrees(d)
    PROVE  SameSlack(UpsertFlow(d, o), d)
  <1> DEFINE f == o.flow
             a == EffectiveAttribution(StoredAttr(d, f), o.attr)
             r == IF Relabels(d, o) THEN Reconcile(d, f, a) ELSE d
  <1>1. f \in FlowIds /\ o.attr \in Attribution \cup {None}
    BY DEF Observation
  <1>2. a \in Attribution \cup {None}
    BY <1>1, StoredAttrType, EffectiveType
  <1>3. Relabels(d, o) => /\ d.flows[f] # None /\ a \in Attribution
                          /\ CanReconcile(d, f, a)
    BY <1>2 DEF UpsertFails, Relabels
  <1>4. r \in Database /\ SameSlack(r, d)
    <2>1. CASE Relabels(d, o)
      BY <1>1, <1>3, <2>1, ReconcileType, ReconcileSlack
    <2>2. CASE ~Relabels(d, o)
      BY <2>2 DEF SameSlack
    <2>3. QED
      BY <2>1, <2>2
  <1>5. \A t \in Minutes : r.contribs[f][t] # None => r.contribs[f][t].attr = a
    <2>1. CASE Relabels(d, o)
      BY <1>1, <1>3, <2>1, ReconcileRows
    <2>2. CASE ~Relabels(d, o)
      <3>1. d.flows[f] # None => a = d.flows[f].attr
        BY <1>1, <2>2, StoredAttrType, EffectiveType DEF Relabels
      <3>2. QED
        BY <1>1, <2>2, <3>1 DEF LedgerAgrees
    <2>3. QED
      BY <2>1, <2>2
  <1>6. UpsertFlow(d, o) = Charge(r, o, a, Delta(d, o))
    BY DEF UpsertFlow
  <1>7. Delta(d, o) \in Nat
    BY DeltaType
  <1> HIDE DEF a, r
  <1>8. SameSlack(UpsertFlow(d, o), r)
    BY <1>2, <1>4, <1>5, <1>6, <1>7, ChargeSlack
  <1>9. QED
    BY <1>4, <1>8, SameSlackTransitive

LEMMA BackfillSlack ==
    ASSUME NEW d \in Database, NEW f \in FlowIds, NEW b \in Binding,
           f \in Pending(d, b), CanReconcile(d, f, b.attr)
    PROVE  SameSlack(BackfillFlow(d, f, b), d)
  <1> DEFINE r == Reconcile(d, f, b.attr)
             row == [d.flows[f] EXCEPT !.attr = b.attr]
             e == BackfillFlow(d, f, b)
  <1>1. b.attr \in Attribution /\ d.flows[f] # None
    BY DEF Binding, Pending, Matches
  <1>2. r \in Database /\ SameSlack(r, d)
    BY <1>1, ReconcileType, ReconcileSlack
  <1>3. e = [r EXCEPT !.flows = [r.flows EXCEPT ![f] = row]]
    BY BackfillType DEF BackfillFlow
  <1> HIDE DEF r, row, e
  <1>4. e.contribs = r.contribs /\ e.domainMin = r.domainMin
    BY <1>2, <1>3 DEF Database
  <1>5. SameSlack(e, r)
    BY <1>4 DEF SameSlack, Slack, LedgerBytes, Share
  <1>6. QED
    BY <1>2, <1>5, SameSlackTransitive DEF e

-----------------------------------------------------------------------------
(* The aggregates cover the ledger.                                         *)

Covers(d) ==
    \A m \in Macs, dom \in Domains, t \in Minutes : Slack(d, m, dom, t) >= 0

\* What an erasure may do: flows and ledger rows go, no counter changes, and an
\* aggregate that goes leaves no ledger row of its domain behind.
Erasure(e, d) ==
    /\ \A f \in FlowIds : e.flows[f] # None =>
          d.flows[f] # None /\ e.flows[f].bytes = d.flows[f].bytes
    /\ \A f \in FlowIds, t \in Minutes : e.contribs[f][t] \in {None, d.contribs[f][t]}
    /\ \A m \in Macs, dom \in Domains, t \in Minutes :
          \/ e.domainMin[m][dom][t] = d.domainMin[m][dom][t]
          \/ /\ e.domainMin[m][dom][t] = 0
             /\ \A f \in FlowIds : Share(e, f, m, dom, t) = 0

\* What an erasure leaves of the rows a reader sees: a flow stays, goes or
\* loses a name, and a name that is lost is gone from its device's minutes.
Redacted(e, d, f) ==
    /\ StoredAttr(d, f) # None
    /\ e.flows[f] = [d.flows[f] EXCEPT !.attr = None]
    /\ \A t \in Minutes : e.domainMin[ClientMac[f]][StoredAttr(d, f).domain][t] = 0

Fading(e, d) ==
    /\ \A f \in FlowIds : e.flows[f] \in {None, d.flows[f]} \/ Redacted(e, d, f)
    /\ \A m \in Macs, t \in Minutes : e.deviceMin[m][t] \in {0, d.deviceMin[m][t]}

LEMMA ErasureCovers ==
    ASSUME NEW d \in Database, NEW e \in Database, Covers(d), Erasure(e, d)
    PROVE  Covers(e)
  <1> SUFFICES ASSUME NEW m \in Macs, NEW dom \in Domains, NEW t \in Minutes
               PROVE  Slack(e, m, dom, t) >= 0
    BY DEF Covers
  <1>1. CASE e.domainMin[m][dom][t] = d.domainMin[m][dom][t]
    <2>1. LedgerBytes(e, m, dom, t) <= LedgerBytes(d, m, dom, t)
      BY LedgerBytesDrop DEF Erasure
    <2>2. Slack(d, m, dom, t) >= 0
      BY DEF Covers
    <2>3. QED
      BY <1>1, <2>1, <2>2, SlackType
  <1>2. CASE e.domainMin[m][dom][t] = 0 /\ \A f \in FlowIds : Share(e, f, m, dom, t) = 0
    <2>1. LedgerBytes(e, m, dom, t) = 0
      BY <1>2, LedgerBytesNone
    <2>2. QED
      BY <1>2, <2>1, SlackType
  <1>3. QED
    BY <1>1, <1>2 DEF Erasure

\* What each statement leaves of the ledger and of the domain aggregates.
LEMMA DropFields ==
    ASSUME NEW d \in Database
    PROVE  /\ \A gone : /\ DropFlows(d, gone).domainMin = d.domainMin
                        /\ \A f \in FlowIds, t \in Minutes : DropFlows(d, gone).contribs[f][t] =
                             IF f \in gone THEN None ELSE d.contribs[f][t]
           /\ \A gone : \A f \in FlowIds : DropFlows(d, gone).flows[f] =
                 IF f \in gone THEN None ELSE d.flows[f]
           /\ \A macs, minutes : /\ DropDeviceMinutes(d, macs, minutes).domainMin = d.domainMin
                                 /\ DropDeviceMinutes(d, macs, minutes).contribs = d.contribs
                                 /\ DropDeviceMinutes(d, macs, minutes).flows = d.flows
           /\ \A macs, doms, minutes :
                 /\ DropDomainMinutes(d, macs, doms, minutes).contribs = d.contribs
                 /\ DropDomainMinutes(d, macs, doms, minutes).flows = d.flows
                 /\ \A m \in Macs, dom \in Domains, t \in Minutes :
                      DropDomainMinutes(d, macs, doms, minutes).domainMin[m][dom][t] =
                        IF m \in macs /\ dom \in doms /\ t \in minutes
                        THEN 0 ELSE d.domainMin[m][dom][t]
           /\ \A minutes : /\ DropContribMinutes(d, minutes).domainMin = d.domainMin
                           /\ DropContribMinutes(d, minutes).flows = d.flows
                           /\ \A f \in FlowIds, t \in Minutes :
                                DropContribMinutes(d, minutes).contribs[f][t] =
                                  IF t \in minutes THEN None ELSE d.contribs[f][t]
           /\ \A macs : /\ [d EXCEPT !.devices = d.devices \ macs].domainMin = d.domainMin
                        /\ [d EXCEPT !.devices = d.devices \ macs].contribs = d.contribs
                        /\ [d EXCEPT !.devices = d.devices \ macs].flows = d.flows
  <1>1. ASSUME NEW gone
        PROVE  /\ DropFlows(d, gone).domainMin = d.domainMin
               /\ \A f \in FlowIds, t \in Minutes : DropFlows(d, gone).contribs[f][t] =
                    IF f \in gone THEN None ELSE d.contribs[f][t]
               /\ \A f \in FlowIds : DropFlows(d, gone).flows[f] =
                    IF f \in gone THEN None ELSE d.flows[f]
    BY DEF DropFlows, Database
  <1>2. ASSUME NEW macs, NEW minutes
        PROVE  /\ DropDeviceMinutes(d, macs, minutes).domainMin = d.domainMin
               /\ DropDeviceMinutes(d, macs, minutes).contribs = d.contribs
               /\ DropDeviceMinutes(d, macs, minutes).flows = d.flows
    BY DEF DropDeviceMinutes, Database
  <1>3. ASSUME NEW macs, NEW doms, NEW minutes
        PROVE  /\ DropDomainMinutes(d, macs, doms, minutes).contribs = d.contribs
               /\ DropDomainMinutes(d, macs, doms, minutes).flows = d.flows
               /\ \A m \in Macs, dom \in Domains, t \in Minutes :
                    DropDomainMinutes(d, macs, doms, minutes).domainMin[m][dom][t] =
                      IF m \in macs /\ dom \in doms /\ t \in minutes
                      THEN 0 ELSE d.domainMin[m][dom][t]
    BY DEF DropDomainMinutes, Database
  <1>4. ASSUME NEW minutes
        PROVE  /\ DropContribMinutes(d, minutes).domainMin = d.domainMin
               /\ DropContribMinutes(d, minutes).flows = d.flows
               /\ \A f \in FlowIds, t \in Minutes : DropContribMinutes(d, minutes).contribs[f][t] =
                    IF t \in minutes THEN None ELSE d.contribs[f][t]
    BY DEF DropContribMinutes, Database
  <1>5. ASSUME NEW macs
        PROVE  /\ [d EXCEPT !.devices = d.devices \ macs].domainMin = d.domainMin
               /\ [d EXCEPT !.devices = d.devices \ macs].contribs = d.contribs
               /\ [d EXCEPT !.devices = d.devices \ macs].flows = d.flows
    BY DEF Database
  <1>6. QED
    BY <1>1, <1>2, <1>3, <1>4, <1>5

\* What each statement leaves of the device aggregates.
LEMMA DropMinutes ==
    ASSUME NEW d \in Database
    PROVE  /\ \A gone : DropFlows(d, gone).deviceMin = d.deviceMin
           /\ \A macs, minutes : \A m \in Macs, t \in Minutes :
                DropDeviceMinutes(d, macs, minutes).deviceMin[m][t] =
                  IF m \in macs /\ t \in minutes THEN 0 ELSE d.deviceMin[m][t]
           /\ \A macs, doms, minutes :
                DropDomainMinutes(d, macs, doms, minutes).deviceMin = d.deviceMin
           /\ \A minutes : DropContribMinutes(d, minutes).deviceMin = d.deviceMin
           /\ \A macs, dom : /\ DropContribsOf(d, macs, dom).deviceMin = d.deviceMin
                             /\ RedactFlows(d, macs, dom).deviceMin = d.deviceMin
           /\ \A macs : [d EXCEPT !.devices = d.devices \ macs].deviceMin = d.deviceMin
  <1>1. ASSUME NEW gone PROVE DropFlows(d, gone).deviceMin = d.deviceMin
    BY DEF DropFlows, Database
  <1>2. ASSUME NEW macs, NEW minutes, NEW m \in Macs, NEW t \in Minutes
        PROVE  DropDeviceMinutes(d, macs, minutes).deviceMin[m][t] =
                 IF m \in macs /\ t \in minutes THEN 0 ELSE d.deviceMin[m][t]
    BY DEF DropDeviceMinutes, Database
  <1>3. ASSUME NEW macs, NEW doms, NEW minutes
        PROVE  DropDomainMinutes(d, macs, doms, minutes).deviceMin = d.deviceMin
    BY DEF DropDomainMinutes, Database
  <1>4. ASSUME NEW minutes PROVE DropContribMinutes(d, minutes).deviceMin = d.deviceMin
    BY DEF DropContribMinutes, Database
  <1>5. ASSUME NEW macs, NEW dom
        PROVE  /\ DropContribsOf(d, macs, dom).deviceMin = d.deviceMin
               /\ RedactFlows(d, macs, dom).deviceMin = d.deviceMin
    BY DEF DropContribsOf, RedactFlows, Database
  <1>6. ASSUME NEW macs PROVE [d EXCEPT !.devices = d.devices \ macs].deviceMin = d.deviceMin
    BY DEF Database
  <1>7. QED
    BY <1>1, <1>2, <1>3, <1>4, <1>5, <1>6

LEMMA DeleteDeviceErases ==
    ASSUME NEW d \in Database, NEW m
    PROVE  LET kept == DropDomainMinutes(DropDeviceMinutes(d, {m}, Minutes),
                                         {m}, Domains, Minutes)
               e == [DropFlows(kept, {f \in FlowIds : ClientMac[f] = m}) EXCEPT !.devices = @ \ {m}]
           IN  e \in Database /\ Erasure(e, d) /\ Fading(e, d)
  <1> DEFINE minutes == DropDeviceMinutes(d, {m}, Minutes)
             kept == DropDomainMinutes(minutes, {m}, Domains, Minutes)
             gone == {f \in FlowIds : ClientMac[f] = m}
             rest == DropFlows(kept, gone)
             e == [rest EXCEPT !.devices = rest.devices \ {m}]
  <1>1. /\ minutes \in Database /\ minutes.contribs = d.contribs
        /\ minutes.domainMin = d.domainMin /\ minutes.flows = d.flows
        /\ \A x \in Macs, t \in Minutes : minutes.deviceMin[x][t] \in {0, d.deviceMin[x][t]}
    BY DropType, DropFields, DropMinutes
  <1> HIDE DEF minutes
  <1>2. /\ kept \in Database /\ kept.contribs = d.contribs /\ kept.flows = d.flows
        /\ kept.deviceMin = minutes.deviceMin
        /\ \A x \in Macs, dom \in Domains, t \in Minutes : kept.domainMin[x][dom][t] =
              IF x = m THEN 0 ELSE d.domainMin[x][dom][t]
    BY <1>1, DropType, DropFields, DropMinutes
  <1> HIDE DEF kept
  <1>3. /\ rest \in Database /\ rest.domainMin = kept.domainMin /\ rest.deviceMin = kept.deviceMin
        /\ \A f \in FlowIds : rest.flows[f] = IF f \in gone THEN None ELSE d.flows[f]
        /\ \A f \in FlowIds, t \in Minutes : rest.contribs[f][t] =
              IF f \in gone THEN None ELSE d.contribs[f][t]
    BY <1>2, DropType, DropFields, DropMinutes
  <1> HIDE DEF rest
  <1>4. e \in Database /\ e.domainMin = rest.domainMin /\ e.contribs = rest.contribs
        /\ e.flows = rest.flows /\ e.deviceMin = rest.deviceMin
    BY ZenonT(60), <1>3, DropType, DropFields, DropMinutes
  <1> HIDE DEF e
  <1>5. Erasure(e, d)
    BY <1>2, <1>3, <1>4 DEF Erasure, Share
  <1>6. Fading(e, d)
    BY <1>1, <1>2, <1>3, <1>4 DEF Fading
  <1>7. QED
    BY <1>4, <1>5, <1>6 DEF e, rest, kept, minutes

LEMMA ForgetErases ==
    ASSUME NEW d \in Database, NEW macs, NEW dom \in Domains
    PROVE  /\ Forget(d, macs, dom) \in Database
           /\ Erasure(Forget(d, macs, dom), d) /\ Fading(Forget(d, macs, dom), d)
  <1> HIDE DEF Labelled
  <1> DEFINE c == DropContribsOf(d, macs, dom)
             k == DropDomainMinutes(c, macs, {dom}, Minutes)
             e == Forget(d, macs, dom)
  <1>1. c \in Database /\ c.domainMin = d.domainMin /\ c.deviceMin = d.deviceMin
    <2>1. c \in Database
      BY DropType
    <2>2. c.domainMin = d.domainMin
      BY DEF DropContribsOf, Database
    <2>3. c.deviceMin = d.deviceMin
      BY DropMinutes
    <2>4. QED
      BY <2>1, <2>2, <2>3
  <1> HIDE DEF c
  <1>2. /\ k \in Database /\ k.deviceMin = d.deviceMin
        /\ \A m \in Macs, x \in Domains, t \in Minutes : k.domainMin[m][x][t] =
              IF m \in macs /\ x = dom THEN 0 ELSE d.domainMin[m][x][t]
    BY <1>1, DropType, DropFields, DropMinutes
  <1> HIDE DEF k
  <1>3. e = RedactFlows(k, macs, dom)
    BY DEF Forget, k, c
  <1>4. e \in Database /\ e.domainMin = k.domainMin /\ e.deviceMin = d.deviceMin
    <2>1. e \in Database
      BY <1>2, <1>3, DropType
    <2>2. RedactFlows(k, macs, dom).domainMin = k.domainMin
      BY <1>2 DEF RedactFlows, Database
    <2>3. RedactFlows(k, macs, dom).deviceMin = k.deviceMin
      BY <1>2, DropMinutes
    <2>4. QED
      BY <1>2, <1>3, <2>1, <2>2, <2>3
  <1>5. \A f \in FlowIds, t \in Minutes : e.contribs[f][t] =
           IF ClientMac[f] \in macs /\ Labelled(d.contribs[f][t], dom)
           THEN None ELSE d.contribs[f][t]
    BY ForgetRows
  <1> HIDE DEF e
  <1>6. ASSUME NEW f \in FlowIds, NEW m \in macs, NEW t \in Minutes
        PROVE  Share(e, f, m, dom, t) = 0
    <2>1. CASE ClientMac[f] = m /\ Labelled(d.contribs[f][t], dom)
      <3>1. e.contribs[f][t] = None
        BY <1>5, <1>6, <2>1
      <3>2. QED
        BY <3>1 DEF Share, Labelled
    <2>2. CASE ~(ClientMac[f] = m /\ Labelled(d.contribs[f][t], dom))
      BY <1>5, <1>6, <2>2 DEF Share, Labelled
    <2>3. QED
      BY <2>1, <2>2
  <1>7. ASSUME NEW f \in FlowIds, e.flows[f] # None
        PROVE  d.flows[f] # None /\ e.flows[f].bytes = d.flows[f].bytes
    <2>1. e.flows[f] = IF ClientMac[f] \in macs /\ Labelled(d.flows[f], dom)
                       THEN [d.flows[f] EXCEPT !.attr = None] ELSE d.flows[f]
      BY ForgetRows DEF e
    <2>2. d.flows[f] \in FlowRow \cup {None}
      BY DEF Database
    <2>3. QED
      BY <1>7, <2>1, <2>2 DEF FlowRow, Labelled
  <1>8. Erasure(e, d)
    BY <1>2, <1>4, <1>5, <1>6, <1>7 DEF Erasure
  <1>9. \A f \in FlowIds : e.flows[f] = d.flows[f] \/ Redacted(e, d, f)
    <2> TAKE f \in FlowIds
    <2>1. e.flows[f] = IF ClientMac[f] \in macs /\ Labelled(d.flows[f], dom)
                       THEN [d.flows[f] EXCEPT !.attr = None] ELSE d.flows[f]
      BY ForgetRows DEF e
    <2>2. ClientMac[f] \in Macs
      BY IdentityAssumption
    <2>3. CASE ClientMac[f] \in macs /\ Labelled(d.flows[f], dom)
      <3>1. StoredAttr(d, f) # None /\ StoredAttr(d, f).domain = dom
        BY <2>3 DEF Labelled
      <3>2. \A t \in Minutes : e.domainMin[ClientMac[f]][dom][t] = 0
        BY <1>2, <1>4, <2>2, <2>3
      <3>3. QED
        BY <2>1, <2>3, <3>1, <3>2 DEF Redacted
    <2>4. QED
      BY <2>1, <2>3
  <1>10. Fading(e, d)
    BY <1>4, <1>9 DEF Fading
  <1>11. QED
    BY <1>4, <1>8, <1>10 DEF e

LEMMA DeleteRangeErases ==
    ASSUME NEW d \in Database, NEW minutes, NEW gone
    PROVE  LET kept == DropContribMinutes(
                           DropDomainMinutes(DropDeviceMinutes(d, Macs, minutes),
                                             Macs, Domains, minutes), minutes)
           IN  /\ DropFlows(kept, gone) \in Database
               /\ Erasure(DropFlows(kept, gone), d) /\ Fading(DropFlows(kept, gone), d)
  <1> DEFINE p == DropDeviceMinutes(d, Macs, minutes)
             q == DropDomainMinutes(p, Macs, Domains, minutes)
             kept == DropContribMinutes(q, minutes)
             e == DropFlows(kept, gone)
  <1>1. /\ p \in Database /\ p.contribs = d.contribs
        /\ p.domainMin = d.domainMin /\ p.flows = d.flows
        /\ \A x \in Macs, t \in Minutes : p.deviceMin[x][t] \in {0, d.deviceMin[x][t]}
    BY DropType, DropFields, DropMinutes
  <1> HIDE DEF p
  <1>2. /\ q \in Database /\ q.contribs = d.contribs /\ q.flows = d.flows
        /\ q.deviceMin = p.deviceMin
        /\ \A x \in Macs, dom \in Domains, t \in Minutes : q.domainMin[x][dom][t] =
              IF t \in minutes THEN 0 ELSE d.domainMin[x][dom][t]
    BY <1>1, DropType, DropFields, DropMinutes
  <1> HIDE DEF q
  <1>3. /\ kept \in Database /\ kept.domainMin = q.domainMin /\ kept.flows = d.flows
        /\ kept.deviceMin = p.deviceMin
        /\ \A f \in FlowIds, t \in Minutes : kept.contribs[f][t] =
              IF t \in minutes THEN None ELSE d.contribs[f][t]
    BY <1>2, DropType, DropFields, DropMinutes
  <1> HIDE DEF kept
  <1>4. /\ e \in Database /\ e.domainMin = q.domainMin /\ e.deviceMin = p.deviceMin
        /\ \A f \in FlowIds : e.flows[f] = IF f \in gone THEN None ELSE d.flows[f]
        /\ \A f \in FlowIds, t \in Minutes : e.contribs[f][t] =
              IF f \in gone \/ t \in minutes THEN None ELSE d.contribs[f][t]
    BY <1>3, DropType, DropFields, DropMinutes
  <1> HIDE DEF e
  <1>5. Erasure(e, d)
    BY <1>2, <1>4 DEF Erasure, Share
  <1>6. Fading(e, d)
    BY <1>1, <1>4 DEF Fading
  <1>7. QED
    BY <1>4, <1>5, <1>6 DEF e, kept, q, p

LEMMA SweepErases ==
    ASSUME NEW d \in Database
    PROVE  /\ \A gone : LET e == DropFlows(d, gone)
                        IN  e \in Database /\ Erasure(e, d) /\ Fading(e, d)
           /\ \A macs, minutes : LET e == DropDeviceMinutes(d, macs, minutes)
                                 IN  e \in Database /\ Erasure(e, d) /\ Fading(e, d)
           /\ \A minutes : LET e == DropContribMinutes(d, minutes)
                           IN  e \in Database /\ Erasure(e, d) /\ Fading(e, d)
           /\ \A minutes : (\A f \in FlowIds, t \in Minutes :
                               t \in minutes => d.contribs[f][t] = None) =>
                 LET e == DropDomainMinutes(d, Macs, Domains, minutes)
                 IN  e \in Database /\ Erasure(e, d) /\ Fading(e, d)
  <1>1. ASSUME NEW gone, NEW e, e = DropFlows(d, gone)
        PROVE  e \in Database /\ Erasure(e, d) /\ Fading(e, d)
    <2>1. e \in Database /\ Erasure(e, d)
      BY <1>1, DropType, DropFields DEF Erasure
    <2>2. Fading(e, d)
      BY <1>1, DropFields, DropMinutes DEF Fading
    <2>3. QED
      BY <2>1, <2>2
  <1>2. ASSUME NEW macs, NEW minutes, NEW e, e = DropDeviceMinutes(d, macs, minutes)
        PROVE  e \in Database /\ Erasure(e, d) /\ Fading(e, d)
    <2>1. e \in Database /\ Erasure(e, d)
      BY <1>2, DropType, DropFields DEF Erasure
    <2>2. Fading(e, d)
      BY <1>2, DropFields, DropMinutes DEF Fading
    <2>3. QED
      BY <2>1, <2>2
  <1>3. ASSUME NEW minutes, NEW e, e = DropContribMinutes(d, minutes)
        PROVE  e \in Database /\ Erasure(e, d) /\ Fading(e, d)
    <2>1. e \in Database /\ Erasure(e, d)
      BY <1>3, DropType, DropFields DEF Erasure
    <2>2. Fading(e, d)
      BY <1>3, DropFields, DropMinutes DEF Fading
    <2>3. QED
      BY <2>1, <2>2
  <1>4. ASSUME NEW minutes, NEW e, e = DropDomainMinutes(d, Macs, Domains, minutes),
               \A f \in FlowIds, t \in Minutes : t \in minutes => d.contribs[f][t] = None
        PROVE  e \in Database /\ Erasure(e, d) /\ Fading(e, d)
    <2>1. /\ e \in Database /\ e.contribs = d.contribs /\ e.flows = d.flows
          /\ e.deviceMin = d.deviceMin
          /\ \A x \in Macs, dom \in Domains, t \in Minutes : e.domainMin[x][dom][t] =
                IF t \in minutes THEN 0 ELSE d.domainMin[x][dom][t]
      BY <1>4, DropType, DropFields, DropMinutes
    <2>2. Erasure(e, d)
      BY <1>4, <2>1 DEF Erasure, Share
    <2>3. Fading(e, d)
      BY <2>1 DEF Fading
    <2>4. QED
      BY <2>1, <2>2, <2>3
  <1>5. QED
    BY <1>1, <1>2, <1>3, <1>4

\* The statement that zeroes expired domain minutes runs after the one that
\* removed their ledger rows, with the same cutoff and no writer in between.
SweepInv ==
    /\ sweep # "idle" => open = "none"
    /\ sweep = "domain" =>
         \A f \in FlowIds, t \in Minutes :
             t \in MinutesBefore(now - AggRetention) => db.contribs[f][t] = None

\* The inductive invariant: the committed aggregates cover the ledger, the work
\* of an open transaction has the same slack, and a sweep keeps its order.
CoverInv ==
    /\ TypeOK /\ LedgerAgreesWithFlow
    /\ Covers(db) /\ SameSlack(work, db)
    /\ SweepInv

LEMMA ErasureStep ==
    ASSUME NEW d \in Database, Covers(db), TypeOK, Erasure(d, db), Apply(d)
    PROVE  Covers(db)' /\ SameSlack(work, db)'
  <1>1. Covers(d)
    BY ErasureCovers DEF TypeOK
  <1>2. db' = d /\ work' = d
    BY DEF Apply
  <1>3. QED
    BY <1>1, <1>2 DEF Covers, SameSlack, Slack, LedgerBytes, Share

LEMMA SlackStays ==
    ASSUME UNCHANGED db, Covers(db), SameSlack(work', db)
    PROVE  Covers(db)' /\ SameSlack(work, db)'
  <1>1. PICK w : w = work'
    OBVIOUS
  <1>2. PICK d : d = db
    OBVIOUS
  <1>3. Covers(d) /\ SameSlack(w, d) /\ db' = d /\ work' = w
    BY <1>1, <1>2
  <1>4. Covers(db')
    BY <1>3
  <1>5. SameSlack(work', db')
    BY <1>3
  <1>6. QED
    BY <1>4, <1>5 DEF Covers, SameSlack, Slack, LedgerBytes, Share

\* Every step leaves the store alone, writes inside a transaction, ends one, or
\* erases.
ErasesRows == \E d \in Database : Apply(d) /\ Erasure(d, db) /\ Fading(d, db)

LEMMA StepKinds ==
    ASSUME TypeOK, SweepInv, [Next]_vars
    PROVE  \/ UNCHANGED <<db, work>>
           \/ \E o \in Reported : UpsertStep(o)
           \/ \E f \in FlowIds : BackfillStep(f)
           \/ Commit
           \/ Rollback
           \/ ErasesRows
  <1>1. db \in Database
    BY DEF TypeOK
  <1>2. CASE Tick \/ BeginUpsert \/ BeginBackfill \/ SweepStops \/ UNCHANGED vars
    BY <1>2 DEF Tick, BeginUpsert, BeginBackfill, SweepStops, vars
  <1>3. ASSUME NEW b \in Bindings, BackfillBinding(b) PROVE UNCHANGED <<db, work>>
    BY <1>3 DEF BackfillBinding
  <1>4. ASSUME NEW m \in Macs, DeleteDevice(m) PROVE ErasesRows
    <2> DEFINE kept == DropDomainMinutes(DropDeviceMinutes(db, {m}, Minutes),
                                         {m}, Domains, Minutes)
               e == [DropFlows(kept, {f \in FlowIds : ClientMac[f] = m})
                        EXCEPT !.devices = @ \ {m}]
    <2>1. e \in Database /\ Erasure(e, db) /\ Fading(e, db)
      BY <1>1, DeleteDeviceErases
    <2>2. Apply(e)
      BY <1>4 DEF DeleteDevice
    <2> HIDE DEF e
    <2>3. QED
      BY <2>1, <2>2 DEF ErasesRows
  <1>5. ASSUME NEW macs, NEW dom \in Domains, DeleteDomain(macs, dom) PROVE ErasesRows
    <2>1. /\ Forget(db, macs, dom) \in Database
          /\ Erasure(Forget(db, macs, dom), db) /\ Fading(Forget(db, macs, dom), db)
      BY <1>1, ForgetErases
    <2>2. Apply(Forget(db, macs, dom))
      BY <1>5 DEF DeleteDomain, Forget
    <2> HIDE DEF Forget
    <2>3. QED
      BY <2>1, <2>2 DEF ErasesRows
  <1>6. ASSUME NEW from, NEW to, DeleteRange(from, to) PROVE ErasesRows
    <2> DEFINE minutes == MinutesFrom(from, to)
               gone == {f \in FlowIds : /\ db.flows[f] # None
                                        /\ FirstSeen[f] < to
                                        /\ db.flows[f].lastSeen >= from}
               kept == DropContribMinutes(
                           DropDomainMinutes(DropDeviceMinutes(db, Macs, minutes),
                                             Macs, Domains, minutes), minutes)
               e == DropFlows(kept, gone)
    <2>1. Apply(e)
      BY <1>6 DEF DeleteRange
    <2> HIDE DEF minutes, gone
    <2>2. e \in Database /\ Erasure(e, db) /\ Fading(e, db)
      BY <1>1, DeleteRangeErases
    <2> HIDE DEF e
    <2>3. QED
      BY <2>1, <2>2 DEF ErasesRows
  <1>7. CASE SweepFlows \/ SweepDeviceMinutes \/ SweepContribs
    BY <1>1, <1>7, SweepErases DEF SweepFlows, SweepDeviceMinutes, SweepContribs, ErasesRows
  <1>8. CASE SweepDomainMinutes
    <2> DEFINE minutes == MinutesBefore(now - AggRetention)
    <2>1. \A f \in FlowIds, t \in Minutes : t \in minutes => db.contribs[f][t] = None
      BY <1>8 DEF SweepDomainMinutes, SweepInv
    <2>2. Apply(DropDomainMinutes(db, Macs, Domains, minutes))
      BY <1>8 DEF SweepDomainMinutes
    <2> HIDE DEF minutes
    <2>3. QED
      BY <1>1, <2>1, <2>2, SweepErases DEF ErasesRows
  <1>9. QED
    BY <1>2, <1>3, <1>4, <1>5, <1>6, <1>7, <1>8 DEF Next

LEMMA NextCovers ==
    CoverInv /\ [Next]_vars => Covers(db)' /\ SameSlack(work, db)'
  <1> SUFFICES ASSUME CoverInv, [Next]_vars PROVE Covers(db)' /\ SameSlack(work, db)'
    OBVIOUS
  <1>0. /\ TypeOK /\ LedgerAgreesWithFlow /\ SweepInv
        /\ Covers(db) /\ SameSlack(work, db) /\ db \in Database /\ work \in Database
    BY DEF CoverInv, TypeOK
  <1>1. CASE UNCHANGED <<db, work>>
    BY <1>0, <1>1, SlackStays
  <1>2. ASSUME NEW o \in Reported, UpsertStep(o)
        PROVE  Covers(db)' /\ SameSlack(work, db)'
    <2>1. SameSlack(UpsertFlow(work, o), work)
      BY <1>0, <1>2, ReportedType, UpsertSlack DEF UpsertStep, LedgerAgreesWithFlow
    <2>2. SameSlack(work', db) /\ UNCHANGED db
      BY <1>0, <1>2, <2>1, SameSlackTransitive DEF UpsertStep
    <2>3. QED
      BY <1>0, <2>2, SlackStays
  <1>3. ASSUME NEW f \in FlowIds, BackfillStep(f)
        PROVE  Covers(db)' /\ SameSlack(work, db)'
    <2>1. binding \in Binding
      BY <1>0, <1>3, InputAssumption DEF BackfillStep, TypeOK
    <2>2. SameSlack(BackfillFlow(work, f, binding), work)
      BY <1>0, <1>3, <2>1, BackfillSlack DEF BackfillStep
    <2>3. SameSlack(work', db) /\ UNCHANGED db
      BY <1>0, <1>3, <2>2, SameSlackTransitive DEF BackfillStep
    <2>4. QED
      BY <1>0, <2>3, SlackStays
  <1>4. CASE Commit
    <2>1. Covers(work)
      BY <1>0 DEF Covers, SameSlack
    <2>2. db' = work /\ work' = work
      BY <1>4 DEF Commit
    <2>3. QED
      BY <2>1, <2>2 DEF Covers, SameSlack, Slack, LedgerBytes, Share
  <1>5. CASE Rollback
    <2>1. db' = db /\ work' = db
      BY <1>5 DEF Rollback
    <2>2. SameSlack(db, db)
      BY DEF SameSlack
    <2>3. QED
      BY <1>0, <2>1, <2>2, SlackStays
  <1>6. CASE ErasesRows
    BY <1>0, <1>6, ErasureStep DEF ErasesRows
  <1>7. QED
    BY <1>0, <1>1, <1>2, <1>3, <1>4, <1>5, <1>6, StepKinds

LEMMA NextSweep == TypeOK /\ SweepInv /\ [Next]_vars => SweepInv'
  <1> SUFFICES ASSUME TypeOK, SweepInv, [Next]_vars PROVE SweepInv'
    OBVIOUS
  <1>1. CASE UNCHANGED <<sweep, now, open, db>>
    BY <1>1 DEF SweepInv
  <1>2. ASSUME sweep' = "idle" PROVE SweepInv'
    BY <1>2 DEF SweepInv
  <1>3. CASE SweepFlows
    BY <1>3 DEF SweepFlows, SweepInv, Apply, txn, Free
  <1>4. CASE SweepDeviceMinutes
    BY <1>4 DEF SweepDeviceMinutes, SweepInv, Apply, txn
  <1>5. CASE SweepContribs
    <2> DEFINE minutes == MinutesBefore(now - AggRetention)
    <2>1. \A f \in FlowIds, t \in Minutes :
             t \in minutes => DropContribMinutes(db, minutes).contribs[f][t] = None
      <3> HIDE DEF minutes
      <3>1. QED
        BY DropFields DEF TypeOK
    <2>2. db' = DropContribMinutes(db, minutes) /\ now' = now /\ open' = open /\ sweep' = "domain"
      BY <1>5 DEF SweepContribs, Apply, txn
    <2>3. MinutesBefore(now - AggRetention)' = minutes
      BY <2>2 DEF MinutesBefore
    <2> HIDE DEF minutes
    <2>4. \A f \in FlowIds, t \in Minutes : t \in minutes => db'.contribs[f][t] = None
      BY <2>1, <2>2
    <2>5. open' = "none"
      BY <1>5, <2>2 DEF SweepContribs, SweepInv
    <2>6. QED
      BY <2>3, <2>4, <2>5 DEF SweepInv
  <1>6. CASE SweepDomainMinutes \/ SweepStops
    BY <1>2, <1>6 DEF SweepDomainMinutes, SweepStops
  <1>7. CASE Tick \/ BeginUpsert \/ BeginBackfill
    BY <1>2, <1>7 DEF Tick, BeginUpsert, BeginBackfill, Free
  <1>8. ASSUME NEW o, UpsertStep(o) PROVE SweepInv'
    BY <1>8 DEF UpsertStep, SweepInv
  <1>9. ASSUME NEW b, BackfillBinding(b) PROVE SweepInv'
    BY <1>9 DEF BackfillBinding, SweepInv
  <1>10. ASSUME NEW f, BackfillStep(f) PROVE SweepInv'
    BY <1>10 DEF BackfillStep, SweepInv, txn
  <1>11. CASE Commit \/ Rollback
    <2>1. sweep = "idle" /\ sweep' = "idle"
      BY <1>11 DEF Commit, Rollback, SweepInv
    <2>2. QED
      BY <1>2, <2>1
  <1>12. ASSUME NEW m, DeleteDevice(m) PROVE SweepInv'
    BY <1>2, <1>12 DEF DeleteDevice, Free
  <1>13. ASSUME NEW macs, NEW dom, DeleteDomain(macs, dom) PROVE SweepInv'
    BY <1>2, <1>13 DEF DeleteDomain, Free
  <1>14. ASSUME NEW from, NEW to, DeleteRange(from, to) PROVE SweepInv'
    BY <1>2, <1>14 DEF DeleteRange, Free
  <1>15. CASE UNCHANGED vars
    BY <1>1, <1>15 DEF vars
  <1>16. QED
    BY <1>3, <1>4, <1>5, <1>6, <1>7, <1>8, <1>9, <1>10, <1>11, <1>12, <1>13, <1>14, <1>15 DEF Next

LEMMA CoverInvariant == Spec => []CoverInv
  <1>1. Init => Covers(db) /\ SameSlack(work, db) /\ SweepInv
    <2> SUFFICES ASSUME Init PROVE Covers(db) /\ SameSlack(work, db) /\ SweepInv
      OBVIOUS
    <2>1. db \in Database /\ \A f \in FlowIds, t \in Minutes : db.contribs[f][t] = None
      <3>1. PICK attr \in [LegacyFlows -> Attributions \cup {None}] : db = LegacyDatabase(attr)
        BY DEF Init
      <3>2. \A f \in FlowIds, t \in Minutes : LegacyDatabase(attr).contribs[f][t] = None
        BY DEF LegacyDatabase
      <3>3. QED
        BY <3>1, <3>2, LegacyType
    <2>2. ASSUME NEW m \in Macs, NEW dom \in Domains, NEW t \in Minutes
          PROVE  Slack(db, m, dom, t) >= 0
      <3>1. LedgerBytes(db, m, dom, t) = 0
        BY <2>1, LedgerBytesNone DEF Share
      <3>2. QED
        BY <2>1, <3>1, SlackType
    <2>3. QED
      BY <2>2 DEF Init, Covers, SameSlack, SweepInv
  <1>2. CoverInv /\ [Next]_vars => (Covers(db) /\ SameSlack(work, db))'
    BY NextCovers
  <1>3. TypeOK /\ SweepInv /\ [Next]_vars => SweepInv'
    BY NextSweep
  <1> HIDE DEF Labelled, Conflicts, StoredAttr
  <1>4. QED
    BY <1>1, <1>2, <1>3, TypeCorrect, LedgerAgreement, PTL DEF Spec, CoverInv

\* An aggregate always covers the ledger rows that carry its domain, so the
\* subtraction of a relabelling (storage.rs:425) cannot fail.
THEOREM AggregatesCover == Spec => []AggregateCoversLedger
  <1>1. CoverInv => AggregateCoversLedger
    BY DEF CoverInv, Covers, SameSlack, AggregateCoversLedger
  <1>2. QED
    BY <1>1, CoverInvariant, PTL

\* A committed batch or backfill moves every aggregate exactly as the ledger.
THEOREM AggregatesFollow == Spec => AggregateFollowsLedger
  <1>1. CoverInv /\ [Next]_vars =>
          [open # "none" => \A m \in Macs, dom \in Domains, t \in Minutes :
              Slack(db', m, dom, t) = Slack(db, m, dom, t)]_db
    <2> SUFFICES ASSUME CoverInv, [Next]_vars, open # "none", ~(UNCHANGED db)
                 PROVE  \A m \in Macs, dom \in Domains, t \in Minutes :
                            Slack(db', m, dom, t) = Slack(db, m, dom, t)
      OBVIOUS
    <2>1. sweep = "idle"
      BY DEF CoverInv, SweepInv
    <2>2. Commit
      BY <2>1 DEF Next, vars, Tick, BeginUpsert, BeginBackfill, BackfillBinding, UpsertStep,
         BackfillStep, Rollback, SweepStops, DeleteDevice, DeleteDomain, DeleteRange,
         SweepFlows, SweepDeviceMinutes, SweepContribs, SweepDomainMinutes, Free
    <2>3. db' = work
      BY <2>2 DEF Commit
    <2>4. SameSlack(work, db)
      BY DEF CoverInv
    <2>5. QED
      BY <2>3, <2>4 DEF SameSlack
  <1>2. QED
    BY <1>1, CoverInvariant, PTL DEF Spec, AggregateFollowsLedger

-----------------------------------------------------------------------------
(* A flow's ledger holds no more than the flow counted.                     *)

RowBytes(d, f) == [t \in Minutes |-> BytesOf(d.contribs[f][t])]

LEMMA MinutesFinite == IsFiniteSet(Minutes) /\ Minutes \subseteq Int
  <1>1. MaxTime \div MinuteLen \in Int
    BY BoundsAssumption
  <1>2. QED
    BY <1>1, FS_Interval DEF Minutes

LEMMA CountedIs ==
    ASSUME NEW d, NEW f
    PROVE  Counted(d, f) = SumFunctionOnSet(RowBytes(d, f), Minutes)
  BY DEF Counted, SumFunction, RowBytes

LEMMA RowBytesType ==
    ASSUME NEW d \in Database, NEW f \in FlowIds
    PROVE  /\ \A t \in Minutes : /\ RowBytes(d, f)[t] \in Nat
                                 /\ RowBytes(d, f)[t] = BytesOf(d.contribs[f][t])
           /\ Counted(d, f) \in Nat
           /\ BytesOf(d.flows[f]) \in Nat
  <1>1. ASSUME NEW t \in Minutes PROVE BytesOf(d.contribs[f][t]) \in Nat
    BY DEF Database, Contribution, BytesOf
  <1>2. \A t \in Minutes : /\ RowBytes(d, f)[t] \in Nat
                           /\ RowBytes(d, f)[t] = BytesOf(d.contribs[f][t])
    BY <1>1 DEF RowBytes
  <1>3. SumFunctionOnSet(RowBytes(d, f), Minutes) \in Nat
    BY <1>2, MinutesFinite, SumType
  <1>4. BytesOf(d.flows[f]) \in Nat
    BY DEF Database, FlowRow, BytesOf
  <1>5. QED
    BY <1>2, <1>3, <1>4, CountedIs

LEMMA CountedSame ==
    ASSUME NEW d \in Database, NEW e \in Database, NEW f \in FlowIds,
           \A t \in Minutes : BytesOf(e.contribs[f][t]) = BytesOf(d.contribs[f][t])
    PROVE  Counted(e, f) = Counted(d, f)
  <1>1. \A t \in Minutes : RowBytes(e, f)[t] = RowBytes(d, f)[t]
    BY RowBytesType
  <1>2. SumFunctionOnSet(RowBytes(e, f), Minutes) = SumFunctionOnSet(RowBytes(d, f), Minutes)
    BY <1>1, MinutesFinite, SumSame
  <1>3. QED
    BY <1>2, CountedIs

LEMMA CountedAdds ==
    ASSUME NEW d \in Database, NEW e \in Database, NEW f \in FlowIds,
           NEW s \in Minutes, NEW delta \in Nat,
           BytesOf(e.contribs[f][s]) = BytesOf(d.contribs[f][s]) + delta,
           \A t \in Minutes \ {s} : BytesOf(e.contribs[f][t]) = BytesOf(d.contribs[f][t])
    PROVE  Counted(e, f) = Counted(d, f) + delta
  <1> DEFINE p == RowBytes(d, f)
             q == RowBytes(e, f)
  <1>1. \A t \in Minutes : p[t] \in Int /\ q[t] \in Int
    BY RowBytesType
  <1>2. \A t \in Minutes \ {s} : q[t] = p[t]
    BY RowBytesType
  <1>3. q[s] = p[s] + delta
    BY RowBytesType
  <1>4. Counted(d, f) = SumFunctionOnSet(p, Minutes) /\ Counted(e, f) = SumFunctionOnSet(q, Minutes)
    BY CountedIs
  <1> HIDE DEF p, q
  <1>5. SumFunctionOnSet(q, Minutes) = SumFunctionOnSet(p, Minutes) - p[s] + q[s]
        /\ SumFunctionOnSet(p, Minutes) \in Int
    BY <1>1, <1>2, MinutesFinite, SumChange
  <1>6. QED
    BY <1>1, <1>3, <1>4, <1>5

LEMMA CountedNone ==
    ASSUME NEW d \in Database, NEW f \in FlowIds, \A t \in Minutes : d.contribs[f][t] = None
    PROVE  Counted(d, f) = 0
  <1>1. \A t \in Minutes : RowBytes(d, f)[t] = 0
    BY DEF RowBytes, BytesOf
  <1>2. SumFunctionOnSet(RowBytes(d, f), Minutes) = 0
    BY <1>1, MinutesFinite, SumZero
  <1>3. QED
    BY <1>2, CountedIs

LEMMA CountedDrop ==
    ASSUME NEW d \in Database, NEW e \in Database, NEW f \in FlowIds,
           \A t \in Minutes : e.contribs[f][t] \in {None, d.contribs[f][t]}
    PROVE  Counted(e, f) <= Counted(d, f)
  <1> DEFINE p == RowBytes(d, f)
             q == RowBytes(e, f)
  <1>1. ASSUME NEW t \in Minutes PROVE q[t] \in Int /\ p[t] \in Int /\ q[t] <= p[t]
    <2>1. p[t] \in Nat /\ q[t] \in Nat
      BY RowBytesType
    <2>2. q[t] \in {0, p[t]}
      BY RowBytesType DEF BytesOf
    <2>3. QED
      BY <2>1, <2>2
  <1>2. Counted(d, f) = SumFunctionOnSet(p, Minutes) /\ Counted(e, f) = SumFunctionOnSet(q, Minutes)
    BY CountedIs
  <1> HIDE DEF p, q
  <1>3. SumFunctionOnSet(q, Minutes) <= SumFunctionOnSet(p, Minutes)
    BY <1>1, MinutesFinite, SumAtMost
  <1>4. QED
    BY <1>2, <1>3

Within(d) == \A f \in FlowIds : Counted(d, f) <= BytesOf(d.flows[f])

\* A relabelling keeps every row's bytes; the baseline it may add is all the
\* flow counted, and the flow had no row before.
LEMMA ReconcileWithin ==
    ASSUME NEW d \in Database, NEW f \in FlowIds, NEW a \in Attribution,
           d.flows[f] # None, CanReconcile(d, f, a), Within(d)
    PROVE  Within(Reconcile(d, f, a))
  <1> DEFINE rows == WithBaseline(d, f)
             row == [bytes |-> d.flows[f].bytes, attr |-> None]
             s == Minute(d.flows[f].lastSeen)
             newRows == [t \in Minutes |->
                IF rows[t] = None THEN None ELSE [bytes |-> rows[t].bytes, attr |-> a]]
             e == Reconcile(d, f, a)
  <1>1. e \in Database
    BY ReconcileType
  <1>2. d.flows[f] \in FlowRow /\ s \in Minutes
    BY MinuteInRange DEF Database, FlowRow
  <1>3. e.contribs = [d.contribs EXCEPT ![f] = newRows] /\ e.flows = d.flows
    BY DEF Reconcile, Database
  <1>4. ASSUME NEW t \in Minutes PROVE BytesOf(newRows[t]) = BytesOf(rows[t])
    <2>1. rows[t] \in Contribution \cup {None}
      BY BaselineType
    <2>2. rows[t] # None => [bytes |-> rows[t].bytes, attr |-> a] \in Contribution
      BY <2>1 DEF Contribution
    <2> HIDE DEF rows
    <2>3. QED
      BY <2>1, <2>2, RowsNotNone DEF BytesOf
  <1>5. rows = IF NeedsBaseline(d, f) THEN [d.contribs[f] EXCEPT ![s] = row] ELSE d.contribs[f]
    BY DEF WithBaseline
  <1>6. BytesOf(row) = d.flows[f].bytes /\ BytesOf(d.flows[f]) = d.flows[f].bytes
    <2>1. row \in Contribution
      BY <1>2 DEF Contribution, FlowRow
    <2>2. QED
      BY <2>1, RowsNotNone DEF BytesOf
  <1>7. d.flows[f].bytes \in Nat
    BY <1>2 DEF FlowRow
  <1>8. DOMAIN d.contribs[f] = Minutes /\ DOMAIN d.contribs = FlowIds
    BY DEF Database
  <1> HIDE DEF rows, row, newRows, e, s
  <1>9. \A t \in Minutes : BytesOf(e.contribs[f][t]) = BytesOf(rows[t])
    BY <1>3, <1>4, <1>8
  <1>10. ASSUME NEW g \in FlowIds PROVE Counted(e, g) <= BytesOf(e.flows[g])
    <2>1. Counted(d, g) <= BytesOf(d.flows[g])
      BY DEF Within
    <2>2. CASE g # f
      <3>1. e.contribs[g] = d.contribs[g]
        BY <1>3, <1>8, <2>2
      <3>2. Counted(e, g) = Counted(d, g)
        BY <1>1, <3>1, CountedSame
      <3>3. QED
        BY <1>3, <2>1, <3>2
    <2>3. CASE g = f /\ ~NeedsBaseline(d, f)
      <3>1. Counted(e, f) = Counted(d, f)
        BY <1>1, <1>5, <1>9, <2>3, CountedSame
      <3>2. QED
        BY <1>3, <2>1, <2>3, <3>1
    <2>4. CASE g = f /\ NeedsBaseline(d, f)
      <3>1. \A t \in Minutes : d.contribs[f][t] = None
        BY <2>4 DEF NeedsBaseline
      <3>2. Counted(d, f) = 0 /\ \A t \in Minutes : BytesOf(d.contribs[f][t]) = 0
        BY <3>1, CountedNone DEF BytesOf
      <3>3. BytesOf(e.contribs[f][s]) = d.flows[f].bytes
        BY <1>2, <1>5, <1>6, <1>8, <1>9, <2>4
      <3>4. \A t \in Minutes \ {s} : BytesOf(e.contribs[f][t]) = BytesOf(d.contribs[f][t])
        BY <1>5, <1>8, <1>9, <2>4
      <3>5. Counted(e, f) = Counted(d, f) + d.flows[f].bytes
        BY <1>1, <1>2, <1>7, <3>2, <3>3, <3>4, CountedAdds
      <3>6. QED
        BY <1>3, <1>6, <1>7, <2>4, <3>2, <3>5
    <2>5. QED
      BY <2>2, <2>3, <2>4
  <1>11. QED
    BY <1>10 DEF Within, e

\* An upsert charges the ledger the increment of the counter.
LEMMA ChargeWithin ==
    ASSUME NEW d \in Database, NEW o \in Observation,
           NEW a \in Attribution \cup {None}, NEW delta \in Nat,
           Within(d), o.bytes = BytesOf(d.flows[o.flow]) + delta
    PROVE  Within(Charge(d, o, a, delta))
  <1> DEFINE f == o.flow
             s == Minute(o.lastSeen)
             row == [bytes |-> o.bytes, lastSeen |-> o.lastSeen, attr |-> a]
             old == d.contribs[f][s]
             added == [bytes |-> delta + (IF old = None THEN 0 ELSE old.bytes), attr |-> a]
             rows == [d.contribs[f] EXCEPT ![s] = added]
             e == Charge(d, o, a, delta)
  <1>1. e \in Database
    BY ChargeType
  <1>2. f \in FlowIds /\ s \in Minutes
    BY MinuteInRange DEF Observation
  <1>3. e.contribs = IF delta = 0 THEN d.contribs ELSE [d.contribs EXCEPT ![f] = rows]
    BY DEF Charge, Database
  <1>4. e.flows = [d.flows EXCEPT ![f] = row]
    BY DEF Charge, Database
  <1>5. old \in Contribution \cup {None}
    BY <1>2 DEF Database
  <1>6. added \in Contribution /\ row \in FlowRow
    BY <1>5 DEF Contribution, FlowRow, Observation
  <1>7. BytesOf(added) = BytesOf(old) + delta /\ BytesOf(row) = o.bytes
    <2>1. added # None /\ row # None
      BY <1>6, RowsNotNone
    <2>2. old # None => old.bytes \in Nat
      BY <1>5 DEF Contribution
    <2>3. QED
      BY <2>1, <2>2 DEF BytesOf
  <1>8. rows[s] = added /\ \A t \in Minutes \ {s} : rows[t] = d.contribs[f][t]
    BY <1>2 DEF Database
  <1>9. DOMAIN d.contribs = FlowIds /\ DOMAIN d.flows = FlowIds
    BY DEF Database
  <1> HIDE DEF row, old, added, rows, e, s, f
  <1>10. ASSUME NEW g \in FlowIds PROVE Counted(e, g) <= BytesOf(e.flows[g])
    <2>1. Counted(d, g) <= BytesOf(d.flows[g]) /\ Counted(d, g) \in Nat
          /\ BytesOf(d.flows[g]) \in Nat
      BY RowBytesType DEF Within
    <2>2. CASE g # f
      <3>1. e.contribs[g] = d.contribs[g] /\ e.flows[g] = d.flows[g]
        BY <1>3, <1>4, <1>9, <2>2
      <3>2. Counted(e, g) = Counted(d, g)
        BY <1>1, <3>1, CountedSame
      <3>3. QED
        BY <2>1, <3>1, <3>2
    <2>3. CASE g = f
      <3>1. Counted(e, f) = Counted(d, f) + delta
        <4>1. CASE delta = 0
          <5>1. e.contribs = d.contribs
            BY <1>3, <4>1
          <5>2. Counted(e, f) = Counted(d, f)
            BY <1>1, <1>2, <5>1, CountedSame
          <5>3. QED
            BY <2>1, <2>3, <4>1, <5>2
        <4>2. CASE delta # 0
          <5>1. e.contribs[f] = rows
            BY <1>2, <1>3, <1>9, <4>2
          <5>2. BytesOf(e.contribs[f][s]) = BytesOf(d.contribs[f][s]) + delta
            BY <1>7, <1>8, <5>1 DEF old
          <5>3. \A t \in Minutes \ {s} : BytesOf(e.contribs[f][t]) = BytesOf(d.contribs[f][t])
            BY <1>8, <5>1
          <5>4. QED
            BY <1>1, <1>2, <5>2, <5>3, CountedAdds
        <4>3. QED
          BY <4>1, <4>2
      <3>2. BytesOf(e.flows[f]) = BytesOf(d.flows[f]) + delta
        BY <1>2, <1>4, <1>7, <1>9 DEF f
      <3>3. QED
        BY <2>1, <2>3, <3>1, <3>2
    <2>4. QED
      BY <2>2, <2>3
  <1>11. QED
    BY <1>10 DEF Within, e

LEMMA UpsertWithin ==
    ASSUME NEW d \in Database, NEW o \in Observation, ~UpsertFails(d, o), Within(d)
    PROVE  Within(UpsertFlow(d, o))
  <1> DEFINE f == o.flow
             a == EffectiveAttribution(StoredAttr(d, f), o.attr)
             r == IF Relabels(d, o) THEN Reconcile(d, f, a) ELSE d
  <1>1. f \in FlowIds /\ o.attr \in Attribution \cup {None} /\ o.bytes \in Nat
    BY DEF Observation
  <1>2. a \in Attribution \cup {None}
    BY <1>1, StoredAttrType, EffectiveType
  <1>3. Relabels(d, o) => /\ d.flows[f] # None /\ a \in Attribution
                          /\ CanReconcile(d, f, a)
    BY <1>2 DEF UpsertFails, Relabels
  <1>4. r \in Database /\ r.flows = d.flows /\ Within(r)
    <2>1. CASE Relabels(d, o)
      BY <1>1, <1>3, <2>1, ReconcileType, ReconcileRows, ReconcileWithin
    <2>2. CASE ~Relabels(d, o)
      BY <2>2
    <2>3. QED
      BY <2>1, <2>2
  <1>5. UpsertFlow(d, o) = Charge(r, o, a, Delta(d, o))
    BY DEF UpsertFlow
  <1>6. Delta(d, o) \in Nat
    BY DeltaType
  <1>7. o.bytes = BytesOf(r.flows[f]) + Delta(d, o)
    <2>1. BytesOf(d.flows[f]) \in Nat
      BY <1>1, RowBytesType
    <2>2. Delta(d, o) = o.bytes - BytesOf(d.flows[f])
      BY DEF Delta, BytesOf
    <2> HIDE DEF r
    <2>3. QED
      BY <1>1, <1>4, <2>1, <2>2
  <1> HIDE DEF a, r
  <1>8. QED
    BY <1>2, <1>4, <1>5, <1>6, <1>7, ChargeWithin

LEMMA BackfillWithin ==
    ASSUME NEW d \in Database, NEW f \in FlowIds, NEW b \in Binding,
           f \in Pending(d, b), CanReconcile(d, f, b.attr), Within(d)
    PROVE  Within(BackfillFlow(d, f, b))
  <1> DEFINE r == Reconcile(d, f, b.attr)
             row == [d.flows[f] EXCEPT !.attr = b.attr]
             e == BackfillFlow(d, f, b)
  <1>1. b.attr \in Attribution /\ d.flows[f] # None /\ d.flows[f] \in FlowRow
    BY DEF Binding, Pending, Matches, Database
  <1>2. r \in Database /\ Within(r) /\ r.flows = d.flows
    BY <1>1, ReconcileType, ReconcileWithin, ReconcileRows
  <1>3. e = [r EXCEPT !.flows = [r.flows EXCEPT ![f] = row]] /\ e \in Database
    BY BackfillType DEF BackfillFlow
  <1>4. BytesOf(row) = BytesOf(d.flows[f])
    <2>1. row \in FlowRow /\ row.bytes = d.flows[f].bytes
      BY <1>1 DEF FlowRow
    <2> HIDE DEF row
    <2>2. QED
      BY <1>1, <2>1, RowsNotNone DEF BytesOf
  <1>5. DOMAIN d.flows = FlowIds
    BY DEF Database
  <1> HIDE DEF r, row, e
  <1>6. e.contribs = r.contribs /\ e.flows = [d.flows EXCEPT ![f] = row]
    BY <1>2, <1>3 DEF Database
  <1>7. ASSUME NEW g \in FlowIds PROVE Counted(e, g) <= BytesOf(e.flows[g])
    <2>1. Counted(e, g) = Counted(r, g)
      BY <1>2, <1>3, <1>6, CountedSame
    <2>2. BytesOf(e.flows[g]) = BytesOf(r.flows[g])
      BY <1>2, <1>4, <1>5, <1>6
    <2>3. Counted(r, g) <= BytesOf(r.flows[g])
      BY <1>2 DEF Within
    <2>4. QED
      BY <2>1, <2>2, <2>3
  <1>8. QED
    BY <1>7 DEF Within, e

LEMMA ErasureWithin ==
    ASSUME NEW d \in Database, NEW e \in Database, Within(d), Erasure(e, d), LedgerAgrees(e)
    PROVE  Within(e)
  <1> SUFFICES ASSUME NEW f \in FlowIds PROVE Counted(e, f) <= BytesOf(e.flows[f])
    BY DEF Within
  <1>1. CASE e.flows[f] = None
    <2>1. \A t \in Minutes : e.contribs[f][t] = None
      BY <1>1 DEF LedgerAgrees
    <2>2. Counted(e, f) = 0
      BY <2>1, CountedNone
    <2>3. QED
      BY <1>1, <2>2 DEF BytesOf
  <1>2. CASE e.flows[f] # None
    <2>1. BytesOf(e.flows[f]) = BytesOf(d.flows[f])
      BY <1>2 DEF Erasure, BytesOf
    <2>2. Counted(e, f) <= Counted(d, f)
      BY CountedDrop DEF Erasure
    <2>3. Counted(d, f) <= BytesOf(d.flows[f])
      BY DEF Within
    <2>4. Counted(e, f) \in Nat /\ Counted(d, f) \in Nat /\ BytesOf(d.flows[f]) \in Nat
      BY RowBytesType
    <2>5. QED
      BY <2>1, <2>2, <2>3, <2>4
  <1>3. QED
    BY <1>1, <1>2

LEMMA NextWithin ==
    CoverInv /\ LedgerAgreesWithFlow' /\ Within(db) /\ Within(work) /\ [Next]_vars =>
        Within(db') /\ Within(work')
  <1> SUFFICES ASSUME CoverInv, LedgerAgreesWithFlow', Within(db), Within(work), [Next]_vars
               PROVE  Within(db') /\ Within(work')
    OBVIOUS
  <1>0. TypeOK /\ SweepInv /\ LedgerAgreesWithFlow /\ db \in Database /\ work \in Database
    BY DEF CoverInv, TypeOK
  <1>1. CASE UNCHANGED <<db, work>> \/ Commit \/ Rollback
    BY <1>1 DEF Commit, Rollback
  <1>2. ASSUME NEW o \in Reported, UpsertStep(o) PROVE Within(db') /\ Within(work')
    BY <1>0, <1>2, ReportedType, UpsertWithin DEF UpsertStep
  <1>3. ASSUME NEW f \in FlowIds, BackfillStep(f) PROVE Within(db') /\ Within(work')
    <2>1. binding \in Binding
      BY <1>0, <1>3, InputAssumption DEF BackfillStep, TypeOK
    <2>2. QED
      BY <1>0, <1>3, <2>1, BackfillWithin DEF BackfillStep
  <1>4. CASE ErasesRows
    <2>1. PICK d \in Database : Apply(d) /\ Erasure(d, db)
      BY <1>4 DEF ErasesRows
    <2>2. db' = d /\ work' = d
      BY <2>1 DEF Apply
    <2>3. LedgerAgrees(d)
      BY <2>2 DEF LedgerAgreesWithFlow, LedgerAgrees
    <2>4. Within(d)
      BY <1>0, <2>1, <2>3, ErasureWithin
    <2>5. QED
      BY <2>2, <2>4
  <1>5. QED
    BY <1>0, <1>1, <1>2, <1>3, <1>4, StepKinds

LEMMA WithinInvariant == Spec => [](Within(db) /\ Within(work))
  <1>1. Init => Within(db) /\ Within(work)
    <2> SUFFICES ASSUME Init, NEW f \in FlowIds PROVE Counted(db, f) <= BytesOf(db.flows[f])
      BY DEF Init, Within
    <2>1. PICK attr \in [LegacyFlows -> Attributions \cup {None}] : db = LegacyDatabase(attr)
      BY DEF Init
    <2>2. db \in Database
      BY <2>1, LegacyType
    <2>3. \A t \in Minutes : db.contribs[f][t] = None
      BY <2>1 DEF LegacyDatabase
    <2>4. Counted(db, f) = 0 /\ BytesOf(db.flows[f]) \in Nat
      BY <2>2, <2>3, CountedNone, RowBytesType
    <2>5. QED
      BY <2>4
  <1>2. ASSUME CoverInv, LedgerAgreesWithFlow', Within(db), Within(work), [Next]_vars
        PROVE  (Within(db) /\ Within(work))'
    <2>1. PICK d : d = db'
      OBVIOUS
    <2>2. PICK w : w = work'
      OBVIOUS
    <2>3. Within(d) /\ Within(w)
      BY <1>2, <2>1, <2>2, NextWithin
    <2>4. QED
      BY <2>1, <2>2, <2>3 DEF Within, Counted, BytesOf
  <1>3. QED
    BY <1>1, <1>2, CoverInvariant, LedgerAgreement, PTL DEF Spec

\* A flow's ledger never holds more bytes than the flow counted: neither the
\* baseline of a legacy flow nor the increments after it charge a byte twice.
THEOREM LedgerStaysWithin == Spec => []LedgerWithinFlow
  <1>1. Within(db) => LedgerWithinFlow
    BY DEF Within, LedgerWithinFlow
  <1>2. QED
    BY <1>1, WithinInvariant, PTL

-----------------------------------------------------------------------------
(* A relabelling never fails, and backfills are confluent.                  *)

\* What one flow takes out of an aggregate is part of what the ledger holds.
LEMMA CoversReconcile ==
    ASSUME NEW d \in Database, NEW f \in FlowIds, NEW a \in Attribution,
           d.flows[f] # None, Covers(d)
    PROVE  CanReconcile(d, f, a)
  <1> DEFINE rows == WithBaseline(d, f)
             mac == ClientMac[f]
  <1> SUFFICES ASSUME NEW t \in Minutes, Conflicts(rows[t], a.domain)
               PROVE  d.domainMin[mac][rows[t].attr.domain][t] >= rows[t].bytes
    BY DEF CanReconcile
  <1>1. rows[t] \in Contribution /\ rows[t].attr # None
    BY BaselineType
  <1>2. rows[t] = d.contribs[f][t]
    <2> DEFINE row == [bytes |-> d.flows[f].bytes, attr |-> None]
               s == Minute(d.flows[f].lastSeen)
    <2>1. rows = IF NeedsBaseline(d, f) THEN [d.contribs[f] EXCEPT ![s] = row] ELSE d.contribs[f]
      BY DEF WithBaseline
    <2>2. row.attr = None /\ DOMAIN d.contribs[f] = Minutes
      BY DEF Database
    <2> HIDE DEF row, s, rows
    <2>3. QED
      BY <1>1, <2>1, <2>2
  <1> DEFINE dom == rows[t].attr.domain
             p == Shares(d, mac, dom, t)
  <1>3. mac \in Macs /\ dom \in Domains
    BY <1>1, IdentityAssumption DEF Contribution, Attribution
  <1>4. \A g \in FlowIds : p[g] \in Nat
    BY ShareType DEF Shares
  <1>5. p[f] = rows[t].bytes
    BY <1>1, <1>2, RowsNotNone DEF Shares, Share
  <1>6. LedgerBytes(d, mac, dom, t) = SumFunctionOnSet(p, FlowIds)
    BY LedgerBytesIs
  <1> HIDE DEF p, dom, rows, mac
  <1>7. /\ SumFunctionOnSet(p, FlowIds) = p[f] + SumFunctionOnSet(p, FlowIds \ {f})
        /\ SumFunctionOnSet(p, FlowIds \ {f}) \in Nat
    <2>1. IsFiniteSet(FlowIds \ {f})
      BY IdentityAssumption, FS_RemoveElement
    <2>2. \A g \in FlowIds : p[g] \in Int
      BY <1>4
    <2>3. QED
      BY <1>4, <2>1, <2>2, IdentityAssumption, SumStep, SumType
  <1>8. Slack(d, mac, dom, t) >= 0
    BY <1>3 DEF Covers
  <1>9. d.domainMin[mac][dom][t] >= p[f]
    BY <1>3, <1>4, <1>6, <1>7, <1>8, SlackType
  <1>10. QED
    BY <1>5, <1>9 DEF dom

\* subtract_domain_minute_bytes never fails a batch or a backfill.
THEOREM SubtractionNeverFails ==
    Spec => [](\A f \in FlowIds, a \in Attribution : work.flows[f] # None => CanReconcile(work, f, a))
  <1>1. ASSUME CoverInv
        PROVE  \A f \in FlowIds, a \in Attribution : work.flows[f] # None => CanReconcile(work, f, a)
    <2>1. work \in Database /\ Covers(work)
      BY <1>1 DEF CoverInv, TypeOK, Covers, SameSlack
    <2>2. QED
      BY <2>1, CoversReconcile
  <1>2. QED
    BY <1>1, CoverInvariant, PTL

\* Relabelling flow f with a, as a backfill does.
Relabelled(d, f, a) == [Reconcile(d, f, a) EXCEPT !.flows[f] = [d.flows[f] EXCEPT !.attr = a]]

LEMMA RelabelledFields ==
    ASSUME NEW d \in Database, NEW f \in FlowIds, NEW a \in Attribution, d.flows[f] # None
    PROVE  Relabelled(d, f, a) =
             [devices |-> d.devices,
              flows |-> [d.flows EXCEPT ![f] = [d.flows[f] EXCEPT !.attr = a]],
              contribs |-> [d.contribs EXCEPT ![f] = [t \in Minutes |->
                  IF WithBaseline(d, f)[t] = None THEN None
                  ELSE [bytes |-> WithBaseline(d, f)[t].bytes, attr |-> a]]],
              deviceMin |-> d.deviceMin,
              domainMin |-> [d.domainMin EXCEPT ![ClientMac[f]] =
                  [dom \in Domains |-> [t \in Minutes |->
                      d.domainMin[ClientMac[f]][dom][t] + Moved(WithBaseline(d, f)[t], dom, a)]]]]
  <1> DEFINE rows == WithBaseline(d, f)
             mac == ClientMac[f]
             row == [d.flows[f] EXCEPT !.attr = a]
             newRows == [t \in Minutes |->
                 IF rows[t] = None THEN None ELSE [bytes |-> rows[t].bytes, attr |-> a]]
             newDoms == [dom \in Domains |-> [t \in Minutes |->
                 d.domainMin[mac][dom][t] + Moved(rows[t], dom, a)]]
             r == [d EXCEPT !.contribs[f] = newRows, !.domainMin[mac] = newDoms]
  <1>1. Reconcile(d, f, a) = r
    BY DEF Reconcile
  <1>2. Relabelled(d, f, a) = [r EXCEPT !.flows[f] = row]
    BY <1>1 DEF Relabelled
  <1> HIDE DEF newRows, newDoms, row, rows, mac
  <1>3. r = [devices |-> d.devices, flows |-> d.flows,
             contribs |-> [d.contribs EXCEPT ![f] = newRows], deviceMin |-> d.deviceMin,
             domainMin |-> [d.domainMin EXCEPT ![mac] = newDoms]]
    <2> DEFINE C == [d.contribs EXCEPT ![f] = newRows]
               D == [d.domainMin EXCEPT ![mac] = newDoms]
    <2>1. r = [d EXCEPT !.contribs = C, !.domainMin = D]
      OBVIOUS
    <2> HIDE DEF r, C, D
    <2>2. r = [devices |-> d.devices, flows |-> d.flows, contribs |-> C,
               deviceMin |-> d.deviceMin, domainMin |-> D]
      BY <2>1 DEF Database
    <2>3. QED
      BY <2>2 DEF C, D
  <1> HIDE DEF r
  <1>4. Relabelled(d, f, a) =
            [devices |-> d.devices, flows |-> [d.flows EXCEPT ![f] = row],
             contribs |-> [d.contribs EXCEPT ![f] = newRows], deviceMin |-> d.deviceMin,
             domainMin |-> [d.domainMin EXCEPT ![mac] = newDoms]]
    BY <1>2, <1>3
  <1>5. QED
    BY <1>4 DEF row, newRows, newDoms, rows, mac

\* A relabelling over another leaves what the second alone would have left.
LEMMA MovedTwice ==
    ASSUME NEW c \in Contribution \cup {None}, NEW dom \in Domains,
           NEW a \in Attribution, NEW b \in Attribution, NEW relabelled,
           relabelled = IF c = None THEN None ELSE [bytes |-> c.bytes, attr |-> a]
    PROVE  /\ relabelled \in Contribution \cup {None}
           /\ Moved(c, dom, a) + Moved(relabelled, dom, b) = Moved(c, dom, b)
           /\ (IF relabelled = None THEN None ELSE [bytes |-> relabelled.bytes, attr |-> b])
                = (IF c = None THEN None ELSE [bytes |-> c.bytes, attr |-> b])
  <1>1. CASE c = None
    BY <1>1 DEF Moved
  <1>2. CASE c # None
    <2>1. c.bytes \in Nat
      BY <1>2 DEF Contribution
    <2>2. relabelled = [bytes |-> c.bytes, attr |-> a] /\ relabelled \in Contribution
      BY <1>2 DEF Contribution
    <2>3. relabelled # None /\ relabelled.bytes = c.bytes /\ relabelled.attr = a /\ a # None
      BY <2>2, RowsNotNone
    <2>4. Moved(c, dom, a) + Moved(relabelled, dom, b) = Moved(c, dom, b)
      BY <1>2, <2>1, <2>3 DEF Moved
    <2>5. QED
      BY <1>2, <2>2, <2>3, <2>4
  <1>3. QED
    BY <1>1, <1>2

LEMMA RelabelledTwice ==
    ASSUME NEW d \in Database, NEW f \in FlowIds, d.flows[f] # None,
           NEW a \in Attribution, NEW b \in Attribution, Relabelled(d, f, a) \in Database
    PROVE  Relabelled(Relabelled(d, f, a), f, b) = Relabelled(d, f, b)
  <1> DEFINE e == Relabelled(d, f, a)
             mac == ClientMac[f]
             rows == WithBaseline(d, f)
             rowsOf(x) == [t \in Minutes |->
                 IF rows[t] = None THEN None ELSE [bytes |-> rows[t].bytes, attr |-> x]]
             domsOf(x) == [dom \in Domains |-> [t \in Minutes |->
                 d.domainMin[mac][dom][t] + Moved(rows[t], dom, x)]]
             flowOf(x) == [d.flows[f] EXCEPT !.attr = x]
  <1>1. e = [devices |-> d.devices, flows |-> [d.flows EXCEPT ![f] = flowOf(a)],
             contribs |-> [d.contribs EXCEPT ![f] = rowsOf(a)], deviceMin |-> d.deviceMin,
             domainMin |-> [d.domainMin EXCEPT ![mac] = domsOf(a)]]
    BY RelabelledFields
  <1>2. Relabelled(d, f, b) =
            [devices |-> d.devices, flows |-> [d.flows EXCEPT ![f] = flowOf(b)],
             contribs |-> [d.contribs EXCEPT ![f] = rowsOf(b)], deviceMin |-> d.deviceMin,
             domainMin |-> [d.domainMin EXCEPT ![mac] = domsOf(b)]]
    BY RelabelledFields
  <1>3. rows \in [Minutes -> Contribution \cup {None}] /\ d.flows[f] \in FlowRow /\ mac \in Macs
    BY BaselineType, IdentityAssumption DEF Database
  <1>4. flowOf(a) \in FlowRow /\ flowOf(a).attr = a /\ flowOf(a) # None
    BY <1>3, RowsNotNone DEF FlowRow
  <1>5. [flowOf(a) EXCEPT !.attr = b] = flowOf(b)
    BY <1>3 DEF FlowRow
  <1> HIDE DEF e, flowOf, rowsOf, domsOf, rows, mac
  <1>6. /\ e.flows[f] = flowOf(a) /\ e.contribs[f] = rowsOf(a)
        /\ e.domainMin[mac] = domsOf(a)
    BY <1>1, <1>3 DEF Database
  <1>7. WithBaseline(e, f) = rowsOf(a)
    <2>1. ~NeedsBaseline(e, f)
      BY <1>4, <1>6, RowsNotNone DEF NeedsBaseline
    <2>2. QED
      BY <1>6, <2>1 DEF WithBaseline
  <1>8. ASSUME NEW t \in Minutes
        PROVE  /\ (IF rowsOf(a)[t] = None THEN None
                   ELSE [bytes |-> rowsOf(a)[t].bytes, attr |-> b]) = rowsOf(b)[t]
               /\ \A dom \in Domains : domsOf(a)[dom][t] + Moved(rowsOf(a)[t], dom, b) = domsOf(b)[dom][t]
    <2>1. rows[t] \in Contribution \cup {None}
      BY <1>3
    <2>2. /\ rowsOf(a)[t] = IF rows[t] = None THEN None ELSE [bytes |-> rows[t].bytes, attr |-> a]
          /\ rowsOf(b)[t] = IF rows[t] = None THEN None ELSE [bytes |-> rows[t].bytes, attr |-> b]
      BY DEF rowsOf
    <2>3. ASSUME NEW dom \in Domains
          PROVE  domsOf(a)[dom][t] + Moved(rowsOf(a)[t], dom, b) = domsOf(b)[dom][t]
      <3>1. Moved(rows[t], dom, a) + Moved(rowsOf(a)[t], dom, b) = Moved(rows[t], dom, b)
        BY <2>1, <2>2, MovedTwice
      <3>2. /\ domsOf(a)[dom][t] = d.domainMin[mac][dom][t] + Moved(rows[t], dom, a)
            /\ domsOf(b)[dom][t] = d.domainMin[mac][dom][t] + Moved(rows[t], dom, b)
        BY DEF domsOf
      <3>3. rowsOf(a)[t] \in Contribution \cup {None}
        BY <2>1, <2>2, MovedTwice
      <3>4. d.domainMin[mac][dom][t] \in Nat
        BY <1>3 DEF Database
      <3>5. Moved(rows[t], dom, a) \in Int
        BY <2>1, MovedType
      <3>6. Moved(rowsOf(a)[t], dom, b) \in Int
        BY <3>3, MovedType
      <3>7. QED
        BY <3>1, <3>2, <3>4, <3>5, <3>6
    <2>4. (IF rowsOf(a)[t] = None THEN None ELSE [bytes |-> rowsOf(a)[t].bytes, attr |-> b])
            = rowsOf(b)[t]
      <3>1. CASE rows[t] = None
        BY <2>2, <3>1
      <3>2. CASE rows[t] # None
        <4>1. [bytes |-> rows[t].bytes, attr |-> a] \in Contribution
          BY <2>1, <3>2 DEF Contribution
        <4>2. rowsOf(a)[t] # None /\ rowsOf(a)[t].bytes = rows[t].bytes
          BY <2>2, <3>2, <4>1, RowsNotNone
        <4>3. QED
          BY <2>2, <3>2, <4>2
      <3>3. QED
        BY <3>1, <3>2
    <2>5. QED
      BY <2>3, <2>4
  <1>9. [t \in Minutes |-> IF rowsOf(a)[t] = None THEN None
                           ELSE [bytes |-> rowsOf(a)[t].bytes, attr |-> b]] = rowsOf(b)
    <2>1. rowsOf(b) = [t \in Minutes |-> rowsOf(b)[t]]
      BY DEF rowsOf
    <2>2. QED
      BY <1>8, <2>1
  <1>10. [dom \in Domains |-> [t \in Minutes |->
             domsOf(a)[dom][t] + Moved(rowsOf(a)[t], dom, b)]] = domsOf(b)
    <2>1. domsOf(b) = [dom \in Domains |-> [t \in Minutes |-> domsOf(b)[dom][t]]]
      BY DEF domsOf
    <2>2. QED
      BY <1>8, <2>1
  <1>11. Relabelled(e, f, b) =
            [devices |-> e.devices, flows |-> [e.flows EXCEPT ![f] = [e.flows[f] EXCEPT !.attr = b]],
             contribs |-> [e.contribs EXCEPT ![f] = rowsOf(b)], deviceMin |-> e.deviceMin,
             domainMin |-> [e.domainMin EXCEPT ![mac] = domsOf(b)]]
    <2>1. e \in Database /\ e.flows[f] # None
      BY <1>4, <1>6 DEF e
    <2>2. QED
      BY <1>6, <1>7, <1>9, <1>10, <2>1, RelabelledFields DEF mac
  <1>12. /\ [e.flows EXCEPT ![f] = flowOf(b)] = [d.flows EXCEPT ![f] = flowOf(b)]
         /\ [e.contribs EXCEPT ![f] = rowsOf(b)] = [d.contribs EXCEPT ![f] = rowsOf(b)]
         /\ [e.domainMin EXCEPT ![mac] = domsOf(b)] = [d.domainMin EXCEPT ![mac] = domsOf(b)]
    BY <1>1, <1>3 DEF Database
  <1>13. QED
    BY <1>1, <1>2, <1>5, <1>6, <1>11, <1>12 DEF e

\* A backfill of a flow it is pending for is a relabelling, and keeps the covers.
LEMMA BackfilledPending ==
    ASSUME NEW d \in Database, Covers(d), NEW f \in FlowIds, NEW b \in Binding, f \in Pending(d, b)
    PROVE  /\ Backfilled(d, f, b) = Relabelled(d, f, b.attr)
           /\ Backfilled(d, f, b) \in Database
           /\ Covers(Backfilled(d, f, b))
           /\ Backfilled(d, f, b).flows[f] # None
           /\ Backfilled(d, f, b).flows[f].lastSeen = d.flows[f].lastSeen
           /\ StoredAttr(Backfilled(d, f, b), f) = b.attr
  <1> DEFINE e == Backfilled(d, f, b)
  <1>1. b.attr \in Attribution /\ d.flows[f] # None /\ d.flows[f] \in FlowRow
    BY DEF Binding, Pending, Matches, Database
  <1>2. CanReconcile(d, f, b.attr)
    BY <1>1, CoversReconcile
  <1>3. e = BackfillFlow(d, f, b)
    BY DEF Backfilled
  <1>4. e \in Database
    BY <1>2, <1>3, BackfillType
  <1>5. SameSlack(e, d)
    BY <1>2, <1>3, BackfillSlack
  <1>6. Covers(e)
    BY <1>5 DEF Covers, SameSlack
  <1>7. e = Relabelled(d, f, b.attr)
    BY <1>2, <1>3, BackfillType DEF BackfillFlow, Relabelled
  <1> HIDE DEF e
  <1>8. e.flows = [d.flows EXCEPT ![f] = [d.flows[f] EXCEPT !.attr = b.attr]]
    <2>1. PICK rows, doms : Relabelled(d, f, b.attr) =
              [devices |-> d.devices,
               flows |-> [d.flows EXCEPT ![f] = [d.flows[f] EXCEPT !.attr = b.attr]],
               contribs |-> rows, deviceMin |-> d.deviceMin, domainMin |-> doms]
      BY <1>1, RelabelledFields
    <2>2. QED
      BY <1>7, <2>1
  <1>9. e.flows[f] = [d.flows[f] EXCEPT !.attr = b.attr]
    BY <1>8 DEF Database
  <1>10. [d.flows[f] EXCEPT !.attr = b.attr] \in FlowRow
    BY <1>1 DEF FlowRow
  <1>11. e.flows[f] # None
    BY <1>9, <1>10, RowsNotNone
  <1>12. e.flows[f].lastSeen = d.flows[f].lastSeen /\ e.flows[f].attr = b.attr
    BY <1>1, <1>9 DEF FlowRow
  <1>13. QED
    BY <1>4, <1>6, <1>7, <1>11, <1>12 DEF e

LEMMA BackfilledType ==
    ASSUME NEW d \in Database, Covers(d), NEW f \in FlowIds, NEW b \in Binding
    PROVE  Backfilled(d, f, b) \in Database /\ Covers(Backfilled(d, f, b))
  <1>1. CASE f \in Pending(d, b)
    BY <1>1, BackfilledPending
  <1>2. CASE f \notin Pending(d, b)
    BY <1>2 DEF Backfilled
  <1>3. QED
    BY <1>1, <1>2

\* A backfill leaves what the next binding is matched against.
LEMMA MatchesStays ==
    ASSUME NEW d \in Database, Covers(d), NEW f \in FlowIds, NEW b \in Binding, NEW c \in Binding
    PROVE  Matches(Backfilled(d, f, b), f, c) <=> Matches(d, f, c)
  <1>1. CASE f \in Pending(d, b)
    <2>1. d.flows[f] # None
      BY <1>1 DEF Pending, Matches
    <2>2. QED
      BY <1>1, <2>1, BackfilledPending DEF Matches
  <1>2. CASE f \notin Pending(d, b)
    BY <1>2 DEF Backfilled
  <1>3. QED
    BY <1>1, <1>2

LEMMA BackfilledTwice ==
    ASSUME NEW d \in Database, Covers(d), NEW f \in FlowIds, NEW b \in Binding
    PROVE  Backfilled(Backfilled(d, f, b), f, b) = Backfilled(d, f, b)
  <1> DEFINE e == Backfilled(d, f, b)
  <1>1. CASE f \in Pending(d, b)
    <2>1. StoredAttr(e, f) = b.attr
      BY <1>1, BackfilledPending
    <2>2. EffectiveAttribution(b.attr, b.attr) = b.attr
      BY DEF EffectiveAttribution
    <2> HIDE DEF e, StoredAttr
    <2>3. f \notin Pending(e, b)
      BY <2>1, <2>2 DEF Pending
    <2>4. QED
      BY <2>3 DEF Backfilled, e
  <1>2. CASE f \notin Pending(d, b)
    BY <1>2 DEF Backfilled
  <1>3. QED
    BY <1>1, <1>2

LEMMA AtLeastOrders ==
    ASSUME NEW a \in Attribution, NEW b \in Attribution, NEW c \in Attribution
    PROVE  /\ AtLeast(a, b) \/ AtLeast(b, a)
           /\ AtLeast(a, b) /\ AtLeast(b, c) => AtLeast(a, c)
  BY RankType DEF AtLeast

\* A stronger and a weaker binding commute: the stronger one always wins.
LEMMA StrongerFirst ==
    ASSUME NEW d \in Database, Covers(d), NEW f \in FlowIds, NEW b \in Binding, NEW c \in Binding,
           AtLeast(b.attr, c.attr), ~AtLeast(c.attr, b.attr)
    PROVE  Backfilled(Backfilled(d, f, b), f, c) = Backfilled(Backfilled(d, f, c), f, b)
  <1> DEFINE first == Backfilled(d, f, b)
             other == Backfilled(d, f, c)
             s == StoredAttr(d, f)
  <1>1. b.attr \in Attribution /\ c.attr \in Attribution /\ b.attr # c.attr
    BY DEF Binding
  <1>2. s \in Attribution \cup {None}
    BY StoredAttrType
  <1>3. first \in Database /\ other \in Database
    BY BackfilledType
  <1>4. f \in Pending(d, c) => StoredAttr(other, f) = c.attr
    BY BackfilledPending
  <1>5. f \in Pending(d, b) => StoredAttr(first, f) = b.attr
    BY BackfilledPending
  <1>6. Matches(other, f, b) <=> Matches(d, f, b)
    BY MatchesStays
  <1> HIDE DEF StoredAttr, first, other, s
  <1>7. CASE f \notin Pending(d, b)
    <2>1. first = d
      BY <1>7 DEF first, Backfilled
    <2>2. f \notin Pending(other, b)
      <3>1. CASE ~Matches(d, f, b)
        BY <1>6, <3>1 DEF Pending
      <3>2. CASE f \notin Pending(d, c)
        BY <1>7, <3>2 DEF other, Backfilled
      <3>3. CASE Matches(d, f, b) /\ f \in Pending(d, c)
        <4>1. EffectiveAttribution(s, b.attr) = s
          BY <1>7, <3>3 DEF Pending, s
        <4>2. EffectiveAttribution(s, c.attr) # s
          BY <3>3 DEF Pending, s
        <4>3. s # None
          BY <1>1, <4>1, RowsNotNone DEF EffectiveAttribution
        <4>4. AtLeast(c.attr, s)
          BY <4>2, <4>3 DEF EffectiveAttribution
        <4>5. AtLeast(b.attr, s)
          BY <1>1, <1>2, <4>3, <4>4, AtLeastOrders
        <4>6. b.attr = s
          BY <1>1, <4>1, <4>5, RowsNotNone DEF EffectiveAttribution
        <4>7. QED
          BY <4>4, <4>6
      <3>4. QED
        BY <3>1, <3>2, <3>3
    <2>3. Backfilled(other, f, b) = other
      BY <2>2 DEF Backfilled
    <2>4. QED
      BY <2>1, <2>3 DEF first, other
  <1>8. CASE f \in Pending(d, b)
    <2>1. EffectiveAttribution(b.attr, c.attr) = b.attr
      BY <1>1, RowsNotNone DEF EffectiveAttribution
    <2>2. f \notin Pending(first, c)
      BY <1>5, <1>8, <2>1 DEF Pending
    <2>3. Backfilled(first, f, c) = first
      BY <2>2 DEF Backfilled
    <2>4. first = Relabelled(d, f, b.attr)
      BY <1>8, BackfilledPending DEF first
    <2>5. CASE f \notin Pending(d, c)
      <3>1. other = d
        BY <2>5 DEF other, Backfilled
      <3>2. QED
        BY <2>3, <3>1 DEF first, other
    <2>6. CASE f \in Pending(d, c)
      <3>1. other = Relabelled(d, f, c.attr) /\ Covers(other)
        BY <2>6, BackfilledPending DEF other
      <3>2. Matches(other, f, b)
        BY <1>6, <1>8 DEF Pending
      <3>3. EffectiveAttribution(c.attr, b.attr) = b.attr
        BY <1>1, RowsNotNone DEF EffectiveAttribution
      <3>4. f \in Pending(other, b)
        BY <1>1, <1>4, <2>6, <3>2, <3>3 DEF Pending
      <3>5. Backfilled(other, f, b) = Relabelled(other, f, b.attr)
        BY <1>3, <3>1, <3>4, BackfilledPending
      <3>6. d.flows[f] # None
        BY <1>8 DEF Pending, Matches
      <3>7. Relabelled(d, f, c.attr) \in Database
        BY <1>3, <3>1
      <3>8. Relabelled(Relabelled(d, f, c.attr), f, b.attr) = Relabelled(d, f, b.attr)
        BY <1>1, <3>6, <3>7, RelabelledTwice
      <3>9. QED
        BY <2>3, <2>4, <3>1, <3>5, <3>8 DEF first, other
    <2>7. QED
      BY <2>5, <2>6
  <1>9. QED
    BY <1>7, <1>8

\* A repeated backfill changes nothing, and two bindings that do not tie leave
\* the same flow, ledger and aggregates whichever is applied first.
THEOREM BackfillsCommute == Spec => []BackfillsConfluent
  <1>1. ASSUME CoverInv PROVE BackfillsConfluent
    <2> SUFFICES ASSUME NEW f \in FlowIds, NEW b \in Bindings, NEW c \in Bindings
                 PROVE  /\ Backfilled(Backfilled(db, f, b), f, b) = Backfilled(db, f, b)
                        /\ ~(AtLeast(b.attr, c.attr) /\ AtLeast(c.attr, b.attr)) =>
                               Backfilled(Backfilled(db, f, b), f, c) =
                                   Backfilled(Backfilled(db, f, c), f, b)
      BY DEF BackfillsConfluent
    <2>1. db \in Database /\ Covers(db)
      BY <1>1 DEF CoverInv, TypeOK
    <2>2. b \in Binding /\ c \in Binding
      BY InputAssumption
    <2>3. b.attr \in Attribution /\ c.attr \in Attribution
      BY <2>2 DEF Binding
    <2>4. Backfilled(Backfilled(db, f, b), f, b) = Backfilled(db, f, b)
      BY <2>1, <2>2, BackfilledTwice
    <2>5. CASE ~AtLeast(c.attr, b.attr)
      <3>1. AtLeast(b.attr, c.attr)
        BY <2>3, <2>5, AtLeastOrders
      <3>2. QED
        BY <2>1, <2>2, <2>4, <2>5, <3>1, StrongerFirst
    <2>6. CASE ~AtLeast(b.attr, c.attr)
      <3>1. AtLeast(c.attr, b.attr)
        BY <2>3, <2>6, AtLeastOrders
      <3>2. QED
        BY <2>1, <2>2, <2>4, <2>6, <3>1, StrongerFirst
    <2>7. QED
      BY <2>4, <2>5, <2>6
  <1>2. QED
    BY <1>1, CoverInvariant, PTL

-----------------------------------------------------------------------------
(* The write path implements FlowStore.                                     *)

\* Bytes of a flow that have a name.
NamedBytes(row) == IF row = None \/ row.attr = None THEN 0 ELSE row.bytes

Volume(d, m) == SumFunctionOnSet(d.deviceMin[m], Minutes)
Named(d, m, dom) == SumFunctionOnSet(d.domainMin[m][dom], Minutes)

FlowsOf(m) == {f \in FlowIds : ClientMac[f] = m}
Growth(e, d) == [f \in FlowIds |-> BytesOf(e.flows[f]) - BytesOf(d.flows[f])]
NamedGrowth(e, d) == [f \in FlowIds |-> NamedBytes(e.flows[f]) - NamedBytes(d.flows[f])]
DomainGrowth(e, d, m) == [dom \in Domains |-> Named(e, m, dom) - Named(d, m, dom)]

\* From d to e no flow counts back, each device is charged what its flows
\* grew by, and no more bytes are put under names than flows with a name grew
\* by or gained one.
Pays(e, d) ==
    /\ \A f \in FlowIds : d.flows[f] # None =>
           e.flows[f] # None /\ e.flows[f].bytes >= d.flows[f].bytes
    /\ \A m \in Macs :
           /\ Volume(e, m) - Volume(d, m) = SumFunctionOnSet(Growth(e, d), FlowsOf(m))
           /\ SumFunctionOnSet(DomainGrowth(e, d, m), Domains) <=
                  SumFunctionOnSet(NamedGrowth(e, d), FlowsOf(m))

LEMMA TotalsType ==
    ASSUME NEW d \in Database, NEW m \in Macs
    PROVE  /\ Volume(d, m) \in Nat
           /\ \A dom \in Domains : Named(d, m, dom) \in Nat
  <1>1. \A t \in Minutes : d.deviceMin[m][t] \in Nat
    BY DEF Database
  <1>2. \A dom \in Domains, t \in Minutes : d.domainMin[m][dom][t] \in Nat
    BY DEF Database
  <1>3. Volume(d, m) \in Nat
    BY <1>1, MinutesFinite, SumType DEF Volume
  <1>4. \A dom \in Domains : Named(d, m, dom) \in Nat
    BY <1>2, MinutesFinite, SumType DEF Named
  <1>5. QED
    BY <1>3, <1>4

LEMMA GrowthType ==
    ASSUME NEW d \in Database, NEW e \in Database
    PROVE  /\ \A f \in FlowIds :
                /\ BytesOf(d.flows[f]) \in Nat /\ BytesOf(e.flows[f]) \in Nat
                /\ NamedBytes(d.flows[f]) \in Nat /\ NamedBytes(e.flows[f]) \in Nat
                /\ Growth(e, d)[f] = BytesOf(e.flows[f]) - BytesOf(d.flows[f])
                /\ NamedGrowth(e, d)[f] = NamedBytes(e.flows[f]) - NamedBytes(d.flows[f])
                /\ Growth(e, d)[f] \in Int /\ NamedGrowth(e, d)[f] \in Int
           /\ \A m \in Macs, dom \in Domains :
                /\ DomainGrowth(e, d, m)[dom] = Named(e, m, dom) - Named(d, m, dom)
                /\ DomainGrowth(e, d, m)[dom] \in Int
           /\ \A m \in Macs :
                /\ SumFunctionOnSet(Growth(e, d), FlowsOf(m)) \in Int
                /\ SumFunctionOnSet(NamedGrowth(e, d), FlowsOf(m)) \in Int
                /\ SumFunctionOnSet(DomainGrowth(e, d, m), Domains) \in Int
  <1>1. ASSUME NEW f \in FlowIds
        PROVE  /\ BytesOf(d.flows[f]) \in Nat /\ BytesOf(e.flows[f]) \in Nat
               /\ NamedBytes(d.flows[f]) \in Nat /\ NamedBytes(e.flows[f]) \in Nat
    BY DEF BytesOf, NamedBytes, Database, FlowRow
  <1>2. ASSUME NEW f \in FlowIds
        PROVE  /\ Growth(e, d)[f] = BytesOf(e.flows[f]) - BytesOf(d.flows[f])
               /\ NamedGrowth(e, d)[f] = NamedBytes(e.flows[f]) - NamedBytes(d.flows[f])
    BY DEF Growth, NamedGrowth
  <1>3. \A f \in FlowIds : Growth(e, d)[f] \in Int /\ NamedGrowth(e, d)[f] \in Int
    BY <1>1, <1>2
  <1>4. ASSUME NEW m \in Macs, NEW dom \in Domains
        PROVE  /\ DomainGrowth(e, d, m)[dom] = Named(e, m, dom) - Named(d, m, dom)
               /\ DomainGrowth(e, d, m)[dom] \in Int
    <2>1. Named(e, m, dom) \in Nat /\ Named(d, m, dom) \in Nat
      BY TotalsType
    <2>2. DomainGrowth(e, d, m)[dom] = Named(e, m, dom) - Named(d, m, dom)
      BY DEF DomainGrowth
    <2>3. QED
      BY <2>1, <2>2
  <1>5. ASSUME NEW m \in Macs
        PROVE  /\ SumFunctionOnSet(Growth(e, d), FlowsOf(m)) \in Int
               /\ SumFunctionOnSet(NamedGrowth(e, d), FlowsOf(m)) \in Int
               /\ SumFunctionOnSet(DomainGrowth(e, d, m), Domains) \in Int
    <2>1. IsFiniteSet(FlowsOf(m)) /\ FlowsOf(m) \subseteq FlowIds
      BY FS_Subset, IdentityAssumption DEF FlowsOf
    <2>2. SumFunctionOnSet(Growth(e, d), FlowsOf(m)) \in Int
      BY <1>3, <2>1, SumType
    <2>3. SumFunctionOnSet(NamedGrowth(e, d), FlowsOf(m)) \in Int
      BY <1>3, <2>1, SumType
    <2>4. SumFunctionOnSet(DomainGrowth(e, d, m), Domains) \in Int
      BY <1>4, DomainAssumption, SumType
    <2>5. QED
      BY <2>2, <2>3, <2>4
  <1>6. QED
    BY <1>1, <1>2, <1>3, <1>4, <1>5

LEMMA PaysReflexive == ASSUME NEW d \in Database PROVE Pays(d, d)
  <1>1. ASSUME NEW f \in FlowIds, d.flows[f] # None PROVE d.flows[f].bytes >= d.flows[f].bytes
    BY <1>1 DEF Database, FlowRow
  <1>2. ASSUME NEW m \in Macs
        PROVE  /\ Volume(d, m) - Volume(d, m) = SumFunctionOnSet(Growth(d, d), FlowsOf(m))
               /\ SumFunctionOnSet(DomainGrowth(d, d, m), Domains) <=
                      SumFunctionOnSet(NamedGrowth(d, d), FlowsOf(m))
    <2>1. IsFiniteSet(FlowsOf(m)) /\ FlowsOf(m) \subseteq FlowIds
      BY FS_Subset, IdentityAssumption DEF FlowsOf
    <2>2. \A f \in FlowIds : Growth(d, d)[f] = 0 /\ NamedGrowth(d, d)[f] = 0
      BY GrowthType
    <2>3. \A dom \in Domains : DomainGrowth(d, d, m)[dom] = 0
      BY GrowthType, TotalsType
    <2>4. SumFunctionOnSet(Growth(d, d), FlowsOf(m)) = 0
      BY <2>1, <2>2, SumZero
    <2>5. SumFunctionOnSet(NamedGrowth(d, d), FlowsOf(m)) = 0
      BY <2>1, <2>2, SumZero
    <2>6. SumFunctionOnSet(DomainGrowth(d, d, m), Domains) = 0
      BY <2>3, DomainAssumption, SumZero
    <2>7. QED
      BY <2>4, <2>5, <2>6, TotalsType
  <1>3. QED
    BY <1>1, <1>2 DEF Pays

LEMMA PaysTransitive ==
    ASSUME NEW d \in Database, NEW e \in Database, NEW g \in Database, Pays(e, d), Pays(g, e)
    PROVE  Pays(g, d)
  <1>1. ASSUME NEW f \in FlowIds, d.flows[f] # None
        PROVE  g.flows[f] # None /\ g.flows[f].bytes >= d.flows[f].bytes
    <2>1. e.flows[f] # None /\ e.flows[f].bytes >= d.flows[f].bytes
      BY <1>1 DEF Pays
    <2>2. g.flows[f] # None /\ g.flows[f].bytes >= e.flows[f].bytes
      BY <2>1 DEF Pays
    <2>3. d.flows[f].bytes \in Nat /\ e.flows[f].bytes \in Nat /\ g.flows[f].bytes \in Nat
      BY <1>1, <2>1, <2>2 DEF Database, FlowRow
    <2>4. QED
      BY <2>1, <2>2, <2>3
  <1>2. ASSUME NEW m \in Macs
        PROVE  /\ Volume(g, m) - Volume(d, m) = SumFunctionOnSet(Growth(g, d), FlowsOf(m))
               /\ SumFunctionOnSet(DomainGrowth(g, d, m), Domains) <=
                      SumFunctionOnSet(NamedGrowth(g, d), FlowsOf(m))
    <2>1. IsFiniteSet(FlowsOf(m)) /\ FlowsOf(m) \subseteq FlowIds
      BY FS_Subset, IdentityAssumption DEF FlowsOf
    <2>2. \A f \in FlowIds : /\ Growth(e, d)[f] \in Int /\ Growth(g, e)[f] \in Int
                             /\ Growth(g, d)[f] = Growth(e, d)[f] + Growth(g, e)[f]
      <3> TAKE f \in FlowIds
      <3>1. /\ BytesOf(d.flows[f]) \in Nat /\ BytesOf(e.flows[f]) \in Nat /\ BytesOf(g.flows[f]) \in Nat
            /\ Growth(e, d)[f] = BytesOf(e.flows[f]) - BytesOf(d.flows[f])
            /\ Growth(g, e)[f] = BytesOf(g.flows[f]) - BytesOf(e.flows[f])
            /\ Growth(g, d)[f] = BytesOf(g.flows[f]) - BytesOf(d.flows[f])
        BY GrowthType
      <3>2. QED
        BY <3>1
    <2>3. \A f \in FlowIds : /\ NamedGrowth(e, d)[f] \in Int /\ NamedGrowth(g, e)[f] \in Int
                             /\ NamedGrowth(g, d)[f] = NamedGrowth(e, d)[f] + NamedGrowth(g, e)[f]
      <3> TAKE f \in FlowIds
      <3>1. /\ NamedBytes(d.flows[f]) \in Nat /\ NamedBytes(e.flows[f]) \in Nat
            /\ NamedBytes(g.flows[f]) \in Nat
            /\ NamedGrowth(e, d)[f] = NamedBytes(e.flows[f]) - NamedBytes(d.flows[f])
            /\ NamedGrowth(g, e)[f] = NamedBytes(g.flows[f]) - NamedBytes(e.flows[f])
            /\ NamedGrowth(g, d)[f] = NamedBytes(g.flows[f]) - NamedBytes(d.flows[f])
        BY GrowthType
      <3>2. QED
        BY <3>1
    <2>4. \A dom \in Domains :
              /\ DomainGrowth(e, d, m)[dom] \in Int /\ DomainGrowth(g, e, m)[dom] \in Int
              /\ DomainGrowth(g, d, m)[dom] = DomainGrowth(e, d, m)[dom] + DomainGrowth(g, e, m)[dom]
      <3> TAKE dom \in Domains
      <3>1. Named(d, m, dom) \in Nat /\ Named(e, m, dom) \in Nat /\ Named(g, m, dom) \in Nat
        BY TotalsType
      <3>2. /\ DomainGrowth(e, d, m)[dom] = Named(e, m, dom) - Named(d, m, dom)
            /\ DomainGrowth(g, e, m)[dom] = Named(g, m, dom) - Named(e, m, dom)
            /\ DomainGrowth(g, d, m)[dom] = Named(g, m, dom) - Named(d, m, dom)
        BY GrowthType
      <3>3. QED
        BY <3>1, <3>2
    <2>5. SumFunctionOnSet(Growth(g, d), FlowsOf(m)) =
            SumFunctionOnSet(Growth(e, d), FlowsOf(m)) + SumFunctionOnSet(Growth(g, e), FlowsOf(m))
      BY <2>1, <2>2, SumPlus
    <2>6. SumFunctionOnSet(NamedGrowth(g, d), FlowsOf(m)) =
            SumFunctionOnSet(NamedGrowth(e, d), FlowsOf(m))
              + SumFunctionOnSet(NamedGrowth(g, e), FlowsOf(m))
      BY <2>1, <2>3, SumPlus
    <2>7. SumFunctionOnSet(DomainGrowth(g, d, m), Domains) =
            SumFunctionOnSet(DomainGrowth(e, d, m), Domains)
              + SumFunctionOnSet(DomainGrowth(g, e, m), Domains)
      BY <2>4, DomainAssumption, SumPlus
    <2>8. /\ Volume(e, m) - Volume(d, m) = SumFunctionOnSet(Growth(e, d), FlowsOf(m))
          /\ Volume(g, m) - Volume(e, m) = SumFunctionOnSet(Growth(g, e), FlowsOf(m))
      BY DEF Pays
    <2>9. /\ SumFunctionOnSet(DomainGrowth(e, d, m), Domains) <=
                 SumFunctionOnSet(NamedGrowth(e, d), FlowsOf(m))
          /\ SumFunctionOnSet(DomainGrowth(g, e, m), Domains) <=
                 SumFunctionOnSet(NamedGrowth(g, e), FlowsOf(m))
      BY DEF Pays
    <2>10. Volume(d, m) \in Nat /\ Volume(e, m) \in Nat /\ Volume(g, m) \in Nat
      BY TotalsType
    <2>11. Volume(g, m) - Volume(d, m) = SumFunctionOnSet(Growth(g, d), FlowsOf(m))
      BY <2>5, <2>8, <2>10
    <2>12. SumFunctionOnSet(DomainGrowth(g, d, m), Domains) <=
               SumFunctionOnSet(NamedGrowth(g, d), FlowsOf(m))
      <3>1. /\ SumFunctionOnSet(DomainGrowth(e, d, m), Domains) \in Int
            /\ SumFunctionOnSet(DomainGrowth(g, e, m), Domains) \in Int
            /\ SumFunctionOnSet(NamedGrowth(e, d), FlowsOf(m)) \in Int
            /\ SumFunctionOnSet(NamedGrowth(g, e), FlowsOf(m)) \in Int
        BY GrowthType
      <3>2. QED
        BY <2>6, <2>7, <2>9, <3>1
    <2>13. QED
      BY <2>11, <2>12
  <1>3. QED
    BY <1>1, <1>2 DEF Pays

\* A statement about one flow charges its device only.
LEMMA PaysOne ==
    ASSUME NEW d \in Database, NEW e \in Database, NEW f \in FlowIds,
           \A g \in FlowIds \ {f} : e.flows[g] = d.flows[g],
           d.flows[f] # None => e.flows[f] # None /\ e.flows[f].bytes >= d.flows[f].bytes,
           \A m \in Macs \ {ClientMac[f]} :
               e.deviceMin[m] = d.deviceMin[m] /\ e.domainMin[m] = d.domainMin[m],
           Volume(e, ClientMac[f]) - Volume(d, ClientMac[f]) = Growth(e, d)[f],
           SumFunctionOnSet(DomainGrowth(e, d, ClientMac[f]), Domains) <= NamedGrowth(e, d)[f]
    PROVE  Pays(e, d)
  <1>1. ASSUME NEW g \in FlowIds, d.flows[g] # None
        PROVE  e.flows[g] # None /\ e.flows[g].bytes >= d.flows[g].bytes
    <2>1. d.flows[g].bytes \in Nat
      BY <1>1 DEF Database, FlowRow
    <2>2. CASE g = f
      BY <1>1, <2>2
    <2>3. CASE g # f
      <3>1. e.flows[g] = d.flows[g]
        BY <2>3
      <3>2. QED
        BY <1>1, <2>1, <3>1
    <2>4. QED
      BY <2>2, <2>3
  <1>2. \A g \in FlowIds \ {f} : Growth(e, d)[g] = 0 /\ NamedGrowth(e, d)[g] = 0
    <2> TAKE g \in FlowIds \ {f}
    <2>1. /\ BytesOf(d.flows[g]) \in Nat /\ NamedBytes(d.flows[g]) \in Nat
          /\ Growth(e, d)[g] = BytesOf(e.flows[g]) - BytesOf(d.flows[g])
          /\ NamedGrowth(e, d)[g] = NamedBytes(e.flows[g]) - NamedBytes(d.flows[g])
      BY GrowthType
    <2>2. QED
      BY <2>1
  <1>3. \A m \in Macs : IsFiniteSet(FlowsOf(m)) /\ FlowsOf(m) \subseteq FlowIds
    BY FS_Subset, IdentityAssumption DEF FlowsOf
  <1>4. ASSUME NEW m \in Macs
        PROVE  /\ Volume(e, m) - Volume(d, m) = SumFunctionOnSet(Growth(e, d), FlowsOf(m))
               /\ SumFunctionOnSet(DomainGrowth(e, d, m), Domains) <=
                      SumFunctionOnSet(NamedGrowth(e, d), FlowsOf(m))
    <2>1. CASE m = ClientMac[f]
      <3>1. f \in FlowsOf(m)
        BY <2>1 DEF FlowsOf
      <3>2. Growth(e, d)[f] \in Int /\ NamedGrowth(e, d)[f] \in Int
        BY GrowthType
      <3>3. SumFunctionOnSet(Growth(e, d), FlowsOf(m)) = Growth(e, d)[f]
        BY <1>2, <1>3, <3>1, <3>2, SumOne
      <3>4. SumFunctionOnSet(NamedGrowth(e, d), FlowsOf(m)) = NamedGrowth(e, d)[f]
        BY <1>2, <1>3, <3>1, <3>2, SumOne
      <3>5. QED
        BY <2>1, <3>3, <3>4
    <2>2. CASE m # ClientMac[f]
      <3>1. f \notin FlowsOf(m)
        BY <2>2 DEF FlowsOf
      <3>2. \A g \in FlowsOf(m) : Growth(e, d)[g] = 0 /\ NamedGrowth(e, d)[g] = 0
        BY <1>2, <1>3, <3>1
      <3>3. SumFunctionOnSet(Growth(e, d), FlowsOf(m)) = 0
        BY <1>3, <3>2, SumZero
      <3>4. SumFunctionOnSet(NamedGrowth(e, d), FlowsOf(m)) = 0
        BY <1>3, <3>2, SumZero
      <3>5. Volume(e, m) = Volume(d, m) /\ \A dom \in Domains : Named(e, m, dom) = Named(d, m, dom)
        BY <2>2 DEF Volume, Named
      <3>6. \A dom \in Domains : DomainGrowth(e, d, m)[dom] = 0
        BY <3>5, GrowthType, TotalsType
      <3>7. SumFunctionOnSet(DomainGrowth(e, d, m), Domains) = 0
        BY <3>6, DomainAssumption, SumZero
      <3>8. Volume(e, m) - Volume(d, m) = 0
        BY <3>5, TotalsType
      <3>9. QED
        BY <3>3, <3>4, <3>7, <3>8
    <2>3. QED
      BY <2>1, <2>2
  <1>5. QED
    BY <1>1, <1>4 DEF Pays

\* What relabelling a row moves, when the row carries the flow's attribution.
LEMMA MovedBy ==
    ASSUME NEW c \in Contribution \cup {None}, NEW dom \in Domains, NEW a \in Attribution,
           NEW old \in Attribution \cup {None}, c # None => c.attr = old
    PROVE  /\ old = None => Moved(c, dom, a) = IF dom = a.domain THEN BytesOf(c) ELSE 0
           /\ old # None /\ old.domain = a.domain => Moved(c, dom, a) = 0
           /\ old # None /\ old.domain # a.domain =>
                Moved(c, dom, a) = IF dom = a.domain THEN BytesOf(c)
                                   ELSE IF dom = old.domain THEN -BytesOf(c) ELSE 0
  <1>1. CASE c = None
    <2>1. Moved(c, dom, a) = 0 /\ BytesOf(c) = 0
      BY <1>1 DEF Moved, BytesOf
    <2>2. \A n \in Nat : -n = 0 - n
      OBVIOUS
    <2>3. -BytesOf(c) = 0 - BytesOf(c)
      BY <2>1, <2>2, Zenon
    <2>4. QED
      BY <2>1, <2>3
  <1>2. CASE c # None
    BY <1>2 DEF Moved, BytesOf
  <1>3. QED
    BY <1>1, <1>2

\* Relabelling the rows of a flow puts its old bytes under the new name, out of
\* the old one if it had any.  An unattributed flow's rows hold no more than the
\* flow counted, as its ledger does.
LEMMA RelabelPays ==
    ASSUME NEW d \in Database, NEW f \in FlowIds, NEW a \in Attribution,
           d.flows[f] # None, CanReconcile(d, f, a), LedgerAgrees(d), Within(d),
           Relabelled(d, f, a) \in Database
    PROVE  Pays(Relabelled(d, f, a), d)
  <1> DEFINE e == Relabelled(d, f, a)
             r == Reconcile(d, f, a)
             rows == WithBaseline(d, f)
             mac == ClientMac[f]
             old == d.flows[f].attr
             bytes == [t \in Minutes |-> BytesOf(rows[t])]
             C == SumFunctionOnSet(bytes, Minutes)
             row == [d.flows[f] EXCEPT !.attr = a]
             newRows == [t \in Minutes |->
                 IF rows[t] = None THEN None ELSE [bytes |-> rows[t].bytes, attr |-> a]]
             newDoms == [dom \in Domains |-> [t \in Minutes |->
                 d.domainMin[mac][dom][t] + Moved(rows[t], dom, a)]]
  <1>1. mac \in Macs /\ d.flows[f] \in FlowRow /\ old \in Attribution \cup {None}
        /\ d.flows[f].bytes \in Nat
    BY IdentityAssumption DEF Database, FlowRow
  <1>2. row \in FlowRow /\ row # None /\ row.bytes = d.flows[f].bytes /\ row.attr = a /\ a # None
    BY <1>1, RowsNotNone DEF FlowRow
  <1>3. \A t \in Minutes : rows[t] \in Contribution \cup {None}
    BY BaselineType
  <1>4. ASSUME NEW t \in Minutes, rows[t] # None PROVE rows[t].attr = old
    <2> DEFINE base == [bytes |-> d.flows[f].bytes, attr |-> None]
               s == Minute(d.flows[f].lastSeen)
    <2>1. rows = IF NeedsBaseline(d, f) THEN [d.contribs[f] EXCEPT ![s] = base] ELSE d.contribs[f]
      BY DEF WithBaseline
    <2>2. base.attr = None /\ DOMAIN d.contribs[f] = Minutes
      BY DEF Database
    <2>3. d.contribs[f][t] # None => d.contribs[f][t].attr = old
      BY DEF LedgerAgrees
    <2>4. NeedsBaseline(d, f) => old = None
      BY DEF NeedsBaseline
    <2> HIDE DEF base, s, rows, old
    <2>5. QED
      BY <1>4, <2>1, <2>2, <2>3, <2>4
  <1>5. /\ e.flows = [d.flows EXCEPT ![f] = row]
        /\ e.contribs = [d.contribs EXCEPT ![f] = newRows]
        /\ e.deviceMin = d.deviceMin
        /\ e.domainMin = [d.domainMin EXCEPT ![mac] = newDoms]
    <2>1. e = [devices |-> d.devices, flows |-> [d.flows EXCEPT ![f] = row],
               contribs |-> [d.contribs EXCEPT ![f] = newRows], deviceMin |-> d.deviceMin,
               domainMin |-> [d.domainMin EXCEPT ![mac] = newDoms]]
      BY RelabelledFields
    <2> HIDE DEF e, row, newRows, newDoms
    <2>2. QED
      BY <2>1
  <1>6. \A t \in Minutes : bytes[t] \in Nat /\ bytes[t] = BytesOf(rows[t])
    BY <1>3 DEF BytesOf, Contribution
  <1>7. C \in Nat
    BY <1>6, MinutesFinite, SumType
  <1>8. C <= d.flows[f].bytes
    <2>1. r \in Database /\ Within(r) /\ r.flows = d.flows
      BY ReconcileType, ReconcileWithin, ReconcileRows
    <2>2. r.contribs = [d.contribs EXCEPT ![f] = newRows] /\ DOMAIN d.contribs = FlowIds
      BY DEF Reconcile, Database
    <2>3. \A t \in Minutes : RowBytes(r, f)[t] = bytes[t]
      <3> TAKE t \in Minutes
      <3>1. r.contribs[f][t] = newRows[t]
        BY <2>2
      <3>2. BytesOf(newRows[t]) = BytesOf(rows[t])
        <4>1. rows[t] # None => [bytes |-> rows[t].bytes, attr |-> a] \in Contribution
          BY <1>3 DEF Contribution
        <4> HIDE DEF rows
        <4>2. QED
          BY <1>3, <4>1, RowsNotNone DEF BytesOf
      <3>3. RowBytes(r, f)[t] = BytesOf(r.contribs[f][t])
        BY DEF RowBytes
      <3>4. QED
        BY <3>1, <3>2, <3>3
    <2> HIDE DEF bytes, r
    <2>4. Counted(r, f) = SumFunctionOnSet(bytes, Minutes)
      BY <2>3, CountedIs, MinutesFinite, SumSame
    <2>5. Counted(r, f) <= BytesOf(d.flows[f])
      BY <2>1 DEF Within
    <2>6. BytesOf(d.flows[f]) = d.flows[f].bytes
      BY DEF BytesOf
    <2>7. QED
      BY <2>4, <2>5, <2>6
  <1>9. DOMAIN d.flows = FlowIds /\ DOMAIN d.domainMin = Macs
    BY DEF Database
  <1>10. \A dom \in Domains, t \in Minutes :
             /\ d.domainMin[mac][dom][t] \in Nat
             /\ newDoms[dom][t] = d.domainMin[mac][dom][t] + Moved(rows[t], dom, a)
    BY <1>1 DEF Database
  \* What the totals of the device move by, name by name.
  <1>11. ASSUME NEW dom \in Domains
         PROVE  /\ (\A t \in Minutes : Moved(rows[t], dom, a) = 0) =>
                      Named(e, mac, dom) = Named(d, mac, dom)
                /\ (\A t \in Minutes : Moved(rows[t], dom, a) = bytes[t]) =>
                      Named(e, mac, dom) = Named(d, mac, dom) + C
                /\ (\A t \in Minutes : Moved(rows[t], dom, a) = -bytes[t]) =>
                      Named(e, mac, dom) = Named(d, mac, dom) - C
    <2> DEFINE p == d.domainMin[mac][dom]
               q == newDoms[dom]
    <2>1. e.domainMin[mac][dom] = q
      BY <1>1, <1>5, <1>9
    <2>2. Named(e, mac, dom) = SumFunctionOnSet(q, Minutes) /\ Named(d, mac, dom) = SumFunctionOnSet(p, Minutes)
      BY <2>1 DEF Named
    <2>3. \A t \in Minutes : p[t] \in Nat /\ q[t] = p[t] + Moved(rows[t], dom, a)
      BY <1>10
    <2>4. \A t \in Minutes : Moved(rows[t], dom, a) \in Int
      BY <1>3, MovedType
    <2>5. \A t \in Minutes : p[t] \in Nat /\ q[t] \in Int /\ bytes[t] \in Nat
      BY <1>6, <2>3, <2>4
    <2>6. C = SumFunctionOnSet(bytes, Minutes)
      OBVIOUS
    <2> HIDE DEF p, q, bytes, rows, e, C
    <2>7. IsFiniteSet(Minutes)
      BY MinutesFinite
    <2>8. ASSUME \A t \in Minutes : Moved(rows[t], dom, a) = 0
          PROVE  Named(e, mac, dom) = Named(d, mac, dom)
      <3>1. \A t \in Minutes : q[t] = p[t]
        BY <2>3, <2>8
      <3>2. QED
        BY <2>2, <2>7, <3>1, SumSame
    <2>9. ASSUME \A t \in Minutes : Moved(rows[t], dom, a) = bytes[t]
          PROVE  Named(e, mac, dom) = Named(d, mac, dom) + C
      <3>1. \A t \in Minutes : p[t] \in Int /\ bytes[t] \in Int /\ q[t] = p[t] + bytes[t]
        BY <2>3, <2>5, <2>9
      <3>2. SumFunctionOnSet(q, Minutes) = SumFunctionOnSet(p, Minutes) + SumFunctionOnSet(bytes, Minutes)
        BY <2>7, <3>1, SumPlus
      <3>3. QED
        BY <2>2, <2>6, <3>2
    <2>10. ASSUME \A t \in Minutes : Moved(rows[t], dom, a) = -bytes[t]
           PROVE  Named(e, mac, dom) = Named(d, mac, dom) - C
      <3>1. \A t \in Minutes : p[t] \in Int /\ bytes[t] \in Int /\ q[t] = p[t] - bytes[t]
        BY <2>3, <2>5, <2>10
      <3>2. SumFunctionOnSet(q, Minutes) = SumFunctionOnSet(p, Minutes) - SumFunctionOnSet(bytes, Minutes)
        BY <2>7, <3>1, SumMinus
      <3>3. QED
        BY <2>2, <2>6, <3>2
    <2>11. QED
      BY <2>8, <2>9, <2>10
  <1>12. a.domain \in Domains /\ (old # None => old.domain \in Domains)
    BY <1>1 DEF Attribution
  <1>13. /\ BytesOf(row) = d.flows[f].bytes /\ BytesOf(d.flows[f]) = d.flows[f].bytes
         /\ NamedBytes(row) = d.flows[f].bytes
         /\ NamedBytes(d.flows[f]) = IF old = None THEN 0 ELSE d.flows[f].bytes
    BY <1>2 DEF BytesOf, NamedBytes
  <1> HIDE DEF row, newRows, newDoms, rows, bytes, C, e, old
  <1>14. e \in Database
    BY DEF e
  <1>15. e.flows[f] = row /\ \A g \in FlowIds \ {f} : e.flows[g] = d.flows[g]
    BY <1>5, <1>9
  <1>16. /\ Growth(e, d)[f] = 0
         /\ NamedGrowth(e, d)[f] = IF old = None THEN d.flows[f].bytes ELSE 0
    <2>1. /\ Growth(e, d)[f] = BytesOf(e.flows[f]) - BytesOf(d.flows[f])
          /\ NamedGrowth(e, d)[f] = NamedBytes(e.flows[f]) - NamedBytes(d.flows[f])
      BY <1>14, GrowthType
    <2>2. BytesOf(e.flows[f]) = d.flows[f].bytes /\ NamedBytes(e.flows[f]) = d.flows[f].bytes
      BY <1>13, <1>15
    <2>3. QED
      BY <1>1, <1>13, <2>1, <2>2
  <1>17. Volume(e, mac) - Volume(d, mac) = 0
    <2>1. Volume(e, mac) = Volume(d, mac)
      BY <1>5 DEF Volume
    <2>2. QED
      BY <1>1, <2>1, TotalsType
  <1>18. \A dom \in Domains : Named(d, mac, dom) \in Nat
    BY <1>1, TotalsType
  <1>19. SumFunctionOnSet(DomainGrowth(e, d, mac), Domains) <= NamedGrowth(e, d)[f]
    <2> DEFINE g == DomainGrowth(e, d, mac)
    <2>1. \A dom \in Domains : g[dom] = Named(e, mac, dom) - Named(d, mac, dom)
      BY <1>1, <1>14, GrowthType
    <2> HIDE DEF g
    <2>2. CASE old = None
      <3>1. \A dom \in Domains, t \in Minutes :
               Moved(rows[t], dom, a) = IF dom = a.domain THEN bytes[t] ELSE 0
        BY <1>1, <1>3, <1>4, <1>6, <2>2, MovedBy
      <3>2. g[a.domain] = C /\ \A dom \in Domains \ {a.domain} : g[dom] = 0
        BY <1>7, <1>11, <1>12, <1>18, <2>1, <3>1
      <3>3. SumFunctionOnSet(g, Domains) = C
        BY <1>7, <1>12, <3>2, DomainAssumption, SumOne
      <3>4. QED
        BY <1>8, <1>16, <2>2, <3>3 DEF g
    <2>3. CASE old # None /\ old.domain = a.domain
      <3>1. \A dom \in Domains, t \in Minutes : Moved(rows[t], dom, a) = 0
        BY <1>1, <1>3, <1>4, <2>3, MovedBy
      <3>2. \A dom \in Domains : g[dom] = 0
        BY <1>11, <1>18, <2>1, <3>1
      <3>3. SumFunctionOnSet(g, Domains) = 0
        BY <3>2, DomainAssumption, SumZero
      <3>4. QED
        BY <1>16, <2>3, <3>3 DEF g
    <2>4. CASE old # None /\ old.domain # a.domain
      <3>1. \A dom \in Domains, t \in Minutes :
               Moved(rows[t], dom, a) = IF dom = a.domain THEN bytes[t]
                                        ELSE IF dom = old.domain THEN -bytes[t] ELSE 0
        BY <1>1, <1>3, <1>4, <1>6, <2>4, MovedBy
      <3>2. /\ g[a.domain] = C /\ g[old.domain] = -C
            /\ \A dom \in Domains \ {a.domain, old.domain} : g[dom] = 0
        BY <1>7, <1>11, <1>12, <1>18, <2>1, <2>4, <3>1
      <3>3. SumFunctionOnSet(g, Domains) = g[a.domain] + g[old.domain]
        BY <1>7, <1>12, <2>4, <3>2, DomainAssumption, SumTwo
      <3>4. QED
        BY <1>7, <1>16, <2>4, <3>2, <3>3 DEF g
    <2>5. QED
      BY <2>2, <2>3, <2>4
  <1>20. \A m \in Macs \ {mac} : e.deviceMin[m] = d.deviceMin[m] /\ e.domainMin[m] = d.domainMin[m]
    BY <1>5, <1>9
  <1>21. d.flows[f] # None => e.flows[f] # None /\ e.flows[f].bytes >= d.flows[f].bytes
    BY <1>1, <1>2, <1>15
  <1> HIDE DEF mac
  <1>22. QED
    BY <1>14, <1>15, <1>16, <1>17, <1>19, <1>20, <1>21, PaysOne DEF mac, e

\* e is d with the new row of a flow and an increment in minute s.
Charged(e, d, f, row, s, delta) ==
    /\ e.flows[f] = row /\ \A g \in FlowIds \ {f} : e.flows[g] = d.flows[g]
    /\ \A m \in Macs \ {ClientMac[f]} :
           e.deviceMin[m] = d.deviceMin[m] /\ e.domainMin[m] = d.domainMin[m]
    /\ \A t \in Minutes : e.deviceMin[ClientMac[f]][t] =
           d.deviceMin[ClientMac[f]][t] + (IF t = s THEN delta ELSE 0)
    /\ \A dom \in Domains, t \in Minutes : e.domainMin[ClientMac[f]][dom][t] =
           d.domainMin[ClientMac[f]][dom][t]
               + (IF row.attr # None /\ dom = row.attr.domain /\ t = s THEN delta ELSE 0)

\* An increment grows the flow, its device and, if the flow has a name, the
\* name's total by as much.
LEMMA ChargePays ==
    ASSUME NEW d \in Database, NEW e \in Database, NEW f \in FlowIds, NEW s \in Minutes,
           NEW delta \in Nat, NEW row \in FlowRow,
           row.bytes = BytesOf(d.flows[f]) + delta,
           d.flows[f] # None => d.flows[f].attr = row.attr,
           Charged(e, d, f, row, s, delta)
    PROVE  Pays(e, d)
  <1> DEFINE mac == ClientMac[f]
             a == row.attr
  <1>1. mac \in Macs /\ row # None /\ a \in Attribution \cup {None}
    BY IdentityAssumption, RowsNotNone DEF FlowRow
  <1>2. /\ e.flows[f] = row /\ \A g \in FlowIds \ {f} : e.flows[g] = d.flows[g]
        /\ \A m \in Macs \ {mac} : e.deviceMin[m] = d.deviceMin[m] /\ e.domainMin[m] = d.domainMin[m]
        /\ \A t \in Minutes :
               e.deviceMin[mac][t] = d.deviceMin[mac][t] + (IF t = s THEN delta ELSE 0)
        /\ \A dom \in Domains, t \in Minutes : e.domainMin[mac][dom][t] =
               d.domainMin[mac][dom][t]
                   + (IF a # None /\ dom = a.domain /\ t = s THEN delta ELSE 0)
    BY DEF Charged
  <1>3. /\ \A t \in Minutes : d.deviceMin[mac][t] \in Nat
        /\ \A dom \in Domains, t \in Minutes : d.domainMin[mac][dom][t] \in Nat
    BY <1>1 DEF Database
  <1>4. IsFiniteSet(Minutes)
    BY MinutesFinite
  <1>5. Volume(e, mac) = Volume(d, mac) + delta
    <2> DEFINE p == d.deviceMin[mac]
               q == e.deviceMin[mac]
    <2>1. q[s] = p[s] + delta /\ \A t \in Minutes \ {s} : q[t] = p[t]
      BY <1>2, <1>3
    <2>2. \A t \in Minutes : p[t] \in Int /\ q[t] \in Int
      BY <1>3, <2>1
    <2>3. Volume(e, mac) = SumFunctionOnSet(q, Minutes) /\ Volume(d, mac) = SumFunctionOnSet(p, Minutes)
      BY DEF Volume
    <2> HIDE DEF p, q
    <2>4. /\ SumFunctionOnSet(q, Minutes) = SumFunctionOnSet(p, Minutes) - p[s] + q[s]
          /\ SumFunctionOnSet(p, Minutes) \in Int
      BY <1>4, <2>1, <2>2, SumChange
    <2>5. QED
      BY <2>1, <2>2, <2>3, <2>4
  <1>6. a # None => a.domain \in Domains
    BY <1>1 DEF Attribution
  <1>7. ASSUME NEW dom \in Domains
        PROVE  Named(e, mac, dom) = Named(d, mac, dom)
                                      + (IF a # None /\ dom = a.domain THEN delta ELSE 0)
    <2> DEFINE p == d.domainMin[mac][dom]
               q == e.domainMin[mac][dom]
               n == IF a # None /\ dom = a.domain THEN delta ELSE 0
    <2>1. q[s] = p[s] + n /\ \A t \in Minutes \ {s} : q[t] = p[t]
      <3>1. ASSUME NEW t \in Minutes PROVE q[t] = p[t] + (IF t = s THEN n ELSE 0)
        BY <1>2
      <3>2. \A t \in Minutes : p[t] \in Nat
        BY <1>3
      <3> HIDE DEF p, q, n
      <3>3. QED
        BY <3>1, <3>2
    <2>2. n \in Nat
      OBVIOUS
    <2>3. Named(e, mac, dom) = SumFunctionOnSet(q, Minutes) /\ Named(d, mac, dom) = SumFunctionOnSet(p, Minutes)
      BY DEF Named
    <2>4. \A t \in Minutes : p[t] \in Nat
      BY <1>3
    <2> HIDE DEF p, q, n
    <2>5. \A t \in Minutes : p[t] \in Int /\ q[t] \in Int
      BY <2>1, <2>2, <2>4
    <2>6. /\ SumFunctionOnSet(q, Minutes) = SumFunctionOnSet(p, Minutes) - p[s] + q[s]
          /\ SumFunctionOnSet(p, Minutes) \in Int
      BY <1>4, <2>1, <2>5, SumChange
    <2>7. Named(e, mac, dom) = Named(d, mac, dom) + n
      BY <2>1, <2>2, <2>3, <2>4, <2>6
    <2>8. QED
      BY <2>7 DEF n
  <1>9. /\ BytesOf(d.flows[f]) \in Nat
        /\ d.flows[f] # None => BytesOf(d.flows[f]) = d.flows[f].bytes
        /\ NamedBytes(d.flows[f]) = IF a = None THEN 0 ELSE BytesOf(d.flows[f])
    BY DEF BytesOf, NamedBytes, Database, FlowRow
  <1>10. BytesOf(row) = row.bytes /\ NamedBytes(row) = IF a = None THEN 0 ELSE row.bytes
    BY <1>1 DEF BytesOf, NamedBytes
  <1>11. Growth(e, d)[f] = delta /\ NamedGrowth(e, d)[f] = IF a = None THEN 0 ELSE delta
    <2>1. /\ Growth(e, d)[f] = BytesOf(row) - BytesOf(d.flows[f])
          /\ NamedGrowth(e, d)[f] = NamedBytes(row) - NamedBytes(d.flows[f])
      BY <1>2 DEF Growth, NamedGrowth
    <2>2. QED
      BY <1>9, <1>10, <2>1
  <1>12. Volume(e, mac) - Volume(d, mac) = Growth(e, d)[f]
    <2>1. Volume(d, mac) \in Nat
      BY <1>1, TotalsType
    <2>2. QED
      BY <1>5, <1>11, <2>1
  <1>13. SumFunctionOnSet(DomainGrowth(e, d, mac), Domains) <= NamedGrowth(e, d)[f]
    <2> DEFINE g == DomainGrowth(e, d, mac)
    <2>1. ASSUME NEW dom \in Domains
          PROVE  g[dom] = IF a # None /\ dom = a.domain THEN delta ELSE 0
      <3>1. g[dom] = Named(e, mac, dom) - Named(d, mac, dom)
        BY <1>1, GrowthType
      <3>2. Named(d, mac, dom) \in Nat
        BY <1>1, TotalsType
      <3>3. QED
        BY <1>7, <3>1, <3>2
    <2> HIDE DEF g
    <2>2. CASE a = None
      <3>1. SumFunctionOnSet(g, Domains) = 0
        BY <2>1, <2>2, DomainAssumption, SumZero
      <3>2. QED
        BY <1>11, <2>2, <3>1 DEF g
    <2>3. CASE a # None
      <3>1. g[a.domain] = delta /\ \A dom \in Domains \ {a.domain} : g[dom] = 0
        BY <1>6, <2>1, <2>3
      <3>2. SumFunctionOnSet(g, Domains) = delta
        BY <1>6, <2>3, <3>1, DomainAssumption, SumOne
      <3>3. QED
        BY <1>11, <2>3, <3>2 DEF g
    <2>4. QED
      BY <2>2, <2>3
  <1>15. d.flows[f] # None => e.flows[f] # None /\ e.flows[f].bytes >= d.flows[f].bytes
    BY <1>1, <1>2, <1>9
  <1> HIDE DEF mac
  <1>16. QED
    BY <1>2, <1>12, <1>13, <1>15, PaysOne DEF mac

\* The fields of a charged database that a reader sees.
LEMMA ChargeFields ==
    ASSUME NEW d \in Database, NEW o \in Observation,
           NEW a \in Attribution \cup {None}, NEW delta \in Nat
    PROVE  Charged(Charge(d, o, a, delta), d, o.flow,
                   [bytes |-> o.bytes, lastSeen |-> o.lastSeen, attr |-> a],
                   Minute(o.lastSeen), delta)
  <1> DEFINE e == Charge(d, o, a, delta)
             f == o.flow
             mac == ClientMac[f]
             s == Minute(o.lastSeen)
             row == [bytes |-> o.bytes, lastSeen |-> o.lastSeen, attr |-> a]
  <1>1. f \in FlowIds /\ mac \in Macs /\ s \in Minutes
    BY IdentityAssumption, MinuteInRange DEF Observation
  <1>2. /\ e.flows = [d.flows EXCEPT ![f] = row]
        /\ e.deviceMin = IF delta = 0 THEN d.deviceMin
                         ELSE [d.deviceMin EXCEPT ![mac] =
                                 [d.deviceMin[mac] EXCEPT ![s] = d.deviceMin[mac][s] + delta]]
        /\ e.domainMin = IF delta = 0 \/ a = None THEN d.domainMin
                         ELSE [d.domainMin EXCEPT ![mac] =
                                 [d.domainMin[mac] EXCEPT ![a.domain] =
                                     [d.domainMin[mac][a.domain] EXCEPT ![s] =
                                         d.domainMin[mac][a.domain][s] + delta]]]
    BY DEF Charge, Database
  <1>3. /\ DOMAIN d.flows = FlowIds /\ DOMAIN d.deviceMin = Macs /\ DOMAIN d.domainMin = Macs
        /\ DOMAIN d.deviceMin[mac] = Minutes /\ DOMAIN d.domainMin[mac] = Domains
        /\ \A dom \in Domains : DOMAIN d.domainMin[mac][dom] = Minutes
    BY <1>1 DEF Database
  <1>4. /\ \A t \in Minutes : d.deviceMin[mac][t] \in Nat
        /\ \A dom \in Domains, t \in Minutes : d.domainMin[mac][dom][t] \in Nat
    BY <1>1 DEF Database
  <1>5. a # None => a.domain \in Domains
    BY DEF Attribution
  <1> HIDE DEF e, s, mac, f, row
  <1>6. e.flows[f] = row /\ \A g \in FlowIds \ {f} : e.flows[g] = d.flows[g]
    BY <1>1, <1>2, <1>3
  <1>7. ASSUME NEW m \in Macs \ {mac}
        PROVE  e.deviceMin[m] = d.deviceMin[m] /\ e.domainMin[m] = d.domainMin[m]
    BY <1>2, <1>3
  <1>8. ASSUME NEW t \in Minutes
        PROVE  e.deviceMin[mac][t] = d.deviceMin[mac][t] + (IF t = s THEN delta ELSE 0)
    BY <1>1, <1>2, <1>3, <1>4
  <1>9. ASSUME NEW dom \in Domains, NEW t \in Minutes
        PROVE  e.domainMin[mac][dom][t] =
                 d.domainMin[mac][dom][t]
                     + (IF a # None /\ dom = a.domain /\ t = s THEN delta ELSE 0)
    <2>1. CASE delta = 0 \/ a = None
      BY <1>2, <1>4, <2>1
    <2>2. CASE ~(delta = 0 \/ a = None) /\ dom = a.domain
      <3>1. e.domainMin[mac][dom] =
              [d.domainMin[mac][dom] EXCEPT ![s] = d.domainMin[mac][dom][s] + delta]
        BY <1>1, <1>2, <1>3, <2>2
      <3>2. QED
        BY <1>1, <1>3, <1>4, <2>2, <3>1
    <2>3. CASE ~(delta = 0 \/ a = None) /\ dom # a.domain
      <3>1. e.domainMin[mac][dom] = d.domainMin[mac][dom]
        BY <1>1, <1>2, <1>3, <1>5, <2>3
      <3>2. QED
        BY <1>4, <2>3, <3>1
    <2>4. QED
      BY <2>1, <2>2, <2>3
  <1>10. QED
    <2>1. row.attr = a
      BY DEF row
    <2>2. Charged(e, d, f, row, s, delta)
      BY <1>6, <1>7, <1>8, <1>9, <2>1 DEF Charged, mac
    <2>3. QED
      BY <2>2 DEF e, s, f, row

LEMMA UpsertPays ==
    ASSUME NEW d \in Database, NEW o \in Observation, ~UpsertFails(d, o),
           LedgerAgrees(d), Within(d)
    PROVE  Pays(UpsertFlow(d, o), d)
  <1> DEFINE f == o.flow
             a == EffectiveAttribution(StoredAttr(d, f), o.attr)
             r == IF Relabels(d, o) THEN Reconcile(d, f, a) ELSE d
             w == IF Relabels(d, o) THEN Relabelled(d, f, a) ELSE d
             delta == Delta(d, o)
             e == UpsertFlow(d, o)
             row == [bytes |-> o.bytes, lastSeen |-> o.lastSeen, attr |-> a]
             s == Minute(o.lastSeen)
             mac == ClientMac[f]
  <1>1. f \in FlowIds /\ o.attr \in Attribution \cup {None} /\ s \in Minutes
    BY MinuteInRange DEF Observation
  <1>2. a \in Attribution \cup {None}
    BY <1>1, StoredAttrType, EffectiveType
  <1>3. Relabels(d, o) => /\ d.flows[f] # None /\ a \in Attribution
                          /\ CanReconcile(d, f, a)
    BY <1>2 DEF UpsertFails, Relabels
  <1>4. /\ r \in Database /\ w \in Database
        /\ r.deviceMin = w.deviceMin /\ r.domainMin = w.domainMin
        /\ Pays(w, d)
        /\ w.flows[f] # None => w.flows[f].attr = a
        /\ BytesOf(w.flows[f]) = BytesOf(d.flows[f])
        /\ DOMAIN w.flows = FlowIds /\ DOMAIN r.flows = FlowIds
        /\ \A g \in FlowIds \ {f} : r.flows[g] = w.flows[g]
    <2>1. CASE Relabels(d, o)
      <3> DEFINE k == Reconcile(d, f, a)
                 new == [d.flows[f] EXCEPT !.attr = a]
      <3>1. k \in Database /\ k.flows = d.flows
        BY <1>1, <1>3, <2>1, ReconcileType, ReconcileRows
      <3>2. d.flows[f] \in FlowRow /\ DOMAIN d.flows = FlowIds
        BY <1>1, <1>3, <2>1 DEF Database
      <3>3. new \in FlowRow /\ new # None /\ new.attr = a /\ new.bytes = d.flows[f].bytes
        BY <1>3, <2>1, <3>2, RowsNotNone DEF FlowRow
      <3>4. Relabelled(d, f, a) = [k EXCEPT !.flows = [d.flows EXCEPT ![f] = new]]
        BY <3>1 DEF Relabelled
      <3>5. r = k /\ w = Relabelled(d, f, a)
        BY <2>1
      <3> HIDE DEF k, new, a, r, w
      <3>6. /\ Relabelled(d, f, a) \in Database
            /\ Relabelled(d, f, a).flows = [d.flows EXCEPT ![f] = new]
            /\ Relabelled(d, f, a).deviceMin = k.deviceMin
            /\ Relabelled(d, f, a).domainMin = k.domainMin
        <4>1. [d.flows EXCEPT ![f] = new] \in [FlowIds -> FlowRow \cup {None}]
          BY <1>1, <3>3 DEF Database
        <4> HIDE DEF f
        <4>2. QED
          BY <3>1, <3>4, <4>1 DEF Database
      <3>7. Pays(Relabelled(d, f, a), d)
        BY <1>1, <1>3, <2>1, <3>6, RelabelPays
      <3>8. w.flows[f] = new /\ \A g \in FlowIds \ {f} : r.flows[g] = w.flows[g]
        BY <1>1, <3>1, <3>2, <3>5, <3>6
      <3>9. BytesOf(new) = BytesOf(d.flows[f])
        BY <1>3, <2>1, <3>3 DEF BytesOf
      <3>10. QED
        BY <3>1, <3>2, <3>3, <3>5, <3>6, <3>7, <3>8, <3>9
    <2>2. CASE ~Relabels(d, o)
      <3>1. d.flows[f] # None => a = d.flows[f].attr
        BY <1>1, <2>2, StoredAttrType, EffectiveType DEF Relabels
      <3>2. r = d /\ w = d /\ DOMAIN d.flows = FlowIds
        BY <2>2 DEF Database
      <3> HIDE DEF r, w, a
      <3>3. QED
        BY <3>1, <3>2, PaysReflexive
    <2>3. QED
      BY <2>1, <2>2
  <1>5. e = Charge(r, o, a, delta) /\ delta \in Nat /\ e \in Database
    BY DeltaType, UpsertType DEF UpsertFlow
  <1>6. row \in FlowRow /\ row.attr = a /\ row.bytes = o.bytes
    BY <1>2 DEF FlowRow, Observation
  <1>7. o.bytes = BytesOf(d.flows[f]) + delta
    <2>1. BytesOf(d.flows[f]) \in Nat /\ o.bytes \in Nat
      BY <1>1, RowBytesType DEF Observation
    <2>2. delta = o.bytes - BytesOf(d.flows[f])
      BY DEF Delta, BytesOf
    <2>3. QED
      BY <2>1, <2>2
  <1> HIDE DEF r, w, a, e, delta
  <1>8. Charged(e, r, f, row, s, delta)
    BY <1>2, <1>4, <1>5, ChargeFields
  <1> HIDE DEF row, s, mac, f
  <1>9. Charged(e, w, f, row, s, delta)
    <2>1. r.deviceMin = w.deviceMin /\ r.domainMin = w.domainMin
      BY <1>4
    <2>2. \A g \in FlowIds \ {f} : e.flows[g] = w.flows[g]
      BY <1>4, <1>8 DEF Charged
    <2>3. QED
      BY <1>8, <2>1, <2>2 DEF Charged
  <1>10. Pays(e, w)
    <2>1. row.bytes = BytesOf(w.flows[f]) + delta
      BY <1>4, <1>6, <1>7
    <2>2. w.flows[f] # None => w.flows[f].attr = row.attr
      BY <1>4, <1>6
    <2>3. w \in Database /\ e \in Database /\ delta \in Nat
      BY <1>4, <1>5
    <2>4. QED
      BY <1>1, <1>6, <1>9, <2>1, <2>2, <2>3, ChargePays
  <1>11. QED
    BY <1>4, <1>5, <1>10, PaysTransitive DEF e

LEMMA BackfillPays ==
    ASSUME NEW d \in Database, NEW f \in FlowIds, NEW b \in Binding,
           f \in Pending(d, b), CanReconcile(d, f, b.attr), LedgerAgrees(d), Within(d)
    PROVE  Pays(BackfillFlow(d, f, b), d)
  <1>1. BackfillFlow(d, f, b) \in Database
        /\ EffectiveAttribution(StoredAttr(d, f), b.attr) = b.attr
    BY BackfillType
  <1>2. BackfillFlow(d, f, b) = Relabelled(d, f, b.attr)
    BY <1>1 DEF BackfillFlow, Relabelled
  <1>3. d.flows[f] # None /\ b.attr \in Attribution
    BY DEF Pending, Matches, Binding
  <1>4. QED
    BY <1>1, <1>2, <1>3, RelabelPays

\* What an open transaction has written is paid for.
LEMMA NextPays ==
    CoverInv /\ Within(work) /\ Pays(work, db) /\ [Next]_vars => Pays(work', db')
  <1> SUFFICES ASSUME CoverInv, Within(work), Pays(work, db), [Next]_vars PROVE Pays(work', db')
    OBVIOUS
  <1>0. /\ TypeOK /\ SweepInv /\ db \in Database /\ work \in Database
        /\ LedgerAgrees(work)
    BY DEF CoverInv, TypeOK, LedgerAgreesWithFlow
  <1>1. CASE UNCHANGED <<db, work>>
    BY <1>1
  <1>2. ASSUME NEW o \in Reported, UpsertStep(o) PROVE Pays(work', db')
    <2>1. o \in Observation /\ ~UpsertFails(work, o)
      BY <1>2, ReportedType DEF UpsertStep
    <2>2. Pays(UpsertFlow(work, o), work) /\ UpsertFlow(work, o) \in Database
      BY <1>0, <2>1, UpsertPays, UpsertType
    <2>3. Pays(UpsertFlow(work, o), db)
      BY <1>0, <2>2, PaysTransitive
    <2>4. QED
      BY <1>2, <2>3 DEF UpsertStep
  <1>3. ASSUME NEW f \in FlowIds, BackfillStep(f) PROVE Pays(work', db')
    <2>1. /\ binding \in Binding /\ f \in Pending(work, binding)
          /\ CanReconcile(work, f, binding.attr)
      BY <1>0, <1>3, InputAssumption DEF BackfillStep, TypeOK
    <2>2. Pays(BackfillFlow(work, f, binding), work) /\ BackfillFlow(work, f, binding) \in Database
      BY <1>0, <2>1, BackfillPays, BackfillType
    <2>3. Pays(BackfillFlow(work, f, binding), db)
      BY <1>0, <2>2, PaysTransitive
    <2>4. QED
      BY <1>3, <2>3 DEF BackfillStep
  <1>4. CASE Commit \/ Rollback
    BY <1>0, <1>4, PaysReflexive DEF Commit, Rollback
  <1>5. CASE ErasesRows
    <2>1. PICK d \in Database : Apply(d)
      BY <1>5 DEF ErasesRows
    <2>2. QED
      BY <2>1, PaysReflexive DEF Apply
  <1>6. QED
    BY <1>0, <1>1, <1>2, <1>3, <1>4, <1>5, StepKinds

-----------------------------------------------------------------------------
(* The steps as FlowStore has them.                                         *)

Seen(d, f) ==
    IF d.flows[f] = None THEN None ELSE [bytes |-> d.flows[f].bytes, attr |-> d.flows[f].attr]

LEMMA SeenType ==
    ASSUME NEW d \in Database, NEW f \in FlowIds
    PROVE  /\ d.flows[f] = None <=> Seen(d, f) = None
           /\ d.flows[f] # None =>
                /\ Seen(d, f) = [bytes |-> d.flows[f].bytes, attr |-> d.flows[f].attr]
                /\ Seen(d, f).bytes = d.flows[f].bytes /\ Seen(d, f).attr = d.flows[f].attr
           /\ Seen(d, f) \in Store!Flow \cup {None}
           /\ Store!Bytes(Seen(d, f)) = BytesOf(d.flows[f])
           /\ Store!Attr(Seen(d, f)) = StoredAttr(d, f)
           /\ Store!NamedBytes(Seen(d, f)) = NamedBytes(d.flows[f])
  <1>1. CASE d.flows[f] = None
    BY <1>1 DEF Seen, BytesOf, NamedBytes, Store!Bytes, Store!Attr, Store!NamedBytes
  <1>2. CASE d.flows[f] # None
    <2> DEFINE row == [bytes |-> d.flows[f].bytes, attr |-> d.flows[f].attr]
    <2>1. d.flows[f].bytes \in Nat /\ d.flows[f].attr \in Attribution \cup {None}
      BY <1>2 DEF Database, FlowRow
    <2>2. row \in Contribution /\ row # None
      BY <2>1, RowsNotNone DEF Contribution
    <2>3. Seen(d, f) = row /\ row.bytes = d.flows[f].bytes /\ row.attr = d.flows[f].attr
      BY <1>2 DEF Seen
    <2>5. row \in Store!Flow
      BY <2>1 DEF Store!Flow
    <2> HIDE DEF row
    <2>6. QED
      BY <1>2, <2>2, <2>3, <2>5 DEF BytesOf, NamedBytes, Store!Bytes, Store!Attr, Store!NamedBytes, row
  <1>3. QED
    BY <1>1, <1>2

LEMMA StoreSum ==
    ASSUME NEW g, NEW S
    PROVE  Store!SumFunctionOnSet(g, S) = SumFunctionOnSet(g, S)
  <1>1. Store!SumFunctionOnSet(g, S) = (CHOOSE it : Sums(it, g, SUBSET S))[S]
    BY DEF Store!SumFunctionOnSet, Store!FoldFunctionOnSet, Store!MapThenFoldSet, Sums, Pick
  <1>2. QED
    BY <1>1, SumIs

\* What the reader of a well-formed database sees.
LEMMA View ==
    ASSUME db \in Database
    PROVE  /\ [f \in FlowIds |-> Visible(f)] = [f \in FlowIds |-> Seen(db, f)]
           /\ [m \in Macs |-> DeviceTotal(m)] = [m \in Macs |-> Volume(db, m)]
           /\ [m \in Macs |-> [dom \in Domains |-> DomainTotal(m, dom)]] =
                [m \in Macs |-> [dom \in Domains |-> Named(db, m, dom)]]
  <1>1. \A m \in Macs : DOMAIN db.deviceMin[m] = Minutes
    BY DEF Database
  <1>2. \A m \in Macs, dom \in Domains : DOMAIN db.domainMin[m][dom] = Minutes
    BY DEF Database
  <1>3. \A m \in Macs : DeviceTotal(m) = Volume(db, m)
    BY <1>1 DEF DeviceTotal, Volume, SumFunction
  <1>4. \A m \in Macs, dom \in Domains : DomainTotal(m, dom) = Named(db, m, dom)
    BY <1>2 DEF DomainTotal, Named, SumFunction
  <1>5. \A f \in FlowIds : Visible(f) = Seen(db, f)
    BY DEF Visible, Seen
  <1>6. QED
    BY <1>3, <1>4, <1>5

LEMMA ViewNext ==
    ASSUME db' \in Database
    PROVE  /\ [f \in FlowIds |-> Visible(f)]' = [f \in FlowIds |-> Seen(db', f)]
           /\ [m \in Macs |-> DeviceTotal(m)]' = [m \in Macs |-> Volume(db', m)]
           /\ [m \in Macs |-> [dom \in Domains |-> DomainTotal(m, dom)]]' =
                [m \in Macs |-> [dom \in Domains |-> Named(db', m, dom)]]
  <1>0. PICK d \in Database : d = db'
    OBVIOUS
  <1>1. \A m \in Macs : DOMAIN d.deviceMin[m] = Minutes
    BY DEF Database
  <1>2. \A m \in Macs, dom \in Domains : DOMAIN d.domainMin[m][dom] = Minutes
    BY DEF Database
  <1>3. \A m \in Macs : DeviceTotal(m)' = Volume(d, m)
    BY <1>0, <1>1 DEF DeviceTotal, Volume, SumFunction
  <1>4. \A m \in Macs, dom \in Domains : DomainTotal(m, dom)' = Named(d, m, dom)
    BY <1>0, <1>2 DEF DomainTotal, Named, SumFunction
  <1>5. \A f \in FlowIds : Visible(f)' = Seen(d, f)
    BY <1>0 DEF Visible, Seen
  <1>6. QED
    BY <1>0, <1>3, <1>4, <1>5

LEMMA StoreTyped == TypeOK => Store!TypeOK
  <1> SUFFICES ASSUME TypeOK PROVE Store!TypeOK
    OBVIOUS
  <1>1. PICK d \in Database : d = db
    BY DEF TypeOK
  <1>2. \A f \in FlowIds : Seen(d, f) \in Store!Flow \cup {None}
    BY SeenType
  <1>3. \A m \in Macs : Volume(d, m) \in Nat /\ \A dom \in Domains : Named(d, m, dom) \in Nat
    BY TotalsType
  <1>4. /\ [f \in FlowIds |-> Visible(f)] = [f \in FlowIds |-> Seen(d, f)]
        /\ [m \in Macs |-> DeviceTotal(m)] = [m \in Macs |-> Volume(d, m)]
        /\ [m \in Macs |-> [dom \in Domains |-> DomainTotal(m, dom)]] =
             [m \in Macs |-> [dom \in Domains |-> Named(d, m, dom)]]
    BY <1>1, View
  <1>5. QED
    BY <1>2, <1>3, <1>4 DEF Store!TypeOK

LEMMA StoreTypedNext == TypeOK' => Store!TypeOK'
  <1> SUFFICES ASSUME TypeOK' PROVE Store!TypeOK'
    OBVIOUS
  <1>1. PICK d \in Database : d = db'
    BY DEF TypeOK
  <1>2. \A f \in FlowIds : Seen(d, f) \in Store!Flow \cup {None}
    BY SeenType
  <1>3. \A m \in Macs : Volume(d, m) \in Nat /\ \A dom \in Domains : Named(d, m, dom) \in Nat
    BY TotalsType
  <1>4. /\ [f \in FlowIds |-> Visible(f)]' = [f \in FlowIds |-> Seen(d, f)]
        /\ [m \in Macs |-> DeviceTotal(m)]' = [m \in Macs |-> Volume(d, m)]
        /\ [m \in Macs |-> [dom \in Domains |-> DomainTotal(m, dom)]]' =
             [m \in Macs |-> [dom \in Domains |-> Named(d, m, dom)]]
    BY <1>1, ViewNext
  <1>5. QED
    BY <1>2, <1>3, <1>4 DEF Store!TypeOK

LEMMA AbsorbSums ==
    ASSUME NEW d \in Database, NEW e \in Database, Pays(e, d), NEW m \in Macs
    PROVE  /\ Volume(e, m) - Volume(d, m) = Store!SumFunction([f \in Store!Of(m) |->
                  Store!Bytes(Seen(e, f)) - Store!Bytes(Seen(d, f))])
           /\ Store!SumFunction([dom \in Domains |-> Named(e, m, dom) - Named(d, m, dom)]) <=
                  Store!SumFunction([f \in Store!Of(m) |->
                      Store!NamedBytes(Seen(e, f)) - Store!NamedBytes(Seen(d, f))])
  <1> DEFINE g == [f \in Store!Of(m) |-> Store!Bytes(Seen(e, f)) - Store!Bytes(Seen(d, f))]
             h == [f \in Store!Of(m) |-> Store!NamedBytes(Seen(e, f)) - Store!NamedBytes(Seen(d, f))]
             k == [dom \in Domains |-> Named(e, m, dom) - Named(d, m, dom)]
  <1>1. Store!Of(m) = FlowsOf(m) /\ IsFiniteSet(FlowsOf(m)) /\ FlowsOf(m) \subseteq FlowIds
    BY FS_Subset, IdentityAssumption DEF Store!Of, FlowsOf
  <1>2. \A f \in FlowsOf(m) : g[f] = Growth(e, d)[f] /\ h[f] = NamedGrowth(e, d)[f]
    <2> SUFFICES ASSUME NEW f \in FlowsOf(m)
                 PROVE  g[f] = Growth(e, d)[f] /\ h[f] = NamedGrowth(e, d)[f]
      OBVIOUS
    <2>1. f \in FlowIds /\ f \in Store!Of(m)
      BY <1>1
    <2>2. /\ Store!Bytes(Seen(d, f)) = BytesOf(d.flows[f])
          /\ Store!NamedBytes(Seen(d, f)) = NamedBytes(d.flows[f])
      BY <2>1, SeenType
    <2>3. /\ Store!Bytes(Seen(e, f)) = BytesOf(e.flows[f])
          /\ Store!NamedBytes(Seen(e, f)) = NamedBytes(e.flows[f])
      BY <2>1, SeenType
    <2>4. g[f] = BytesOf(e.flows[f]) - BytesOf(d.flows[f])
      BY <2>1, <2>2, <2>3
    <2>5. h[f] = NamedBytes(e.flows[f]) - NamedBytes(d.flows[f])
      BY <2>1, <2>2, <2>3
    <2>6. QED
      BY <2>1, <2>4, <2>5, GrowthType
  <1>3. DOMAIN g = FlowsOf(m) /\ DOMAIN h = FlowsOf(m) /\ DOMAIN k = Domains
    BY <1>1
  <1>4. k = DomainGrowth(e, d, m)
    BY DEF DomainGrowth
  <1> HIDE DEF g, h, k
  <1>5. Store!SumFunction(g) = SumFunctionOnSet(Growth(e, d), FlowsOf(m))
    <2>1. Store!SumFunction(g) = SumFunctionOnSet(g, FlowsOf(m))
      BY <1>3, StoreSum DEF Store!SumFunction
    <2>2. QED
      BY <1>1, <1>2, <2>1, SumSame
  <1>6. Store!SumFunction(h) = SumFunctionOnSet(NamedGrowth(e, d), FlowsOf(m))
    <2>1. Store!SumFunction(h) = SumFunctionOnSet(h, FlowsOf(m))
      BY <1>3, StoreSum DEF Store!SumFunction
    <2>2. QED
      BY <1>1, <1>2, <2>1, SumSame
  <1>7. Store!SumFunction(k) = SumFunctionOnSet(DomainGrowth(e, d, m), Domains)
    BY <1>3, <1>4, StoreSum DEF Store!SumFunction
  <1>8. /\ Volume(e, m) - Volume(d, m) = SumFunctionOnSet(Growth(e, d), FlowsOf(m))
        /\ SumFunctionOnSet(DomainGrowth(e, d, m), Domains) <=
               SumFunctionOnSet(NamedGrowth(e, d), FlowsOf(m))
    BY DEF Pays
  <1>9. QED
    BY <1>5, <1>6, <1>7, <1>8 DEF g, h, k

LEMMA AbsorbRows ==
    ASSUME NEW d \in Database, NEW e \in Database, Pays(e, d), Stronger(e, d), NEW f \in FlowIds
    PROVE  Store!Absorbed(Seen(d, f), Seen(e, f))
  <1>1. /\ Store!Bytes(Seen(d, f)) = BytesOf(d.flows[f])
        /\ Store!Attr(Seen(d, f)) = StoredAttr(d, f)
        /\ d.flows[f] = None <=> Seen(d, f) = None
    BY SeenType
  <1>2. /\ Store!Bytes(Seen(e, f)) = BytesOf(e.flows[f])
        /\ Store!Attr(Seen(e, f)) = StoredAttr(e, f)
        /\ e.flows[f] = None <=> Seen(e, f) = None
    BY SeenType
  <1>3. CASE d.flows[f] = None /\ e.flows[f] = None
    BY <1>1, <1>2, <1>3 DEF Store!Absorbed
  <1>4. CASE d.flows[f] = None /\ e.flows[f] # None
    <2>1. BytesOf(e.flows[f]) >= BytesOf(d.flows[f])
      BY <1>4 DEF BytesOf, Database, FlowRow
    <2>2. Store!Attr(Seen(d, f)) = None
      BY <1>1, <1>4
    <2>3. QED
      BY <1>1, <1>2, <1>4, <2>1, <2>2 DEF Store!Absorbed
  <1>5. CASE d.flows[f] # None
    <2>1. e.flows[f] # None /\ BytesOf(e.flows[f]) >= BytesOf(d.flows[f])
      BY <1>5 DEF Pays, BytesOf
    <2>2. StoredAttr(d, f) # None =>
              /\ StoredAttr(e, f) # None
              /\ StoredAttr(e, f) = StoredAttr(d, f) \/ AtLeast(StoredAttr(e, f), StoredAttr(d, f))
      BY <1>5, <2>1 DEF Stronger
    <2> HIDE DEF StoredAttr
    <2>3. QED
      BY <1>1, <1>2, <2>1, <2>2 DEF Store!Absorbed
  <1>6. QED
    BY <1>3, <1>4, <1>5

LEMMA CommitAbsorbs ==
    ASSUME db \in Database, db' \in Database, Pays(db', db), Stronger(db', db)
    PROVE  Store!Absorb
  <1>1. PICK d \in Database : d = db
    OBVIOUS
  <1>2. PICK e \in Database : e = db'
    OBVIOUS
  <1>3. Pays(e, d) /\ Stronger(e, d)
    BY <1>1, <1>2
  <1>4. /\ [f \in FlowIds |-> Visible(f)] = [f \in FlowIds |-> Seen(d, f)]
        /\ [m \in Macs |-> DeviceTotal(m)] = [m \in Macs |-> Volume(d, m)]
        /\ [m \in Macs |-> [dom \in Domains |-> DomainTotal(m, dom)]] =
             [m \in Macs |-> [dom \in Domains |-> Named(d, m, dom)]]
    BY <1>1, View
  <1>5. /\ [f \in FlowIds |-> Visible(f)]' = [f \in FlowIds |-> Seen(e, f)]
        /\ [m \in Macs |-> DeviceTotal(m)]' = [m \in Macs |-> Volume(e, m)]
        /\ [m \in Macs |-> [dom \in Domains |-> DomainTotal(m, dom)]]' =
             [m \in Macs |-> [dom \in Domains |-> Named(e, m, dom)]]
    BY <1>2, ViewNext
  <1>6. \A f \in FlowIds : Store!Absorbed(Seen(d, f), Seen(e, f))
    BY <1>3, AbsorbRows
  <1>7. \A m \in Macs :
           /\ Volume(e, m) - Volume(d, m) = Store!SumFunction([f \in Store!Of(m) |->
                  Store!Bytes(Seen(e, f)) - Store!Bytes(Seen(d, f))])
           /\ Store!SumFunction([dom \in Domains |-> Named(e, m, dom) - Named(d, m, dom)]) <=
                  Store!SumFunction([f \in Store!Of(m) |->
                      Store!NamedBytes(Seen(e, f)) - Store!NamedBytes(Seen(d, f))])
    BY <1>3, AbsorbSums
  <1>8. PICK F, G : F = [f \in FlowIds |-> Seen(d, f)] /\ G = [f \in FlowIds |-> Seen(e, f)]
    OBVIOUS
  <1>9. PICK V, W : V = [m \in Macs |-> Volume(d, m)] /\ W = [m \in Macs |-> Volume(e, m)]
    OBVIOUS
  <1>10. PICK N, M : /\ N = [m \in Macs |-> [dom \in Domains |-> Named(d, m, dom)]]
                     /\ M = [m \in Macs |-> [dom \in Domains |-> Named(e, m, dom)]]
    OBVIOUS
  <1>11. \A f \in FlowIds : Store!Absorbed(F[f], G[f])
    BY <1>6, <1>8
  <1>12. \A m \in Macs :
           /\ W[m] - V[m] =
                  Store!SumFunction([f \in Store!Of(m) |-> Store!Bytes(G[f]) - Store!Bytes(F[f])])
           /\ Store!SumFunction([dom \in Domains |-> M[m][dom] - N[m][dom]]) <=
                  Store!SumFunction([f \in Store!Of(m) |->
                      Store!NamedBytes(G[f]) - Store!NamedBytes(F[f])])
    <2> TAKE m \in Macs
    <2>1. \A f \in Store!Of(m) : G[f] = Seen(e, f) /\ F[f] = Seen(d, f)
      BY <1>8 DEF Store!Of
    <2>2. [f \in Store!Of(m) |-> Store!Bytes(G[f]) - Store!Bytes(F[f])] =
            [f \in Store!Of(m) |-> Store!Bytes(Seen(e, f)) - Store!Bytes(Seen(d, f))]
      BY <2>1
    <2>3. [f \in Store!Of(m) |-> Store!NamedBytes(G[f]) - Store!NamedBytes(F[f])] =
            [f \in Store!Of(m) |-> Store!NamedBytes(Seen(e, f)) - Store!NamedBytes(Seen(d, f))]
      BY <2>1
    <2>4. [dom \in Domains |-> M[m][dom] - N[m][dom]] =
            [dom \in Domains |-> Named(e, m, dom) - Named(d, m, dom)]
      BY <1>10
    <2>5. W[m] - V[m] = Volume(e, m) - Volume(d, m)
      BY <1>9
    <2>6. QED
      BY <1>7, <2>2, <2>3, <2>4, <2>5
  <1>13. /\ [f \in FlowIds |-> Visible(f)] = F
         /\ [f \in FlowIds |-> Visible(f)]' = G
         /\ [m \in Macs |-> DeviceTotal(m)] = V
         /\ [m \in Macs |-> DeviceTotal(m)]' = W
         /\ [m \in Macs |-> [dom \in Domains |-> DomainTotal(m, dom)]] = N
         /\ [m \in Macs |-> [dom \in Domains |-> DomainTotal(m, dom)]]' = M
    BY <1>4, <1>5, <1>8, <1>9, <1>10
  <1>14. \A f \in FlowIds : Visible(f) = F[f] /\ Visible(f)' = G[f]
    BY <1>13
  <1>15. \A m \in Macs : DeviceTotal(m) = V[m] /\ DeviceTotal(m)' = W[m]
    BY <1>13
  <1>16. \A m \in Macs, dom \in Domains :
            DomainTotal(m, dom) = N[m][dom] /\ DomainTotal(m, dom)' = M[m][dom]
    BY <1>13
  <1>17. \A f \in FlowIds :
            Store!Absorbed([g \in FlowIds |-> Visible(g)][f],
                           ([g \in FlowIds |-> Visible(g)]')[f])
    BY <1>11, <1>14
  <1>18. \A m \in Macs :
            /\ ([n \in Macs |-> DeviceTotal(n)]')[m] - [n \in Macs |-> DeviceTotal(n)][m] =
                 Store!SumFunction([f \in Store!Of(m) |->
                     Store!Bytes(([g \in FlowIds |-> Visible(g)]')[f])
                       - Store!Bytes([g \in FlowIds |-> Visible(g)][f])])
            /\ Store!SumFunction([x \in Domains |->
                     ([n \in Macs |-> [dom \in Domains |-> DomainTotal(n, dom)]]')[m][x]
                       - [n \in Macs |-> [dom \in Domains |-> DomainTotal(n, dom)]][m][x]]) <=
                 Store!SumFunction([f \in Store!Of(m) |->
                     Store!NamedBytes(([g \in FlowIds |-> Visible(g)]')[f])
                       - Store!NamedBytes([g \in FlowIds |-> Visible(g)][f])])
    <2> TAKE m \in Macs
    <2>1. Store!Of(m) \subseteq FlowIds
      BY DEF Store!Of
    <2>2. [f \in Store!Of(m) |-> Store!Bytes(([g \in FlowIds |-> Visible(g)]')[f])
                                   - Store!Bytes([g \in FlowIds |-> Visible(g)][f])] =
            [f \in Store!Of(m) |-> Store!Bytes(G[f]) - Store!Bytes(F[f])]
      BY <1>14, <2>1
    <2>3. [f \in Store!Of(m) |-> Store!NamedBytes(([g \in FlowIds |-> Visible(g)]')[f])
                                   - Store!NamedBytes([g \in FlowIds |-> Visible(g)][f])] =
            [f \in Store!Of(m) |-> Store!NamedBytes(G[f]) - Store!NamedBytes(F[f])]
      BY <1>14, <2>1
    <2>4. [x \in Domains |->
                     ([n \in Macs |-> [dom \in Domains |-> DomainTotal(n, dom)]]')[m][x]
                       - [n \in Macs |-> [dom \in Domains |-> DomainTotal(n, dom)]][m][x]] =
            [dom \in Domains |-> M[m][dom] - N[m][dom]]
      BY <1>16
    <2>5. ([n \in Macs |-> DeviceTotal(n)]')[m] - [n \in Macs |-> DeviceTotal(n)][m] =
            W[m] - V[m]
      BY <1>15
    <2>6. QED
      BY <1>12, <2>2, <2>3, <2>4, <2>5
  <1>19. QED
    BY <1>17, <1>18 DEF Store!Absorb

\* What an erasure leaves a reader of a flow, and of the totals.
LEMMA ForgetsFlow ==
    ASSUME NEW d \in Database, NEW e \in Database, Fading(e, d), NEW f \in FlowIds
    PROVE  \/ Seen(e, f) \in {Seen(d, f), None}
           \/ /\ Store!Attr(Seen(d, f)) # None
              /\ Seen(e, f) = [Seen(d, f) EXCEPT !.attr = None]
              /\ Named(e, ClientMac[f], Seen(d, f).attr.domain) = 0
  <1>1. CASE e.flows[f] = None
    BY <1>1 DEF Seen
  <1>2. CASE e.flows[f] = d.flows[f]
    BY <1>2 DEF Seen
  <1>3. CASE Redacted(e, d, f)
    <2>1. d.flows[f] # None /\ d.flows[f].attr # None /\ d.flows[f] \in FlowRow
      BY <1>3 DEF Redacted, Database
    <2>2. /\ Seen(d, f) = [bytes |-> d.flows[f].bytes, attr |-> d.flows[f].attr]
          /\ Store!Attr(Seen(d, f)) = d.flows[f].attr
      BY <2>1, SeenType
    <2>3. e.flows[f] \in FlowRow /\ e.flows[f].bytes = d.flows[f].bytes /\ e.flows[f].attr = None
      BY <1>3, <2>1 DEF Redacted, FlowRow
    <2>4. Seen(e, f) = [bytes |-> d.flows[f].bytes, attr |-> None]
      BY <2>3, RowsNotNone DEF Seen
    <2>5. \A t \in Minutes : e.domainMin[ClientMac[f]][d.flows[f].attr.domain][t] = 0
      BY <1>3, <2>1 DEF Redacted
    <2>6. Named(e, ClientMac[f], d.flows[f].attr.domain) = 0
      BY <2>5, MinutesFinite, SumZero DEF Named
    <2>7. Seen(e, f) = [Seen(d, f) EXCEPT !.attr = None]
      BY <2>2, <2>4
    <2>8. QED
      BY <2>1, <2>2, <2>6, <2>7
  <1>4. QED
    BY <1>1, <1>2, <1>3 DEF Fading

LEMMA ForgetsTotals ==
    ASSUME NEW d \in Database, NEW e \in Database, Erasure(e, d), Fading(e, d), NEW m \in Macs
    PROVE  /\ Volume(e, m) <= Volume(d, m)
           /\ \A dom \in Domains : Named(e, m, dom) <= Named(d, m, dom)
  <1>1. \A t \in Minutes : /\ d.deviceMin[m][t] \in Nat /\ e.deviceMin[m][t] \in Nat
                           /\ e.deviceMin[m][t] <= d.deviceMin[m][t]
    <2> TAKE t \in Minutes
    <2>1. d.deviceMin[m][t] \in Nat /\ e.deviceMin[m][t] \in Nat
      BY DEF Database
    <2>2. e.deviceMin[m][t] \in {0, d.deviceMin[m][t]}
      BY DEF Fading
    <2>3. QED
      BY <2>1, <2>2
  <1>2. \A dom \in Domains, t \in Minutes :
           /\ d.domainMin[m][dom][t] \in Nat /\ e.domainMin[m][dom][t] \in Nat
           /\ e.domainMin[m][dom][t] <= d.domainMin[m][dom][t]
    <2> TAKE dom \in Domains, t \in Minutes
    <2>1. d.domainMin[m][dom][t] \in Nat /\ e.domainMin[m][dom][t] \in Nat
      BY DEF Database
    <2>2. e.domainMin[m][dom][t] \in {0, d.domainMin[m][dom][t]}
      BY DEF Erasure
    <2>3. QED
      BY <2>1, <2>2
  <1>3. IsFiniteSet(Minutes)
    BY MinutesFinite
  <1>4. Volume(e, m) <= Volume(d, m)
    BY <1>1, <1>3, SumAtMost DEF Volume
  <1>5. ASSUME NEW dom \in Domains PROVE Named(e, m, dom) <= Named(d, m, dom)
    BY <1>2, <1>3, SumAtMost DEF Named
  <1>6. QED
    BY <1>4, <1>5

LEMMA ErasureForgets ==
    ASSUME db \in Database, db' \in Database, Erasure(db', db), Fading(db', db)
    PROVE  Store!Forget
  <1>1. PICK d \in Database : d = db
    OBVIOUS
  <1>2. PICK e \in Database : e = db'
    OBVIOUS
  <1>3. Erasure(e, d) /\ Fading(e, d)
    BY <1>1, <1>2
  <1>4. /\ [f \in FlowIds |-> Visible(f)] = [f \in FlowIds |-> Seen(d, f)]
        /\ [m \in Macs |-> DeviceTotal(m)] = [m \in Macs |-> Volume(d, m)]
        /\ [m \in Macs |-> [dom \in Domains |-> DomainTotal(m, dom)]] =
             [m \in Macs |-> [dom \in Domains |-> Named(d, m, dom)]]
    BY <1>1, View
  <1>5. /\ [f \in FlowIds |-> Visible(f)]' = [f \in FlowIds |-> Seen(e, f)]
        /\ [m \in Macs |-> DeviceTotal(m)]' = [m \in Macs |-> Volume(e, m)]
        /\ [m \in Macs |-> [dom \in Domains |-> DomainTotal(m, dom)]]' =
             [m \in Macs |-> [dom \in Domains |-> Named(e, m, dom)]]
    BY <1>2, ViewNext
  <1>6. \A f \in FlowIds : Visible(f) = Seen(d, f) /\ Visible(f)' = Seen(e, f)
    BY <1>4, <1>5
  <1>7. \A m \in Macs : DeviceTotal(m) = Volume(d, m) /\ DeviceTotal(m)' = Volume(e, m)
    BY <1>4, <1>5
  <1>8. \A m \in Macs, dom \in Domains :
           DomainTotal(m, dom) = Named(d, m, dom) /\ DomainTotal(m, dom)' = Named(e, m, dom)
    BY <1>4, <1>5
  <1>9. ASSUME NEW f \in FlowIds
        PROVE  \/ Visible(f)' \in {Visible(f), None}
               \/ /\ Store!Attr(Visible(f)) # None
                  /\ Visible(f)' = [Visible(f) EXCEPT !.attr = None]
                  /\ ([m \in Macs |-> [dom \in Domains |-> DomainTotal(m, dom)]]')
                        [ClientMac[f]][Visible(f).attr.domain] = 0
    <2>1. \/ Seen(e, f) \in {Seen(d, f), None}
          \/ /\ Store!Attr(Seen(d, f)) # None
             /\ Seen(e, f) = [Seen(d, f) EXCEPT !.attr = None]
             /\ Named(e, ClientMac[f], Seen(d, f).attr.domain) = 0
      BY <1>3, ForgetsFlow
    <2>2. CASE Seen(e, f) \in {Seen(d, f), None}
      BY <1>6, <2>2
    <2>3. CASE /\ Store!Attr(Seen(d, f)) # None
               /\ Seen(e, f) = [Seen(d, f) EXCEPT !.attr = None]
               /\ Named(e, ClientMac[f], Seen(d, f).attr.domain) = 0
      <3>1. StoredAttr(d, f) # None
        BY <2>3, SeenType
      <3>2. d.flows[f] # None /\ d.flows[f].attr \in Attribution
        BY <3>1 DEF Database, FlowRow
      <3>3. Seen(d, f).attr = d.flows[f].attr
        BY <3>2, SeenType
      <3>4. Seen(d, f).attr.domain \in Domains /\ ClientMac[f] \in Macs
        BY <3>2, <3>3, IdentityAssumption DEF Attribution
      <3>5. ([m \in Macs |-> [dom \in Domains |-> DomainTotal(m, dom)]]')
                [ClientMac[f]][Seen(d, f).attr.domain] = 0
        BY <1>8, <2>3, <3>4
      <3>6. QED
        BY <1>6, <2>3, <3>5
    <2>4. QED
      BY <2>1, <2>2, <2>3
  <1>10. \A m \in Macs :
            /\ DeviceTotal(m)' <= DeviceTotal(m)
            /\ \A dom \in Domains : DomainTotal(m, dom)' <= DomainTotal(m, dom)
    BY <1>3, <1>7, <1>8, ForgetsTotals
  <1>11. QED
    BY <1>9, <1>10 DEF Store!Forget

LEMMA NextStore ==
    ASSUME CoverInv, TypeOK', TxnInv, Pays(work, db), [Next]_vars
    PROVE  [Store!TypeOK' /\ (Store!Absorb \/ Store!Forget)]_(Store!store)
  <1>1. TypeOK /\ SweepInv /\ db \in Database /\ db' \in Database
    BY DEF CoverInv, TypeOK
  <1>2. Store!TypeOK'
    BY StoreTypedNext
  <1>3. CASE UNCHANGED db
    BY <1>3 DEF Store!store, Visible, DeviceTotal, DomainTotal
  <1>4. CASE Commit
    <2>1. Pays(db', db) /\ Stronger(db', db)
      BY <1>4 DEF Commit, TxnInv
    <2>2. Store!Absorb
      BY <1>1, <2>1, CommitAbsorbs
    <2>3. QED
      BY <1>2, <2>2
  <1>5. CASE ErasesRows
    <2>1. Erasure(db', db) /\ Fading(db', db)
      BY <1>5 DEF ErasesRows, Apply
    <2>2. Store!Forget
      BY <1>1, <2>1, ErasureForgets
    <2>3. QED
      BY <1>2, <2>2
  <1>6. QED
    BY <1>1, <1>3, <1>4, <1>5, StepKinds DEF UpsertStep, BackfillStep, Rollback

\* To a reader, every step of the write path is one of FlowStore's or none.
THEOREM StoreImplemented == Spec => ImplementsStore
  <1>1. Init => Pays(work, db)
    <2> SUFFICES ASSUME Init PROVE Pays(work, db)
      OBVIOUS
    <2>1. db \in Database /\ work = db
      BY LegacyType DEF Init
    <2>2. QED
      BY <2>1, PaysReflexive
  <1>2. ASSUME CoverInv, Within(work), Pays(work, db), [Next]_vars PROVE Pays(work, db)'
    <2>1. PICK d : d = db'
      OBVIOUS
    <2>2. PICK w : w = work'
      OBVIOUS
    <2>3. Pays(w, d)
      BY <1>2, <2>1, <2>2, NextPays
    <2>4. QED
      BY <2>1, <2>2, <2>3 DEF Pays, Volume, Named, Growth, NamedGrowth, DomainGrowth,
                              BytesOf, NamedBytes
  <1>3. ASSUME CoverInv, TypeOK', TxnInv, Pays(work, db), [Next]_vars
        PROVE  [Store!TypeOK' /\ (Store!Absorb \/ Store!Forget)]_(Store!store)
    BY <1>3, NextStore
  <1>4. TypeOK => Store!TypeOK
    BY StoreTyped
  <1> HIDE DEF Labelled, Conflicts, StoredAttr
  <1>5. QED
    BY <1>1, <1>2, <1>3, <1>4, TypeCorrect, CoverInvariant, WithinInvariant, TxnInvariant, PTL
       DEF Spec, ImplementsStore, Store!Spec
=============================================================================
