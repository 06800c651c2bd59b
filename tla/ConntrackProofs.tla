-------------------------- MODULE ConntrackProofs --------------------------
(***************************************************************************)
(* Proofs about Conntrack, for any entries of the kernel's table, any flow *)
(* and any refresh interval.                                               *)
(***************************************************************************)
EXTENDS Conntrack, FiniteSetTheorems, TLAPS

-----------------------------------------------------------------------------
(* Types.                                                                   *)

\* A collection by how far it has come.
Cols ==
    {Rest} \cup [at: {"collected", "enriched"}, batch: Batch]
        \cup [at: {"dump"}, batch: Batch, started: Times,
              steady: SUBSET Entries, read: SUBSET ConntrackEntry]

Typed == TypeOK /\ col \in Cols

LEMMA ColShape ==
    ASSUME NEW c \in Cols
    PROVE  /\ c.at \in {"rest", "collected", "dump", "enriched"}
           /\ c.at = "rest" <=> c = Rest
           /\ c # Rest => c.batch \in Batch
           /\ c.at = "dump" =>
                  /\ c.started \in Times /\ c.steady \subseteq Entries
                  /\ c.read \subseteq ConntrackEntry
                  /\ c \in [at: {"dump"}, batch: Batch, started: Times,
                            steady: SUBSET Entries, read: SUBSET ConntrackEntry]
  BY DEF Cols, Rest

\* A flow's batch takes from a snapshot an entry of its own tuple, whole, or nothing.
LEMMA EnrichedIs ==
    ASSUME NEW b \in Batch, NEW entries \in SUBSET ConntrackEntry
    PROVE  \/ /\ Associate(entries) = {} /\ Enriched(b, entries) = [b EXCEPT !.enriched = TRUE]
           \/ \E c \in entries :
                  /\ Associate(entries) # {} /\ c \in Associate(entries) /\ c.entry \in OfFlow
                  /\ c = CHOOSE x \in Associate(entries) : TRUE
                  /\ Enriched(b, entries) =
                         [b EXCEPT !.enriched = TRUE, !.state = c.state,
                             !.natSource = IF NatMapping(c.entry) = None THEN @
                                           ELSE NatMapping(c.entry).source,
                             !.natDestination = IF NatMapping(c.entry) = None THEN @
                                                ELSE NatMapping(c.entry).destination]
  <1>1. CASE Associate(entries) = {}
    BY <1>1 DEF Enriched
  <1>2. CASE Associate(entries) # {}
    <2> DEFINE c == CHOOSE x \in Associate(entries) : TRUE
    <2>1. c \in Associate(entries)
      BY <1>2
    <2>2. c \in entries /\ FlowTuple \in Tuples(c.entry)
      BY <2>1 DEF Associate, Candidates
    <2>3. c.entry \in OfFlow
      BY <2>2 DEF OfFlow, ConntrackEntry
    <2>4. Enriched(b, entries) =
              [b EXCEPT !.enriched = TRUE, !.state = c.state,
                  !.natSource = IF NatMapping(c.entry) = None THEN @
                                ELSE NatMapping(c.entry).source,
                  !.natDestination = IF NatMapping(c.entry) = None THEN @
                                     ELSE NatMapping(c.entry).destination]
      BY <1>2 DEF Enriched
    <2>5. QED
      BY <1>2, <2>1, <2>2, <2>3, <2>4
  <1>3. QED
    BY <1>1, <1>2

LEMMA NatMappingType ==
    ASSUME NEW e \in Entries, NatMapping(e) # None
    PROVE  NatMapping(e).source \in Endpoints /\ NatMapping(e).destination \in Endpoints
  BY ConntrackTuples DEF NatMapping, ReverseOf, NetworkTuple

LEMMA EnrichedType ==
    ASSUME NEW b \in Batch, NEW entries \in SUBSET ConntrackEntry
    PROVE  /\ Enriched(b, entries) \in Batch
           /\ Enriched(b, entries).first = b.first /\ Enriched(b, entries).at = b.at
  <1>1. CASE Enriched(b, entries) = [b EXCEPT !.enriched = TRUE]
    BY <1>1 DEF Batch
  <1>2. ASSUME NEW c \in entries,
               Enriched(b, entries) =
                   [b EXCEPT !.enriched = TRUE, !.state = c.state,
                       !.natSource = IF NatMapping(c.entry) = None THEN @
                                     ELSE NatMapping(c.entry).source,
                       !.natDestination = IF NatMapping(c.entry) = None THEN @
                                          ELSE NatMapping(c.entry).destination]
        PROVE  /\ Enriched(b, entries) \in Batch
               /\ Enriched(b, entries).first = b.first /\ Enriched(b, entries).at = b.at
    <2>1. c.entry \in Entries /\ c.state \in ConnectionState
      BY DEF ConntrackEntry
    <2>2. QED
      BY <1>2, <2>1, NatMappingType DEF Batch, Optional
  <1>3. QED
    BY <1>1, <1>2, EnrichedIs

LEMMA UpsertType ==
    ASSUME NEW old \in Optional(Batch), NEW b \in Batch
    PROVE  /\ Upsert(old, b) \in Batch
           /\ Upsert(old, b).first = b.first /\ Upsert(old, b).at = b.at
           /\ Upsert(old, b).state = b.state /\ Upsert(old, b).enriched = b.enriched
  BY DEF Upsert, Coalesce, Batch, Optional

LEMMA InitType == Init => Typed
  BY ConntrackBounds DEF Init, Typed, TypeOK, Cols, Optional, Times

LEMMA ChangeType ==
    ASSUME Typed, NEW e \in Entries,
           NEW value \in Optional([state: KernelStates, since: Times]), Change(e, value)
    PROVE  Typed'
  <1> USE DEF Typed, TypeOK, Times, Optional
  <1>1. /\ changes' \in 0 .. MaxChanges
        /\ table' \in [Entries -> Optional([state: KernelStates, since: Times])]
        /\ UNCHANGED <<now, flow, cache, rows, batches>>
    BY ConntrackBounds DEF Change
  <1>2. held' \in [Entries -> [KernelStates -> Optional(Times)]]
    BY DEF Change
  <1>3. col' \in Cols /\ (col' # Rest => col'.batch \in Batch)
    <2>1. CASE col.at = "dump"
      <3>1. /\ col' = [col EXCEPT !.steady = @ \ {e}]
            /\ col \in [at: {"dump"}, batch: Batch, started: Times,
                        steady: SUBSET Entries, read: SUBSET ConntrackEntry]
        BY <2>1, ColShape DEF Change
      <3>2. QED
        BY <3>1 DEF Cols
    <2>2. CASE col.at # "dump"
      BY <2>2 DEF Change
    <2>3. QED
      BY <2>1, <2>2
  <1>4. QED
    BY <1>1, <1>2, <1>3

LEMMA NextType ==
    ASSUME Typed, Next
    PROVE  Typed'
  <1> USE DEF Typed, TypeOK
  <1>1. /\ now \in Times /\ col \in Cols /\ cache \in Optional(Snapshot)
        /\ \A k \in KernelStates : [state |-> k, since |-> now] \in [state: KernelStates, since: Times]
        /\ None \in Optional([state: KernelStates, since: Times])
        /\ [state: KernelStates, since: Times] \subseteq Optional([state: KernelStates, since: Times])
    BY DEF Optional
  <1>2. CASE Tick
    <2>1. now' \in Times
      BY <1>2, ConntrackBounds DEF Tick, Times
    <2>2. QED
      BY <1>2, <2>1 DEF Tick
  <1>3. ASSUME NEW e \in Entries, NEW k \in KernelStates, Tracked(e, k) \/ Moves(e, k)
        PROVE  Typed'
    BY <1>1, <1>3, ChangeType DEF Tracked, Moves
  <1>4. ASSUME NEW e \in Entries, Forgotten(e)
        PROVE  Typed'
    BY <1>1, <1>4, ChangeType DEF Forgotten
  <1>5. ASSUME NEW e \in Entries, ReadEntry(e)
        PROVE  Typed'
    <2>1. /\ col \in [at: {"dump"}, batch: Batch, started: Times,
                      steady: SUBSET Entries, read: SUBSET ConntrackEntry]
          /\ table[e] # None /\ table[e] \in Optional([state: KernelStates, since: Times])
          /\ col' = [col EXCEPT !.read = @ \cup {[entry |-> e,
                                                 state |-> StateFromKernel(table[e].state)]}]
      BY <1>1, <1>5, ColShape DEF ReadEntry, Live
    <2>2. [entry |-> e, state |-> StateFromKernel(table[e].state)] \in ConntrackEntry
      BY <2>1, ConntrackTuples DEF ConntrackEntry, Optional
    <2>3. col' \in Cols /\ col'.batch \in Batch
      BY <2>1, <2>2 DEF Cols
    <2>4. QED
      BY <1>5, <2>3 DEF ReadEntry
  <1>6. CASE FirstPacket \/ FlowExpires
    BY <1>1, <1>6 DEF FirstPacket, FlowExpires, Optional
  <1>7. CASE BaseCollect
    <2>1. flow \in Times
      BY <1>7 DEF BaseCollect, Optional
    <2>2. [first |-> flow, at |-> now, enriched |-> FALSE, state |-> "unknown",
           natSource |-> None, natDestination |-> None] \in Batch
      BY <1>1, <2>1 DEF Batch, ConnectionState, Optional
    <2>3. col' \in Cols /\ col'.batch \in Batch
      BY <1>7, <2>2 DEF BaseCollect, Cols
    <2>4. batches' \in 0 .. MaxBatches
      BY <1>7, ConntrackBounds DEF BaseCollect
    <2>5. QED
      BY <1>7, <2>3, <2>4 DEF BaseCollect
  <1>8. CASE SnapshotCached
    <2>1. col.batch \in Batch /\ cache.entries \in SUBSET ConntrackEntry
      BY <1>1, <1>8, ColShape DEF SnapshotCached, Fresh, Rest, Optional, Snapshot
    <2>2. col' \in Cols /\ col'.batch \in Batch
      BY <1>8, <2>1, EnrichedType DEF SnapshotCached, Cols
    <2>3. QED
      BY <1>8, <2>2 DEF SnapshotCached
  <1>9. CASE BeginDump
    <2>1. col.batch \in Batch /\ Live \subseteq Entries
      BY <1>1, <1>9, ColShape DEF BeginDump, Rest, Live
    <2>2. col' \in Cols /\ col'.batch \in Batch
      BY <1>1, <1>9, <2>1 DEF BeginDump, Cols
    <2>3. QED
      BY <1>9, <2>2 DEF BeginDump
  <1>10. CASE EndDump
    <2>1. col.batch \in Batch /\ col.read \in SUBSET ConntrackEntry /\ col.started \in Times
      BY <1>1, <1>10, ColShape DEF EndDump, Rest
    <2>2. col' \in Cols /\ col'.batch \in Batch
      BY <1>10, <2>1, EnrichedType DEF EndDump, Cols
    <2>3. cache' \in Optional(Snapshot)
      BY <1>10, <2>1 DEF EndDump, RefreshedAt, Optional, Snapshot
    <2>4. QED
      BY <1>10, <2>2, <2>3 DEF EndDump
  <1>11. CASE DumpFails
    BY <1>1, <1>11, ColShape DEF DumpFails, Cols, Rest
  <1>12. CASE Ingest
    <2>1. col.batch \in Batch /\ col.batch.first \in Times
      BY <1>1, <1>12, ColShape DEF Ingest, Rest, Batch
    <2>2. Upsert(rows[col.batch.first], col.batch) \in Optional(Batch)
      BY <2>1, UpsertType DEF Optional
    <2>3. rows' \in [Times -> Optional(Batch)]
      BY <1>12, <2>1, <2>2 DEF Ingest
    <2>4. QED
      BY <1>12, <2>3 DEF Ingest, Cols
  <1>13. CASE IngestFails
    BY <1>13 DEF IngestFails, Cols
  <1>14. QED
    BY <1>2, <1>3, <1>4, <1>5, <1>6, <1>7, <1>8, <1>9, <1>10, <1>11, <1>12, <1>13 DEF Next

\* Values keep their shape through the steps of a collection.
THEOREM TypeCorrect == Spec => []Typed
  <1>1. Typed /\ [Next]_vars => Typed'
    BY NextType DEF vars, Typed, TypeOK
  <1>2. QED
    BY InitType, <1>1, PTL DEF Spec

-----------------------------------------------------------------------------
(* What is known of the kernel's past.                                      *)

\* Nothing in the history of the table lies in the future.
HistoryInv ==
    /\ \A e \in Entries : table[e] # None => table[e].since <= now
    /\ \A e \in Entries, k \in KernelStates : held[e][k] # None => held[e][k] <= now
    /\ flow # None => flow <= now

LEMMA NextHistory ==
    ASSUME Typed, HistoryInv, [Next]_vars
    PROVE  HistoryInv'
  <1> USE DEF Typed, TypeOK, HistoryInv
  <1>1. now \in Int /\ None \notin Times
    BY ConntrackNone DEF Times
  <1>2. CASE Tick
    BY <1>2 DEF Tick, Times, Optional
  <1>3. ASSUME NEW e \in Entries, NEW value, Change(e, value),
               value # None => value.since = now
        PROVE  HistoryInv'
    BY <1>1, <1>3 DEF Change, Optional
  <1>4. ASSUME NEW e \in Entries, NEW k \in KernelStates,
               Tracked(e, k) \/ Moves(e, k) \/ Forgotten(e)
        PROVE  HistoryInv'
    BY <1>3, <1>4 DEF Tracked, Moves, Forgotten
  <1>5. ASSUME NEW e \in Entries, Forgotten(e)
        PROVE  HistoryInv'
    BY <1>3, <1>5 DEF Forgotten
  <1>6. CASE FirstPacket
    BY <1>1, <1>6 DEF FirstPacket
  <1>7. CASE UNCHANGED <<now, table, held>> /\ (UNCHANGED flow \/ flow' = None)
    BY <1>7
  <1>8. QED
    BY <1>2, <1>4, <1>5, <1>6, <1>7
       DEF Next, vars, ReadEntry, FlowExpires, BaseCollect, SnapshotCached,
           BeginDump, EndDump, DumpFails, Ingest, IngestFails

\* A state that a connection was in after t, it will have been in after t.
LEMMA HeldAfterStays ==
    ASSUME Typed, [Next]_vars, NEW e \in Entries, NEW k \in KernelStates,
           NEW t \in Int, t < now, HeldAfter(e, k, t)
    PROVE  HeldAfter(e, k, t)'
  <1> USE DEF Typed, TypeOK, HeldAfter
  <1>1. now \in Int /\ None \notin Times /\ now \in Times
    BY ConntrackNone DEF Times
  <1>2. ASSUME NEW x \in Entries, NEW value, Change(x, value)
        PROVE  HeldAfter(e, k, t)'
    <2>1. CASE x = e
      BY <1>1, <1>2, <2>1 DEF Change
    <2>2. CASE x # e
      BY <1>1, <1>2, <2>2 DEF Change
    <2>3. QED
      BY <2>1, <2>2
  <1>3. CASE UNCHANGED <<table, held>>
    BY <1>3
  <1>4. QED
    BY <1>2, <1>3
       DEF Next, vars, Tick, Tracked, Moves, Forgotten, ReadEntry, FirstPacket, FlowExpires,
           BaseCollect, SnapshotCached, BeginDump, EndDump, DumpFails, Ingest, IngestFails

LEMMA HeldAfterEarlier ==
    ASSUME Typed, NEW e \in Entries, NEW k \in KernelStates,
           NEW t \in Int, NEW u \in Int, u <= t, HeldAfter(e, k, t)
    PROVE  HeldAfter(e, k, u)
  BY DEF HeldAfter, Typed, TypeOK, Optional, Times

\* A connection that has not changed since some moment was there already before
\* this step, as it is.
LEMMA SteadyBefore ==
    ASSUME Typed, HistoryInv, [Next]_vars, NEW e \in Entries, NEW t \in Times, t <= now,
           table'[e] # None, table'[e].since < t
    PROVE  table'[e] = table[e]
  <1> USE DEF Typed, TypeOK
  <1>1. now \in Int /\ t \in Int
    BY DEF Times
  <1>2. ASSUME NEW x \in Entries, NEW value, Change(x, value), value # None => value.since = now
        PROVE  table'[e] = table[e]
    BY <1>1, <1>2 DEF Change
  <1>3. CASE UNCHANGED table
    BY <1>3
  <1>4. QED
    BY <1>2, <1>3
       DEF Next, vars, Tick, Tracked, Moves, Forgotten, ReadEntry, FirstPacket, FlowExpires,
           BaseCollect, SnapshotCached, BeginDump, EndDump, DumpFails, Ingest, IngestFails

LEMMA TimePasses ==
    ASSUME Typed, [Next]_vars
    PROVE  now \in Int /\ now' \in Int /\ now <= now'
  <1>1. now \in Int
    BY DEF Typed, TypeOK, Times
  <1>2. now' = now \/ now' = now + 1
    BY DEF Next, vars, Tick, Change, Tracked, Moves, Forgotten, ReadEntry, FirstPacket,
           FlowExpires, BaseCollect, SnapshotCached, BeginDump, EndDump, DumpFails, Ingest,
           IngestFails
  <1>3. QED
    BY <1>1, <1>2

\* A connection that was not there after some moment was not before this step.
LEMMA AbsentBefore ==
    ASSUME Typed, [Next]_vars, NEW e \in Entries, NEW t \in Int, t < now,
           table'[e] = None, \A k \in KernelStates : ~HeldAfter(e, k, t)'
    PROVE  table[e] = None /\ \A k \in KernelStates : ~HeldAfter(e, k, t)
  <1>1. \A k \in KernelStates : ~HeldAfter(e, k, t)
    BY HeldAfterStays
  <1>2. table[e] # None => table[e].state \in KernelStates
    BY DEF Typed, TypeOK, Optional
  <1>3. QED
    BY <1>1, <1>2 DEF HeldAfter

-----------------------------------------------------------------------------
(* What a snapshot, a batch and a row say of the kernel's table.            *)

\* A snapshot that was begun at some moment: what it says was so then or later,
\* it says one thing of a connection, and it has every connection that has not
\* changed since before that moment.
SnapInv(entries, at) ==
    /\ \A c \in entries : \E k \in KernelStates :
           StateFromKernel(k) = c.state /\ HeldAfter(c.entry, k, at - 1)
    /\ \A c, d \in entries : c.entry = d.entry => c = d
    /\ \A e \in Entries :
           table[e] # None /\ table[e].since < at =>
               [entry |-> e, state |-> StateFromKernel(table[e].state)] \in entries

StateOf(b) ==
    b.state # "unknown" =>
        \E e \in OfFlow, k \in KernelStates :
            StateFromKernel(k) = b.state /\ HeldAfter(e, k, b.at - Refresh)

MappingOf(b) ==
    b.natSource # None \/ b.natDestination # None =>
        \E e \in OfFlow :
            /\ NatMapping(e) # None
            /\ NatMapping(e).source = b.natSource
            /\ NatMapping(e).destination = b.natDestination
            /\ \E k \in KernelStates : HeldAfter(e, k, b.first - Refresh)

\* Of the entries of the tuple, e is the only one since it last changed.
Alone(e) ==
    \A other \in OfFlow \ {e} :
        /\ table[other] = None
        /\ \A k \in KernelStates : ~HeldAfter(other, k, table[e].since)

ShownIn(b) ==
    \A e \in OfFlow :
        b.enriched /\ table[e] # None /\ table[e].since + Refresh <= b.at /\ Alone(e) =>
            /\ b.state = StateFromKernel(table[e].state)
            /\ NatMapping(e) # None =>
                   /\ b.natSource = NatMapping(e).source
                   /\ b.natDestination = NatMapping(e).destination

\* The properties of a row, which its last batch has already.
BatchInv(b) ==
    /\ b.first <= b.at /\ b.at <= now
    /\ StateOf(b) /\ MappingOf(b) /\ ShownIn(b)

\* A batch before it is enriched.
Raw(b) ==
    /\ b.first <= b.at /\ b.at <= now
    /\ ~b.enriched /\ b.state = "unknown" /\ b.natSource = None /\ b.natDestination = None

LEMMA RawIsSound ==
    ASSUME NEW b, Raw(b)
    PROVE  BatchInv(b)
  BY DEF Raw, BatchInv, StateOf, MappingOf, ShownIn

LEMMA SnapStays ==
    ASSUME Typed, HistoryInv, [Next]_vars, NEW entries \in SUBSET ConntrackEntry,
           NEW at \in Times, at <= now, SnapInv(entries, at)
    PROVE  SnapInv(entries, at)'
  <1>1. at \in Int /\ at - 1 \in Int /\ at - 1 < now /\ now \in Int
    BY DEF Typed, TypeOK, Times
  <1>2. ASSUME NEW c \in entries
        PROVE  \E k \in KernelStates :
                   StateFromKernel(k) = c.state /\ HeldAfter(c.entry, k, at - 1)'
    <2>1. c.entry \in Entries
      BY DEF ConntrackEntry
    <2>2. PICK k \in KernelStates :
              StateFromKernel(k) = c.state /\ HeldAfter(c.entry, k, at - 1)
      BY DEF SnapInv
    <2>3. HeldAfter(c.entry, k, at - 1)'
      BY <1>1, <2>1, <2>2, HeldAfterStays
    <2>4. QED
      BY <2>2, <2>3
  <1>3. ASSUME NEW e \in Entries, table'[e] # None, table'[e].since < at
        PROVE  [entry |-> e, state |-> StateFromKernel(table'[e].state)] \in entries
    BY <1>3, SteadyBefore DEF SnapInv
  <1>4. QED
    BY <1>2, <1>3 DEF SnapInv

LEMMA BatchStays ==
    ASSUME Typed, HistoryInv, [Next]_vars, NEW b \in Batch, BatchInv(b)
    PROVE  BatchInv(b)'
  <1>1. /\ b.first \in Int /\ b.at \in Int /\ b.first <= b.at /\ b.at <= now /\ Refresh \in Int
        /\ b.at - Refresh < now /\ b.first - Refresh < now /\ now \in Int
        /\ b.at - Refresh \in Int /\ b.first - Refresh \in Int /\ Refresh > 0 /\ b.at \in Times
    BY ConntrackBounds DEF BatchInv, Batch, Times, Typed, TypeOK
  <1>2. b.at <= now'
    BY <1>1, TimePasses
  <1>3. StateOf(b)'
    <2> SUFFICES ASSUME b.state # "unknown"
                 PROVE  \E e \in OfFlow, k \in KernelStates :
                            StateFromKernel(k) = b.state /\ HeldAfter(e, k, b.at - Refresh)'
      BY DEF StateOf
    <2>1. PICK e \in OfFlow, k \in KernelStates :
              StateFromKernel(k) = b.state /\ HeldAfter(e, k, b.at - Refresh)
      BY DEF BatchInv, StateOf
    <2>2. HeldAfter(e, k, b.at - Refresh)'
      BY <1>1, <2>1, HeldAfterStays DEF OfFlow
    <2>3. QED
      BY <2>1, <2>2
  <1>4. MappingOf(b)'
    <2> SUFFICES ASSUME b.natSource # None \/ b.natDestination # None
                 PROVE  \E e \in OfFlow :
                            /\ NatMapping(e) # None
                            /\ NatMapping(e).source = b.natSource
                            /\ NatMapping(e).destination = b.natDestination
                            /\ \E k \in KernelStates : HeldAfter(e, k, b.first - Refresh)'
      BY DEF MappingOf
    <2>1. PICK e \in OfFlow :
              /\ NatMapping(e) # None
              /\ NatMapping(e).source = b.natSource
              /\ NatMapping(e).destination = b.natDestination
              /\ \E k \in KernelStates : HeldAfter(e, k, b.first - Refresh)
      BY DEF BatchInv, MappingOf
    <2>2. PICK k \in KernelStates : HeldAfter(e, k, b.first - Refresh)
      BY <2>1
    <2>3. HeldAfter(e, k, b.first - Refresh)'
      BY <1>1, <2>2, HeldAfterStays DEF OfFlow
    <2>4. QED
      BY <2>1, <2>3
  <1>5. ShownIn(b)'
    <2> SUFFICES ASSUME NEW e \in OfFlow, b.enriched, table'[e] # None,
                        table'[e].since + Refresh <= b.at, Alone(e)'
                 PROVE  /\ b.state = StateFromKernel(table'[e].state)
                        /\ NatMapping(e) # None =>
                               /\ b.natSource = NatMapping(e).source
                               /\ b.natDestination = NatMapping(e).destination
      BY DEF ShownIn
    <2>1. e \in Entries /\ OfFlow \subseteq Entries
      BY DEF OfFlow
    <2>2. table'[e].since \in Int
      BY <2>1, NextType DEF Typed, TypeOK, Optional, Times, vars
    <2>3. table'[e].since < b.at
      BY <1>1, <2>2
    <2>4. table'[e] = table[e]
      BY <1>1, <2>1, <2>3, SteadyBefore
    <2>5. ASSUME NEW other \in OfFlow \ {e}
          PROVE  /\ table[other] = None
                 /\ \A k \in KernelStates : ~HeldAfter(other, k, table[e].since)
      <3> PICK t : t = table[e].since
        OBVIOUS
      <3>1. t \in Int /\ t < now
        BY <1>1, <2>2, <2>3, <2>4
      <3>2. table'[other] = None /\ \A k \in KernelStates : ~HeldAfter(other, k, t)'
        BY <2>4 DEF Alone, HeldAfter
      <3>3. QED
        BY <2>1, <3>1, <3>2, AbsentBefore
    <2>6. QED
      BY <2>4, <2>5 DEF BatchInv, ShownIn, Alone
  <1>6. QED
    BY <1>1, <1>2, <1>3, <1>4, <1>5 DEF BatchInv

\* Joining a batch with a snapshot less than a refresh interval older.
LEMMA EnrichedSound ==
    ASSUME Typed, HistoryInv, NEW b \in Batch, Raw(b),
           NEW entries \in SUBSET ConntrackEntry, NEW at \in Times,
           b.at - Refresh < at, SnapInv(entries, at)
    PROVE  BatchInv(Enriched(b, entries))
  <1> PICK r : r = Enriched(b, entries)
    OBVIOUS
  <1>1. /\ b.first \in Int /\ b.at \in Int /\ at \in Int /\ Refresh \in Int /\ Refresh > 0
        /\ b.first <= b.at /\ b.at <= now /\ at - 1 \in Int
        /\ b.at - Refresh \in Int /\ b.first - Refresh \in Int
        /\ b.at - Refresh <= at - 1 /\ b.first - Refresh <= at - 1
    BY ConntrackBounds DEF Raw, Batch, Times
  <1>2. r \in Batch /\ r.first = b.first /\ r.at = b.at
    BY EnrichedType
  <1>3. ASSUME NEW c \in entries
        PROVE  c.entry \in Entries /\ c.state \in ConnectionState
    BY DEF ConntrackEntry
  <1>4. ASSUME NEW c \in entries, c.entry \in OfFlow,
               r = [b EXCEPT !.enriched = TRUE, !.state = c.state,
                       !.natSource = IF NatMapping(c.entry) = None THEN @
                                     ELSE NatMapping(c.entry).source,
                       !.natDestination = IF NatMapping(c.entry) = None THEN @
                                          ELSE NatMapping(c.entry).destination]
        PROVE  StateOf(r) /\ MappingOf(r)
    <2>1. PICK k \in KernelStates :
              StateFromKernel(k) = c.state /\ HeldAfter(c.entry, k, at - 1)
      BY DEF SnapInv
    <2>2. HeldAfter(c.entry, k, b.at - Refresh) /\ HeldAfter(c.entry, k, b.first - Refresh)
      BY <1>1, <1>3, <2>1, HeldAfterEarlier
    <2>3. r.state = c.state
      BY <1>4 DEF Batch
    <2>4. IF NatMapping(c.entry) = None THEN r.natSource = None /\ r.natDestination = None
          ELSE /\ r.natSource = NatMapping(c.entry).source
               /\ r.natDestination = NatMapping(c.entry).destination
      BY <1>4 DEF Batch, Raw
    <2>5. QED
      BY <1>2, <1>4, <2>1, <2>2, <2>3, <2>4 DEF StateOf, MappingOf
  <1>5. ASSUME Associate(entries) = {}, r = [b EXCEPT !.enriched = TRUE]
        PROVE  StateOf(r) /\ MappingOf(r)
    BY <1>5 DEF Batch, Raw, StateOf, MappingOf
  <1>6. StateOf(r) /\ MappingOf(r)
    BY <1>4, <1>5, EnrichedIs
  <1>7. ASSUME NEW e \in OfFlow, table[e] # None, table[e].since + Refresh <= b.at, Alone(e)
        PROVE  /\ r.state = StateFromKernel(table[e].state)
               /\ NatMapping(e) # None =>
                      /\ r.natSource = NatMapping(e).source
                      /\ r.natDestination = NatMapping(e).destination
    <2> PICK shown : shown = [entry |-> e, state |-> StateFromKernel(table[e].state)]
      OBVIOUS
    <2>1. /\ e \in Entries /\ FlowTuple \in Tuples(e) /\ table[e].since \in Int
          /\ table[e].since <= at - 1
      BY <1>1, <1>7 DEF OfFlow, Typed, TypeOK, Optional, Times
    <2>2. shown \in entries
      BY <1>1, <1>7, <2>1 DEF SnapInv
    <2>3. ASSUME NEW c \in Candidates(entries) PROVE c = shown
      <3>1. c \in entries /\ c.entry \in OfFlow
        BY <1>3 DEF Candidates, OfFlow
      <3>2. PICK k \in KernelStates : HeldAfter(c.entry, k, at - 1)
        BY <3>1 DEF SnapInv
      <3>3. HeldAfter(c.entry, k, table[e].since)
        BY <1>1, <1>3, <2>1, <3>1, <3>2, HeldAfterEarlier
      <3>4. c.entry = e
        BY <1>7, <3>1, <3>3 DEF Alone
      <3>5. QED
        BY <2>2, <3>1, <3>4 DEF SnapInv
    <2>4. Candidates(entries) = {shown}
      BY <2>1, <2>2, <2>3 DEF Candidates
    <2>5. Associate(entries) = {shown}
      BY <2>4, FS_Singleton DEF Associate
    <2>6. r = [b EXCEPT !.enriched = TRUE, !.state = shown.state,
                   !.natSource = IF NatMapping(shown.entry) = None THEN @
                                 ELSE NatMapping(shown.entry).source,
                   !.natDestination = IF NatMapping(shown.entry) = None THEN @
                                      ELSE NatMapping(shown.entry).destination]
      <3>1. PICK c \in entries :
                /\ c \in Associate(entries)
                /\ Enriched(b, entries) =
                       [b EXCEPT !.enriched = TRUE, !.state = c.state,
                           !.natSource = IF NatMapping(c.entry) = None THEN @
                                         ELSE NatMapping(c.entry).source,
                           !.natDestination = IF NatMapping(c.entry) = None THEN @
                                              ELSE NatMapping(c.entry).destination]
        BY ZenonT(60), <2>5, EnrichedIs
      <3>2. c = shown
        BY <2>5, <3>1
      <3>3. QED
        BY <3>1, <3>2
    <2>7. QED
      BY <2>6 DEF Batch
  <1>8. ShownIn(r)
    BY <1>2, <1>7 DEF ShownIn
  <1>9. QED
    BY <1>1, <1>2, <1>6, <1>8 DEF BatchInv

\* The upsert keeps an old translation only where the batch has none.
LEMMA UpsertSound ==
    ASSUME Typed, NEW b \in Batch, BatchInv(b), NEW old \in Optional(Batch),
           old # None => old.first = b.first /\ BatchInv(old)
    PROVE  BatchInv(Upsert(old, b))
  <1> PICK r : r = Upsert(old, b)
    OBVIOUS
  <1>1. /\ r \in Batch /\ r.first = b.first /\ r.at = b.at
        /\ r.state = b.state /\ r.enriched = b.enriched
    BY UpsertType
  <1>2. \A e \in OfFlow : NatMapping(e) # None =>
            NatMapping(e).source # None /\ NatMapping(e).destination # None
    BY NatMappingType, ConntrackNone DEF OfFlow
  <1>3. /\ r.natSource = IF b.natSource = None /\ old # None THEN old.natSource ELSE b.natSource
        /\ r.natDestination = IF b.natDestination = None /\ old # None THEN old.natDestination
                              ELSE b.natDestination
    BY DEF Upsert, Coalesce, Batch
  <1>4. MappingOf(r)
    <2>1. CASE b.natSource # None \/ b.natDestination # None
      <3>1. b.natSource # None /\ b.natDestination # None
        BY <1>2, <2>1 DEF BatchInv, MappingOf
      <3>2. r.natSource = b.natSource /\ r.natDestination = b.natDestination
        BY <1>3, <3>1
      <3>3. QED
        BY <1>1, <3>2 DEF BatchInv, MappingOf
    <2>2. CASE b.natSource = None /\ b.natDestination = None /\ old # None
      <3>1. r.natSource = old.natSource /\ r.natDestination = old.natDestination
        BY <1>3, <2>2
      <3>2. QED
        BY <1>1, <2>2, <3>1 DEF BatchInv, MappingOf
    <2>3. CASE b.natSource = None /\ b.natDestination = None /\ old = None
      BY <1>3, <2>3 DEF MappingOf
    <2>4. QED
      BY <2>1, <2>2, <2>3
  <1>5. ShownIn(r)
    <2> SUFFICES ASSUME NEW e \in OfFlow, r.enriched, table[e] # None,
                        table[e].since + Refresh <= r.at, Alone(e)
                 PROVE  /\ r.state = StateFromKernel(table[e].state)
                        /\ NatMapping(e) # None =>
                               /\ r.natSource = NatMapping(e).source
                               /\ r.natDestination = NatMapping(e).destination
      BY DEF ShownIn
    <2>1. /\ b.state = StateFromKernel(table[e].state)
          /\ NatMapping(e) # None =>
                 /\ b.natSource = NatMapping(e).source
                 /\ b.natDestination = NatMapping(e).destination
      BY <1>1 DEF BatchInv, ShownIn
    <2>2. QED
      BY <1>1, <1>2, <1>3, <2>1
  <1>6. QED
    BY <1>1, <1>4, <1>5 DEF BatchInv, StateOf

-----------------------------------------------------------------------------
(* The collection.                                                          *)

\* The dump under way: it cannot miss a connection that has not changed since
\* before it began, nor has it read anything else of it.
DumpInv ==
    col.at = "dump" =>
        /\ col.batch.at <= col.started /\ col.started <= now
        /\ \A c \in col.read : \E k \in KernelStates :
               StateFromKernel(k) = c.state /\ HeldAfter(c.entry, k, col.started - 1)
        /\ \A c, d \in col.read : c.entry = d.entry => c = d
        /\ \A e \in Entries :
               table[e] # None /\ table[e].since < col.started =>
                   /\ e \in col.steady
                   /\ \A c \in col.read :
                          c.entry = e => c.state = StateFromKernel(table[e].state)

CacheInv == cache # None => cache.at <= now /\ SnapInv(cache.entries, cache.at)
ColInv ==
    /\ col.at \in {"collected", "dump"} => Raw(col.batch)
    /\ col.at = "enriched" => BatchInv(col.batch)
RowsInv == \A t \in Times : rows[t] # None => rows[t].first = t /\ BatchInv(rows[t])

Inv == HistoryInv /\ DumpInv /\ CacheInv /\ ColInv /\ RowsInv

LEMMA CacheStays ==
    ASSUME Typed, Inv, [Next]_vars, UNCHANGED cache
    PROVE  CacheInv'
  <1> SUFFICES ASSUME cache # None
               PROVE  cache.at <= now' /\ SnapInv(cache.entries, cache.at)'
    BY DEF CacheInv, SnapInv, HeldAfter
  <1> PICK s : s = cache
    OBVIOUS
  <1>1. s.at \in Times /\ s.entries \in SUBSET ConntrackEntry /\ s.at <= now /\ SnapInv(s.entries, s.at)
    BY DEF Typed, TypeOK, Optional, Snapshot, Inv, CacheInv
  <1>2. SnapInv(s.entries, s.at)'
    BY <1>1, SnapStays DEF Inv
  <1>3. s.at <= now'
    BY <1>1, TimePasses DEF Times
  <1>4. QED
    BY <1>2, <1>3 DEF SnapInv, HeldAfter

LEMMA RowsStay ==
    ASSUME Typed, Inv, [Next]_vars, UNCHANGED rows
    PROVE  RowsInv'
  <1> SUFFICES ASSUME NEW t \in Times, NEW b \in Batch, rows[t] = b, rows[t] # None
               PROVE  b.first = t /\ BatchInv(b)'
    BY DEF RowsInv, BatchInv, StateOf, MappingOf, ShownIn, Alone, HeldAfter, Typed, TypeOK, Optional
  <1>1. b.first = t /\ BatchInv(b)
    BY DEF Inv, RowsInv
  <1>2. QED
    BY <1>1, BatchStays DEF Inv

LEMMA RawStays ==
    ASSUME Typed, [Next]_vars, NEW b \in Batch, Raw(b)
    PROVE  Raw(b)'
  BY TimePasses DEF Raw, Batch, Times

\* The table changes, or nothing does, under a dump.
LEMMA DumpStays ==
    ASSUME Typed, Inv, [Next]_vars, col.at = "dump",
           col' = [col EXCEPT !.steady = col'.steady],
           \A e \in col.steady \ col'.steady : table'[e] # None => table'[e].since = now
    PROVE  DumpInv'
  <1> PICK started : started = col.started
    OBVIOUS
  <1>1. /\ started \in Times /\ started \in Int /\ started - 1 \in Int /\ started <= now
        /\ now \in Int /\ started - 1 < now /\ col.read \subseteq ConntrackEntry
        /\ col.batch.at <= started
    BY ColShape DEF Typed, TypeOK, Times, Inv, DumpInv
  <1>2. /\ col'.at = "dump" /\ col'.started = started /\ col'.read = col.read
        /\ col'.batch = col.batch
    BY ColShape DEF Typed
  <1>3. started <= now'
    BY <1>1, TimePasses
  <1>4. ASSUME NEW c \in col.read
        PROVE  \E k \in KernelStates :
                   StateFromKernel(k) = c.state /\ HeldAfter(c.entry, k, started - 1)'
    <2>1. PICK k \in KernelStates :
              StateFromKernel(k) = c.state /\ HeldAfter(c.entry, k, started - 1)
      BY DEF Inv, DumpInv
    <2>2. c.entry \in Entries
      BY <1>1 DEF ConntrackEntry
    <2>3. HeldAfter(c.entry, k, started - 1)'
      BY <1>1, <2>1, <2>2, HeldAfterStays
    <2>4. QED
      BY <2>1, <2>3
  <1>5. ASSUME NEW e \in Entries, table'[e] # None, table'[e].since < started
        PROVE  /\ e \in col'.steady
               /\ \A c \in col.read : c.entry = e => c.state = StateFromKernel(table'[e].state)
    <2>1. table'[e] = table[e]
      BY <1>1, <1>5, SteadyBefore DEF Inv
    <2>2. /\ e \in col.steady
          /\ \A c \in col.read : c.entry = e => c.state = StateFromKernel(table[e].state)
      BY <1>5, <2>1 DEF Inv, DumpInv
    <2>3. QED
      BY <1>1, <1>5, <2>1, <2>2
  <1>6. QED
    BY <1>1, <1>2, <1>3, <1>4, <1>5 DEF DumpInv, HeldAfter, Inv

LEMMA ColStays ==
    ASSUME Typed, Inv, [Next]_vars, col'.at = col.at, col # Rest => col'.batch = col.batch
    PROVE  ColInv'
  <1> PICK b : b = col.batch
    OBVIOUS
  <1>1. col # Rest => b \in Batch /\ col'.batch = b
    BY ColShape DEF Typed
  <1>2. CASE col.at \in {"collected", "dump"}
    <2>1. col # Rest /\ Raw(b)
      BY <1>2 DEF Rest, Inv, ColInv
    <2>2. QED
      BY <1>1, <1>2, <2>1, RawStays DEF ColInv, Raw
  <1>3. CASE col.at = "enriched"
    <2>1. col # Rest /\ BatchInv(b)
      BY <1>3 DEF Rest, Inv, ColInv
    <2>2. BatchInv(b)'
      BY <1>1, <2>1, BatchStays DEF Inv
    <2>3. QED
      BY <1>1, <1>3, <2>1, <2>2
         DEF ColInv, BatchInv, StateOf, MappingOf, ShownIn, Alone, HeldAfter
  <1>4. CASE col.at = "rest"
    BY <1>4 DEF ColInv
  <1>5. QED
    BY <1>2, <1>3, <1>4, ColShape DEF Typed

LEMMA InitInv == Init => Inv
  BY DEF Init, Inv, HistoryInv, DumpInv, CacheInv, ColInv, RowsInv, Rest

\* Steps of the kernel and of the flow map.
LEMMA WorldKeepsInv ==
    ASSUME Typed, Inv, Next,
           \/ Tick \/ FirstPacket \/ FlowExpires
           \/ \E e \in Entries : Forgotten(e) \/ \E k \in KernelStates : Tracked(e, k) \/ Moves(e, k)
    PROVE  Inv'
  <1>1. UNCHANGED <<cache, rows>>
    BY DEF Tick, FirstPacket, FlowExpires, Forgotten, Tracked, Moves, Change
  <1>2. CacheInv' /\ RowsInv' /\ HistoryInv'
    BY <1>1, CacheStays, RowsStay, NextHistory DEF Inv
  <1>3. CASE UNCHANGED col
    <2>1. ColInv'
      BY <1>3, ColStays
    <2>2. DumpInv'
      <3>1. CASE col.at = "dump"
        <4>1. col' = [col EXCEPT !.steady = col'.steady]
          BY <1>3, <3>1, ColShape DEF Typed
        <4>2. QED
          BY <1>3, <3>1, <4>1, DumpStays
      <3>2. QED
        BY <1>3, <3>1 DEF DumpInv
    <2>3. QED
      BY <1>2, <2>1, <2>2 DEF Inv
  <1>4. ASSUME NEW e \in Entries, NEW value, Change(e, value), col.at = "dump",
               value # None => value.since = now
        PROVE  Inv'
    <2>1. /\ col' = [col EXCEPT !.steady = @ \ {e}] /\ table' = [table EXCEPT ![e] = value]
          /\ table \in [Entries -> Optional([state: KernelStates, since: Times])]
      BY <1>4 DEF Change, Typed, TypeOK
    <2>2. /\ col' = [col EXCEPT !.steady = col'.steady] /\ col'.steady = col.steady \ {e}
          /\ col'.at = col.at /\ col'.batch = col.batch
      BY <1>4, <2>1, ColShape DEF Typed
    <2>3. \A x \in col.steady \ col'.steady : table'[x] # None => table'[x].since = now
      BY <1>4, <2>1, <2>2
    <2>4. DumpInv' /\ ColInv'
      BY <1>4, <2>2, <2>3, DumpStays, ColStays
    <2>5. QED
      BY <1>2, <2>4 DEF Inv
  <1>5. QED
    BY <1>3, <1>4 DEF Tick, FirstPacket, FlowExpires, Forgotten, Tracked, Moves, Change

\* Steps of the collection.
LEMMA CollectionKeepsInv ==
    ASSUME Typed, Typed', Inv, Next,
           \/ BaseCollect \/ SnapshotCached \/ BeginDump \/ EndDump \/ DumpFails
           \/ Ingest \/ IngestFails \/ \E e \in Entries : ReadEntry(e)
    PROVE  Inv'
  <1>1. UNCHANGED <<now, table, held>>
    BY DEF BaseCollect, SnapshotCached, BeginDump, EndDump, DumpFails, Ingest, IngestFails,
           ReadEntry
  <1>2. HistoryInv' /\ (UNCHANGED rows => RowsInv') /\ (UNCHANGED cache => CacheInv')
    BY NextHistory, RowsStay, CacheStays DEF Inv
  <1>3. /\ \A b : Raw(b)' = Raw(b) /\ BatchInv(b)' = BatchInv(b)
        /\ \A entries, at : SnapInv(entries, at)' = SnapInv(entries, at)
    BY <1>1 DEF Raw, BatchInv, StateOf, MappingOf, ShownIn, Alone, HeldAfter, SnapInv
  <1>4. now \in Int /\ col \in Cols /\ Refresh \in Int /\ Refresh > 0
    BY ConntrackBounds DEF Typed, TypeOK, Times
  <1>5. CASE BaseCollect
    <2> PICK b : b = [first |-> flow, at |-> now, enriched |-> FALSE, state |-> "unknown",
                      natSource |-> None, natDestination |-> None]
      OBVIOUS
    <2>1. flow \in Int
      BY <1>5 DEF BaseCollect, Typed, TypeOK, Optional, Times
    <2>2. col' = [at |-> "collected", batch |-> b] /\ UNCHANGED <<rows, cache>>
      BY <1>5 DEF BaseCollect
    <2>3. Raw(b)'
      BY <1>4, <1>5, <2>1 DEF BaseCollect, Raw, Inv, HistoryInv
    <2>4. DumpInv' /\ ColInv'
      BY <2>2, <2>3 DEF DumpInv, ColInv, Raw
    <2>5. QED
      BY <1>2, <2>2, <2>4 DEF Inv
  <1>6. CASE SnapshotCached
    <2> PICK b : b = col.batch
      OBVIOUS
    <2> PICK snapshot : snapshot = cache
      OBVIOUS
    <2>1. /\ b \in Batch /\ Raw(b)
          /\ snapshot.at \in Times /\ snapshot.entries \in SUBSET ConntrackEntry
          /\ SnapInv(snapshot.entries, snapshot.at) /\ now - snapshot.at < Refresh
      BY <1>4, <1>6, ColShape
         DEF SnapshotCached, Fresh, Rest, Inv, ColInv, CacheInv, Typed, TypeOK, Optional, Snapshot
    <2>2. b.at - Refresh < snapshot.at
      BY <1>4, <2>1 DEF Raw, Batch, Times
    <2> PICK r : r = Enriched(b, snapshot.entries)
      OBVIOUS
    <2>3. BatchInv(r)
      BY <2>1, <2>2, EnrichedSound DEF Inv
    <2>4. col' = [at |-> "enriched", batch |-> r] /\ UNCHANGED <<rows, cache>>
      BY <1>6 DEF SnapshotCached
    <2>5. DumpInv' /\ ColInv'
      BY <1>3, <2>3, <2>4 DEF DumpInv, ColInv, BatchInv, StateOf, MappingOf, ShownIn, Alone, HeldAfter
    <2>6. QED
      BY <1>2, <2>4, <2>5 DEF Inv
  <1>7. CASE BeginDump
    <2> PICK b : b = col.batch
      OBVIOUS
    <2>1. b \in Batch /\ Raw(b) /\ b.at <= now
      BY <1>4, <1>7, ColShape DEF BeginDump, Rest, Inv, ColInv, Raw
    <2>2. /\ col' = [at |-> "dump", batch |-> b, started |-> now, steady |-> Live, read |-> {}]
          /\ UNCHANGED <<rows, cache>>
      BY <1>7 DEF BeginDump
    <2>3. ColInv'
      BY <1>1, <2>1, <2>2 DEF ColInv, Raw
    <2>4. DumpInv'
      BY <1>1, <1>4, <2>1, <2>2 DEF DumpInv, Live
    <2>5. QED
      BY <1>2, <2>2, <2>3, <2>4 DEF Inv
  <1>8. ASSUME NEW e \in Entries, ReadEntry(e)
        PROVE  Inv'
    <2> PICK c : c = [entry |-> e, state |-> StateFromKernel(table[e].state)]
      OBVIOUS
    <2>1. /\ col' = [col EXCEPT !.read = @ \cup {c}] /\ col.at = "dump"
          /\ table[e] # None /\ \A d \in col.read : d.entry # e
          /\ UNCHANGED <<rows, cache>>
      BY <1>8 DEF ReadEntry, Live
    <2>2. /\ col'.at = "dump" /\ col'.batch = col.batch /\ col'.started = col.started
          /\ col'.steady = col.steady /\ col'.read = col.read \cup {c}
      BY <1>4, <2>1, ColShape
    <2>3. table[e].state \in KernelStates
      BY <2>1 DEF Typed, TypeOK, Optional
    <2>4. ColInv'
      BY <2>1, <2>2, ColStays
    <2>5. ASSUME NEW d \in col.read \cup {c}
          PROVE  \E k \in KernelStates :
                     StateFromKernel(k) = d.state /\ HeldAfter(d.entry, k, col.started - 1)
      BY <2>1, <2>3 DEF Inv, DumpInv, HeldAfter
    <2>6. \A d, x \in col.read \cup {c} : d.entry = x.entry => d = x
      BY <2>1 DEF Inv, DumpInv
    <2>7. DumpInv'
      BY <1>1, <2>1, <2>2, <2>5, <2>6 DEF Inv, DumpInv, HeldAfter
    <2>8. QED
      BY <1>2, <2>1, <2>4, <2>7 DEF Inv
  <1>9. CASE EndDump
    <2> PICK b : b = col.batch
      OBVIOUS
    <2> PICK started : started = col.started
      OBVIOUS
    <2> PICK read : read = col.read
      OBVIOUS
    <2>1. /\ b \in Batch /\ Raw(b) /\ read \in SUBSET ConntrackEntry /\ started \in Times
          /\ b.at <= started /\ started <= now
      BY <1>4, <1>9, ColShape DEF EndDump, Rest, Inv, ColInv, DumpInv
    <2>2. ASSUME NEW e \in Entries, table[e] # None, table[e].since < started
          PROVE  [entry |-> e, state |-> StateFromKernel(table[e].state)] \in read
      <3>1. PICK c \in read : c.entry = e
        BY <1>9, <2>2 DEF EndDump, Inv, DumpInv
      <3>2. c.state = StateFromKernel(table[e].state)
        BY <1>9, <2>2, <3>1 DEF EndDump, Inv, DumpInv
      <3>3. QED
        BY <2>1, <3>1, <3>2 DEF ConntrackEntry
    <2>3. SnapInv(read, started)
      BY <1>9, <2>2 DEF EndDump, Inv, DumpInv, SnapInv
    <2>4. b.at - Refresh < started
      BY <1>4, <2>1 DEF Batch, Times
    <2> PICK r : r = Enriched(b, read)
      OBVIOUS
    <2>5. BatchInv(r)
      BY <2>1, <2>3, <2>4, EnrichedSound DEF Inv
    <2>6. /\ col' = [at |-> "enriched", batch |-> r] /\ UNCHANGED rows
          /\ cache' = [at |-> started, entries |-> read]
      BY <1>9 DEF EndDump, RefreshedAt
    <2>7. DumpInv' /\ ColInv'
      BY <1>3, <2>5, <2>6 DEF DumpInv, ColInv, BatchInv, StateOf, MappingOf, ShownIn, Alone, HeldAfter
    <2>8. CacheInv'
      BY <1>1, <2>1, <2>3, <2>6 DEF CacheInv, SnapInv, HeldAfter
    <2>9. QED
      BY <1>2, <2>6, <2>7, <2>8 DEF Inv
  <1>10. CASE DumpFails
    <2> PICK b : b = col.batch
      OBVIOUS
    <2>1. BatchInv(b)
      BY <1>10, RawIsSound DEF DumpFails, Inv, ColInv
    <2>2. col' = [at |-> "enriched", batch |-> b] /\ UNCHANGED <<rows, cache>>
      BY <1>10 DEF DumpFails
    <2>3. DumpInv' /\ ColInv'
      BY <1>3, <2>1, <2>2 DEF DumpInv, ColInv, BatchInv, StateOf, MappingOf, ShownIn, Alone, HeldAfter
    <2>4. QED
      BY <1>2, <2>2, <2>3 DEF Inv
  <1>11. CASE Ingest
    <2> PICK b : b = col.batch
      OBVIOUS
    <2>1. b \in Batch /\ BatchInv(b) /\ b.first \in Times
      BY <1>4, <1>11, ColShape DEF Ingest, Rest, Inv, ColInv, Batch
    <2> PICK old : old = rows[b.first]
      OBVIOUS
    <2>2. old \in Optional(Batch) /\ (old # None => old.first = b.first /\ BatchInv(old))
      BY <2>1 DEF Typed, TypeOK, Inv, RowsInv
    <2> PICK r : r = Upsert(old, b)
      OBVIOUS
    <2>3. BatchInv(r) /\ r.first = b.first
      BY <2>1, <2>2, UpsertSound, UpsertType
    <2>4. rows' = [rows EXCEPT ![b.first] = r] /\ col' = Rest /\ UNCHANGED cache
      BY <1>11 DEF Ingest
    <2>5. ASSUME NEW t \in Times, NEW row, row = rows'[t], row # None
          PROVE  row.first = t /\ BatchInv(row)
      BY <2>1, <2>3, <2>4, <2>5 DEF Typed, TypeOK, Inv, RowsInv
    <2>6. RowsInv'
      BY <1>1, <2>5 DEF RowsInv, BatchInv, StateOf, MappingOf, ShownIn, Alone, HeldAfter
    <2>7. QED
      BY <1>2, <2>4, <2>6 DEF Inv, DumpInv, ColInv, Rest
  <1>12. CASE IngestFails
    BY <1>2, <1>12 DEF IngestFails, Inv, DumpInv, ColInv, Rest
  <1>13. QED
    BY <1>5, <1>6, <1>7, <1>8, <1>9, <1>10, <1>11, <1>12

\* What the properties of the rows rest on.
THEOREM CollectionInvariant == Spec => []Inv
  <1>1. Typed /\ Typed' /\ Inv /\ [Next]_vars => Inv'
    <2> SUFFICES ASSUME Typed, Typed', Inv, [Next]_vars PROVE Inv'
      OBVIOUS
    <2>1. CASE UNCHANGED vars
      BY <2>1 DEF vars, Inv, HistoryInv, DumpInv, CacheInv, ColInv, RowsInv, Raw, BatchInv,
                  StateOf, MappingOf, ShownIn, Alone, HeldAfter, SnapInv
    <2>2. QED
      BY <2>1, WorldKeepsInv, CollectionKeepsInv DEF Next
  <1>2. QED
    BY InitInv, <1>1, TypeCorrect, PTL DEF Spec

-----------------------------------------------------------------------------

\* A stored state is one that a connection of the flow's tuple was in no longer
\* than a refresh interval before the batch was read, whatever was cached, however
\* the table changed under the dump and however many dumps failed since.
THEOREM StatesFresh == Spec => []StateFresh
  <1>1. Inv => StateFresh
    BY DEF Inv, RowsInv, BatchInv, StateOf, StateFresh
  <1>2. QED
    BY <1>1, CollectionInvariant, PTL

\* A stored translation is that of one connection of the tuple, whole, which was
\* still tracked less than a refresh interval before the flow began: the COALESCE
\* of one column after the other (upsert_flow_tx) never mixes two.
THEOREM MappingsWhole == Spec => []MappingWhole
  <1>1. Inv => MappingWhole
    BY DEF Inv, RowsInv, BatchInv, MappingOf, MappingWhole
  <1>2. QED
    BY <1>1, CollectionInvariant, PTL

\* The only connection of the tuple, unchanged for a refresh interval, shows in
\* the row: the dump cannot miss it and nothing else makes it ambiguous.
THEOREM SteadyShows == Spec => []SteadyEntryShows
  <1>1. Inv => SteadyEntryShows
    BY DEF Inv, RowsInv, BatchInv, ShownIn, Alone, SteadyEntryShows
  <1>2. QED
    BY <1>1, CollectionInvariant, PTL
=============================================================================
