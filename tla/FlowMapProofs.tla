--------------------------- MODULE FlowMapProofs ---------------------------
(***************************************************************************)
(* Proofs about FlowMap for every set of keys and CPUs, every limit of the *)
(* map and every idle timeout.                                             *)
(*                                                                         *)
(* That no packet is charged twice is an accounting argument.  Packets     *)
(* race, entries are replaced and counters go back, so no variable of the  *)
(* model says what an entry may have been read at; the invariant says that *)
(* there is a ceiling for every flow_id which nothing read or stored       *)
(* exceeds, and that the ceilings of a key and the packets still on a CPU  *)
(* are together no more than what was delivered (Ceilings).                *)
(***************************************************************************)
EXTENDS FlowMap, TotalProofs, SequenceTheorems, TLAPS

EntrySet == [key: Keys, value: Value]

CpuStates ==
    {Idle} \cup [at: {"lookup", "create"}, key: Keys, now: Times]
           \cup [at: {"touch"}, key: Keys, now: Times, entry: Times]
           \cup [at: {"add"}, key: Keys, entry: Times, read: Count]

Walks == [at: {"idle", "next", "read", "expire"}, now: Times \cup {None},
          cursor: Keys \cup {None}, entries: Seq(EntrySet), flows: Seq(Flow),
          steady: SUBSET EntrySet]

Typed ==
    /\ clock \in Times
    /\ map \in [Keys -> Value \cup {None}]
    /\ cpu \in [Cpus -> CpuStates]
    /\ walk \in Walks
    /\ walk.at # "idle" => walk.now \in Times
    /\ walk.at = "read" => walk.cursor \in Keys
    /\ \A i \in DOMAIN walk.flows : walk.flows[i].last <= 0
    /\ rows \in [FlowId -> Count]
    /\ health \in [ready: BOOLEAN, failures: 0 .. MaxFailures]
    /\ health.ready => health.failures = 0
    /\ delivered \in [Keys -> Count]
    /\ \A k \in Keys : delivered[k] <= clock

Fits == Cardinality(Entries) <= MaxEntries

\* The CPUs with a packet of k that is not counted yet.
Busy(k) == {c \in Cpus : cpu[c] # Idle /\ cpu[c].key = k}

\* hi[k][t] is a ceiling for whatever is known of the flow [key |-> k, first |-> t].
Ceiling == [Keys -> [Times -> Nat]]

Budget(hi) ==
    \A k \in Keys : SumFunctionOnSet(hi[k], Times) + Cardinality(Busy(k)) <= delivered[k]

RowsUnder(hi) == \A k \in Keys, t \in Times : rows[[key |-> k, first |-> t]] <= hi[k][t]
MapUnder(hi) == \A k \in Keys : map[k] # None => map[k].count <= hi[k][map[k].first]
EntriesUnder(hi) ==
    \A i \in DOMAIN walk.entries :
        walk.entries[i].value.count <= hi[walk.entries[i].key][walk.entries[i].value.first]
FlowsUnder(hi) ==
    \A i \in DOMAIN walk.flows :
        walk.flows[i].count <= hi[walk.flows[i].id.key][walk.flows[i].id.first]
CpusUnder(hi) ==
    \A c \in Cpus : cpu[c].at = "add" => cpu[c].read <= hi[cpu[c].key][cpu[c].entry]

Ceilings(hi) ==
    /\ hi \in Ceiling /\ Budget(hi)
    /\ RowsUnder(hi) /\ MapUnder(hi) /\ EntriesUnder(hi) /\ FlowsUnder(hi) /\ CpusUnder(hi)

-----------------------------------------------------------------------------
(* Facts about the constants and the values.                                *)

LEMMA NumberFacts ==
    /\ Times \subseteq Nat /\ IsFiniteSet(Times) /\ Count = Times /\ 0 \in Times
    /\ Keys \subseteq Nat /\ IsFiniteSet(Keys) /\ IsFiniteSet(Cpus)
    /\ MaxTime \in Nat /\ IdleTimeout \in Nat /\ NsPerMs \in Nat \ {0}
    /\ MaxEntries \in Nat \ {0} /\ MaxFailures \in Nat \ {0}
    /\ \A n \in Nat : n <= MaxTime => n \in Times
    /\ \A n \in Times : n <= MaxTime
  <1>1. IsFiniteSet(0 .. MaxTime)
    BY MapBounds, FS_Interval
  <1>2. QED
    BY <1>1, MapBounds DEF Times, Count

LEMMA NoneFacts ==
    None \notin Keys /\ None \notin Value /\ None \notin Times
  BY MapNone

LEMMA IdleFacts ==
    ASSUME NEW p \in CpuStates
    PROVE  /\ p = Idle <=> p.at = "idle"
           /\ p.at \in {"idle", "lookup", "create", "touch", "add"}
           /\ p # Idle => p.key \in Keys
           /\ p.at \in {"lookup", "create"} => p \in [at: {"lookup", "create"}, key: Keys, now: Times]
           /\ p.at = "touch" => p \in [at: {"touch"}, key: Keys, now: Times, entry: Times]
           /\ p.at = "add" => p \in [at: {"add"}, key: Keys, entry: Times, read: Count]
  BY DEF CpuStates, Idle

LEMMA TimestampNotLater ==
    ASSUME NEW now \in Times, NEW event \in Times
    PROVE  /\ Age(now, event) \in Nat
           /\ 0 - Age(now, event) \div NsPerMs \in Int
           /\ 0 - Age(now, event) \div NsPerMs <= 0
  <1>1. Age(now, event) \in Nat
    BY NumberFacts DEF Age
  <1>2. ASSUME NEW n \in Nat, NEW m \in Nat \ {0} PROVE n \div m \in Nat
    BY SMT
  <1>3. Age(now, event) \div NsPerMs \in Nat
    BY <1>1, <1>2, NumberFacts
  <1>4. QED
    BY <1>1, <1>3

\* A flow made of an entry has its id and its counter, and no time after the
\* walk's.
LEMMA FlowOfEntry ==
    ASSUME Typed, walk.at # "idle", NEW e \in EntrySet
    PROVE  /\ FlowFromEntry(e.key, e.value) \in Flow
           /\ FlowFromEntry(e.key, e.value).last <= 0
           /\ FlowFromEntry(e.key, e.value).id = [key |-> e.key, first |-> e.value.first]
           /\ FlowFromEntry(e.key, e.value).count = e.value.count
  <1>1. walk.now \in Times /\ e.key \in Keys /\ e.value \in Value
    BY DEF Typed, EntrySet
  <1>2. e.value.first \in Times /\ e.value.last \in Times /\ e.value.count \in Count
    BY <1>1 DEF Value
  <1>3. /\ TimestampMs(e.value.first) \in Int
        /\ TimestampMs(e.value.last) \in Int /\ TimestampMs(e.value.last) <= 0
    BY <1>1, <1>2, TimestampNotLater DEF TimestampMs
  <1>4. QED
    BY <1>1, <1>2, <1>3 DEF FlowFromEntry, FlowIdOf, Flow, FlowId
-----------------------------------------------------------------------------
(* Ceilings.                                                                *)

LEMMA TermWithinSum ==
    ASSUME NEW g, NEW S, IsFiniteSet(S), \A x \in S : g[x] \in Nat, NEW x \in S
    PROVE  /\ SumFunctionOnSet(g, S) \in Nat
           /\ g[x] <= SumFunctionOnSet(g, S)
  <1>1. IsFiniteSet(S \ {x})
    BY FS_RemoveElement
  <1>2. SumFunctionOnSet(g, S \ {x}) \in Nat /\ SumFunctionOnSet(g, S) \in Nat
    BY <1>1, SumType
  <1>3. \A y \in S : g[y] \in Int
    OBVIOUS
  <1>4. SumFunctionOnSet(g, S) = g[x] + SumFunctionOnSet(g, S \ {x})
    BY <1>3, SumStep
  <1>5. QED
    BY <1>2, <1>4

Raised(hi, k, t, n) == [hi EXCEPT ![k] = [hi[k] EXCEPT ![t] = n]]

\* One packet raises one ceiling by one at most.
LEMMA RaiseOne ==
    ASSUME NEW hi \in Ceiling, NEW k \in Keys, NEW t \in Times, NEW n \in Nat,
           hi[k][t] <= n, n <= hi[k][t] + 1
    PROVE  /\ Raised(hi, k, t, n) \in Ceiling
           /\ Raised(hi, k, t, n)[k][t] = n
           /\ \A j \in Keys, s \in Times : hi[j][s] <= Raised(hi, k, t, n)[j][s]
           /\ \A j \in Keys : j # k => Raised(hi, k, t, n)[j] = hi[j]
           /\ SumFunctionOnSet(Raised(hi, k, t, n)[k], Times)
                  <= SumFunctionOnSet(hi[k], Times) + 1
  <1> DEFINE hj == Raised(hi, k, t, n)
             g == hi[k]
             h == [g EXCEPT ![t] = n]
  <1>1. g \in [Times -> Nat] /\ h \in [Times -> Nat] /\ h[t] = n
    BY DEF Ceiling
  <1>2. \A s \in Times \ {t} : h[s] = g[s]
    BY <1>1
  <1>3. \A s \in Times : g[s] \in Int /\ h[s] \in Int
    BY <1>1
  <1>4. /\ SumFunctionOnSet(g, Times) \in Int /\ SumFunctionOnSet(h, Times) \in Int
        /\ SumFunctionOnSet(h, Times) = SumFunctionOnSet(g, Times) - g[t] + h[t]
    <2>1. IsFiniteSet(Times)
      BY NumberFacts
    <2> HIDE DEF g, h
    <2>2. QED
      BY <1>2, <1>3, <2>1, SumChange
  <1>5. hj = [hi EXCEPT ![k] = h]
    BY DEF Raised
  <1>6. \A s \in Times : g[s] <= h[s]
    BY <1>1
  <1>7. SumFunctionOnSet(h, Times) <= SumFunctionOnSet(g, Times) + 1
    BY <1>1, <1>4
  <1> HIDE DEF h, hj
  <1>8. hj[k] = h /\ \A j \in Keys : j # k => hj[j] = hi[j]
    BY <1>5 DEF Ceiling
  <1>9. hj \in Ceiling
    BY <1>1, <1>5 DEF Ceiling
  <1>10. \A j \in Keys, s \in Times : hi[j][s] <= hj[j][s]
    <2> SUFFICES ASSUME NEW j \in Keys, NEW s \in Times PROVE hi[j][s] <= hj[j][s]
      OBVIOUS
    <2>1. hi[j][s] \in Nat
      BY DEF Ceiling
    <2>2. QED
      BY <1>6, <1>8, <2>1
  <1>11. QED
    BY <1>1, <1>7, <1>8, <1>9, <1>10 DEF hj

LEMMA BusyFinite ==
    ASSUME NEW k
    PROVE  /\ IsFiniteSet(Busy(k)) /\ Cardinality(Busy(k)) \in Nat
           /\ \A c \in Busy(k) : Cardinality(Busy(k)) >= 1
  <1>1. Busy(k) \subseteq Cpus
    BY DEF Busy
  <1>2. IsFiniteSet(Busy(k)) /\ Cardinality(Busy(k)) \in Nat
    BY <1>1, NumberFacts, FS_Subset, FS_CardinalityType
  <1>3. ASSUME NEW c \in Busy(k) PROVE Cardinality(Busy(k)) >= 1
    <2> HIDE DEF Busy
    <2>1. /\ Cardinality(Busy(k) \ {c}) = Cardinality(Busy(k)) - 1
          /\ Cardinality(Busy(k) \ {c}) \in Nat
      BY <1>2, Without
    <2>2. QED
      BY <1>2, <2>1
  <1>4. QED
    BY <1>2, <1>3

\* Nothing of a key counts more than what was delivered, and less than that
\* while a packet of the key is under way.
LEMMA CeilingsBound ==
    ASSUME Typed, NEW hi, Ceilings(hi), NEW k \in Keys, NEW t \in Times
    PROVE  /\ hi[k][t] \in Nat
           /\ SumFunctionOnSet(hi[k], Times) \in Nat
           /\ hi[k][t] <= delivered[k] /\ delivered[k] \in Count
           /\ \A c \in Busy(k) : hi[k][t] + 1 <= delivered[k]
  <1>1. \A s \in Times : hi[k][s] \in Nat
    BY DEF Ceilings, Ceiling
  <1>2. SumFunctionOnSet(hi[k], Times) \in Nat /\ hi[k][t] <= SumFunctionOnSet(hi[k], Times)
    BY <1>1, NumberFacts, TermWithinSum
  <1>3. delivered[k] \in Count /\ Count \subseteq Nat
    BY NumberFacts DEF Typed
  <1>4. SumFunctionOnSet(hi[k], Times) + Cardinality(Busy(k)) <= delivered[k]
    BY DEF Ceilings, Budget
  <1>5. Cardinality(Busy(k)) \in Nat /\ \A c \in Busy(k) : Cardinality(Busy(k)) >= 1
    BY BusyFinite
  <1> DEFINE total == SumFunctionOnSet(hi[k], Times)
             card == Cardinality(Busy(k))
  <1> HIDE DEF total, card
  <1>6. /\ total \in Nat /\ card \in Nat /\ hi[k][t] <= total /\ total + card <= delivered[k]
        /\ \A c \in Busy(k) : card >= 1
    BY <1>2, <1>4, <1>5 DEF total, card
  <1>7. delivered[k] \in Nat /\ hi[k][t] \in Nat
    BY <1>1, <1>3
  <1>8. hi[k][t] <= delivered[k] /\ \A c \in Busy(k) : hi[k][t] + 1 <= delivered[k]
    BY <1>6, <1>7
  <1>9. QED
    BY <1>1, <1>2, <1>3, <1>8
-----------------------------------------------------------------------------
(* Type correctness, given the ceilings.                                    *)

WalkTyped ==
    /\ walk \in Walks
    /\ walk.at # "idle" => walk.now \in Times
    /\ walk.at = "read" => walk.cursor \in Keys
    /\ \A i \in DOMAIN walk.flows : walk.flows[i].last <= 0

HealthTyped ==
    /\ health \in [ready: BOOLEAN, failures: 0 .. MaxFailures]
    /\ health.ready => health.failures = 0

LEMMA DisturbedFields ==
    ASSUME walk \in Walks, NEW ks, Disturbed(ks)
    PROVE  /\ walk' \in Walks /\ walk'.at = walk.at /\ walk'.now = walk.now
           /\ walk'.cursor = walk.cursor /\ walk'.entries = walk.entries
           /\ walk'.flows = walk.flows
           /\ walk'.steady = {e \in walk.steady : e.key \notin ks}
  <1> DEFINE kept == {e \in walk.steady : e.key \notin ks}
  <1>1. walk' = [walk EXCEPT !.steady = kept]
    BY DEF Disturbed
  <1>2. kept \in SUBSET EntrySet
    BY DEF Walks
  <1> HIDE DEF kept
  <1>3. /\ walk' \in Walks /\ walk'.at = walk.at /\ walk'.now = walk.now
        /\ walk'.cursor = walk.cursor /\ walk'.entries = walk.entries
        /\ walk'.flows = walk.flows /\ walk'.steady = kept
    BY <1>1, <1>2 DEF Walks
  <1>4. QED
    BY <1>3 DEF kept

LEMMA DisturbedTyped ==
    ASSUME WalkTyped, NEW ks, Disturbed(ks) PROVE WalkTyped'
  BY DisturbedFields DEF WalkTyped

LEMMA NoWalkTyped ==
    ASSUME walk' = NoWalk PROVE WalkTyped'
  <1>1. NoWalk \in Walks
    <2>1. <<>> \in Seq(EntrySet) /\ <<>> \in Seq(Flow)
      BY EmptySeq
    <2>2. QED
      BY <2>1 DEF NoWalk, Walks
  <1>2. NoWalk.at = "idle" /\ NoWalk.flows = <<>>
    BY DEF NoWalk
  <1>3. QED
    BY <1>1, <1>2 DEF WalkTyped

LEMMA BeginTyped ==
    ASSUME Typed, BeginWalk PROVE WalkTyped'
  <1> DEFINE held == {Entry(k) : k \in Entries}
  <1>1. held \in SUBSET EntrySet
    BY DEF Typed, Entries, Entry, EntrySet
  <1>2. walk' = [at |-> "next", now |-> clock, cursor |-> None, entries |-> <<>>,
                 flows |-> <<>>, steady |-> held]
    BY DEF BeginWalk, NoWalk
  <1>3. <<>> \in Seq(EntrySet) /\ <<>> \in Seq(Flow)
    BY EmptySeq
  <1>4. clock \in Times
    BY DEF Typed
  <1> HIDE DEF held
  <1>5. walk' \in Walks
    BY <1>1, <1>2, <1>3, <1>4 DEF Walks
  <1>6. walk'.at = "next" /\ walk'.now = clock /\ walk'.flows = <<>>
    BY <1>2
  <1>7. QED
    BY <1>4, <1>5, <1>6 DEF WalkTyped

LEMMA SmallestKey ==
    ASSUME NEW S, S \subseteq Keys, S # {}
    PROVE  Min(S) \in S /\ \A k \in S : Min(S) <= k
  <1>1. S \subseteq Nat
    BY NumberFacts
  <1>2. \E n \in S : \A k \in S : n <= k
    BY <1>1, SmallestNumber
  <1>3. QED
    BY <1>2 DEF Min

LEMMA NextKeyTyped ==
    ASSUME Typed, NextKey PROVE WalkTyped'
  <1> DEFINE from == walk.cursor
             after == IF from \in Entries THEN {k \in Entries : k > from} ELSE Entries
  <1>1. after \subseteq Keys
    BY DEF Entries
  <1>2. walk \in Walks /\ walk.now \in Times /\ walk.at = "next"
    BY DEF Typed, NextKey
  <1>3. walk' = IF after = {} THEN [walk EXCEPT !.at = "expire"]
                ELSE [walk EXCEPT !.at = "read", !.cursor = Min(after)]
    BY DEF NextKey
  <1>4. after # {} => Min(after) \in Keys
    BY <1>1, SmallestKey
  <1> HIDE DEF after
  <1>5. /\ walk' \in Walks /\ walk'.now = walk.now /\ walk'.flows = walk.flows
        /\ walk'.at = "read" => walk'.cursor \in Keys
    BY <1>2, <1>3, <1>4 DEF Walks
  <1>6. QED
    BY <1>2, <1>5 DEF WalkTyped, Typed

LEMMA ReadFields ==
    ASSUME Typed, ReadValue
    PROVE  LET k == walk.cursor
               read == IF map[k] = None THEN <<>> ELSE <<Entry(k)>>
           IN  /\ read \in Seq(EntrySet) /\ walk.entries \in Seq(EntrySet)
               /\ walk' \in Walks /\ walk'.at = "next" /\ walk'.now = walk.now
               /\ walk'.cursor = k /\ walk'.flows = walk.flows /\ walk'.steady = walk.steady
               /\ walk'.entries = walk.entries \o read
  <1> DEFINE k == walk.cursor
             read == IF map[k] = None THEN <<>> ELSE <<Entry(k)>>
             all == walk.entries \o read
  <1>1. walk \in Walks /\ k \in Keys /\ walk.entries \in Seq(EntrySet)
    BY DEF Typed, ReadValue, Walks
  <1>2. map[k] # None => Entry(k) \in EntrySet
    BY <1>1 DEF Typed, Entry, EntrySet
  <1>3. read \in Seq(EntrySet)
    BY <1>2
  <1>4. walk' = [walk EXCEPT !.at = "next", !.entries = all]
    BY DEF ReadValue
  <1>5. all \in Seq(EntrySet)
    BY <1>1, <1>3, ConcatProperties
  <1> HIDE DEF all, read, k
  <1>6. /\ walk' \in Walks /\ walk'.at = "next" /\ walk'.now = walk.now
        /\ walk'.cursor = walk.cursor /\ walk'.flows = walk.flows
        /\ walk'.steady = walk.steady /\ walk'.entries = all
    BY <1>1, <1>4, <1>5 DEF Walks
  <1>7. QED
    BY <1>1, <1>3, <1>6 DEF all, read, k

LEMMA ReadTyped ==
    ASSUME Typed, ReadValue PROVE WalkTyped'
  <1>1. /\ walk' \in Walks /\ walk'.at = "next" /\ walk'.now = walk.now
        /\ walk'.flows = walk.flows
    BY ReadFields
  <1>2. walk.now \in Times /\ \A i \in DOMAIN walk.flows : walk.flows[i].last <= 0
    BY DEF Typed, ReadValue
  <1>3. QED
    BY <1>1, <1>2 DEF WalkTyped

\* The head of the entries leaves them, or becomes the last flow.
LEMMA ExpireFields ==
    ASSUME Typed, ExpireOrKeep
    PROVE  LET head == Head(walk.entries)
               flow == FlowFromEntry(head.key, head.value)
           IN  /\ head \in EntrySet /\ head = walk.entries[1]
               /\ walk.entries \in Seq(EntrySet) /\ walk.entries # <<>>
               /\ flow \in Flow /\ flow.last <= 0
               /\ walk' \in Walks /\ walk'.at = "expire" /\ walk'.now = walk.now
               /\ walk'.cursor = walk.cursor /\ walk'.steady = walk.steady
               /\ walk'.entries = Tail(walk.entries) /\ Tail(walk.entries) \in Seq(EntrySet)
               /\ walk.flows \in Seq(Flow)
               /\ \/ Expired(head.value) /\ walk'.flows = walk.flows
                     /\ map' = [map EXCEPT ![head.key] = None]
                  \/ ~Expired(head.value) /\ walk'.flows = Append(walk.flows, flow)
                     /\ map' = map
  <1> DEFINE head == Head(walk.entries)
             flow == FlowFromEntry(head.key, head.value)
             tail == Tail(walk.entries)
             flows == Append(walk.flows, flow)
  <1>1. walk \in Walks /\ walk.entries \in Seq(EntrySet) /\ walk.flows \in Seq(Flow)
        /\ walk.entries # <<>> /\ walk.at = "expire"
    BY DEF Typed, ExpireOrKeep, Walks
  <1>2. head \in EntrySet /\ head = walk.entries[1] /\ tail \in Seq(EntrySet)
    BY <1>1, HeadTailProperties
  <1>3. flow \in Flow /\ flow.last <= 0
    BY <1>1, <1>2, FlowOfEntry
  <1>4. flows \in Seq(Flow)
    BY <1>1, <1>3, AppendProperties
  <1>5. \/ Expired(head.value) /\ walk' = [walk EXCEPT !.entries = tail]
             /\ map' = [map EXCEPT ![head.key] = None]
        \/ ~Expired(head.value)
             /\ walk' = [[walk EXCEPT !.entries = tail] EXCEPT !.flows = flows]
             /\ map' = map
    BY <1>1 DEF ExpireOrKeep, Walks
  <1> HIDE DEF head, flow, tail, flows
  <1>6. /\ walk' \in Walks /\ walk'.at = "expire" /\ walk'.now = walk.now
        /\ walk'.cursor = walk.cursor /\ walk'.steady = walk.steady
        /\ walk'.entries = tail
    BY <1>1, <1>2, <1>4, <1>5 DEF Walks
  <1>7. \/ Expired(head.value) /\ walk'.flows = walk.flows
             /\ map' = [map EXCEPT ![head.key] = None]
        \/ ~Expired(head.value) /\ walk'.flows = flows /\ map' = map
    BY <1>1, <1>5 DEF Walks
  <1>8. QED
    BY <1>1, <1>2, <1>3, <1>6, <1>7 DEF head, flow, tail, flows

LEMMA ExpireTyped ==
    ASSUME Typed, ExpireOrKeep PROVE WalkTyped'
  <1> DEFINE head == Head(walk.entries)
             flow == FlowFromEntry(head.key, head.value)
  <1>1. /\ walk' \in Walks /\ walk'.at = "expire" /\ walk'.now = walk.now
        /\ flow \in Flow /\ flow.last <= 0 /\ walk.flows \in Seq(Flow)
        /\ walk'.flows = walk.flows \/ walk'.flows = Append(walk.flows, flow)
    BY ExpireFields
  <1> HIDE DEF flow
  <1>2. walk.now \in Times /\ \A i \in DOMAIN walk.flows : walk.flows[i].last <= 0
    BY DEF Typed, ExpireOrKeep
  <1>3. \A i \in DOMAIN Append(walk.flows, flow) : Append(walk.flows, flow)[i].last <= 0
    BY <1>1, <1>2, AppendProperties, LenProperties
  <1>4. QED
    BY <1>1, <1>2, <1>3 DEF WalkTyped
LEMMA PacketTyped ==
    ASSUME Typed, NEW c \in Cpus, NEW k \in Keys, Packet(c, k)
    PROVE  /\ clock' \in Times /\ clock' = clock + 1
           /\ cpu' = [cpu EXCEPT ![c] = [at |-> "lookup", key |-> k, now |-> clock']]
           /\ cpu' \in [Cpus -> CpuStates]
           /\ delivered' = [delivered EXCEPT ![k] = delivered[k] + 1]
           /\ delivered' \in [Keys -> Count] /\ \A j \in Keys : delivered'[j] <= clock'
  <1>1. clock \in Nat /\ clock < LastArrival[c][k] /\ clock' = clock + 1
    BY NumberFacts DEF Typed, Packet
  <1>2. LastArrival[c][k] \in Nat /\ LastArrival[c][k] + IdleTimeout < MaxTime /\ IdleTimeout \in Nat
        /\ MaxTime \in Nat
    BY MapBounds
  <1>3. clock' \in Times
    BY <1>1, <1>2, NumberFacts
  <1>4. \A j \in Keys : delivered[j] \in Nat /\ delivered[j] <= clock
    BY NumberFacts DEF Typed
  <1>5. delivered' = [delivered EXCEPT ![k] = delivered[k] + 1]
    BY DEF Packet
  <1>6. delivered[k] + 1 \in Count
    <2>1. delivered[k] + 1 \in Nat /\ delivered[k] + 1 <= MaxTime
      BY <1>1, <1>2, <1>4
    <2>2. QED
      BY <2>1, NumberFacts
  <1>7. cpu' = [cpu EXCEPT ![c] = [at |-> "lookup", key |-> k, now |-> clock']]
    BY DEF Packet
  <1>8. [at |-> "lookup", key |-> k, now |-> clock'] \in CpuStates
    BY <1>3 DEF CpuStates
  <1>9. cpu' \in [Cpus -> CpuStates]
    BY <1>7, <1>8 DEF Typed
  <1>10. delivered' \in [Keys -> Count] /\ \A j \in Keys : delivered'[j] <= clock'
    BY <1>1, <1>4, <1>5, <1>6 DEF Typed
  <1>11. QED
    BY <1>1, <1>3, <1>5, <1>7, <1>9, <1>10

LEMMA LookupTyped ==
    ASSUME Typed, NEW c \in Cpus, Lookup(c)
    PROVE  \E p \in CpuStates :
              /\ p # Idle /\ p.at \in {"create", "touch"} /\ p.key = cpu[c].key
              /\ cpu[c] # Idle /\ cpu' = [cpu EXCEPT ![c] = p]
  <1> DEFINE q == cpu[c]
             value == map[q.key]
             p == IF value = None THEN [at |-> "create", key |-> q.key, now |-> q.now]
                  ELSE [at |-> "touch", key |-> q.key, now |-> q.now, entry |-> value.first]
  <1>1. q \in CpuStates /\ q.at = "lookup"
    BY DEF Typed, Lookup
  <1>2. q.key \in Keys /\ q.now \in Times /\ q # Idle
    BY <1>1, IdleFacts
  <1>3. value # None => value.first \in Times
    BY <1>2 DEF Typed, Value
  <1>4. p \in CpuStates /\ p.at \in {"create", "touch"} /\ p.key = q.key
    BY <1>2, <1>3 DEF CpuStates
  <1>5. p # Idle
    BY <1>4 DEF Idle
  <1>6. cpu' = [cpu EXCEPT ![c] = p]
    BY DEF Lookup, Typed
  <1>7. QED
    BY <1>2, <1>4, <1>5, <1>6

\* What a packet that counts needs: it is busy, and so below the ceiling.
LEMMA Countable ==
    ASSUME Typed, NEW hi, Ceilings(hi), NEW c \in Cpus, cpu[c] # Idle, NEW t \in Times
    PROVE  /\ cpu[c].key \in Keys
           /\ hi[cpu[c].key][t] + 1 \in Count
           /\ 1 \in Count
           /\ \A n \in Nat : n <= hi[cpu[c].key][t] + 1 => n \in Count
  <1>1. cpu[c].key \in Keys
    BY IdleFacts DEF Typed
  <1>2. c \in Busy(cpu[c].key)
    BY DEF Busy
  <1>3. /\ hi[cpu[c].key][t] \in Nat /\ delivered[cpu[c].key] \in Count
        /\ hi[cpu[c].key][t] + 1 <= delivered[cpu[c].key]
    BY <1>1, <1>2, CeilingsBound
  <1>4. delivered[cpu[c].key] <= MaxTime /\ delivered[cpu[c].key] \in Nat /\ MaxTime \in Nat
    BY <1>3, NumberFacts
  <1>5. ASSUME NEW n \in Nat, n <= hi[cpu[c].key][t] + 1 PROVE n \in Count
    <2>1. n <= MaxTime
      BY <1>3, <1>4, <1>5
    <2>2. QED
      BY <2>1, NumberFacts
  <1>6. QED
    BY <1>1, <1>3, <1>5

LEMMA CreateTyped ==
    ASSUME Typed, NEW hi, Ceilings(hi), NEW c \in Cpus, Create(c)
    PROVE  \E gone \in Keys :
              LET k == cpu[c].key
                  new == [first |-> cpu[c].now, last |-> cpu[c].now, count |-> 1]
              IN  /\ k \in Keys /\ cpu[c].now \in Times /\ new \in Value /\ cpu[c] # Idle
                  /\ map' = [[map EXCEPT ![gone] = None] EXCEPT ![k] = new]
                  /\ map' \in [Keys -> Value \cup {None}]
                  /\ Disturbed({gone, k})
                  /\ gone \in Entries \/ gone = k
                  /\ map[k] = None /\ Cardinality(Entries) = MaxEntries => gone \in Entries
  <1> DEFINE k == cpu[c].key
             new == [first |-> cpu[c].now, last |-> cpu[c].now, count |-> 1]
             full == map[k] = None /\ Cardinality(Entries) = MaxEntries
  <1>1. cpu[c] \in CpuStates /\ cpu[c].at = "create"
    BY DEF Typed, Create
  <1>2. k \in Keys /\ cpu[c].now \in Times /\ cpu[c] # Idle
    BY <1>1, IdleFacts
  <1>3. 1 \in Count
    BY <1>2, Countable
  <1>4. new \in Value
    BY <1>2, <1>3 DEF Value
  <1>5. PICK gone \in IF full THEN Entries ELSE {k} :
               /\ map' = [map EXCEPT ![gone] = None, ![k] = new]
               /\ Disturbed({gone, k})
    BY DEF Create
  <1>6. gone \in Keys /\ (gone \in Entries \/ gone = k) /\ (full => gone \in Entries)
    BY <1>2, <1>5 DEF Entries
  <1>7. map' = [[map EXCEPT ![gone] = None] EXCEPT ![k] = new]
    BY <1>5
  <1> HIDE DEF new
  <1>8. map' \in [Keys -> Value \cup {None}]
    BY <1>4, <1>6, <1>7 DEF Typed
  <1>9. QED
    BY <1>2, <1>4, <1>5, <1>6, <1>7, <1>8 DEF new

LEMMA TouchTyped ==
    ASSUME Typed, NEW c \in Cpus, Touch(c)
    PROVE  LET k == cpu[c].key
               p == [at |-> "add", key |-> k, entry |-> cpu[c].entry,
                     read |-> IF Alive(c) THEN map[k].count ELSE 0]
           IN  /\ k \in Keys /\ cpu[c].entry \in Times /\ cpu[c] # Idle
               /\ p \in CpuStates /\ p # Idle /\ p.read \in Count
               /\ cpu' = [cpu EXCEPT ![c] = p] /\ cpu' \in [Cpus -> CpuStates]
               /\ \/ ~Alive(c) /\ map' = map
                  \/ /\ Alive(c) /\ map[k] \in Value
                     /\ [map[k] EXCEPT !.last = cpu[c].now] \in Value
                     /\ map' = [map EXCEPT ![k] = [map[k] EXCEPT !.last = cpu[c].now]]
               /\ map' \in [Keys -> Value \cup {None}]
               /\ Disturbed(IF Alive(c) THEN {k} ELSE {})
  <1> DEFINE k == cpu[c].key
             read == IF Alive(c) THEN map[k].count ELSE 0
             p == [at |-> "add", key |-> k, entry |-> cpu[c].entry, read |-> read]
             touched == [map[k] EXCEPT !.last = cpu[c].now]
  <1>1. cpu[c] \in CpuStates /\ cpu[c].at = "touch"
    BY DEF Typed, Touch
  <1>2. k \in Keys /\ cpu[c].now \in Times /\ cpu[c].entry \in Times /\ cpu[c] # Idle
    BY <1>1, IdleFacts
  <1>3. Alive(c) => map[k] \in Value
    BY <1>2 DEF Alive, Typed
  <1>4. Alive(c) => touched \in Value
    BY <1>2, <1>3 DEF Value
  <1>5. read \in Count
    BY <1>3, NumberFacts DEF Value
  <1>6. p \in CpuStates /\ p # Idle /\ p.read = read
    BY <1>2, <1>5 DEF CpuStates, Idle
  <1>7. cpu' = [cpu EXCEPT ![c] = p] /\ Disturbed(IF Alive(c) THEN {k} ELSE {})
    BY DEF Touch
  <1>8. map' = IF Alive(c) THEN [map EXCEPT ![k] = touched] ELSE map
    BY DEF Touch
  <1> HIDE DEF p, touched, read
  <1>9. map' \in [Keys -> Value \cup {None}] /\ cpu' \in [Cpus -> CpuStates]
    BY <1>2, <1>4, <1>6, <1>7, <1>8 DEF Typed
  <1>10. QED
    BY <1>2, <1>3, <1>4, <1>5, <1>6, <1>7, <1>8, <1>9 DEF p, touched, read

LEMMA AddTyped ==
    ASSUME Typed, NEW hi, Ceilings(hi), NEW c \in Cpus, Add(c)
    PROVE  LET k == cpu[c].key
               n == cpu[c].read + 1
           IN  /\ k \in Keys /\ cpu[c].entry \in Times /\ cpu[c] # Idle
               /\ n \in Count /\ cpu[c].read \in Nat
               /\ cpu[c].read <= hi[k][cpu[c].entry]
               /\ \/ ~Alive(c) /\ map' = map
                  \/ /\ Alive(c) /\ map[k] \in Value /\ map[k].first = cpu[c].entry
                     /\ [map[k] EXCEPT !.count = n] \in Value
                     /\ map' = [map EXCEPT ![k] = [map[k] EXCEPT !.count = n]]
               /\ map' \in [Keys -> Value \cup {None}]
               /\ cpu' = [cpu EXCEPT ![c] = Idle]
               /\ Disturbed(IF Alive(c) THEN {k} ELSE {})
  <1> DEFINE k == cpu[c].key
             n == cpu[c].read + 1
             counted == [map[k] EXCEPT !.count = n]
  <1>1. cpu[c] \in CpuStates /\ cpu[c].at = "add"
    BY DEF Typed, Add
  <1>2. k \in Keys /\ cpu[c].entry \in Times /\ cpu[c] # Idle /\ cpu[c].read \in Count
    BY <1>1, IdleFacts
  <1>3. cpu[c].read <= hi[k][cpu[c].entry]
    BY <1>1 DEF Ceilings, CpusUnder
  <1>4. hi[k][cpu[c].entry] \in Nat /\ cpu[c].read \in Nat
    BY <1>2, CeilingsBound, NumberFacts
  <1>5. n \in Count
    <2>1. \A x \in Nat : x <= hi[k][cpu[c].entry] + 1 => x \in Count
      BY <1>2, Countable
    <2>2. n \in Nat /\ n <= hi[k][cpu[c].entry] + 1
      BY <1>3, <1>4
    <2>3. QED
      BY <2>1, <2>2
  <1>6. Alive(c) => map[k] \in Value /\ map[k].first = cpu[c].entry
    BY <1>2 DEF Alive, Typed
  <1>7. Alive(c) => counted \in Value
    BY <1>5, <1>6 DEF Value
  <1>8. map' = IF Alive(c) THEN [map EXCEPT ![k] = counted] ELSE map
    BY DEF Add
  <1>9. cpu' = [cpu EXCEPT ![c] = Idle] /\ Disturbed(IF Alive(c) THEN {k} ELSE {})
    BY DEF Add
  <1> HIDE DEF counted
  <1>10. map' \in [Keys -> Value \cup {None}]
    BY <1>2, <1>7, <1>8 DEF Typed
  <1>11. QED
    BY <1>2, <1>3, <1>4, <1>5, <1>6, <1>7, <1>8, <1>9, <1>10 DEF counted

\* The flow of an id in a batch that is stored, and the counter it leaves.
LEMMA StoredRow ==
    ASSUME Typed, Stored, NEW id \in FlowId
    PROVE  \/ rows'[id] = rows[id]
           \/ \E i \in DOMAIN walk.flows :
                 /\ walk.flows[i] \in Flow /\ walk.flows[i].id = id
                 /\ rows'[id] = walk.flows[i].count
  <1> DEFINE now == {f \in ToSet(walk.flows) : f.id = id}
  <1>1. rows'[id] = IF now = {} THEN rows[id] ELSE (CHOOSE f \in now : TRUE).count
    BY DEF Stored
  <1>2. CASE now = {}
    BY <1>1, <1>2
  <1>3. CASE now # {}
    <2> DEFINE f == CHOOSE f \in now : TRUE
    <2>1. f \in now
      BY <1>3
    <2>2. rows'[id] = f.count
      BY <1>1, <1>3
    <2> HIDE DEF f
    <2>3. PICK i \in DOMAIN walk.flows : walk.flows[i] = f
      BY <2>1 DEF ToSet
    <2>4. f.id = id
      BY <2>1
    <2>5. walk.flows \in Seq(Flow)
      BY DEF Typed, Walks
    <2>6. walk.flows[i] \in Flow
      BY <2>5, LenProperties, ElementOfSeq
    <2>7. QED
      BY <2>2, <2>3, <2>4, <2>6
  <1>4. QED
    BY <1>2, <1>3

LEMMA StoredTyped ==
    ASSUME Typed, Stored PROVE rows' \in [FlowId -> Count]
  <1>1. ASSUME NEW id \in FlowId PROVE rows'[id] \in Count
    BY StoredRow DEF Typed, Flow
  <1>2. DOMAIN rows' = FlowId /\ rows' = [id \in FlowId |-> rows'[id]]
    BY DEF Stored
  <1>3. QED
    BY <1>1, <1>2
LEMMA FailedTyped ==
    ASSUME HealthTyped, Failed PROVE HealthTyped'
  <1>1. MaxFailures \in Nat \ {0} /\ health.failures \in 0 .. MaxFailures
    BY NumberFacts DEF HealthTyped
  <1>2. OneMore(health.failures) \in 0 .. MaxFailures
    BY <1>1 DEF OneMore
  <1>3. QED
    BY <1>2 DEF HealthTyped, Failed

LEMMA SucceededTyped ==
    ASSUME Succeeded PROVE HealthTyped'
  BY NumberFacts DEF HealthTyped, Succeeded

LEMMA InitTyped == Init => Typed /\ Fits
  <1> SUFFICES ASSUME Init PROVE Typed /\ Fits
    OBVIOUS
  <1>1. 0 \in Times /\ 0 \in Count
    BY NumberFacts
  <1>2. NoWalk \in Walks
    <2>1. <<>> \in Seq(EntrySet) /\ <<>> \in Seq(Flow)
      BY EmptySeq
    <2>2. QED
      BY <2>1 DEF NoWalk, Walks
  <1>3. NoWalk.at = "idle" /\ NoWalk.flows = <<>>
    BY DEF NoWalk
  <1>4. Entries = {}
    BY DEF Init, Entries
  <1>5. Fits
    BY <1>4, FS_EmptySet, NumberFacts DEF Fits
  <1>6. health \in [ready: BOOLEAN, failures: 0 .. MaxFailures] /\ ~health.ready
    BY NumberFacts DEF Init, Starting
  <1>7. cpu \in [Cpus -> CpuStates]
    BY DEF Init, CpuStates
  <1>8. QED
    BY <1>1, <1>2, <1>3, <1>5, <1>6, <1>7 DEF Init, Typed

LEMMA NextTyped ==
    ASSUME Typed, NEW hi, Ceilings(hi), [Next]_vars
    PROVE  Typed'
  <1>1. WalkTyped /\ HealthTyped
    BY DEF Typed, WalkTyped, HealthTyped
  <1> USE DEF Typed
  <1>2. ASSUME NEW c \in Cpus, NEW k \in Keys, Packet(c, k) PROVE Typed'
    <2>1. /\ clock' \in Times /\ cpu' \in [Cpus -> CpuStates]
          /\ delivered' \in [Keys -> Count] /\ \A j \in Keys : delivered'[j] <= clock'
      BY <1>2, PacketTyped
    <2>2. QED
      BY <1>2, <2>1 DEF Packet
  <1>3. ASSUME NEW c \in Cpus, Lookup(c) PROVE Typed'
    <2>1. cpu' \in [Cpus -> CpuStates]
      BY <1>3, LookupTyped
    <2>2. QED
      BY <1>3, <2>1 DEF Lookup
  <1>4. ASSUME NEW c \in Cpus, Create(c) PROVE Typed'
    <2>1. PICK gone \in Keys : map' \in [Keys -> Value \cup {None}] /\ Disturbed({gone, cpu[c].key})
      BY <1>4, CreateTyped
    <2>2. WalkTyped'
      BY <1>1, <2>1, DisturbedTyped
    <2>3. cpu' \in [Cpus -> CpuStates]
      BY <1>4 DEF Create, CpuStates
    <2>4. QED
      BY <1>4, <2>1, <2>2, <2>3 DEF Create, WalkTyped
  <1>5. ASSUME NEW c \in Cpus, Touch(c) PROVE Typed'
    <2>1. /\ map' \in [Keys -> Value \cup {None}] /\ cpu' \in [Cpus -> CpuStates]
          /\ Disturbed(IF Alive(c) THEN {cpu[c].key} ELSE {})
      BY <1>5, TouchTyped
    <2>2. WalkTyped'
      BY <1>1, <2>1, DisturbedTyped
    <2>3. QED
      BY <1>5, <2>1, <2>2 DEF Touch, WalkTyped
  <1>6. ASSUME NEW c \in Cpus, Add(c) PROVE Typed'
    <2>1. /\ map' \in [Keys -> Value \cup {None}] /\ cpu' = [cpu EXCEPT ![c] = Idle]
          /\ Disturbed(IF Alive(c) THEN {cpu[c].key} ELSE {})
      BY <1>6, AddTyped
    <2>2. WalkTyped'
      BY <1>1, <2>1, DisturbedTyped
    <2>3. cpu' \in [Cpus -> CpuStates]
      BY <2>1 DEF CpuStates
    <2>4. QED
      BY <1>6, <2>1, <2>2, <2>3 DEF Add, WalkTyped
  <1>7. ASSUME NEW k \in Keys, Evict(k) PROVE Typed'
    <2>1. Disturbed({k}) /\ map' = [map EXCEPT ![k] = None]
      BY <1>7 DEF Evict
    <2>2. WalkTyped'
      BY <1>1, <2>1, DisturbedTyped
    <2>3. QED
      BY <1>7, <2>1, <2>2 DEF Evict, WalkTyped
  <1>8. CASE Tick
    <2>1. clock' \in Times /\ \A j \in Keys : delivered[j] <= clock'
      <3>1. clock \in Nat /\ MaxTime \in Nat /\ clock < MaxTime /\ clock' = clock + 1
        BY <1>8, NumberFacts DEF Tick
      <3>2. clock' \in Nat /\ clock' <= MaxTime
        BY <3>1
      <3>3. \A j \in Keys : delivered[j] \in Nat /\ delivered[j] <= clock
        BY NumberFacts
      <3>4. \A j \in Keys : delivered[j] <= clock'
        BY <3>1, <3>3
      <3>5. QED
        BY <3>2, <3>4, NumberFacts
    <2>2. QED
      BY <1>8, <2>1 DEF Tick
  <1>9. CASE BeginWalk
    <2>1. WalkTyped'
      BY <1>9, BeginTyped
    <2>2. QED
      BY <1>9, <2>1 DEF BeginWalk, WalkTyped
  <1>10. CASE SourceUnavailable
    <2>1. HealthTyped'
      BY <1>1, <1>10, FailedTyped DEF SourceUnavailable
    <2>2. QED
      BY <1>10, <2>1 DEF SourceUnavailable, HealthTyped
  <1>11. CASE NextKey
    <2>1. WalkTyped'
      BY <1>11, NextKeyTyped
    <2>2. QED
      BY <1>11, <2>1 DEF NextKey, WalkTyped
  <1>12. CASE ReadValue
    <2>1. WalkTyped'
      BY <1>12, ReadTyped
    <2>2. QED
      BY <1>12, <2>1 DEF ReadValue, WalkTyped
  <1>13. CASE ExpireOrKeep
    <2>1. WalkTyped'
      BY <1>13, ExpireTyped
    <2>2. map' \in [Keys -> Value \cup {None}]
      <3>1. map' = map \/ \E k : map' = [map EXCEPT ![k] = None]
        BY <1>13, ExpireFields
      <3>2. QED
        BY <3>1
    <2>3. QED
      BY <1>13, <2>1, <2>2 DEF ExpireOrKeep, WalkTyped
  <1>14. CASE ExpireFails \/ Rejected \/ NotStored
    <2>1. HealthTyped'
      BY <1>1, <1>14, FailedTyped DEF ExpireFails, Rejected, NotStored
    <2>2. WalkTyped'
      BY <1>14, NoWalkTyped DEF ExpireFails, Rejected, NotStored
    <2>3. QED
      BY <1>14, <2>1, <2>2 DEF ExpireFails, Rejected, NotStored, WalkTyped, HealthTyped
  <1>15. CASE Stored
    <2>1. HealthTyped' /\ WalkTyped'
      BY <1>15, SucceededTyped, NoWalkTyped DEF Stored
    <2>2. rows' \in [FlowId -> Count]
      BY <1>15, StoredTyped
    <2>3. QED
      BY <1>15, <2>1, <2>2 DEF Stored, WalkTyped, HealthTyped
  <1>16. CASE Restart
    <2>1. WalkTyped'
      BY <1>16, NoWalkTyped DEF Restart
    <2>2. health' \in [ready: BOOLEAN, failures: 0 .. MaxFailures] /\ ~health'.ready
      BY <1>16, NumberFacts DEF Restart, Starting
    <2>3. map' \in [Keys -> Value \cup {None}] /\ cpu' \in [Cpus -> CpuStates]
      BY <1>16 DEF Restart, CpuStates
    <2>4. QED
      BY <1>16, <2>1, <2>2, <2>3 DEF Restart, WalkTyped
  <1>17. CASE UNCHANGED vars
    BY <1>17 DEF vars
  <1>18. QED
    BY <1>2, <1>3, <1>4, <1>5, <1>6, <1>7, <1>8, <1>9, <1>10, <1>11, <1>12, <1>13,
       <1>14, <1>15, <1>16, <1>17 DEF Next, CpuStep, WalkStep

\* The map keeps its limit: an entry is made in a full map only for another.
LEMMA NextFits ==
    ASSUME Typed, NEW hi, Ceilings(hi), Fits, [Next]_vars
    PROVE  Fits'
  <1> DEFINE E == Entries
  <1>1. PICK F : F = Entries'
    OBVIOUS
  <1>2. F = {k \in Keys : map'[k] # None}
    BY <1>1 DEF Entries
  <1>3. IsFiniteSet(E) /\ Cardinality(E) \in Nat /\ Cardinality(E) <= MaxEntries
    BY NumberFacts, FS_Subset, FS_CardinalityType DEF Entries, Fits
  <1>4. MaxEntries \in Nat
    BY NumberFacts
  <1>5. F \subseteq E => Cardinality(F) <= MaxEntries
    <2> HIDE DEF E
    <2>1. SUFFICES ASSUME F \subseteq E PROVE Cardinality(F) <= MaxEntries
      OBVIOUS
    <2>2. Cardinality(F) <= Cardinality(E) /\ Cardinality(F) \in Nat
      BY <1>3, <2>1, FS_Subset, FS_CardinalityType
    <2>3. QED
      BY <1>3, <1>4, <2>2
  <1>6. CASE map' = map \/ \E k : map' = [map EXCEPT ![k] = None]
    <2>1. F \subseteq E
      BY <1>2, <1>6 DEF Entries, Typed
    <2>2. QED
      BY <1>1, <1>5, <2>1 DEF Fits
  <1>7. ASSUME NEW c \in Cpus, Create(c) PROVE Fits'
    <2> DEFINE k == cpu[c].key
               new == [first |-> cpu[c].now, last |-> cpu[c].now, count |-> 1]
    <2>1. PICK gone \in Keys :
              /\ k \in Keys /\ new \in Value
              /\ map' = [[map EXCEPT ![gone] = None] EXCEPT ![k] = new]
              /\ gone \in Entries \/ gone = k
              /\ map[k] = None /\ Cardinality(Entries) = MaxEntries => gone \in Entries
      BY <1>7, CreateTyped
    <2> HIDE DEF new
    <2>2. F = (E \ {gone}) \cup {k}
      BY <1>2, <2>1, NoneFacts DEF Entries, Typed
    <2>3. CASE k \in E
      <3>1. F \subseteq E
        BY <2>2, <2>3
      <3>2. QED
        BY <1>1, <1>5, <3>1 DEF Fits
    <2>4. CASE k \notin E /\ gone \in E
      <3> HIDE DEF E
      <3>1. IsFiniteSet(E \ {gone}) /\ Cardinality(E \ {gone}) = Cardinality(E) - 1
        BY <1>3, <2>4, FS_RemoveElement
      <3>2. Cardinality(F) = Cardinality(E)
        <4>1. Cardinality((E \ {gone}) \cup {k}) = Cardinality(E \ {gone}) + 1
          BY <2>4, <3>1, FS_AddElement
        <4>2. QED
          BY <1>3, <2>2, <3>1, <4>1
      <3>3. QED
        BY <1>1, <1>3, <3>2 DEF Fits
    <2>5. CASE k \notin E /\ gone \notin E
      <3>1. map[k] = None
        BY <2>1, <2>5 DEF Entries
      <3>2. Cardinality(E) # MaxEntries
        BY <2>1, <2>5, <3>1
      <3> HIDE DEF E
      <3>3. F = E \cup {k}
        BY <2>2, <2>5
      <3>4. Cardinality(F) = Cardinality(E) + 1
        BY <1>3, <2>5, <3>3, FS_AddElement
      <3>5. Cardinality(F) <= MaxEntries
        BY <1>3, <1>4, <3>2, <3>4
      <3>6. QED
        BY <1>1, <3>5 DEF Fits
    <2>6. QED
      BY <2>3, <2>4, <2>5
  <1>8. ASSUME NEW c \in Cpus, Touch(c) \/ Add(c) PROVE Fits'
    <2> DEFINE k == cpu[c].key
    <2>1. \/ map' = map
          \/ /\ k \in Keys /\ Alive(c)
             /\ \E v \in Value : map' = [map EXCEPT ![k] = v]
      <3>1. CASE Touch(c)
        BY <3>1, TouchTyped
      <3>2. CASE Add(c)
        BY <3>2, AddTyped
      <3>3. QED
        BY <1>8, <3>1, <3>2
    <2>2. F \subseteq E
      BY <1>2, <2>1 DEF Entries, Typed, Alive
    <2>3. QED
      BY <1>1, <1>5, <2>2 DEF Fits
  <1>9. CASE Restart
    <2>1. F \subseteq E
      BY <1>2, <1>9 DEF Restart
    <2>2. QED
      BY <1>1, <1>5, <2>1 DEF Fits
  <1>10. CASE ExpireOrKeep
    <2>1. map' = map \/ \E k : map' = [map EXCEPT ![k] = None]
      BY <1>10, ExpireFields
    <2>2. QED
      BY <1>6, <2>1
  <1>11. QED
    <2>1. ASSUME NEW c \in Cpus, NEW k \in Keys, Packet(c, k) PROVE Fits'
      BY <1>6, <2>1 DEF Packet
    <2>2. ASSUME NEW c \in Cpus, Lookup(c) PROVE Fits'
      BY <1>6, <2>2 DEF Lookup
    <2>3. ASSUME NEW k \in Keys, Evict(k) PROVE Fits'
      BY <1>6, <2>3 DEF Evict
    <2>4. CASE Tick \/ BeginWalk \/ SourceUnavailable \/ NextKey \/ ReadValue \/ UNCHANGED vars
      BY <1>6, <2>4 DEF Tick, BeginWalk, SourceUnavailable, NextKey, ReadValue, vars
    <2>5. CASE ExpireFails \/ Rejected \/ Stored \/ NotStored
      BY <1>6, <2>5 DEF ExpireFails, Rejected, Stored, NotStored
    <2>6. QED
      BY <1>7, <1>8, <1>9, <1>10, <2>1, <2>2, <2>3, <2>4, <2>5 DEF Next, CpuStep, WalkStep
-----------------------------------------------------------------------------
(* The ceilings hold, and rise by one with every packet that is counted.    *)

LEMMA BusySteps ==
    ASSUME Typed, NEW c \in Cpus, NEW k \in Keys, NEW p, cpu' = [cpu EXCEPT ![c] = p]
    PROVE  /\ p # Idle /\ cpu[c] # Idle /\ p.key = cpu[c].key => Busy(k)' = Busy(k)
           /\ p = Idle /\ cpu[c] # Idle /\ cpu[c].key = k => Busy(k)' = Busy(k) \ {c}
           /\ p = Idle /\ cpu[c] # Idle /\ cpu[c].key # k => Busy(k)' = Busy(k)
           /\ p # Idle /\ cpu[c] = Idle /\ p.key = k => Busy(k)' = Busy(k) \cup {c}
           /\ p # Idle /\ cpu[c] = Idle /\ p.key # k => Busy(k)' = Busy(k)
  <1>1. \A x \in Cpus : cpu'[x] = IF x = c THEN p ELSE cpu[x]
    BY DEF Typed
  <1>2. QED
    BY <1>1 DEF Busy

LEMMA CpusUnderStep ==
    ASSUME Typed, NEW hi, CpusUnder(hi), NEW c \in Cpus, NEW p, cpu' = [cpu EXCEPT ![c] = p],
           p.at = "add" => p.read <= hi[p.key][p.entry]
    PROVE  CpusUnder(hi)'
  <1>1. \A x \in Cpus : cpu'[x] = IF x = c THEN p ELSE cpu[x]
    BY DEF Typed
  <1>2. QED
    BY <1>1 DEF CpusUnder

\* What was under a ceiling is under a higher one.
LEMMA HigherCeilings ==
    ASSUME Typed, NEW hi \in Ceiling, NEW hj \in Ceiling,
           \A k \in Keys, t \in Times : hi[k][t] <= hj[k][t]
    PROVE  /\ RowsUnder(hi) => RowsUnder(hj)
           /\ MapUnder(hi) => MapUnder(hj)
           /\ EntriesUnder(hi) => EntriesUnder(hj)
           /\ FlowsUnder(hi) => FlowsUnder(hj)
           /\ CpusUnder(hi) => CpusUnder(hj)
  <1>1. ASSUME NEW k \in Keys, NEW t \in Times, NEW n \in Count, n <= hi[k][t]
        PROVE  n <= hj[k][t]
    <2>1. n \in Nat /\ hi[k][t] \in Nat /\ hj[k][t] \in Nat
      BY NumberFacts DEF Ceiling
    <2>2. QED
      BY <1>1, <2>1
  <1>2. RowsUnder(hi) => RowsUnder(hj)
    <2> SUFFICES ASSUME RowsUnder(hi), NEW k \in Keys, NEW t \in Times
                 PROVE  rows[[key |-> k, first |-> t]] <= hj[k][t]
      BY DEF RowsUnder
    <2>1. rows[[key |-> k, first |-> t]] \in Count
      BY DEF Typed, FlowId
    <2>2. QED
      BY <1>1, <2>1 DEF RowsUnder
  <1>3. MapUnder(hi) => MapUnder(hj)
    <2> SUFFICES ASSUME MapUnder(hi), NEW k \in Keys, map[k] # None
                 PROVE  map[k].count <= hj[k][map[k].first]
      BY DEF MapUnder
    <2>1. map[k].count \in Count /\ map[k].first \in Times
      BY DEF Typed, Value
    <2>2. QED
      BY <1>1, <2>1 DEF MapUnder
  <1>4. EntriesUnder(hi) => EntriesUnder(hj)
    <2> SUFFICES ASSUME EntriesUnder(hi), NEW i \in DOMAIN walk.entries
                 PROVE  walk.entries[i].value.count
                          <= hj[walk.entries[i].key][walk.entries[i].value.first]
      BY DEF EntriesUnder
    <2>1. walk.entries \in Seq(EntrySet)
      BY DEF Typed, Walks
    <2>2. walk.entries[i] \in EntrySet
      BY <2>1, LenProperties, ElementOfSeq
    <2>3. /\ walk.entries[i].key \in Keys /\ walk.entries[i].value.count \in Count
          /\ walk.entries[i].value.first \in Times
      BY <2>2 DEF EntrySet, Value
    <2>4. QED
      BY <1>1, <2>3 DEF EntriesUnder
  <1>5. FlowsUnder(hi) => FlowsUnder(hj)
    <2> SUFFICES ASSUME FlowsUnder(hi), NEW i \in DOMAIN walk.flows
                 PROVE  walk.flows[i].count
                          <= hj[walk.flows[i].id.key][walk.flows[i].id.first]
      BY DEF FlowsUnder
    <2>1. walk.flows \in Seq(Flow)
      BY DEF Typed, Walks
    <2>2. walk.flows[i] \in Flow
      BY <2>1, LenProperties, ElementOfSeq
    <2>3. /\ walk.flows[i].id.key \in Keys /\ walk.flows[i].count \in Count
          /\ walk.flows[i].id.first \in Times
      BY <2>2 DEF Flow, FlowId
    <2>4. QED
      BY <1>1, <2>3 DEF FlowsUnder
  <1>6. CpusUnder(hi) => CpusUnder(hj)
    <2> SUFFICES ASSUME CpusUnder(hi), NEW c \in Cpus, cpu[c].at = "add"
                 PROVE  cpu[c].read <= hj[cpu[c].key][cpu[c].entry]
      BY DEF CpusUnder
    <2>1. cpu[c].key \in Keys /\ cpu[c].entry \in Times /\ cpu[c].read \in Count
      BY IdleFacts DEF Typed
    <2>2. QED
      BY <1>1, <2>1 DEF CpusUnder
  <1>7. QED
    BY <1>2, <1>3, <1>4, <1>5, <1>6

\* A packet that is done pays for one more at the ceiling of one flow.
LEMMA RaiseBudget ==
    ASSUME Typed, NEW hi, Ceilings(hi), NEW c \in Cpus, cpu[c] # Idle,
           cpu' = [cpu EXCEPT ![c] = Idle], delivered' = delivered,
           NEW t \in Times, NEW n \in Nat, n <= hi[cpu[c].key][t] + 1
    PROVE  \E hj \in Ceiling :
              /\ \A k \in Keys, s \in Times : hi[k][s] <= hj[k][s]
              /\ n <= hj[cpu[c].key][t]
              /\ \A k \in Keys :
                    SumFunctionOnSet(hj[k], Times) + Cardinality(Busy(k)') <= delivered[k]
  <1>1. PICK k : k = cpu[c].key
    OBVIOUS
  <1>2. k \in Keys /\ hi \in Ceiling /\ Budget(hi)
    BY <1>1, IdleFacts DEF Typed, Ceilings
  <1>3. hi[k][t] \in Nat
    BY <1>2 DEF Ceiling
  <1>4. PICK x \in Nat : hi[k][t] <= x /\ x <= hi[k][t] + 1 /\ n <= x
    <2>1. CASE n <= hi[k][t]
      BY <1>3, <2>1
    <2>2. CASE ~(n <= hi[k][t])
      BY <1>1, <1>3, <2>2
    <2>3. QED
      BY <2>1, <2>2
  <1>5. PICK hj : hj = Raised(hi, k, t, x)
    OBVIOUS
  <1>6. /\ hj \in Ceiling /\ hj[k][t] = x
        /\ \A j \in Keys, s \in Times : hi[j][s] <= hj[j][s]
        /\ \A j \in Keys : j # k => hj[j] = hi[j]
        /\ SumFunctionOnSet(hj[k], Times) <= SumFunctionOnSet(hi[k], Times) + 1
    BY <1>2, <1>4, <1>5, RaiseOne
  <1>7. ASSUME NEW j \in Keys
        PROVE  SumFunctionOnSet(hj[j], Times) + Cardinality(Busy(j)') <= delivered[j]
    <2>1. SumFunctionOnSet(hi[j], Times) + Cardinality(Busy(j)) <= delivered[j]
      BY <1>2 DEF Budget
    <2>2. CASE j # k
      <3>1. Busy(j)' = Busy(j)
        BY <1>1, <2>2, BusySteps
      <3>2. QED
        BY <1>6, <2>1, <2>2, <3>1
    <2>3. CASE j = k
      <3>1. Busy(k)' = Busy(k) \ {c}
        BY <1>1, <1>2, BusySteps
      <3>2. c \in Busy(k)
        BY <1>1 DEF Busy
      <3>3. IsFiniteSet(Busy(k))
        BY BusyFinite
      <3> DEFINE B == Busy(k)
      <3> HIDE DEF B
      <3>4. /\ Cardinality(B \ {c}) = Cardinality(B) - 1
            /\ Cardinality(B) \in Nat /\ Cardinality(B \ {c}) \in Nat
        BY <3>2, <3>3, Without DEF B
      <3>5. SumFunctionOnSet(hi[k], Times) \in Nat /\ SumFunctionOnSet(hj[k], Times) \in Nat
        <4>1. \A s \in Times : hi[k][s] \in Nat /\ hj[k][s] \in Nat
          BY <1>2, <1>6 DEF Ceiling
        <4>2. QED
          BY <4>1, NumberFacts, SumType
      <3>6. delivered[k] \in Nat
        BY <1>2, NumberFacts DEF Typed
      <3> DEFINE low == SumFunctionOnSet(hi[k], Times)
                 high == SumFunctionOnSet(hj[k], Times)
      <3>7. /\ low \in Nat /\ high \in Nat /\ high <= low + 1
            /\ low + Cardinality(B) <= delivered[k]
        BY <1>6, <2>1, <2>3, <3>5 DEF B
      <3> HIDE DEF low, high
      <3>8. high + Cardinality(B \ {c}) <= delivered[k]
        BY <3>4, <3>6, <3>7
      <3>9. QED
        BY SMTT(30), <2>3, <3>1, <3>8 DEF B, high
    <2>4. QED
      BY <2>2, <2>3
  <1>8. QED
    BY <1>1, <1>4, <1>6, <1>7
\* A value of the map may leave it, and its entries and flows may leave a walk.
LEMMA UnderStays ==
    ASSUME Typed, NEW hi
    PROVE  /\ MapUnder(hi) /\ (\A k \in Keys : map'[k] \in {None, map[k]}) => MapUnder(hi)'
           /\ EntriesUnder(hi) /\ walk'.entries \in {walk.entries, <<>>} => EntriesUnder(hi)'
           /\ FlowsUnder(hi) /\ walk'.flows \in {walk.flows, <<>>} => FlowsUnder(hi)'
  <1>1. MapUnder(hi) /\ (\A k \in Keys : map'[k] \in {None, map[k]}) => MapUnder(hi)'
    BY DEF MapUnder
  <1>2. EntriesUnder(hi) /\ walk'.entries \in {walk.entries, <<>>} => EntriesUnder(hi)'
    BY DEF EntriesUnder
  <1>3. FlowsUnder(hi) /\ walk'.flows \in {walk.flows, <<>>} => FlowsUnder(hi)'
    BY DEF FlowsUnder
  <1>4. QED
    BY <1>1, <1>2, <1>3

LEMMA PacketCeilings ==
    ASSUME Typed, NEW hi, Ceilings(hi), NEW c \in Cpus, NEW k \in Keys, Packet(c, k)
    PROVE  Ceilings(hi)'
  <1> DEFINE p == [at |-> "lookup", key |-> k, now |-> clock']
  <1>1. /\ cpu' = [cpu EXCEPT ![c] = p] /\ cpu[c] = Idle
        /\ delivered' = [delivered EXCEPT ![k] = delivered[k] + 1]
    BY PacketTyped DEF Packet
  <1>2. p # Idle /\ p.key = k /\ p.at # "add"
    BY DEF Idle
  <1>3. CpusUnder(hi)'
    BY <1>1, <1>2, CpusUnderStep DEF Ceilings
  <1> HIDE DEF p
  <1>4. ASSUME NEW j \in Keys
        PROVE  SumFunctionOnSet(hi[j], Times) + Cardinality(Busy(j)') <= delivered'[j]
    <2>1. SumFunctionOnSet(hi[j], Times) + Cardinality(Busy(j)) <= delivered[j]
      BY DEF Ceilings, Budget
    <2>2. CASE j # k
      <3>1. Busy(j)' = Busy(j)
        BY <1>1, <1>2, <2>2, BusySteps
      <3>2. delivered'[j] = delivered[j]
        BY <1>1, <2>2 DEF Typed
      <3>3. QED
        BY <2>1, <3>1, <3>2
    <2>3. CASE j = k
      <3>1. Busy(k)' = Busy(k) \cup {c}
        BY <1>1, <1>2, BusySteps
      <3>2. c \notin Busy(k)
        BY <1>1 DEF Busy
      <3>3. IsFiniteSet(Busy(k)) /\ Cardinality(Busy(k)) \in Nat
        BY BusyFinite
      <3>4. delivered'[k] = delivered[k] + 1 /\ delivered[k] \in Nat
        BY <1>1, NumberFacts DEF Typed
      <3> DEFINE B == Busy(k)
                 total == SumFunctionOnSet(hi[k], Times)
      <3>5. total \in Nat
        BY CeilingsBound, NumberFacts
      <3> HIDE DEF B, total
      <3>6. Cardinality(B \cup {c}) = Cardinality(B) + 1
        BY <3>2, <3>3, FS_AddElement DEF B
      <3>7. total + Cardinality(B) <= delivered[k] /\ Cardinality(B) \in Nat
        BY <2>1, <2>3, <3>3 DEF B, total
      <3>8. total + Cardinality(B \cup {c}) <= delivered'[k]
        BY <3>4, <3>5, <3>6, <3>7
      <3>9. QED
        BY <2>3, <3>1, <3>8 DEF B, total
    <2>4. QED
      BY <2>2, <2>3
  <1>5. Budget(hi)'
    BY <1>4 DEF Budget
  <1>6. UNCHANGED <<map, walk, rows>>
    BY DEF Packet
  <1>7. MapUnder(hi)' /\ EntriesUnder(hi)' /\ FlowsUnder(hi)' /\ RowsUnder(hi)'
    BY <1>6 DEF Ceilings, MapUnder, EntriesUnder, FlowsUnder, RowsUnder
  <1>8. QED
    BY <1>3, <1>5, <1>7 DEF Ceilings

\* A CPU that goes on with its packet leaves the budget alone.
LEMMA SameBudget ==
    ASSUME Typed, NEW hi, Budget(hi), NEW c \in Cpus, NEW p, p # Idle, cpu[c] # Idle,
           p.key = cpu[c].key, cpu' = [cpu EXCEPT ![c] = p], delivered' = delivered
    PROVE  Budget(hi)'
  <1>1. \A k \in Keys : Busy(k)' = Busy(k)
    BY BusySteps
  <1>2. QED
    BY <1>1 DEF Budget

LEMMA LookupCeilings ==
    ASSUME Typed, NEW hi, Ceilings(hi), NEW c \in Cpus, Lookup(c)
    PROVE  Ceilings(hi)'
  <1>1. PICK p \in CpuStates :
            /\ p # Idle /\ p.at \in {"create", "touch"} /\ p.key = cpu[c].key
            /\ cpu[c] # Idle /\ cpu' = [cpu EXCEPT ![c] = p]
    BY LookupTyped
  <1>2. UNCHANGED <<map, walk, rows, delivered>>
    BY DEF Lookup
  <1>3. Budget(hi)'
    BY <1>1, <1>2, SameBudget DEF Ceilings
  <1>4. CpusUnder(hi)'
    <2>1. p.at # "add"
      BY <1>1
    <2>2. QED
      BY <1>1, <2>1, CpusUnderStep DEF Ceilings
  <1>5. MapUnder(hi)' /\ EntriesUnder(hi)' /\ FlowsUnder(hi)' /\ RowsUnder(hi)'
    BY <1>2 DEF Ceilings, MapUnder, EntriesUnder, FlowsUnder, RowsUnder
  <1>6. QED
    BY <1>3, <1>4, <1>5 DEF Ceilings

LEMMA TouchCeilings ==
    ASSUME Typed, NEW hi, Ceilings(hi), NEW c \in Cpus, Touch(c)
    PROVE  Ceilings(hi)'
  <1> DEFINE k == cpu[c].key
             read == IF Alive(c) THEN map[k].count ELSE 0
             p == [at |-> "add", key |-> k, entry |-> cpu[c].entry, read |-> read]
             ks == IF Alive(c) THEN {k} ELSE {}
  <1>1. /\ k \in Keys /\ cpu[c].entry \in Times /\ cpu[c] # Idle /\ p # Idle
        /\ cpu' = [cpu EXCEPT ![c] = p] /\ Disturbed(ks)
        /\ \/ ~Alive(c) /\ map' = map
           \/ /\ Alive(c) /\ map[k] \in Value
              /\ map' = [map EXCEPT ![k] = [map[k] EXCEPT !.last = cpu[c].now]]
    BY TouchTyped
  <1>2. UNCHANGED <<rows, delivered>>
    BY DEF Touch
  <1>3. Budget(hi)'
    BY <1>1, <1>2, SameBudget DEF Ceilings
  <1>4. read <= hi[k][cpu[c].entry]
    <2>1. hi[k][cpu[c].entry] \in Nat
      BY <1>1, CeilingsBound
    <2>2. Alive(c) => map[k].count <= hi[k][cpu[c].entry]
      BY <1>1 DEF Alive, Ceilings, MapUnder
    <2>3. QED
      BY <2>1, <2>2
  <1>5. CpusUnder(hi)'
    <2>1. p.read <= hi[p.key][p.entry]
      BY <1>4
    <2> HIDE DEF p
    <2>2. QED
      BY <1>1, <2>1, CpusUnderStep DEF Ceilings
  <1>6. MapUnder(hi)'
    <2>1. CASE map' = map
      BY <2>1 DEF Ceilings, MapUnder
    <2>2. CASE Alive(c) /\ map[k] \in Value
               /\ map' = [map EXCEPT ![k] = [map[k] EXCEPT !.last = cpu[c].now]]
      <3> DEFINE v == [map[k] EXCEPT !.last = cpu[c].now]
      <3>1. v.count = map[k].count /\ v.first = map[k].first
        BY <2>2 DEF Value
      <3>2. map' = [map EXCEPT ![k] = v] /\ map[k] # None
        BY <2>2 DEF Alive
      <3> HIDE DEF v, k
      <3>3. QED
        BY <3>1, <3>2 DEF Ceilings, MapUnder, Typed
    <2>3. QED
      BY <1>1, <2>1, <2>2
  <1>7. walk'.entries = walk.entries /\ walk'.flows = walk.flows
    BY <1>1, DisturbedFields DEF Typed
  <1>8. EntriesUnder(hi)' /\ FlowsUnder(hi)' /\ RowsUnder(hi)'
    BY <1>2, <1>7 DEF Ceilings, EntriesUnder, FlowsUnder, RowsUnder
  <1>9. QED
    BY <1>3, <1>5, <1>6, <1>8 DEF Ceilings

\* Create and Add end with a value v in the map whose counter n a raised
\* ceiling covers.
LEMMA CountedCeilings ==
    ASSUME Typed, NEW hi, Ceilings(hi), NEW c \in Cpus, cpu[c] # Idle,
           cpu' = [cpu EXCEPT ![c] = Idle], UNCHANGED <<rows, delivered>>,
           NEW t \in Times, NEW n \in Nat, n <= hi[cpu[c].key][t] + 1
    PROVE  /\ \A k \in Keys : \/ map'[k] \in {None, map[k]}
                              \/ k = cpu[c].key /\ map'[k].count = n /\ map'[k].first = t
           /\ walk'.entries = walk.entries /\ walk'.flows = walk.flows
           => \E hj : Ceilings(hj)'
  <1>1. PICK hj \in Ceiling :
           /\ \A k \in Keys, s \in Times : hi[k][s] <= hj[k][s]
           /\ n <= hj[cpu[c].key][t]
           /\ \A k \in Keys :
                 SumFunctionOnSet(hj[k], Times) + Cardinality(Busy(k)') <= delivered[k]
    BY RaiseBudget
  <1> SUFFICES ASSUME \A k \in Keys :
                          \/ map'[k] \in {None, map[k]}
                          \/ k = cpu[c].key /\ map'[k].count = n /\ map'[k].first = t,
                      walk'.entries = walk.entries, walk'.flows = walk.flows
               PROVE  \E hj_1 : Ceilings(hj_1)'
    OBVIOUS
  <1>2. hi \in Ceiling
    BY DEF Ceilings
  <1>3. RowsUnder(hj) /\ MapUnder(hj) /\ EntriesUnder(hj) /\ FlowsUnder(hj) /\ CpusUnder(hj)
    BY <1>1, <1>2, HigherCeilings DEF Ceilings
  <1>4. MapUnder(hj)'
    <2> SUFFICES ASSUME NEW k \in Keys, map'[k] # None
                 PROVE  map'[k].count <= hj[k][map'[k].first]
      BY DEF MapUnder
    <2>1. CASE map'[k] \in {None, map[k]}
      BY <1>3, <2>1 DEF MapUnder
    <2>2. CASE k = cpu[c].key /\ map'[k].count = n /\ map'[k].first = t
      BY <1>1, <2>2
    <2>3. QED
      BY <2>1, <2>2
  <1>5. CpusUnder(hj)'
    <2>1. Idle.at # "add"
      BY DEF Idle
    <2>2. QED
      BY <1>3, <2>1, CpusUnderStep
  <1>7. EntriesUnder(hj)' /\ FlowsUnder(hj)' /\ RowsUnder(hj)'
    BY <1>3 DEF EntriesUnder, FlowsUnder, RowsUnder
  <1>8. Budget(hj)'
    BY <1>1 DEF Budget
  <1>9. QED
    BY <1>4, <1>5, <1>7, <1>8 DEF Ceilings

LEMMA CreateCeilings ==
    ASSUME Typed, NEW hi, Ceilings(hi), NEW c \in Cpus, Create(c)
    PROVE  \E hj : Ceilings(hj)'
  <1> DEFINE k == cpu[c].key
             t == cpu[c].now
             new == [first |-> t, last |-> t, count |-> 1]
  <1>1. PICK gone \in Keys :
           /\ k \in Keys /\ t \in Times /\ cpu[c] # Idle
           /\ map' = [[map EXCEPT ![gone] = None] EXCEPT ![k] = new]
           /\ Disturbed({gone, k})
    BY CreateTyped
  <1>2. cpu' = [cpu EXCEPT ![c] = Idle] /\ UNCHANGED <<rows, delivered>>
    BY DEF Create
  <1>3. new.count = 1 /\ new.first = t
    OBVIOUS
  <1>4. 1 <= hi[k][t] + 1
    <2>1. hi[k][t] \in Nat
      BY <1>1, CeilingsBound
    <2>2. QED
      BY <2>1
  <1> HIDE DEF new
  <1>5. \A j \in Keys : \/ map'[j] \in {None, map[j]}
                        \/ j = k /\ map'[j].count = 1 /\ map'[j].first = t
    BY <1>1, <1>3 DEF Typed
  <1> HIDE DEF t
  <1>6. walk'.entries = walk.entries /\ walk'.flows = walk.flows
    BY <1>1, DisturbedFields DEF Typed
  <1>7. QED
    BY ZenonT(60), <1>1, <1>2, <1>4, <1>5, <1>6, CountedCeilings

LEMMA AddCeilings ==
    ASSUME Typed, NEW hi, Ceilings(hi), NEW c \in Cpus, Add(c)
    PROVE  \E hj : Ceilings(hj)'
  <1> DEFINE k == cpu[c].key
             t == cpu[c].entry
             n == cpu[c].read + 1
             v == [map[k] EXCEPT !.count = n]
             ks == IF Alive(c) THEN {k} ELSE {}
  <1>1. /\ k \in Keys /\ t \in Times /\ cpu[c] # Idle /\ cpu[c].read \in Nat
        /\ cpu[c].read <= hi[k][t]
        /\ cpu' = [cpu EXCEPT ![c] = Idle] /\ Disturbed(ks)
        /\ \/ ~Alive(c) /\ map' = map
           \/ /\ Alive(c) /\ map[k] \in Value /\ map[k].first = t
              /\ map' = [map EXCEPT ![k] = v]
    BY AddTyped
  <1>2. UNCHANGED <<rows, delivered>>
    BY DEF Add
  <1>3. n \in Nat /\ n <= hi[k][t] + 1
    <2>1. hi[k][t] \in Nat
      BY <1>1, CeilingsBound
    <2>2. QED
      BY <1>1, <2>1
  <1>4. map[k] \in Value => v.count = n /\ v.first = map[k].first
    BY DEF Value
  <1> HIDE DEF v, n, ks
  <1>5. \A j \in Keys : \/ map'[j] \in {None, map[j]}
                        \/ j = k /\ map'[j].count = n /\ map'[j].first = t
    BY <1>1, <1>4 DEF Typed
  <1> HIDE DEF t
  <1>6. walk'.entries = walk.entries /\ walk'.flows = walk.flows
    BY <1>1, DisturbedFields DEF Typed
  <1>7. cpu[c] # Idle /\ cpu' = [cpu EXCEPT ![c] = Idle] /\ t \in Times
    BY <1>1
  <1>8. QED
    BY <1>2, <1>3, <1>5, <1>6, <1>7, CountedCeilings
LEMMA ExpireCeilings ==
    ASSUME Typed, NEW hi, Ceilings(hi), ExpireOrKeep
    PROVE  Ceilings(hi)'
  <1> DEFINE head == Head(walk.entries)
             flow == FlowFromEntry(head.key, head.value)
             tail == Tail(walk.entries)
  <1>1. /\ head \in EntrySet /\ head = walk.entries[1] /\ walk.entries # <<>>
        /\ walk.entries \in Seq(EntrySet) /\ walk.flows \in Seq(Flow) /\ flow \in Flow
        /\ walk'.entries = tail
        /\ walk'.flows \in {walk.flows, Append(walk.flows, flow)}
        /\ map' \in {map, [map EXCEPT ![head.key] = None]}
    BY ExpireFields
  <1>2. UNCHANGED <<cpu, rows, delivered>>
    BY DEF ExpireOrKeep
  <1>3. \A k \in Keys : map'[k] \in {None, map[k]}
    BY <1>1 DEF Typed
  <1>4. MapUnder(hi)'
    BY <1>3, UnderStays DEF Ceilings
  <1>5. EntriesUnder(hi)'
    <2>1. /\ tail \in Seq(EntrySet) /\ Len(tail) = Len(walk.entries) - 1
          /\ \A i \in 1 .. Len(tail) : tail[i] = walk.entries[i + 1]
      BY <1>1, HeadTailProperties
    <2>2. DOMAIN tail = 1 .. Len(tail) /\ DOMAIN walk.entries = 1 .. Len(walk.entries)
          /\ Len(walk.entries) \in Nat
      BY <1>1, <2>1, LenProperties
    <2> HIDE DEF tail
    <2>3. \A i \in DOMAIN tail : i + 1 \in DOMAIN walk.entries /\ tail[i] = walk.entries[i + 1]
      BY <2>1, <2>2
    <2>4. \A i \in DOMAIN tail : tail[i].value.count <= hi[tail[i].key][tail[i].value.first]
      BY <2>3 DEF Ceilings, EntriesUnder
    <2>5. QED
      BY <1>1, <2>4 DEF EntriesUnder
  <1>6. FlowsUnder(hi)'
    <2>1. 1 \in DOMAIN walk.entries
      BY <1>1, LenProperties, EmptySeq
    <2>2. head.value.count <= hi[head.key][head.value.first]
      BY <1>1, <2>1 DEF Ceilings, EntriesUnder
    <2>3. flow.id = [key |-> head.key, first |-> head.value.first]
          /\ flow.count = head.value.count
      BY <1>1, FlowOfEntry DEF ExpireOrKeep
    <2>4. flow.count <= hi[flow.id.key][flow.id.first]
      BY SMTT(60), <2>2, <2>3
    <2> DEFINE flows == Append(walk.flows, flow)
    <2> HIDE DEF flow
    <2>5. \A i \in DOMAIN flows :
             \/ flows[i] = flow
             \/ i \in DOMAIN walk.flows /\ flows[i] = walk.flows[i]
      <3>1. /\ flows \in Seq(Flow) /\ Len(flows) = Len(walk.flows) + 1
            /\ \A i \in 1 .. Len(walk.flows) : flows[i] = walk.flows[i]
            /\ flows[Len(walk.flows) + 1] = flow
        BY <1>1, AppendProperties
      <3> HIDE DEF flows
      <3>2. /\ DOMAIN flows = 1 .. Len(flows) /\ DOMAIN walk.flows = 1 .. Len(walk.flows)
            /\ Len(walk.flows) \in Nat
        BY <1>1, <3>1, LenProperties
      <3>3. QED
        BY <3>1, <3>2
    <2>6. \A i \in DOMAIN flows : flows[i].count <= hi[flows[i].id.key][flows[i].id.first]
      BY <2>4, <2>5 DEF Ceilings, FlowsUnder
    <2>7. CASE walk'.flows = walk.flows
      BY <2>7 DEF Ceilings, FlowsUnder
    <2>8. CASE walk'.flows = flows
      BY <2>6, <2>8 DEF FlowsUnder
    <2>9. QED
      BY <1>1, <2>7, <2>8
  <1>7. Budget(hi)' /\ RowsUnder(hi)' /\ CpusUnder(hi)'
    BY <1>2 DEF Ceilings, Budget, Busy, RowsUnder, CpusUnder
  <1>8. QED
    BY <1>4, <1>5, <1>6, <1>7 DEF Ceilings

LEMMA ReadCeilings ==
    ASSUME Typed, NEW hi, Ceilings(hi), ReadValue
    PROVE  Ceilings(hi)'
  <1> DEFINE k == walk.cursor
             read == IF map[k] = None THEN <<>> ELSE <<Entry(k)>>
             all == walk.entries \o read
  <1>1. /\ read \in Seq(EntrySet) /\ walk.entries \in Seq(EntrySet)
        /\ walk'.flows = walk.flows /\ walk'.entries = all
    BY ReadFields
  <1>2. UNCHANGED <<map, cpu, rows, delivered>>
    BY DEF ReadValue
  <1>3. k \in Keys
    BY DEF Typed, ReadValue
  <1>4. \A i \in DOMAIN read : read[i].value.count <= hi[read[i].key][read[i].value.first]
    BY <1>3 DEF Ceilings, MapUnder, Entry
  <1>5. /\ all \in Seq(EntrySet) /\ Len(all) = Len(walk.entries) + Len(read)
        /\ \A i \in 1 .. Len(walk.entries) + Len(read) :
              all[i] = IF i <= Len(walk.entries) THEN walk.entries[i]
                       ELSE read[i - Len(walk.entries)]
    BY ZenonT(60), <1>1, ConcatProperties
  <1>6. /\ DOMAIN all = 1 .. Len(all) /\ DOMAIN read = 1 .. Len(read)
        /\ DOMAIN walk.entries = 1 .. Len(walk.entries)
        /\ Len(walk.entries) \in Nat /\ Len(read) \in Nat
    BY <1>1, <1>5, LenProperties
  <1> HIDE DEF all, read
  <1>7. ASSUME NEW i \in DOMAIN all
        PROVE  \/ i \in DOMAIN walk.entries /\ all[i] = walk.entries[i]
               \/ \E j \in DOMAIN read : all[i] = read[j]
    <2>1. CASE i <= Len(walk.entries)
      BY <1>5, <1>6, <2>1
    <2>2. CASE ~(i <= Len(walk.entries))
      <3>1. i - Len(walk.entries) \in DOMAIN read
        BY <1>5, <1>6, <2>2
      <3>2. QED
        BY <1>5, <1>6, <2>2, <3>1
    <2>3. QED
      BY <2>1, <2>2
  <1>8. \A i \in DOMAIN all : all[i].value.count <= hi[all[i].key][all[i].value.first]
    BY <1>4, <1>7 DEF Ceilings, EntriesUnder
  <1>9. EntriesUnder(hi)'
    BY <1>1, <1>8 DEF EntriesUnder
  <1>10. FlowsUnder(hi)'
    BY <1>1, UnderStays DEF Ceilings
  <1>11. Budget(hi)' /\ RowsUnder(hi)' /\ CpusUnder(hi)' /\ MapUnder(hi)'
    BY <1>2 DEF Ceilings, Budget, Busy, RowsUnder, CpusUnder, MapUnder
  <1>12. QED
    BY <1>9, <1>10, <1>11 DEF Ceilings

LEMMA StoredCeilings ==
    ASSUME Typed, NEW hi, Ceilings(hi), Stored
    PROVE  Ceilings(hi)'
  <1>1. UNCHANGED <<map, cpu, delivered>> /\ walk' = NoWalk
    BY DEF Stored
  <1>2. RowsUnder(hi)'
    <2> SUFFICES ASSUME NEW k \in Keys, NEW t \in Times
                 PROVE  rows'[[key |-> k, first |-> t]] <= hi[k][t]
      BY DEF RowsUnder
    <2> DEFINE id == [key |-> k, first |-> t]
    <2>1. id \in FlowId
      BY DEF FlowId
    <2>2. \/ rows'[id] = rows[id]
          \/ \E i \in DOMAIN walk.flows :
                /\ walk.flows[i] \in Flow /\ walk.flows[i].id = id
                /\ rows'[id] = walk.flows[i].count
      BY <2>1, StoredRow
    <2>3. rows[id] <= hi[k][t]
      BY DEF Ceilings, RowsUnder
    <2>4. \A i \in DOMAIN walk.flows : walk.flows[i].id = id => walk.flows[i].count <= hi[k][t]
      BY DEF Ceilings, FlowsUnder
    <2>5. QED
      BY <2>2, <2>3, <2>4
  <1>3. walk'.entries = <<>> /\ walk'.flows = <<>>
    BY <1>1 DEF NoWalk
  <1>4. EntriesUnder(hi)' /\ FlowsUnder(hi)'
    BY <1>3, UnderStays DEF Ceilings
  <1>5. Budget(hi)' /\ CpusUnder(hi)' /\ MapUnder(hi)'
    BY <1>1 DEF Ceilings, Budget, Busy, CpusUnder, MapUnder
  <1>6. QED
    BY <1>2, <1>4, <1>5 DEF Ceilings

LEMMA RestartCeilings ==
    ASSUME Typed, NEW hi, Ceilings(hi), Restart
    PROVE  Ceilings(hi)'
  <1>1. /\ map' = [k \in Keys |-> None] /\ cpu' = [c \in Cpus |-> Idle] /\ walk' = NoWalk
        /\ UNCHANGED <<rows, delivered>>
    BY DEF Restart
  <1>2. Budget(hi)'
    <2> SUFFICES ASSUME NEW k \in Keys
                 PROVE  SumFunctionOnSet(hi[k], Times) + Cardinality(Busy(k)') <= delivered[k]
      BY <1>1 DEF Budget
    <2>1. Busy(k)' = {}
      BY <1>1 DEF Busy
    <2>2. Cardinality({}) = 0
      BY FS_EmptySet
    <2> DEFINE total == SumFunctionOnSet(hi[k], Times)
               card == Cardinality(Busy(k))
    <2>3. total \in Nat /\ card \in Nat /\ delivered[k] \in Nat
      BY BusyFinite, CeilingsBound, NumberFacts
    <2>4. total + card <= delivered[k]
      BY DEF Ceilings, Budget
    <2> HIDE DEF total, card
    <2>5. total + 0 <= delivered[k]
      BY <2>3, <2>4
    <2>6. QED
      BY <2>1, <2>2, <2>5 DEF total
  <1>3. CpusUnder(hi)'
    BY <1>1 DEF CpusUnder, Idle
  <1>4. MapUnder(hi)'
    BY <1>1 DEF MapUnder
  <1>5. walk'.entries = <<>> /\ walk'.flows = <<>>
    BY <1>1 DEF NoWalk
  <1>6. EntriesUnder(hi)' /\ FlowsUnder(hi)'
    BY <1>5, UnderStays DEF Ceilings
  <1>7. RowsUnder(hi)'
    BY <1>1 DEF Ceilings, RowsUnder
  <1>8. QED
    BY <1>2, <1>3, <1>4, <1>6, <1>7 DEF Ceilings

LEMMA NextCeilings ==
    ASSUME Typed, NEW hi, Ceilings(hi), [Next]_vars
    PROVE  \E hj : Ceilings(hj)'
  <1>1. ASSUME UNCHANGED <<cpu, rows, delivered>>,
               \A k \in Keys : map'[k] \in {None, map[k]},
               walk'.entries \in {walk.entries, <<>>}, walk'.flows \in {walk.flows, <<>>}
        PROVE  Ceilings(hi)'
    <2>1. MapUnder(hi)' /\ EntriesUnder(hi)' /\ FlowsUnder(hi)'
      BY <1>1, UnderStays DEF Ceilings
    <2>2. Budget(hi)' /\ RowsUnder(hi)' /\ CpusUnder(hi)'
      BY <1>1 DEF Ceilings, Budget, Busy, RowsUnder, CpusUnder
    <2>3. QED
      BY <2>1, <2>2 DEF Ceilings
  <1>2. ASSUME NEW k \in Keys, Evict(k) PROVE Ceilings(hi)'
    <2>1. walk'.entries = walk.entries /\ walk'.flows = walk.flows
      BY <1>2, DisturbedFields DEF Evict, Typed
    <2>2. \A j \in Keys : map'[j] \in {None, map[j]}
      BY <1>2 DEF Evict, Typed
    <2>3. UNCHANGED <<cpu, rows, delivered>>
      BY <1>2 DEF Evict
    <2>4. QED
      BY <1>1, <2>1, <2>2, <2>3
  <1>3. CASE Tick \/ SourceUnavailable \/ UNCHANGED vars
    <2>1. UNCHANGED <<map, cpu, walk, rows, delivered>>
      BY <1>3 DEF Tick, SourceUnavailable, vars
    <2>2. QED
      BY <1>1, <2>1
  <1>4. CASE BeginWalk \/ ExpireFails \/ Rejected \/ NotStored
    <2>1. UNCHANGED <<map, cpu, rows, delivered>>
      BY <1>4 DEF BeginWalk, ExpireFails, Rejected, NotStored
    <2>2. walk' = NoWalk => walk'.entries = <<>> /\ walk'.flows = <<>>
      BY DEF NoWalk
    <2>3. BeginWalk => walk'.entries = <<>> /\ walk'.flows = <<>>
      BY DEF BeginWalk, NoWalk
    <2>4. walk'.entries = <<>> /\ walk'.flows = <<>>
      BY <1>4, <2>2, <2>3 DEF ExpireFails, Rejected, NotStored
    <2>5. QED
      BY <1>1, <2>1, <2>4
  <1>5. CASE NextKey
    <2>1. UNCHANGED <<map, cpu, rows, delivered>>
      BY <1>5 DEF NextKey
    <2>2. walk'.entries = walk.entries /\ walk'.flows = walk.flows
      BY <1>5 DEF NextKey, Typed, Walks
    <2>3. QED
      BY <1>1, <2>1, <2>2
  <1>6. QED
    BY <1>2, <1>3, <1>4, <1>5, PacketCeilings, LookupCeilings, CreateCeilings, TouchCeilings,
       AddCeilings, ReadCeilings, ExpireCeilings, StoredCeilings, RestartCeilings
       DEF Next, CpuStep, WalkStep
-----------------------------------------------------------------------------
(* Type correctness, and no packet charged twice.                           *)

Inv == Typed /\ Fits /\ \E hi : Ceilings(hi)

LEMMA InitInv == Init => Inv
  <1> SUFFICES ASSUME Init PROVE \E hi : Ceilings(hi)
    BY InitTyped DEF Inv
  <1>1. PICK hi : hi = [k \in Keys |-> [t \in Times |-> 0]]
    OBVIOUS
  <1>2. hi \in Ceiling /\ \A k \in Keys, t \in Times : hi[k][t] = 0
    BY <1>1 DEF Ceiling
  <1>3. ASSUME NEW k \in Keys
        PROVE  SumFunctionOnSet(hi[k], Times) + Cardinality(Busy(k)) <= delivered[k]
    <2>1. SumFunctionOnSet(hi[k], Times) = 0
      BY <1>2, NumberFacts, SumZero
    <2>2. Busy(k) = {}
      BY DEF Init, Busy
    <2>3. Cardinality(Busy(k)) = 0
      BY <2>2, FS_EmptySet
    <2>4. delivered[k] = 0
      BY DEF Init
    <2>5. QED
      BY <2>1, <2>3, <2>4
  <1>4. Budget(hi)
    BY <1>3 DEF Budget
  <1>5. RowsUnder(hi)
    BY <1>2 DEF Init, RowsUnder, FlowId
  <1>6. MapUnder(hi) /\ CpusUnder(hi)
    BY DEF Init, MapUnder, CpusUnder, Idle
  <1>7. EntriesUnder(hi) /\ FlowsUnder(hi)
    BY DEF Init, NoWalk, EntriesUnder, FlowsUnder
  <1>8. QED
    BY <1>2, <1>4, <1>5, <1>6, <1>7 DEF Ceilings

LEMMA Invariant == Spec => []Inv
  <1>1. Inv /\ [Next]_vars => Inv'
    <2> SUFFICES ASSUME Inv, [Next]_vars PROVE Inv'
      OBVIOUS
    <2>1. PICK hi : Ceilings(hi)
      BY DEF Inv
    <2>2. Typed /\ Fits
      BY DEF Inv
    <2>3. Typed'
      BY <2>1, <2>2, NextTyped
    <2>4. Fits'
      BY <2>1, <2>2, NextFits
    <2>5. \E hj : Ceilings(hj)'
      BY <2>1, <2>2, NextCeilings
    <2>6. QED
      BY <2>3, <2>4, <2>5 DEF Inv
  <1>2. QED
    BY <1>1, InitInv, PTL DEF Spec

\* The map keeps its limit and every value its shape; a flow is never reported
\* with a packet after the time of the walk (monotonic_timestamp_ms).
THEOREM TypeCorrect == Spec => []TypeOK
  <1>1. ASSUME Inv PROVE TypeOK
    <2>1. Typed /\ Fits
      BY <1>1 DEF Inv
    <2>2. \A c \in Cpus : cpu[c].at \in {"idle", "lookup", "create", "touch", "add"}
      BY <2>1, IdleFacts DEF Typed
    <2>3. walk.flows \in Seq(Flow) /\ walk.at \in {"idle", "next", "read", "expire"}
          /\ walk.steady \subseteq EntrySet
      BY <2>1 DEF Typed, Walks
    <2>4. \A f \in ToSet(walk.flows) : f.last <= 0
      BY <2>1 DEF Typed, ToSet
    <2>5. QED
      BY <2>1, <2>2, <2>3, <2>4 DEF Typed, Fits, TypeOK, EntrySet
  <1>2. QED
    BY <1>1, Invariant, PTL

\* All that is stored for a key is at most what arrived for it, however CPUs
\* race on an entry, entries are evicted and replaced, and walks repeat or fail.
THEOREM Overcharging == Spec => []NeverOvercharged
  <1>1. ASSUME Inv PROVE NeverOvercharged
    <2> SUFFICES ASSUME NEW k \in Keys
                 PROVE  SumFunction([t \in Times |-> rows[[key |-> k, first |-> t]]])
                            <= delivered[k]
      BY DEF NeverOvercharged
    <2>1. PICK hi : Ceilings(hi)
      BY <1>1 DEF Inv
    <2>2. Typed
      BY <1>1 DEF Inv
    <2>3. PICK g : g = [t \in Times |-> rows[[key |-> k, first |-> t]]]
      OBVIOUS
    <2>4. PICK h : h = hi[k]
      OBVIOUS
    <2>5. ASSUME NEW t \in Times PROVE g[t] \in Nat /\ h[t] \in Nat /\ g[t] <= h[t]
      <3>1. rows[[key |-> k, first |-> t]] \in Count
        BY <2>2 DEF Typed, FlowId
      <3>2. g[t] \in Nat
        BY <2>3, <3>1, NumberFacts
      <3>3. h[t] \in Nat
        BY <2>1, <2>4 DEF Ceilings, Ceiling
      <3>4. g[t] <= h[t]
        BY <2>1, <2>3, <2>4 DEF Ceilings, RowsUnder
      <3>5. QED
        BY <3>2, <3>3, <3>4
    <2>6. SumFunctionOnSet(g, Times) <= SumFunctionOnSet(h, Times)
      <3>1. \A t \in Times : g[t] \in Int /\ h[t] \in Int /\ g[t] <= h[t]
        BY <2>5
      <3>2. QED
        BY <3>1, NumberFacts, SumAtMost
    <2>7. SumFunctionOnSet(g, Times) \in Nat /\ SumFunctionOnSet(h, Times) \in Nat
      BY <2>5, NumberFacts, SumType
    <2>8. SumFunctionOnSet(h, Times) + Cardinality(Busy(k)) <= delivered[k]
      BY <2>1, <2>4 DEF Ceilings, Budget
    <2>9. Cardinality(Busy(k)) \in Nat /\ delivered[k] \in Nat
      BY <2>2, BusyFinite, NumberFacts DEF Typed
    <2>10. SumFunctionOnSet(g, Times) <= delivered[k]
      BY <2>6, <2>7, <2>8, <2>9
    <2>11. SumFunction(g) = SumFunctionOnSet(g, Times)
      BY <2>3 DEF SumFunction
    <2>12. QED
      BY <2>3, <2>10, <2>11
  <1>2. QED
    BY <1>1, Invariant, PTL

-----------------------------------------------------------------------------
(* What a walk finds.                                                       *)

HeldIn(w, e) == \E i \in DOMAIN w.entries : w.entries[i] = e
MadeIn(w, e) ==
    \E i \in DOMAIN w.flows :
        w.flows[i].id = [key |-> e.key, first |-> e.value.first]
            /\ w.flows[i].count = e.value.count

\* A walk w over the map m has met every steady entry up to its cursor, also
\* after it started again; once it is over, each of them that is not idle is
\* still to be looked at, or a flow.
FindsSteady(w, m) ==
    /\ w.at \in {"next", "read"} => \A e \in w.steady : m[e.key] = e.value
    /\ w.at = "next" /\ w.cursor # None => \A e \in w.steady : e.key <= w.cursor => HeldIn(w, e)
    /\ w.at = "read" => \A e \in w.steady : e.key < w.cursor => HeldIn(w, e)
    /\ w.at = "expire" => \A e \in w.steady :
           w.now - e.value.last <= IdleTimeout => HeldIn(w, e) \/ MadeIn(w, e)

LEMMA DisturbedFinds ==
    ASSUME Typed, FindsSteady(walk, map), NEW ks, Disturbed(ks),
           \A k \in Keys : k \notin ks => map'[k] = map[k]
    PROVE  FindsSteady(walk', map')
  <1>1. /\ walk'.at = walk.at /\ walk'.now = walk.now /\ walk'.cursor = walk.cursor
        /\ walk'.entries = walk.entries /\ walk'.flows = walk.flows
        /\ walk'.steady = {e \in walk.steady : e.key \notin ks}
    BY DisturbedFields DEF Typed
  <1>2. \A e \in walk.steady : e.key \in Keys
    BY DEF Typed, Walks, EntrySet
  <1>3. QED
    BY <1>1, <1>2 DEF FindsSteady, HeldIn, MadeIn

LEMMA NextKeyFinds ==
    ASSUME Typed, FindsSteady(walk, map), NextKey
    PROVE  FindsSteady(walk', map')
  <1> DEFINE from == walk.cursor
             after == IF from \in Entries THEN {k \in Entries : k > from} ELSE Entries
  <1>1. /\ walk.at = "next" /\ map' = map
        /\ walk' = IF after = {} THEN [walk EXCEPT !.at = "expire"]
                   ELSE [walk EXCEPT !.at = "read", !.cursor = Min(after)]
    BY DEF NextKey
  <1>2. walk \in Walks /\ Entries \subseteq Keys /\ Keys \subseteq Nat /\ None \notin Keys
    BY NumberFacts, NoneFacts DEF Typed, Entries
  <1>3. \A e \in walk.steady : e.key \in Entries
    <2>1. \A e \in walk.steady : e.key \in Keys /\ e.value \in Value /\ map[e.key] = e.value
      BY <1>1 DEF FindsSteady, Typed, Walks, EntrySet
    <2>2. QED
      BY <2>1, NoneFacts DEF Entries
  <1>4. from \in Entries => \A e \in walk.steady : e.key <= from => HeldIn(walk, e)
    BY <1>1, <1>2 DEF FindsSteady
  <1>5. after \subseteq Entries
    OBVIOUS
  <1>6. ASSUME NEW e \in walk.steady PROVE e.key \in after \/ HeldIn(walk, e)
    <2>1. e.key \in Entries /\ e.key \in Nat
      BY <1>2, <1>3
    <2>2. CASE from \notin Entries
      BY <2>1, <2>2
    <2>3. CASE from \in Entries
      <3>1. from \in Nat
        BY <1>2, <2>3
      <3>2. e.key > from \/ e.key <= from
        BY <2>1, <3>1
      <3>3. QED
        BY <1>4, <2>1, <2>3, <3>2
    <2>4. QED
      BY <2>2, <2>3
  <1> HIDE DEF after
  <1>7. CASE after = {}
    <2>1. /\ walk'.at = "expire" /\ walk'.entries = walk.entries /\ walk'.steady = walk.steady
      BY <1>1, <1>2, <1>7 DEF Walks
    <2>2. \A e \in walk'.steady : HeldIn(walk', e)
      BY <1>6, <1>7, <2>1 DEF HeldIn
    <2>3. QED
      BY <2>1, <2>2 DEF FindsSteady
  <1>8. CASE after # {}
    <2>1. Min(after) \in after /\ \A k \in after : Min(after) <= k
      BY <1>2, <1>5, <1>8, SmallestKey
    <2>2. /\ walk'.at = "read" /\ walk'.entries = walk.entries /\ walk'.steady = walk.steady
          /\ walk'.cursor = Min(after)
      BY <1>1, <1>2, <1>8 DEF Walks
    <2>3. Min(after) \in Nat /\ \A k \in after : k \in Nat
      BY <1>2, <1>5, <2>1
    <2>4. \A e \in walk'.steady : e.key < walk'.cursor => HeldIn(walk', e)
      BY <1>6, <2>1, <2>2, <2>3 DEF HeldIn
    <2>5. \A e \in walk'.steady : map'[e.key] = e.value
      BY <1>1, <2>2 DEF FindsSteady
    <2>6. QED
      BY <2>2, <2>4, <2>5 DEF FindsSteady
  <1>9. QED
    BY <1>7, <1>8

LEMMA ReadFinds ==
    ASSUME Typed, FindsSteady(walk, map), ReadValue
    PROVE  FindsSteady(walk', map')
  <1> DEFINE k == walk.cursor
             read == IF map[k] = None THEN <<>> ELSE <<Entry(k)>>
             all == walk.entries \o read
  <1>1. /\ read \in Seq(EntrySet) /\ walk.entries \in Seq(EntrySet)
        /\ walk'.at = "next" /\ walk'.cursor = k /\ walk'.steady = walk.steady
        /\ walk'.entries = all
    BY ReadFields
  <1>2. walk.at = "read" /\ map' = map /\ k \in Keys /\ k \in Nat
    BY NumberFacts DEF ReadValue, Typed
  <1>3. /\ all \in Seq(EntrySet) /\ Len(all) = Len(walk.entries) + Len(read)
        /\ \A i \in 1 .. Len(walk.entries) + Len(read) :
              all[i] = IF i <= Len(walk.entries) THEN walk.entries[i]
                       ELSE read[i - Len(walk.entries)]
    BY ZenonT(60), <1>1, ConcatProperties
  <1>4. /\ DOMAIN all = 1 .. Len(all) /\ DOMAIN walk.entries = 1 .. Len(walk.entries)
        /\ Len(walk.entries) \in Nat /\ Len(read) \in Nat
    BY <1>1, <1>3, LenProperties
  <1>5. map[k] # None => Len(read) = 1 /\ read[1] = Entry(k)
    OBVIOUS
  <1> HIDE DEF all, read
  <1>6. \A i \in DOMAIN walk.entries : i \in DOMAIN all /\ all[i] = walk.entries[i]
    BY <1>3, <1>4
  <1>7. map[k] # None => \E i \in DOMAIN all : all[i] = Entry(k)
    <2> SUFFICES ASSUME map[k] # None PROVE \E i \in DOMAIN all : all[i] = Entry(k)
      OBVIOUS
    <2>1. Len(walk.entries) + 1 \in DOMAIN all
      BY <1>3, <1>4, <1>5
    <2>2. all[Len(walk.entries) + 1] = read[1]
      <3> DEFINE n == Len(walk.entries)
      <3>1. n + 1 \in 1 .. n + Len(read) /\ ~(n + 1 <= n) /\ (n + 1) - n = 1
        <4>1. n \in Nat /\ Len(read) = 1
          BY <1>4, <1>5
        <4> HIDE DEF n
        <4>2. QED
          BY <4>1
      <3>2. all[n + 1] = read[(n + 1) - n]
        BY <1>3, <3>1
      <3>3. QED
        BY <3>1, <3>2
    <2>3. QED
      BY <1>5, <2>1, <2>2
  <1>8. ASSUME NEW e \in walk.steady, e.key <= k PROVE HeldIn(walk', e)
    <2>1. e \in EntrySet /\ map[e.key] = e.value /\ e.key \in Nat
      BY <1>2, NumberFacts DEF FindsSteady, Typed, Walks, EntrySet
    <2>2. CASE e.key < k
      <3>1. HeldIn(walk, e)
        BY <1>2, <2>2 DEF FindsSteady
      <3>2. QED
        BY <1>1, <1>6, <3>1 DEF HeldIn
    <2>3. CASE e.key = k
      <3>1. Entry(k) = e /\ map[k] # None
        BY <2>1, <2>3, NoneFacts DEF Entry, EntrySet
      <3>2. QED
        BY <1>1, <1>7, <3>1 DEF HeldIn
    <2>4. QED
      BY <1>2, <1>8, <2>1, <2>2, <2>3
  <1>9. \A e \in walk.steady : map[e.key] = e.value
    BY <1>2 DEF FindsSteady
  <1>10. QED
    BY <1>1, <1>2, <1>8, <1>9 DEF FindsSteady
LEMMA ExpireFinds ==
    ASSUME Typed, FindsSteady(walk, map), ExpireOrKeep
    PROVE  FindsSteady(walk', map')
  <1> DEFINE head == Head(walk.entries)
             flow == FlowFromEntry(head.key, head.value)
             tail == Tail(walk.entries)
             flows == Append(walk.flows, flow)
  <1>1. /\ head \in EntrySet /\ head = walk.entries[1] /\ walk.entries # <<>>
        /\ walk.entries \in Seq(EntrySet) /\ walk.flows \in Seq(Flow) /\ flow \in Flow
        /\ walk'.at = "expire" /\ walk'.now = walk.now /\ walk'.steady = walk.steady
        /\ walk'.entries = tail
        /\ \/ Expired(head.value) /\ walk'.flows = walk.flows
           \/ ~Expired(head.value) /\ walk'.flows = flows
    BY ExpireFields
  <1>2. walk.at = "expire" /\ walk.now \in Times
    BY DEF ExpireOrKeep, Typed
  <1>3. flow.id = [key |-> head.key, first |-> head.value.first]
        /\ flow.count = head.value.count
    BY <1>1, <1>2, FlowOfEntry
  <1>4. Expired(head.value) => ~(walk.now - head.value.last <= IdleTimeout)
    <2>1. head.value.last \in Nat /\ walk.now \in Nat /\ IdleTimeout \in Nat
      BY <1>1, <1>2, NumberFacts DEF EntrySet, Value
    <2>2. QED
      BY <2>1 DEF Expired, Age
  <1>5. ASSUME NEW e, HeldIn(walk, e), e # head PROVE HeldIn(walk', e)
    <2>1. PICK i \in DOMAIN walk.entries : walk.entries[i] = e
      BY <1>5 DEF HeldIn
    <2>2. /\ tail \in Seq(EntrySet) /\ Len(tail) = Len(walk.entries) - 1
          /\ \A j \in 1 .. Len(tail) : tail[j] = walk.entries[j + 1]
      BY <1>1, HeadTailProperties
    <2>3. DOMAIN tail = 1 .. Len(tail) /\ DOMAIN walk.entries = 1 .. Len(walk.entries)
          /\ Len(walk.entries) \in Nat
      BY <1>1, <2>2, LenProperties
    <2>4. i # 1
      BY <1>1, <1>5, <2>1
    <2> HIDE DEF tail
    <2>5. i - 1 \in DOMAIN tail /\ (i - 1) + 1 = i
      BY <2>1, <2>2, <2>3, <2>4
    <2>6. tail[i - 1] = e
      BY <2>1, <2>2, <2>3, <2>5
    <2>7. QED
      BY <1>1, <2>5, <2>6 DEF HeldIn
  <1>6. /\ Len(flows) = Len(walk.flows) + 1 /\ flows \in Seq(Flow)
        /\ \A j \in 1 .. Len(walk.flows) : flows[j] = walk.flows[j]
        /\ flows[Len(walk.flows) + 1] = flow
    BY <1>1, AppendProperties
  <1>7. DOMAIN flows = 1 .. Len(flows) /\ DOMAIN walk.flows = 1 .. Len(walk.flows)
        /\ Len(walk.flows) \in Nat
    BY <1>1, <1>6, LenProperties
  <1> HIDE DEF flows, flow, head, tail
  <1>8. ASSUME NEW e, MadeIn(walk, e) PROVE MadeIn(walk', e)
    <2>1. PICK i \in DOMAIN walk.flows : /\ walk.flows[i].id = [key |-> e.key, first |-> e.value.first]
                                         /\ walk.flows[i].count = e.value.count
      BY <1>8 DEF MadeIn
    <2>2. i \in DOMAIN flows /\ flows[i] = walk.flows[i]
      BY <1>6, <1>7
    <2>3. walk'.flows = walk.flows \/ walk'.flows = flows
      BY <1>1
    <2>4. i \in DOMAIN walk'.flows /\ walk'.flows[i] = walk.flows[i]
      BY <2>2, <2>3
    <2>5. QED
      BY <2>1, <2>4 DEF MadeIn
  <1>9. ~Expired(head.value) => MadeIn(walk', head)
    <2>1. Len(walk.flows) + 1 \in DOMAIN flows
      BY <1>6, <1>7
    <2>2. QED
      BY <1>1, <1>3, <1>6, <2>1 DEF MadeIn
  <1>10. ASSUME NEW e \in walk'.steady, walk'.now - e.value.last <= IdleTimeout
         PROVE  HeldIn(walk', e) \/ MadeIn(walk', e)
    <2>1. e \in walk.steady /\ walk.now - e.value.last <= IdleTimeout
      BY <1>1, <1>10
    <2>2. HeldIn(walk, e) \/ MadeIn(walk, e)
      BY <1>2, <2>1 DEF FindsSteady
    <2>3. CASE MadeIn(walk, e)
      BY <1>8, <2>3
    <2>4. CASE HeldIn(walk, e) /\ e # head
      BY <1>5, <2>4
    <2>5. CASE e = head
      BY <1>4, <1>9, <2>1, <2>5
    <2>6. QED
      BY <2>2, <2>3, <2>4, <2>5
  <1>11. QED
    BY <1>1, <1>10 DEF FindsSteady

LEMMA NextFinds ==
    ASSUME Inv, FindsSteady(walk, map), [Next]_vars
    PROVE  FindsSteady(walk', map')
  <1>1. Typed
    BY DEF Inv
  <1>2. PICK hi : Ceilings(hi)
    BY DEF Inv
  <1>3. ASSUME NEW c \in Cpus, Create(c) PROVE FindsSteady(walk', map')
    <2>1. PICK gone \in Keys :
             /\ map' = [[map EXCEPT ![gone] = None] EXCEPT ![cpu[c].key] =
                           [first |-> cpu[c].now, last |-> cpu[c].now, count |-> 1]]
             /\ Disturbed({gone, cpu[c].key})
      BY <1>1, <1>2, <1>3, CreateTyped
    <2>2. \A k \in Keys : k \notin {gone, cpu[c].key} => map'[k] = map[k]
      BY <1>1, <2>1 DEF Typed
    <2>3. QED
      BY <1>1, <2>1, <2>2, DisturbedFinds
  <1>4. ASSUME NEW c \in Cpus, Touch(c) \/ Add(c) PROVE FindsSteady(walk', map')
    <2> DEFINE ks == IF Alive(c) THEN {cpu[c].key} ELSE {}
    <2>1. Disturbed(ks)
      BY <1>4 DEF Touch, Add
    <2>2. \A k \in Keys : k \notin ks => map'[k] = map[k]
      BY <1>1, <1>4 DEF Touch, Add, Typed
    <2> HIDE DEF ks
    <2>3. QED
      BY <1>1, <2>1, <2>2, DisturbedFinds
  <1>5. ASSUME NEW k \in Keys, Evict(k) PROVE FindsSteady(walk', map')
    <2>1. Disturbed({k}) /\ \A j \in Keys : j \notin {k} => map'[j] = map[j]
      BY <1>1, <1>5 DEF Evict, Typed
    <2>2. QED
      BY <1>1, <2>1, DisturbedFinds
  <1>6. CASE UNCHANGED <<walk, map>>
    BY <1>6
  <1>7. CASE walk' = NoWalk
    <2>1. walk'.at = "idle"
      BY <1>7 DEF NoWalk
    <2>2. QED
      BY <2>1 DEF FindsSteady
  <1>8. CASE BeginWalk
    <2>1. /\ walk'.at = "next" /\ walk'.cursor = None /\ map' = map
          /\ walk'.steady = {Entry(k) : k \in Entries}
      BY <1>8 DEF BeginWalk, NoWalk
    <2>2. \A e \in walk'.steady : map'[e.key] = e.value
      BY <2>1 DEF Entry
    <2>3. QED
      BY <2>1, <2>2 DEF FindsSteady
  <1>9. CASE NextKey \/ ReadValue \/ ExpireOrKeep
    BY <1>1, <1>9, NextKeyFinds, ReadFinds, ExpireFinds
  <1>10. ASSUME NEW c \in Cpus, NEW k \in Keys, Packet(c, k) PROVE UNCHANGED <<walk, map>>
    BY <1>10 DEF Packet
  <1>11. ASSUME NEW c \in Cpus, Lookup(c) PROVE UNCHANGED <<walk, map>>
    BY <1>11 DEF Lookup
  <1>12. Tick \/ SourceUnavailable \/ UNCHANGED vars => UNCHANGED <<walk, map>>
    BY DEF Tick, SourceUnavailable, vars
  <1>13. ExpireFails \/ Rejected \/ Stored \/ NotStored \/ Restart => walk' = NoWalk
    BY DEF ExpireFails, Rejected, Stored, NotStored, Restart
  <1>14. QED
    BY <1>3, <1>4, <1>5, <1>6, <1>7, <1>8, <1>9, <1>10, <1>11, <1>12, <1>13
       DEF Next, CpuStep, WalkStep

\* A batch that is stored has the counter of every flow it made.
LEMMA StoredHas ==
    ASSUME Typed, Stored, NEW e \in EntrySet, MadeIn(walk, e)
    PROVE  rows'[[key |-> e.key, first |-> e.value.first]] = e.value.count
  <1> DEFINE id == [key |-> e.key, first |-> e.value.first]
             now == {f \in ToSet(walk.flows) : f.id = id}
             ids == [i \in DOMAIN walk.flows |-> walk.flows[i].id]
  <1>1. PICK i \in DOMAIN walk.flows : walk.flows[i].id = id /\ walk.flows[i].count = e.value.count
    BY DEF MadeIn
  <1>2. id \in FlowId
    BY DEF EntrySet, Value, FlowId
  <1>3. walk.flows[i] \in now
    BY <1>1 DEF ToSet
  <1>4. rows'[id] = (CHOOSE f \in now : TRUE).count
    BY <1>2, <1>3 DEF Stored
  <1> DEFINE f == CHOOSE f \in now : TRUE
  <1>5. f \in now
    BY <1>3
  <1>6. PICK j \in DOMAIN walk.flows : walk.flows[j] = f /\ f.id = id
    BY <1>5 DEF ToSet
  <1>7. \A x, y \in DOMAIN walk.flows : walk.flows[x].id = walk.flows[y].id => x = y
    BY DEF Stored, Valid, IsInjective
  <1> HIDE DEF f, now, id
  <1>8. i = j
    BY <1>1, <1>6, <1>7
  <1>9. QED
    BY <1>1, <1>4, <1>6, <1>8 DEF f, id

\* A batch that is stored holds every flow that had a packet within the idle
\* timeout when the walk began and stayed as it was, with all that was counted,
\* though the walk may start again and entries vanish under it.
THEOREM LiveFlowsAreReported == Spec => LiveFlowsReported
  <1> DEFINE Reports == Stored => \A e \in walk.steady :
                 walk.now - e.value.last <= IdleTimeout
                     => rows'[[key |-> e.key, first |-> e.value.first]] = e.value.count
  <1>1. Init => FindsSteady(walk, map)
    BY DEF Init, NoWalk, FindsSteady
  <1>2. ASSUME Inv, FindsSteady(walk, map), [Next]_vars PROVE FindsSteady(walk, map)'
    <2>1. PICK w : w = walk'
      OBVIOUS
    <2>2. PICK m : m = map'
      OBVIOUS
    <2>3. FindsSteady(w, m)
      BY <1>2, <2>1, <2>2, NextFinds
    <2>4. QED
      BY <2>1, <2>2, <2>3 DEF FindsSteady, HeldIn, MadeIn
  <1>3. ASSUME Inv, FindsSteady(walk, map) PROVE Reports
    <2> SUFFICES ASSUME Stored, NEW e \in walk.steady, walk.now - e.value.last <= IdleTimeout
                 PROVE  rows'[[key |-> e.key, first |-> e.value.first]] = e.value.count
      OBVIOUS
    <2>1. Typed
      BY <1>3 DEF Inv
    <2>2. walk.at = "expire" /\ walk.entries = <<>>
      BY DEF Stored, WalkDone
    <2>3. HeldIn(walk, e) \/ MadeIn(walk, e)
      BY <1>3, <2>2 DEF FindsSteady
    <2>4. ~HeldIn(walk, e)
      BY <2>2 DEF HeldIn
    <2>5. e \in EntrySet
      BY <2>1 DEF Typed, Walks
    <2>6. QED
      BY <2>1, <2>3, <2>4, <2>5, StoredHas
  <1>4. QED
    BY <1>1, <1>2, <1>3, Invariant, PTL DEF Spec, LiveFlowsReported
=============================================================================
