--------------------------- MODULE PipelineProofs ---------------------------
(***************************************************************************)
(* Proofs about DnsCache, and about Pipeline: the two loops and the        *)
(* deletion handlers around the cache and the repository.  They hold for   *)
(* every set of devices, addresses, names and flows, every lease history   *)
(* and every limit.                                                        *)
(*                                                                         *)
(* The cache's methods move observations and entries between the proxy's   *)
(* queue, the tasks' hands and the cache, so what is known of the cache is *)
(* stated of all these places at once (Within), for a given set of names   *)
(* and times that may have been seen.  Pipeline takes what the steps do to *)
(* the cache and to the tasks' hands from the same lemmas, with the names  *)
(* and times that the deletions still allow (Possible).                    *)
(***************************************************************************)
EXTENDS Pipeline, FiniteSetTheorems, SequenceTheorems, TLAPS

-----------------------------------------------------------------------------
(* Sequences.                                                               *)

\* The positions of a part of a sequence are numbered without a gap.
LEMMA PositionsNumbered ==
    ASSUME NEW k \in Nat, NEW at \in SUBSET (1 .. k)
    PROVE  /\ Cardinality(at) \in 0 .. k
           /\ \A n \in 1 .. Cardinality(at) :
                  \E i \in at : Cardinality({j \in at : j <= i}) = n
  <1> DEFINE Upto(i) == {j \in at : j <= i}
             rank == [i \in at |-> Cardinality(Upto(i))]
             places == 1 .. Cardinality(at)
  <1>1. IsFiniteSet(at) /\ Cardinality(at) \in 0 .. k
    <2>1. IsFiniteSet(1 .. k) /\ Cardinality(1 .. k) = k
      BY FS_Interval
    <2>2. IsFiniteSet(at) /\ Cardinality(at) <= k /\ Cardinality(at) \in Nat
      BY <2>1, FS_Subset, FS_CardinalityType
    <2> QED BY <2>2
  <1>0. \A i \in at : i \in Nat
    OBVIOUS
  <1>2. ASSUME NEW i \in at
        PROVE  /\ IsFiniteSet(Upto(i)) /\ Cardinality(Upto(i)) \in places
    <2>1. Upto(i) \in SUBSET at /\ i \in Upto(i)
      OBVIOUS
    <2>2. /\ IsFiniteSet(Upto(i)) /\ Cardinality(Upto(i)) \in Nat
          /\ Cardinality(Upto(i)) <= Cardinality(at) /\ Cardinality(Upto(i)) # 0
      BY <1>1, <2>1, FS_Subset, FS_CardinalityType, FS_EmptySet
    <2> QED BY <1>1, <2>2
  <1>3. ASSUME NEW i \in at, NEW j \in at, i < j
        PROVE  Cardinality(Upto(i)) # Cardinality(Upto(j))
    <2>1. Upto(i) \in SUBSET Upto(j) /\ j \in Upto(j) /\ j \notin Upto(i)
      <3>1. j \in Upto(j) /\ j \notin Upto(i)
        BY <1>0, <1>3
      <3>2. \A l \in at : l <= i => l <= j
        BY <1>0, <1>3
      <3> QED BY <3>1, <3>2
    <2> QED BY <1>2, <2>1, FS_Subset
  <1>4. rank \in Injection(at, places)
    <2>1. rank \in [at -> places]
      BY <1>2
    <2>2. ASSUME NEW i \in at, NEW j \in at, rank[i] = rank[j] PROVE i = j
      <3>1. ~(i < j) /\ ~(j < i)
        BY <1>3, <2>2
      <3> QED BY <1>0, <3>1
    <2> QED BY <2>1, <2>2 DEF Injection, IsInjective
  <1>5. IsFiniteSet(places) /\ Cardinality(places) = Cardinality(at)
    BY <1>1, FS_Interval
  <1>6. rank \in Surjection(at, places)
    BY <1>4, <1>5, FS_Injection
  <1>7. ASSUME NEW n \in places PROVE \E i \in at : Cardinality(Upto(i)) = n
    <2>1. PICK i \in at : rank[i] = n
      BY <1>6 DEF Surjection
    <2> QED BY <2>1
  <1> QED BY <1>1, <1>7

\* Where the elements of a part of a sequence come from.
Picks(up, s, at) ==
    /\ up \in [1 .. Len(Kept(s, at)) -> at]
    /\ \A n \in 1 .. Len(Kept(s, at)) : Kept(s, at)[n] = s[up[n]]
    /\ \A n, m \in 1 .. Len(Kept(s, at)) : up[n] = up[m] => n = m

\* A part of a sequence is a sequence of some of its elements, none of them
\* twice.
LEMMA KeptPositions ==
    ASSUME NEW S, NEW s \in Seq(S), NEW at \in SUBSET (DOMAIN s)
    PROVE  /\ Kept(s, at) \in Seq(S) /\ Len(Kept(s, at)) <= Len(s)
           /\ \E up : Picks(up, s, at)
  <1> DEFINE Upto(i) == {j \in at : j <= i}
             places == 1 .. Cardinality(at)
             up == [n \in places |-> CHOOSE i \in at : Cardinality(Upto(i)) = n]
             q == Kept(s, at)
  <1>1. /\ Cardinality(at) \in 0 .. Len(s)
        /\ \A n \in places : \E i \in at : Cardinality(Upto(i)) = n
    <2>1. Len(s) \in Nat /\ at \in SUBSET (1 .. Len(s))
      BY LenProperties
    <2> QED BY <2>1, PositionsNumbered
  <1>2. \A n \in places : up[n] \in at /\ Cardinality(Upto(up[n])) = n
    BY <1>1
  <1>3. up \in [places -> at] /\ \A n, m \in places : up[n] = up[m] => n = m
    <2> HIDE DEF Upto
    <2> QED BY <1>2
  <1>4. q = [n \in places |-> s[up[n]]]
    BY DEF Kept
  <1> HIDE DEF up, q
  <1>5. \A n \in places : s[up[n]] \in S
    BY <1>3
  <1>6. q \in Seq(S) /\ Len(q) = Cardinality(at)
    BY <1>1, <1>4, <1>5
  <1>7. /\ up \in [1 .. Len(q) -> at]
        /\ \A n \in 1 .. Len(q) : q[n] = s[up[n]]
        /\ \A n, m \in 1 .. Len(q) : up[n] = up[m] => n = m
    BY <1>3, <1>4, <1>6
  <1>8. Len(q) <= Len(s)
    BY <1>1, <1>6
  <1> QED BY <1>6, <1>7, <1>8 DEF q, Picks

LEMMA KeptWithin ==
    ASSUME NEW S, NEW s \in Seq(S), NEW at \in SUBSET (DOMAIN s), NEW T,
           \A i \in at : s[i] \in T
    PROVE  Kept(s, at) \in Seq(T)
  <1>1. PICK up : Picks(up, s, at)
    BY KeptPositions
  <1>2. Kept(s, at) \in Seq(S)
    BY KeptPositions
  <1>3. \A n \in 1 .. Len(Kept(s, at)) : Kept(s, at)[n] \in T
    BY <1>1 DEF Picks
  <1> QED BY <1>2, <1>3

\* The last elements of a sequence.
LEMMA LastOfElements ==
    ASSUME NEW S, NEW s \in Seq(S), NEW n \in Nat
    PROVE  /\ LastOf(s, n) \in Seq(S)
           /\ Len(LastOf(s, n)) <= n /\ Len(LastOf(s, n)) <= Len(s)
           /\ \A i \in 1 .. Len(LastOf(s, n)) :
                  LastOf(s, n)[i] = s[i + (Len(s) - Len(LastOf(s, n)))]
  <1>1. CASE Len(s) <= n
    BY <1>1 DEF LastOf
  <1>2. CASE Len(s) > n
    <2> DEFINE from == Len(s) - n + 1
               q == SubSeq(s, from, Len(s))
    <2>1. LastOf(s, n) = q
      BY <1>2 DEF LastOf
    <2>2. from \in 1 .. Len(s) + 1 /\ Len(s) \in from - 1 .. Len(s)
      BY <1>2
    <2>3. /\ q \in Seq(S) /\ Len(q) = n
          /\ \A i \in 1 .. n : q[i] = s[from + i - 1]
      BY <1>2, <2>2, SubSeqProperties
    <2> HIDE DEF q
    <2>4. \A i \in 1 .. n : from + i - 1 = i + (Len(s) - n)
      OBVIOUS
    <2> QED BY <1>2, <2>1, <2>3, <2>4
  <1> QED BY SMTT(30), <1>1, <1>2
-----------------------------------------------------------------------------
(* What the places hold, when no observation was made but of the names and  *)
(* at the times in Seen.                                                    *)

Seens == SUBSET (Domains \X Times)

ObservationsOf(Seen) == {o \in Observation : <<o.domain, o.at>> \in Seen}

EntriesOf(Seen, m) ==
    {e \in Entry : <<e.domain, e.at>> \in Seen /\ e.at <= e.exp /\ HeldAround(m, e.at)}

ResolvedOf(Seen) == {r \in Resolved : r.entry \in EntriesOf(Seen, r.mac)}

BindingsOf(Seen) ==
    {b \in [Macs -> [TargetIps -> SUBSET Entry]] :
        \A m \in Macs, ip \in TargetIps : b[m][ip] \subseteq EntriesOf(Seen, m)}

\* A flow's identity begins and ends while its device holds the address.
TrueInterval(i) ==
    i.first <= i.last /\ Holder[i.ip][i.first] = i.mac /\ Holder[i.ip][i.last] = i.mac

IdentitiesTrue ==
    {ids \in [FlowIds -> Interval \cup {None}] :
        \A f \in FlowIds : ids[f] # None => TrueInterval(ids[f])}

QueuesOf(Seen) == {q \in Seq(ResolvedOf(Seen)) : Len(q) <= MaxResolved}

CachesOf(Seen) == [bindings: BindingsOf(Seen), identities: IdentitiesTrue,
                   pending: Seq(ObservationsOf(Seen)), resolved: QueuesOf(Seen)]

Within(Seen) ==
    /\ now \in Times
    /\ queue \in Seq(ObservationsOf(Seen))
    /\ taken \in [Callers -> Seq(ObservationsOf(Seen))]
    /\ cache \in CachesOf(Seen) /\ todo \in Seq(ObservationsOf(Seen))
    /\ Len(cache.pending) + Len(todo) <= MaxPending
    /\ drained \in [Callers -> Seq(ResolvedOf(Seen))]
    /\ restoring \in Callers \cup {None}
    /\ restoring # None => drained[restoring] # <<>>

LEMMA ObservationFields ==
    ASSUME NEW Seen \in Seens, NEW o \in ObservationsOf(Seen)
    PROVE  /\ o \in Observation /\ o.ip \in ClientIps /\ o.domain \in Domains
           /\ o.at \in Times /\ o.at \in Nat /\ o.ttl \in Nat
           /\ o.targets \subseteq TargetIps /\ <<o.domain, o.at>> \in Seen
  BY CacheBounds DEF ObservationsOf, Observation, Times

LEMMA EntryFields ==
    ASSUME NEW Seen \in Seens, NEW m, NEW e \in EntriesOf(Seen, m)
    PROVE  /\ e \in Entry /\ e.domain \in Domains /\ e.at \in Times /\ e.at \in Nat
           /\ e.exp \in Nat /\ e.at <= e.exp /\ HeldAround(m, e.at)
           /\ <<e.domain, e.at>> \in Seen
  BY CacheBounds DEF EntriesOf, Entry, Times

\* A device that may have asked held the address around then.
LEMMA CandidateHeldAddress ==
    ASSUME NEW Seen \in Seens, NEW c \in CachesOf(Seen), NEW o \in ObservationsOf(Seen),
           NEW m \in Candidates(c, o)
    PROVE  HeldAround(m, o.at)
  <1>1. PICK f \in FlowIds : Covers(c.identities[f], o) /\ m = c.identities[f].mac
    BY DEF Candidates
  <1>2. PICK i \in Interval : i = c.identities[f] /\ TrueInterval(i)
    BY <1>1 DEF Covers, CachesOf, IdentitiesTrue
  <1>3. /\ i.ip \in ClientIps /\ i.first \in Times /\ i.last \in Times
        /\ i.first <= o.at /\ o.at <= i.last + Grace
    BY <1>1, <1>2 DEF Interval, Covers
  <1> QED BY <1>1, <1>2, <1>3 DEF HeldAround, TrueInterval

LEMMA AddedEntries ==
    ASSUME NEW Seen \in Seens, NEW m \in Macs, NEW o \in ObservationsOf(Seen),
           HeldAround(m, o.at), NEW entries \in SUBSET EntriesOf(Seen, m)
    PROVE  /\ Added(entries, o) \in SUBSET EntriesOf(Seen, m)
           /\ Renews(entries, o) => Added(entries, o) # {}
  <1> DEFINE e == [domain |-> o.domain, at |-> o.at, exp |-> Expiry(o)]
  <1>1. e \in EntriesOf(Seen, m)
    BY ObservationFields DEF EntriesOf, Entry, Expiry
  <1> HIDE DEF e
  <1>2. Live(entries, o.at) \subseteq EntriesOf(Seen, m)
    BY DEF Live
  <1>3. Added(entries, o) = {l \in Live(entries, o.at) : Renews(entries, o) => l.domain # o.domain}
                                \cup (IF Renews(entries, o) THEN {e} ELSE {})
    BY DEF Added, e
  <1> QED BY <1>1, <1>2, <1>3

LEMMA KeptQueue ==
    ASSUME NEW Seen \in Seens, NEW q \in QueuesOf(Seen), NEW at \in SUBSET (DOMAIN q)
    PROVE  Kept(q, at) \in QueuesOf(Seen)
  <1>1. q \in Seq(ResolvedOf(Seen)) /\ Len(q) <= MaxResolved
    BY DEF QueuesOf
  <1>2. Kept(q, at) \in Seq(ResolvedOf(Seen)) /\ Len(Kept(q, at)) <= Len(q)
    BY <1>1, KeptPositions
  <1>3. Len(q) \in Nat /\ Len(Kept(q, at)) \in Nat
    BY <1>1, <1>2, LenProperties
  <1> QED BY <1>1, <1>2, <1>3, CacheBounds DEF QueuesOf

LEMMA RequeuedQueue ==
    ASSUME NEW Seen \in Seens, NEW q \in QueuesOf(Seen), NEW m \in Macs, NEW ip \in TargetIps,
           NEW entries \in SUBSET EntriesOf(Seen, m), entries # {}
    PROVE  Requeued(q, m, ip, entries) \in QueuesOf(Seen)
  <1> DEFINE at == {i \in DOMAIN q : q[i].mac # m \/ q[i].ip # ip}
             others == Kept(q, at)
             r == [mac |-> m, ip |-> ip, entry |-> CHOOSE e \in entries : TRUE]
             kept == LastOf(others, MaxResolved - 1)
  <1>1. q \in Seq(ResolvedOf(Seen)) /\ Len(q) <= MaxResolved
    BY DEF QueuesOf
  <1>2. others \in QueuesOf(Seen)
    BY KeptQueue
  <1>3. others \in Seq(ResolvedOf(Seen))
    BY <1>2 DEF QueuesOf
  <1>4. r \in ResolvedOf(Seen)
    BY EntryFields DEF ResolvedOf, Resolved
  <1>5. Requeued(q, m, ip, entries) = IF Cardinality(entries) # 1 THEN others
                                      ELSE Append(kept, r)
    BY DEF Requeued, Without, Where
  <1> HIDE DEF others, r
  <1>6. kept \in Seq(ResolvedOf(Seen)) /\ Len(kept) <= MaxResolved - 1
    BY <1>3, LastOfElements, CacheBounds
  <1> HIDE DEF kept
  <1>7. Append(kept, r) \in QueuesOf(Seen)
    BY <1>4, <1>6, CacheBounds DEF QueuesOf
  <1> QED BY <1>2, <1>5, <1>7

LEMMA WithBindingWithin ==
    ASSUME NEW Seen \in Seens, NEW c \in CachesOf(Seen), NEW o \in ObservationsOf(Seen),
           NEW m \in Macs, NEW ip \in TargetIps, HeldAround(m, o.at)
    PROVE  /\ WithBinding(c, m, ip, o) \in CachesOf(Seen)
           /\ WithBinding(c, m, ip, o).pending = c.pending
  <1> DEFINE entries == Added(c.bindings[m][ip], o)
             b == [c.bindings EXCEPT ![m][ip] = entries]
             q == IF Renews(c.bindings[m][ip], o) THEN Requeued(c.resolved, m, ip, entries)
                  ELSE c.resolved
  <1>1. c.bindings \in BindingsOf(Seen) /\ c.resolved \in QueuesOf(Seen)
    BY DEF CachesOf
  <1>2. c.bindings[m][ip] \in SUBSET EntriesOf(Seen, m)
    BY <1>1 DEF BindingsOf
  <1>3. /\ entries \in SUBSET EntriesOf(Seen, m)
        /\ Renews(c.bindings[m][ip], o) => entries # {}
    BY <1>2, AddedEntries
  <1>4. WithBinding(c, m, ip, o) = [c EXCEPT !.bindings = b, !.resolved = q]
    BY DEF WithBinding, CachesOf
  <1> HIDE DEF entries
  <1>5. b \in BindingsOf(Seen)
    BY <1>1, <1>3 DEF BindingsOf, EntriesOf
  <1>6. q \in QueuesOf(Seen)
    BY <1>1, <1>3, RequeuedQueue
  <1> QED BY <1>4, <1>5, <1>6 DEF CachesOf

LEMMA RestoredWithin ==
    ASSUME NEW Seen \in Seens, NEW c \in CachesOf(Seen), NEW r \in ResolvedOf(Seen)
    PROVE  Restored(c, r) \in CachesOf(Seen) /\ Restored(c, r).pending = c.pending
  <1>1. r.mac \in Macs /\ r.ip \in TargetIps /\ {r.entry} \in SUBSET EntriesOf(Seen, r.mac)
    BY DEF ResolvedOf, Resolved
  <1>2. Requeued(c.resolved, r.mac, r.ip, {r.entry}) \in QueuesOf(Seen)
    BY <1>1, RequeuedQueue DEF CachesOf
  <1> QED BY <1>2 DEF Restored, CachesOf

LEMMA KeptPending ==
    ASSUME NEW Seen \in Seens, NEW q \in Seq(ObservationsOf(Seen)), NEW at \in SUBSET (DOMAIN q)
    PROVE  /\ Kept(q, at) \in Seq(ObservationsOf(Seen))
           /\ Len(Kept(q, at)) <= Len(q)
  BY KeptPositions

\* Dropping entries, identities and parts of the queues adds nothing.
LEMMA LessIsWithin ==
    ASSUME NEW Seen \in Seens, NEW c \in CachesOf(Seen),
           NEW b \in [Macs -> [TargetIps -> SUBSET Entry]],
           \A m \in Macs, ip \in TargetIps : b[m][ip] \subseteq c.bindings[m][ip],
           NEW ids, ids \in [FlowIds -> Interval \cup {None}],
           \A f \in FlowIds : ids[f] # None => ids[f] = c.identities[f],
           NEW here \in SUBSET (DOMAIN c.pending), NEW there \in SUBSET (DOMAIN c.resolved),
           NEW d, d = [bindings |-> b, identities |-> ids, pending |-> Kept(c.pending, here),
                       resolved |-> Kept(c.resolved, there)]
    PROVE  d \in CachesOf(Seen) /\ Len(d.pending) <= Len(c.pending)
  <1>1. b \in BindingsOf(Seen)
    BY DEF CachesOf, BindingsOf
  <1>2. ids \in IdentitiesTrue
    BY DEF CachesOf, IdentitiesTrue
  <1>3. /\ Kept(c.pending, here) \in Seq(ObservationsOf(Seen))
        /\ Len(Kept(c.pending, here)) <= Len(c.pending)
    BY KeptPending DEF CachesOf
  <1>4. Kept(c.resolved, there) \in QueuesOf(Seen)
    BY KeptQueue DEF CachesOf
  <1> QED BY <1>1, <1>2, <1>3, <1>4 DEF CachesOf

LEMMA PurgedWithin ==
    ASSUME NEW Seen \in Seens, NEW c \in CachesOf(Seen), NEW t
    PROVE  Purged(c, t) \in CachesOf(Seen) /\ Len(Purged(c, t).pending) <= Len(c.pending)
  <1>1. c.bindings \in [Macs -> [TargetIps -> SUBSET Entry]]
        /\ c.identities \in [FlowIds -> Interval \cup {None}]
    BY DEF CachesOf, BindingsOf, IdentitiesTrue
  <1> QED BY <1>1, LessIsWithin DEF Purged, Where, Live

LEMMA WithoutDeviceWithin ==
    ASSUME NEW Seen \in Seens, NEW c \in CachesOf(Seen), NEW m
    PROVE  /\ WithoutDevice(c, m) \in CachesOf(Seen)
           /\ Len(WithoutDevice(c, m).pending) <= Len(c.pending)
  <1>1. c.bindings \in [Macs -> [TargetIps -> SUBSET Entry]]
        /\ c.identities \in [FlowIds -> Interval \cup {None}]
    BY DEF CachesOf, BindingsOf, IdentitiesTrue
  <1> QED BY <1>1, LessIsWithin DEF WithoutDevice, Where

LEMMA WithoutDomainWithin ==
    ASSUME NEW Seen \in Seens, NEW c \in CachesOf(Seen), NEW selected, NEW dom
    PROVE  /\ WithoutDomain(c, selected, dom) \in CachesOf(Seen)
           /\ Len(WithoutDomain(c, selected, dom).pending) <= Len(c.pending)
  <1>1. c.bindings \in [Macs -> [TargetIps -> SUBSET Entry]]
        /\ c.identities \in [FlowIds -> Interval \cup {None}]
    BY DEF CachesOf, BindingsOf, IdentitiesTrue
  <1> QED BY <1>1, LessIsWithin DEF WithoutDomain, Where

LEMMA WithoutRangeWithin ==
    ASSUME NEW Seen \in Seens, NEW c \in CachesOf(Seen), NEW from, NEW to
    PROVE  /\ WithoutRange(c, from, to) \in CachesOf(Seen)
           /\ Len(WithoutRange(c, from, to).pending) <= Len(c.pending)
  <1>1. c.bindings \in [Macs -> [TargetIps -> SUBSET Entry]]
        /\ c.identities \in [FlowIds -> Interval \cup {None}]
    BY DEF CachesOf, BindingsOf, IdentitiesTrue
  <1> QED BY <1>1, LessIsWithin DEF WithoutRange, Where

-----------------------------------------------------------------------------
(* Every step leaves all places within what was seen.                       *)

\* What is reported of a flow: a packet no earlier than its first, from the
\* device that held the address at both.
Reports ==
    {last \in [FlowIds -> Times \cup {None}] :
        \A f \in FlowIds : last[f] # None =>
            /\ last[f] \in Times /\ FirstSeen[f] <= last[f]
            /\ Holder[ClientIp[f]][FirstSeen[f]] = ClientMac[f]
            /\ Holder[ClientIp[f]][last[f]] = ClientMac[f]}

\* The steps of Next, whatever reports the collector makes and whenever its
\* caller read the clock.
CacheStep ==
    \/ Tick
    \/ \E ip \in ClientIps, a \in Answers : Observe(ip, a)
    \/ \E c \in Callers : Take(c)
    \/ \E c \in Callers : \E t : CollectFrom(c, t)
    \/ \E last \in Reports : \E t : LearnFlowIdentities(last, t)
    \/ ResolveKeep
    \/ \E m \in Macs, ip \in TargetIps : ResolveBind(m, ip)
    \/ \E t : PurgeExpired(t)
    \/ \E c \in Callers : DrainResolved(c) \/ Persisted(c) \/ BeginRequeue(c)
    \/ RequeueStep
    \/ \E m \in Macs : PurgeDevice(m)
    \/ \E selected \in Macs \cup {None}, dom \in Domains : PurgeDomain(selected, dom)
    \/ \E from \in Times, to \in 1 .. MaxTime + 1 : PurgeRange(from, to)

LEMMA BatchesAreReports == ASSUME NEW t, NEW last \in Batches(t) PROVE last \in Reports
  <1>1. ASSUME NEW f \in FlowIds, last[f] # None PROVE last[f] \in Times
    BY <1>1 DEF Batches
  <1> QED BY <1>1 DEF Batches, Reports

LEMMA NextIsCacheStep == [Next]_vars => [CacheStep]_vars
  BY BatchesAreReports DEF Next, CacheStep

LEMMA LearntIdentities ==
    ASSUME NEW Seen \in Seens, NEW c \in CachesOf(Seen), NEW last \in Reports, NEW t,
           NEW ids, ids = [f \in FlowIds |->
               IF last[f] # None /\ last[f] >= t - IdleRetention
               THEN [ip |-> ClientIp[f], mac |-> ClientMac[f],
                     first |-> FirstSeen[f], last |-> last[f]]
               ELSE c.identities[f]]
    PROVE  [c EXCEPT !.identities = ids] \in CachesOf(Seen)
  <1>1. c.identities \in IdentitiesTrue
    BY DEF CachesOf
  <1>2. ASSUME NEW f \in FlowIds, last[f] # None
        PROVE  LET i == [ip |-> ClientIp[f], mac |-> ClientMac[f],
                         first |-> FirstSeen[f], last |-> last[f]]
               IN  i \in Interval /\ TrueInterval(i)
    BY <1>2, CacheIdentities DEF Reports, Interval, TrueInterval
  <1>3. ids \in IdentitiesTrue
    BY <1>1, <1>2 DEF IdentitiesTrue
  <1> QED BY <1>3 DEF CachesOf

LEMMA NewObservation ==
    ASSUME NEW Seen \in Seens, now \in Times, NEW ip \in ClientIps, NEW a \in Answers,
           <<a.domain, now>> \in Seen
    PROVE  [ip |-> ip, domain |-> a.domain, targets |-> a.targets, at |-> now, ttl |-> a.ttl]
               \in ObservationsOf(Seen)
  <1>1. a \in Answer
    BY CacheInputs
  <1> QED BY <1>1 DEF Answer, ObservationsOf, Observation

LEMMA WithinParts ==
    ASSUME NEW Seen \in Seens, Within(Seen)
    PROVE  /\ Len(cache.pending) \in Nat /\ Len(todo) \in Nat /\ Len(cache.pending) <= MaxPending
           /\ cache.pending \in Seq(ObservationsOf(Seen))
           /\ cache.resolved \in QueuesOf(Seen)
           /\ cache.resolved \in Seq(ResolvedOf(Seen))
           /\ now \in Nat
  BY LenProperties, CacheBounds DEF Within, CachesOf, QueuesOf, Times

LEMMA QueueStepsWithin ==
    ASSUME NEW Seen \in Seens, Within(Seen), \A a \in Answers : <<a.domain, now>> \in Seen
    PROVE  /\ Tick => Within(Seen)'
           /\ \A ip \in ClientIps, a \in Answers : Observe(ip, a) => Within(Seen)'
           /\ \A c \in Callers : Take(c) => Within(Seen)'
  <1>1. ASSUME Tick PROVE Within(Seen)'
    <2>1. now' \in Times
      BY <1>1, CacheBounds, WithinParts DEF Tick, Times
    <2> QED BY <1>1, <2>1 DEF Tick, Within
  <1>2. ASSUME NEW ip \in ClientIps, NEW a \in Answers, Observe(ip, a) PROVE Within(Seen)'
    <2> DEFINE o == [ip |-> ip, domain |-> a.domain, targets |-> a.targets,
                     at |-> now, ttl |-> a.ttl]
    <2>0. o \in ObservationsOf(Seen) /\ queue' = Append(queue, o)
      BY <1>2, NewObservation DEF Observe, Within
    <2> HIDE DEF o
    <2>1. queue' \in Seq(ObservationsOf(Seen))
      BY <2>0 DEF Within
    <2> QED BY <1>2, <2>1 DEF Observe, Within
  <1>3. ASSUME NEW c \in Callers, Take(c) PROVE Within(Seen)'
    <2>1. PICK at \in SUBSET (DOMAIN queue) : taken' = [taken EXCEPT ![c] = Kept(queue, at)]
      BY <1>3 DEF Take, Where
    <2>2. Kept(queue, at) \in Seq(ObservationsOf(Seen))
      BY KeptPending DEF Within
    <2>3. taken' \in [Callers -> Seq(ObservationsOf(Seen))]
      BY <2>1, <2>2 DEF Within
    <2>4. queue' \in Seq(ObservationsOf(Seen))
      BY <1>3 DEF Take
    <2> QED BY <1>3, <2>3, <2>4 DEF Take, Within
  <1> QED BY <1>1, <1>2, <1>3

\* resolve_pending starts from a cache whose pending observations fit.
LEMMA StartResolvingWithin ==
    ASSUME NEW Seen \in Seens, NEW c \in CachesOf(Seen), Len(c.pending) <= MaxPending,
           NEW t, StartResolving(c, t)
    PROVE  /\ cache' \in CachesOf(Seen) /\ todo' \in Seq(ObservationsOf(Seen))
           /\ (Len(cache.pending) + Len(todo) <= MaxPending)'
  <1> DEFINE at == {i \in DOMAIN c.pending : PendingExpiry(c.pending[i]) > t}
  <1>1. /\ cache' = [c EXCEPT !.pending = <<>>] /\ todo' = Kept(c.pending, at)
    BY DEF StartResolving, Where
  <1>2. c.pending \in Seq(ObservationsOf(Seen)) /\ Len(c.pending) \in Nat
    BY LenProperties DEF CachesOf
  <1>3. cache' \in CachesOf(Seen) /\ cache'.pending = <<>>
    <2>1. <<>> \in Seq(ObservationsOf(Seen))
      OBVIOUS
    <2> QED BY <1>1, <2>1 DEF CachesOf
  <1>4. Len(cache'.pending) = 0
    BY <1>3
  <1>5. at \in SUBSET (DOMAIN c.pending)
    OBVIOUS
  <1> HIDE DEF at
  <1>6. todo' \in Seq(ObservationsOf(Seen)) /\ Len(todo') <= Len(c.pending)
    BY <1>1, <1>2, <1>5, KeptPending
  <1>7. Len(todo') \in Nat
    BY <1>6, LenProperties
  <1> QED BY <1>2, <1>3, <1>4, <1>6, <1>7, CacheBounds

LEMMA CollectStepsWithin ==
    ASSUME NEW Seen \in Seens, Within(Seen), NEW t
    PROVE  /\ \A c \in Callers : CollectFrom(c, t) => Within(Seen)'
           /\ \A last \in Reports : LearnFlowIdentities(last, t) => Within(Seen)'
  <1>1. PICK p \in CachesOf(Seen) : p = Purged(cache, t) /\ Len(p.pending) <= Len(cache.pending)
    BY PurgedWithin DEF Within
  <1>2. p.pending \in Seq(ObservationsOf(Seen)) /\ Len(p.pending) \in Nat
    BY LenProperties DEF CachesOf
  <1>3. ASSUME NEW c \in Callers, CollectFrom(c, t) PROVE Within(Seen)'
    <2> DEFINE both == p.pending \o taken[c]
               d == [p EXCEPT !.pending = LastOf(both, MaxPending)]
    <2>1. both \in Seq(ObservationsOf(Seen))
      BY <1>2 DEF Within
    <2>2. LastOf(both, MaxPending) \in Seq(ObservationsOf(Seen))
          /\ Len(LastOf(both, MaxPending)) <= MaxPending
      BY <2>1, LastOfElements, CacheBounds
    <2>3. d \in CachesOf(Seen) /\ Len(d.pending) <= MaxPending
      BY <2>2 DEF CachesOf
    <2>4. StartResolving(d, t)
      BY <1>1, <1>3 DEF CollectFrom
    <2> HIDE DEF d
    <2>5. /\ cache' \in CachesOf(Seen) /\ todo' \in Seq(ObservationsOf(Seen))
          /\ (Len(cache.pending) + Len(todo) <= MaxPending)'
      BY <2>3, <2>4, StartResolvingWithin
    <2>6. taken' \in [Callers -> Seq(ObservationsOf(Seen))]
      BY <1>3 DEF CollectFrom, Within
    <2> QED BY <1>3, <2>5, <2>6 DEF CollectFrom, Within
  <1>4. ASSUME NEW last \in Reports, LearnFlowIdentities(last, t) PROVE Within(Seen)'
    <2>1. PICK ids : /\ ids = [f \in FlowIds |->
                            IF last[f] # None /\ last[f] >= t - IdleRetention
                            THEN [ip |-> ClientIp[f], mac |-> ClientMac[f],
                                  first |-> FirstSeen[f], last |-> last[f]]
                            ELSE p.identities[f]]
                     /\ StartResolving([p EXCEPT !.identities = ids], t)
      BY <1>1, <1>4 DEF LearnFlowIdentities
    <2>2. [p EXCEPT !.identities = ids] \in CachesOf(Seen)
      BY <2>1, LearntIdentities
    <2>3. [p EXCEPT !.identities = ids].pending = p.pending
      BY DEF CachesOf
    <2>4. Len(p.pending) <= MaxPending
      BY <1>1, <1>2, WithinParts, CacheBounds
    <2>5. /\ cache' \in CachesOf(Seen) /\ todo' \in Seq(ObservationsOf(Seen))
          /\ (Len(cache.pending) + Len(todo) <= MaxPending)'
      BY <2>1, <2>2, <2>3, <2>4, StartResolvingWithin
    <2> QED BY <1>4, <2>5 DEF LearnFlowIdentities, Within
  <1> QED BY <1>3, <1>4

LEMMA HeadOfTodo ==
    ASSUME NEW Seen \in Seens, Within(Seen), todo # <<>>
    PROVE  /\ Head(todo) \in ObservationsOf(Seen)
           /\ Tail(todo) \in Seq(ObservationsOf(Seen)) /\ Len(Tail(todo)) = Len(todo) - 1
           /\ Len(todo) \in Nat \ {0} /\ 1 \in DOMAIN todo /\ todo[1] = Head(todo)
  <1>1. todo \in Seq(ObservationsOf(Seen)) /\ Len(todo) \in Nat \ {0}
    BY DEF Within
  <1> QED BY <1>1, HeadTailProperties

LEMMA ResolveStepsWithin ==
    ASSUME NEW Seen \in Seens, Within(Seen)
    PROVE  /\ ResolveKeep => Within(Seen)'
           /\ \A m \in Macs, ip \in TargetIps : ResolveBind(m, ip) => Within(Seen)'
  <1> USE WithinParts
  <1>2. ASSUME ResolveKeep PROVE Within(Seen)'
    <2>1. /\ todo' \in Seq(ObservationsOf(Seen)) /\ Len(todo') = Len(todo) - 1
          /\ Head(todo) \in ObservationsOf(Seen)
      BY <1>2, HeadOfTodo DEF ResolveKeep, Resolving
    <2> DEFINE more == Append(cache.pending, Head(todo))
    <2>2. more \in Seq(ObservationsOf(Seen)) /\ Len(more) = Len(cache.pending) + 1
      BY <2>1
    <2>3. cache' = [cache EXCEPT !.pending = more]
      BY <1>2 DEF ResolveKeep
    <2> HIDE DEF more
    <2>4. cache' \in CachesOf(Seen) /\ cache'.pending = more
      BY <2>2, <2>3 DEF Within, CachesOf
    <2>5. Len(cache.pending) + 1 + (Len(todo) - 1) <= MaxPending
      BY CacheBounds DEF Within
    <2>6. (Len(cache.pending) + Len(todo) <= MaxPending)'
      BY <2>1, <2>2, <2>4, <2>5
    <2> QED BY <1>2, <2>1, <2>4, <2>6 DEF ResolveKeep, Resolving, Within
  <1>3. ASSUME NEW m \in Macs, NEW ip \in TargetIps, ResolveBind(m, ip) PROVE Within(Seen)'
    <2> DEFINE o == Head(todo)
               rest == o.targets \ {ip}
    <2>1. /\ todo # <<>> /\ m \in Candidates(cache, o)
          /\ cache' = WithBinding(cache, m, ip, o)
          /\ todo' = IF rest = {} THEN Tail(todo) ELSE [todo EXCEPT ![1].targets = rest]
      BY <1>3 DEF ResolveBind, Resolving
    <2>2. o \in ObservationsOf(Seen)
      BY <2>1, HeadOfTodo
    <2>3. HeldAround(m, o.at)
      BY <2>1, <2>2, CandidateHeldAddress DEF Within
    <2>4. cache' \in CachesOf(Seen) /\ cache'.pending = cache.pending
      BY <2>1, <2>2, <2>3, WithBindingWithin DEF Within
    <2>5. todo' \in Seq(ObservationsOf(Seen)) /\ Len(todo') <= Len(todo)
      <3>1. CASE rest = {}
        BY <2>1, <3>1, HeadOfTodo
      <3>2. CASE rest # {}
        <4> DEFINE narrowed == [todo[1] EXCEPT !.targets = rest]
        <4>1. narrowed \in ObservationsOf(Seen)
          BY <2>1, <2>2, HeadOfTodo DEF ObservationsOf, Observation
        <4>2. todo' = [todo EXCEPT ![1] = narrowed]
          BY <2>1, <3>2
        <4> HIDE DEF narrowed
        <4>3. todo \in Seq(ObservationsOf(Seen)) /\ 1 \in DOMAIN todo
          BY <2>1, HeadOfTodo DEF Within
        <4>4. todo' \in Seq(ObservationsOf(Seen)) /\ Len(todo') = Len(todo)
          BY <4>1, <4>2, <4>3, ExceptSeq
        <4> QED BY <4>4
      <3> QED BY <3>1, <3>2
    <2>6. (Len(cache.pending) + Len(todo) <= MaxPending)'
      <3>1. Len(todo') \in Nat
        BY <2>5, LenProperties
      <3> QED BY <2>4, <2>5, <3>1, CacheBounds DEF Within
    <2> QED BY <1>3, <2>4, <2>5, <2>6 DEF ResolveBind, Resolving, Within
  <1> QED BY <1>2, <1>3

LEMMA FlushStepsWithin ==
    ASSUME NEW Seen \in Seens, Within(Seen)
    PROVE  /\ \A c \in Callers : DrainResolved(c) => Within(Seen)'
           /\ \A c \in Callers : Persisted(c) => Within(Seen)'
           /\ \A c \in Callers : BeginRequeue(c) => Within(Seen)'
           /\ RequeueStep => Within(Seen)'
  <1> USE WithinParts
  <1>1. ASSUME NEW c \in Callers, DrainResolved(c) PROVE Within(Seen)'
    <2>1. drained' \in [Callers -> Seq(ResolvedOf(Seen))]
      BY <1>1 DEF DrainResolved, Within
    <2>2. cache' = [cache EXCEPT !.resolved = <<>>]
      BY <1>1 DEF DrainResolved
    <2>3. <<>> \in QueuesOf(Seen)
      BY CacheBounds DEF QueuesOf
    <2>4. cache' \in CachesOf(Seen) /\ cache'.pending = cache.pending
      BY <2>2, <2>3 DEF Within, CachesOf
    <2> QED BY <1>1, <2>1, <2>4 DEF DrainResolved, Free, Within
  <1>2. ASSUME NEW c \in Callers, Persisted(c) PROVE Within(Seen)'
    <2>1. drained' \in [Callers -> Seq(ResolvedOf(Seen))]
      BY <1>2 DEF Persisted, Within
    <2>2. restoring # None => drained'[restoring] # <<>>
      BY <1>2 DEF Persisted, Within
    <2> QED BY <1>2, <2>1, <2>2 DEF Persisted, Within
  <1>3. ASSUME NEW c \in Callers, BeginRequeue(c) PROVE Within(Seen)'
    BY <1>3 DEF BeginRequeue, Within
  <1>4. ASSUME RequeueStep PROVE Within(Seen)'
    <2> DEFINE bindings == drained[restoring]
    <2>1. restoring \in Callers /\ bindings \in Seq(ResolvedOf(Seen)) /\ bindings # <<>>
      BY <1>4 DEF RequeueStep, Within
    <2>2. /\ cache' = Restored(cache, Head(bindings))
          /\ drained' = [drained EXCEPT ![restoring] = Tail(bindings)]
          /\ restoring' = IF Len(bindings) = 1 THEN None ELSE restoring
      BY <1>4, <2>1 DEF RequeueStep, Within
    <2> HIDE DEF bindings
    <2>3. /\ Head(bindings) \in ResolvedOf(Seen)
          /\ Tail(bindings) \in Seq(ResolvedOf(Seen)) /\ Len(Tail(bindings)) = Len(bindings) - 1
          /\ Len(bindings) \in Nat \ {0}
      BY <2>1, HeadTailProperties
    <2>4. cache' \in CachesOf(Seen) /\ cache'.pending = cache.pending
      BY <2>2, <2>3, RestoredWithin DEF Within
    <2>5. drained' \in [Callers -> Seq(ResolvedOf(Seen))]
      BY <2>2, <2>3 DEF Within
    <2>6. restoring' # None => drained'[restoring'] # <<>>
      <3>1. CASE Len(bindings) = 1
        BY <2>2, <3>1
      <3>2. CASE Len(bindings) # 1
        <4>0. Len(Tail(bindings)) # 0
          BY <2>3, <3>2
        <4>1. Tail(bindings) # <<>>
          BY <4>0, EmptySeq
        <4>2. drained'[restoring] = Tail(bindings)
          BY <2>1, <2>2 DEF Within
        <4> QED BY <2>2, <3>2, <4>1, <4>2
      <3> QED BY <3>1, <3>2
    <2> QED BY <1>4, <2>1, <2>2, <2>4, <2>5, <2>6 DEF RequeueStep, Within
  <1> QED BY <1>1, <1>2, <1>3, <1>4

LEMMA PurgeStepsWithin ==
    ASSUME NEW Seen \in Seens, Within(Seen)
    PROVE  /\ \A t : PurgeExpired(t) => Within(Seen)'
           /\ \A m : PurgeDevice(m) => Within(Seen)'
           /\ \A selected, dom : PurgeDomain(selected, dom) => Within(Seen)'
           /\ \A from, to : PurgeRange(from, to) => Within(Seen)'
  <1>1. ASSUME NEW d \in CachesOf(Seen), Len(d.pending) <= Len(cache.pending),
               cache' = d, Free, UNCHANGED <<now, queue, taken, todo, drained, restoring>>
        PROVE  Within(Seen)'
    <2>1. Len(d.pending) \in Nat
      BY LenProperties DEF CachesOf
    <2>2. (Len(cache.pending) + Len(todo) <= MaxPending)'
      BY <1>1, <2>1, WithinParts, CacheBounds DEF Within
    <2> QED BY <1>1, <2>2 DEF Within
  <1>2. cache \in CachesOf(Seen)
    BY DEF Within
  <1>3. ASSUME NEW t, PurgeExpired(t) PROVE Within(Seen)'
    BY <1>1, <1>2, <1>3, PurgedWithin DEF PurgeExpired
  <1>4. ASSUME NEW m, PurgeDevice(m) PROVE Within(Seen)'
    BY <1>1, <1>2, <1>4, WithoutDeviceWithin DEF PurgeDevice, Purge
  <1>5. ASSUME NEW selected, NEW dom, PurgeDomain(selected, dom) PROVE Within(Seen)'
    BY <1>1, <1>2, <1>5, WithoutDomainWithin DEF PurgeDomain, Purge
  <1>6. ASSUME NEW from, NEW to, PurgeRange(from, to) PROVE Within(Seen)'
    BY <1>1, <1>2, <1>6, WithoutRangeWithin DEF PurgeRange, Purge
  <1> QED BY <1>3, <1>4, <1>5, <1>6

LEMMA StepsWithin ==
    ASSUME NEW Seen \in Seens, Within(Seen), \A a \in Answers : <<a.domain, now>> \in Seen,
           [CacheStep]_vars
    PROVE  Within(Seen)'
  <1>1. CASE CacheStep
    BY <1>1, QueueStepsWithin, CollectStepsWithin, ResolveStepsWithin, FlushStepsWithin,
       PurgeStepsWithin DEF CacheStep
  <1>2. CASE UNCHANGED vars
    BY <1>2 DEF vars, Within
  <1> QED BY <1>1, <1>2

-----------------------------------------------------------------------------
(* Type correctness and the leases.                                         *)

AllSeen == Domains \X Times

LEMMA AnswersSeen == ASSUME now \in Times PROVE \A a \in Answers : <<a.domain, now>> \in AllSeen
  BY CacheInputs DEF Answer, AllSeen

LEMMA InitWithin == ASSUME NEW Seen \in Seens, Init PROVE Within(Seen)
  <1>1. EmptyCache.bindings \in BindingsOf(Seen) /\ EmptyCache.identities \in IdentitiesTrue
    BY DEF EmptyCache, BindingsOf, IdentitiesTrue
  <1>2. <<>> \in QueuesOf(Seen) /\ <<>> \in Seq(ObservationsOf(Seen)) /\ <<>> \in Seq(ResolvedOf(Seen))
    BY CacheBounds DEF QueuesOf
  <1>3. EmptyCache \in CachesOf(Seen) /\ EmptyCache.pending = <<>>
    BY <1>1, <1>2 DEF EmptyCache, CachesOf
  <1>4. now \in Times
    BY CacheBounds DEF Init, Times
  <1> QED BY <1>2, <1>3, <1>4, CacheBounds DEF Init, Within

LEMMA InitAllSeen == Init => Within(AllSeen)
  BY InitWithin DEF AllSeen, Seens

LEMMA NextAllSeen == Within(AllSeen) /\ [Next]_vars => Within(AllSeen)'
  <1> SUFFICES ASSUME Within(AllSeen), [Next]_vars PROVE Within(AllSeen)'
    OBVIOUS
  <1>1. AllSeen \in Seens /\ \A a \in Answers : <<a.domain, now>> \in AllSeen
    BY AnswersSeen DEF Within, AllSeen, Seens
  <1> QED BY <1>1, NextIsCacheStep, StepsWithin

LEMMA WithinIsWellFormed == ASSUME NEW Seen \in Seens, Within(Seen) PROVE TypeOK
  <1>1. /\ ObservationsOf(Seen) \subseteq Observation /\ ResolvedOf(Seen) \subseteq Resolved
    BY DEF ObservationsOf, ResolvedOf
  <1>2. /\ Seq(ObservationsOf(Seen)) \subseteq Seq(Observation)
        /\ Seq(ResolvedOf(Seen)) \subseteq Seq(Resolved)
    BY <1>1
  <1>3. cache \in Cache
    BY <1>2 DEF Within, CachesOf, BindingsOf, IdentitiesTrue, QueuesOf, Cache
  <1>4. Len(cache.resolved) <= MaxResolved
    BY DEF Within, CachesOf, QueuesOf
  <1>5. /\ queue \in Seq(Observation) /\ todo \in Seq(Observation)
        /\ taken \in [Callers -> Seq(Observation)] /\ drained \in [Callers -> Seq(Resolved)]
    BY <1>2 DEF Within
  <1> QED BY <1>3, <1>4, <1>5 DEF Within, TypeOK

LEMMA WithinFollowsLease == ASSUME NEW Seen \in Seens, Within(Seen) PROVE BindingsFollowLease
  BY DEF Within, CachesOf, BindingsOf, EntriesOf, BindingsFollowLease

\* The cache is well formed in every reachable state, and its two queues keep
\* their limits whatever is resolved, requeued and evicted (src/src/dns.rs).
THEOREM TypeCorrect == Spec => []TypeOK
  <1>1. Within(AllSeen) => TypeOK
    BY WithinIsWellFormed DEF AllSeen, Seens
  <1> QED BY <1>1, InitAllSeen, NextAllSeen, PTL DEF Spec

\* A name is bound to a device only if that device held a LAN address around
\* the query, for every history of the leases and every order of resolution.
THEOREM LeasesFollowed == Spec => []BindingsFollowLease
  <1>1. Within(AllSeen) => BindingsFollowLease
    BY WithinFollowsLease DEF AllSeen, Seens
  <1> QED BY <1>1, InitAllSeen, NextAllSeen, PTL DEF Spec

-----------------------------------------------------------------------------
(* A binding queued for the backfill is the only entry of its pair.  This   *)
(* is kept because a pair never holds a name twice, so that a renewal       *)
(* replaces what it renews.                                                 *)

OnePerName(entries) ==
    IsFiniteSet(entries) /\ \A d, e \in entries : d.domain = e.domain => d = e

Distinct(b) == \A m \in Macs, ip \in TargetIps : OnePerName(b[m][ip])

SoleQueue(q, b) ==
    /\ \A i \in DOMAIN q : b[q[i].mac][q[i].ip] = {q[i].entry}
    /\ \A i, j \in DOMAIN q : q[i].mac = q[j].mac /\ q[i].ip = q[j].ip => i = j

Sole(c) == Distinct(c.bindings) /\ SoleQueue(c.resolved, c.bindings)

\* A later set of a pair's entries holds no older answer about a name.
NotOlder(old, new) ==
    \A e \in old, n \in new : e.domain = n.domain => n = e \/ n.at >= e.at

LEMMA AddedDistinct ==
    ASSUME NEW Seen \in Seens, NEW m, NEW o \in ObservationsOf(Seen),
           NEW entries \in SUBSET EntriesOf(Seen, m), OnePerName(entries)
    PROVE  OnePerName(Added(entries, o)) /\ NotOlder(entries, Added(entries, o))
  <1> DEFINE n == [domain |-> o.domain, at |-> o.at, exp |-> Expiry(o)]
             kept == {e \in Live(entries, o.at) : Renews(entries, o) => e.domain # o.domain}
  <1>1. Added(entries, o) = IF Renews(entries, o) THEN kept \cup {n} ELSE kept
    BY DEF Added
  <1>2. kept \in SUBSET entries /\ IsFiniteSet(kept)
    BY FS_Subset DEF OnePerName, Live
  <1>3. IsFiniteSet(Added(entries, o))
    <2> HIDE DEF n, kept
    <2>1. IsFiniteSet(kept \cup {n})
      BY <1>2, FS_AddElement
    <2> QED BY <1>1, <1>2, <2>1
  <1>4. n.domain = o.domain /\ n.at = o.at
    OBVIOUS
  <1>5. Renews(entries, o) => \A e \in kept : e.domain # o.domain
    OBVIOUS
  <1>6. ASSUME Renews(entries, o), NEW e \in entries, e.domain = o.domain PROVE n.at >= e.at
    <2>1. e.at \in Nat /\ e.exp \in Nat /\ e.at <= e.exp /\ o.at \in Nat
      BY EntryFields, ObservationFields
    <2>2. CASE e.exp > o.at
      BY <1>6, <2>2 DEF Renews, Live
    <2>3. CASE ~(e.exp > o.at)
      BY <2>1, <2>3
    <2> QED BY <2>2, <2>3
  <1> HIDE DEF n, kept
  <1> QED BY <1>1, <1>2, <1>3, <1>4, <1>5, <1>6 DEF OnePerName, NotOlder

\* Two caches' bindings agree on some of the pairs of a queue.
AgreeAt(q, at, b, b2) == \A i \in at : b2[q[i].mac][q[i].ip] = b[q[i].mac][q[i].ip]

LEMMA KeptSole ==
    ASSUME NEW S, NEW q \in Seq(S), NEW b, SoleQueue(q, b), NEW at \in SUBSET (DOMAIN q),
           NEW b2, AgreeAt(q, at, b, b2)
    PROVE  SoleQueue(Kept(q, at), b2)
  <1>1. PICK up : Picks(up, q, at)
    BY KeptPositions
  <1>2. Kept(q, at) \in Seq(S) /\ DOMAIN Kept(q, at) = 1 .. Len(Kept(q, at))
    BY KeptPositions, LenProperties
  <1>3. \A n \in DOMAIN Kept(q, at) : up[n] \in at /\ up[n] \in DOMAIN q
    BY <1>1, <1>2 DEF Picks
  <1> DEFINE k == Kept(q, at)
  <1> HIDE DEF k
  <1>4. \A n \in DOMAIN k : k[n] = q[up[n]] /\ up[n] \in at /\ up[n] \in DOMAIN q
    BY <1>1, <1>2, <1>3 DEF k, Picks
  <1>5. \A n, m \in DOMAIN k : up[n] = up[m] => n = m
    BY <1>1, <1>2 DEF k, Picks
  <1>6. ASSUME NEW n \in DOMAIN k PROVE b2[k[n].mac][k[n].ip] = {k[n].entry}
    <2>1. PICK i \in at : i \in DOMAIN q /\ k[n] = q[i]
      BY <1>4
    <2>2. b2[q[i].mac][q[i].ip] = b[q[i].mac][q[i].ip]
      BY <2>1 DEF AgreeAt
    <2>3. b[q[i].mac][q[i].ip] = {q[i].entry}
      BY <2>1 DEF SoleQueue
    <2> QED BY <2>1, <2>2, <2>3
  <1>7. \A n, m \in DOMAIN k : k[n].mac = k[m].mac /\ k[n].ip = k[m].ip => n = m
    BY <1>4, <1>5 DEF SoleQueue
  <1>8. SoleQueue(k, b2)
    BY <1>6, <1>7 DEF SoleQueue
  <1> QED BY <1>8 DEF k

LEMMA LastSole ==
    ASSUME NEW S, NEW q \in Seq(S), NEW b, SoleQueue(q, b), NEW n \in Nat
    PROVE  SoleQueue(LastOf(q, n), b)
  <1> DEFINE l == LastOf(q, n)
             by == Len(q) - Len(l)
  <1>1. /\ l \in Seq(S) /\ Len(l) <= Len(q) /\ \A i \in 1 .. Len(l) : l[i] = q[i + by]
    BY LastOfElements
  <1> HIDE DEF l
  <1>2. /\ DOMAIN l = 1 .. Len(l) /\ DOMAIN q = 1 .. Len(q) /\ Len(l) \in Nat /\ Len(q) \in Nat
    BY <1>1, LenProperties
  <1>3. \A i \in DOMAIN l : i \in Int /\ i + by \in DOMAIN q /\ l[i] = q[i + by]
    BY <1>1, <1>2
  <1>4. by \in Int
    BY <1>2
  <1>5. \A i, j \in DOMAIN l : i + by = j + by => i = j
    BY <1>3, <1>4
  <1> HIDE DEF by
  <1>6. SoleQueue(l, b)
    <2>1. ASSUME NEW i \in DOMAIN l PROVE b[l[i].mac][l[i].ip] = {l[i].entry}
      <3>1. PICK j \in DOMAIN q : l[i] = q[j]
        BY <1>3
      <3>2. b[q[j].mac][q[j].ip] = {q[j].entry}
        BY DEF SoleQueue
      <3> QED BY <3>1, <3>2
    <2>2. ASSUME NEW i \in DOMAIN l, NEW j \in DOMAIN l, l[i].mac = l[j].mac, l[i].ip = l[j].ip
          PROVE  i = j
      <3>1. i + by = j + by
        BY <1>3, <2>2 DEF SoleQueue
      <3> QED BY <1>5, <3>1
    <2> QED BY <2>1, <2>2 DEF SoleQueue
  <1> QED BY <1>6 DEF l

LEMMA RequeuedSole ==
    ASSUME NEW S, NEW q \in Seq(S), NEW b, SoleQueue(q, b), NEW m, NEW ip, NEW b2,
           \A i \in DOMAIN q : q[i].mac # m \/ q[i].ip # ip =>
               b2[q[i].mac][q[i].ip] = b[q[i].mac][q[i].ip],
           IsFiniteSet(b2[m][ip]), [mac |-> m, ip |-> ip, entry |-> CHOOSE e \in b2[m][ip] : TRUE] \in S
    PROVE  SoleQueue(Requeued(q, m, ip, b2[m][ip]), b2)
  <1> DEFINE at == {i \in DOMAIN q : q[i].mac # m \/ q[i].ip # ip}
             others == Kept(q, at)
             kept == LastOf(others, MaxResolved - 1)
             r == [mac |-> m, ip |-> ip, entry |-> CHOOSE e \in b2[m][ip] : TRUE]
  <1>1. Requeued(q, m, ip, b2[m][ip]) =
            IF Cardinality(b2[m][ip]) # 1 THEN others ELSE Append(kept, r)
    BY DEF Requeued, Without, Where
  <1>2. at \in SUBSET (DOMAIN q)
    OBVIOUS
  <1>3. SoleQueue(others, b2)
    BY <1>2, KeptSole DEF AgreeAt
  <1>0. \A i \in at : i \in DOMAIN q /\ (q[i].mac # m \/ q[i].ip # ip)
    OBVIOUS
  <1> HIDE DEF at
  <1>4. others \in Seq(S) /\ \A n \in DOMAIN others : others[n].mac # m \/ others[n].ip # ip
    <2>1. PICK up \in [1 .. Len(others) -> at] : \A n \in 1 .. Len(others) : others[n] = q[up[n]]
      <3>1. PICK up : Picks(up, q, at)
        BY <1>2, KeptPositions
      <3> QED BY <3>1 DEF Picks
    <2>2. others \in Seq(S) /\ DOMAIN others = 1 .. Len(others)
      BY <1>2, KeptPositions, LenProperties
    <2> HIDE DEF others
    <2> QED BY <1>0, <2>1, <2>2
  <1> HIDE DEF others
  <1>5. MaxResolved - 1 \in Nat
    BY CacheBounds
  <1>6. SoleQueue(kept, b2)
    BY <1>3, <1>4, <1>5, LastSole
  <1>7. kept \in Seq(S) /\ \A n \in DOMAIN kept : kept[n].mac # m \/ kept[n].ip # ip
    <2>1. /\ kept \in Seq(S) /\ Len(kept) <= Len(others)
          /\ \A i \in 1 .. Len(kept) : kept[i] = others[i + (Len(others) - Len(kept))]
      BY <1>4, <1>5, LastOfElements
    <2> HIDE DEF kept
    <2>2. /\ DOMAIN kept = 1 .. Len(kept) /\ DOMAIN others = 1 .. Len(others)
          /\ Len(kept) \in Nat /\ Len(others) \in Nat
      BY <1>4, <2>1, LenProperties
    <2>3. \A i \in DOMAIN kept : i + (Len(others) - Len(kept)) \in DOMAIN others
      BY <2>1, <2>2
    <2> QED BY <1>4, <2>1, <2>2, <2>3
  <1> HIDE DEF kept
  <1>8. ASSUME Cardinality(b2[m][ip]) = 1 PROVE SoleQueue(Append(kept, r), b2)
    <2>1. b2[m][ip] = {r.entry}
      BY <1>8, FS_Singleton
    <2>2. r \in S /\ r.mac = m /\ r.ip = ip
      OBVIOUS
    <2> HIDE DEF r
    <2> DEFINE p == Append(kept, r)
    <2>3. /\ DOMAIN p = 1 .. Len(kept) + 1 /\ DOMAIN kept = 1 .. Len(kept) /\ Len(kept) \in Nat
          /\ p[Len(kept) + 1] = r /\ \A i \in DOMAIN kept : p[i] = kept[i]
      BY <1>7, <2>2, AppendProperties, LenProperties
    <2> HIDE DEF p
    <2>4. \A i \in DOMAIN p : i \in DOMAIN kept \/ i = Len(kept) + 1
      BY <2>3
    <2>5. SoleQueue(p, b2)
      <3>1. ASSUME NEW i \in DOMAIN p PROVE b2[p[i].mac][p[i].ip] = {p[i].entry}
        <4>1. CASE i \in DOMAIN kept
          <5>1. b2[kept[i].mac][kept[i].ip] = {kept[i].entry}
            BY <1>6, <4>1 DEF SoleQueue
          <5> QED BY <2>3, <4>1, <5>1
        <4>2. CASE i = Len(kept) + 1
          <5>1. p[i] = r
            BY <2>3, <4>2
          <5> QED BY <2>1, <2>2, <5>1
        <4> QED BY <2>4, <4>1, <4>2
      <3>2. ASSUME NEW i \in DOMAIN p, NEW j \in DOMAIN p, p[i].mac = p[j].mac, p[i].ip = p[j].ip
            PROVE  i = j
        <4>1. CASE i \in DOMAIN kept /\ j \in DOMAIN kept
          BY <1>6, <2>3, <3>2, <4>1 DEF SoleQueue
        <4>2. CASE i = Len(kept) + 1 /\ j \in DOMAIN kept
          BY <1>7, <2>2, <2>3, <3>2, <4>2
        <4>3. CASE i \in DOMAIN kept /\ j = Len(kept) + 1
          BY <1>7, <2>2, <2>3, <3>2, <4>3
        <4> QED BY <2>4, <4>1, <4>2, <4>3
      <3> QED BY <3>1, <3>2 DEF SoleQueue
    <2> QED BY <2>5 DEF p
  <1> QED BY <1>1, <1>3, <1>8

\* d may follow c: its queue holds sole entries, and no answer gave way to an older one.
Follows(c, d) ==
    /\ Sole(d)
    /\ \A m \in Macs, ip \in TargetIps : NotOlder(c.bindings[m][ip], d.bindings[m][ip])

LEMMA SameFollows ==
    ASSUME NEW c, Sole(c), NEW d, d.bindings = c.bindings, d.resolved = c.resolved
    PROVE  Follows(c, d)
  BY DEF Follows, Sole, Distinct, OnePerName, NotOlder

\* Entries may leave as long as what is queued does not lose its own.
LEMMA LessFollows ==
    ASSUME NEW Seen \in Seens, NEW c \in CachesOf(Seen), Sole(c), NEW b,
           \A m \in Macs, ip \in TargetIps : b[m][ip] \subseteq c.bindings[m][ip],
           NEW there \in SUBSET (DOMAIN c.resolved),
           \A i \in there : c.resolved[i].entry \in b[c.resolved[i].mac][c.resolved[i].ip],
           NEW d, d.bindings = b, d.resolved = Kept(c.resolved, there)
    PROVE  Follows(c, d)
  <1>1. c.resolved \in Seq(ResolvedOf(Seen))
    BY DEF CachesOf, QueuesOf
  <1>2. \A i \in there : /\ c.resolved[i].mac \in Macs /\ c.resolved[i].ip \in TargetIps
                         /\ i \in DOMAIN c.resolved
    BY SMTT(30), <1>1, LenProperties DEF ResolvedOf, Resolved
  <1>3. \A i \in there : b[c.resolved[i].mac][c.resolved[i].ip]
                             = c.bindings[c.resolved[i].mac][c.resolved[i].ip]
    <2> TAKE i \in there
    <2>1. PICK r : r = c.resolved[i]
      OBVIOUS
    <2>2. /\ b[r.mac][r.ip] \subseteq c.bindings[r.mac][r.ip]
          /\ c.bindings[r.mac][r.ip] = {r.entry} /\ r.entry \in b[r.mac][r.ip]
      BY <1>2, <2>1 DEF Sole, SoleQueue
    <2> QED BY SMTT(60), <2>1, <2>2
  <1>4. SoleQueue(d.resolved, d.bindings)
    BY SMTT(30), <1>1, <1>3, KeptSole DEF Sole, AgreeAt
  <1>5. ASSUME NEW m \in Macs, NEW ip \in TargetIps
        PROVE  /\ OnePerName(d.bindings[m][ip])
               /\ NotOlder(c.bindings[m][ip], d.bindings[m][ip])
    <2>1. d.bindings[m][ip] \in SUBSET c.bindings[m][ip] /\ OnePerName(c.bindings[m][ip])
      BY DEF Sole, Distinct
    <2>2. IsFiniteSet(d.bindings[m][ip])
      BY <2>1, FS_Subset DEF OnePerName
    <2> QED BY <2>1, <2>2 DEF OnePerName, NotOlder
  <1> QED BY <1>4, <1>5 DEF Follows, Sole, Distinct

LEMMA PurgedFollows ==
    ASSUME NEW Seen \in Seens, NEW c \in CachesOf(Seen), Sole(c), NEW t
    PROVE  Follows(c, Purged(c, t))
  <1> DEFINE b == [m \in Macs |-> [ip \in TargetIps |-> Live(c.bindings[m][ip], t)]]
             there == {i \in DOMAIN c.resolved : c.resolved[i].entry.exp > t}
             d == Purged(c, t)
  <1>1. \A m \in Macs, ip \in TargetIps : b[m][ip] \subseteq c.bindings[m][ip]
    BY SMTT(30) DEF Live
  <1>2. ASSUME NEW i \in there PROVE c.resolved[i].entry \in b[c.resolved[i].mac][c.resolved[i].ip]
    <2>1. PICK r \in ResolvedOf(Seen) : r = c.resolved[i]
      BY LenProperties DEF CachesOf, QueuesOf
    <2>2. r.mac \in Macs /\ r.ip \in TargetIps /\ r.entry.exp > t
      BY <2>1 DEF ResolvedOf, Resolved
    <2>3. c.bindings[r.mac][r.ip] = {r.entry}
      BY <2>1 DEF Sole, SoleQueue
    <2> QED BY <2>1, <2>2, <2>3 DEF Live
  <1>3. there \in SUBSET (DOMAIN c.resolved)
    OBVIOUS
  <1>4. d.bindings = b /\ d.resolved = Kept(c.resolved, there)
    BY DEF Purged, Where
  <1> HIDE DEF b, there, d
  <1>5. Follows(c, d)
    BY <1>1, <1>2, <1>3, <1>4, LessFollows
  <1> QED BY <1>5 DEF d

LEMMA WithoutDeviceFollows ==
    ASSUME NEW Seen \in Seens, NEW c \in CachesOf(Seen), Sole(c), NEW x
    PROVE  Follows(c, WithoutDevice(c, x))
  <1> DEFINE b == [c.bindings EXCEPT ![x] = [ip \in TargetIps |-> {}]]
             there == {i \in DOMAIN c.resolved : c.resolved[i].mac # x}
             d == WithoutDevice(c, x)
  <1>0. c.bindings \in [Macs -> [TargetIps -> SUBSET Entry]]
    BY DEF CachesOf, BindingsOf
  <1>1. \A m \in Macs, ip \in TargetIps : b[m][ip] \subseteq c.bindings[m][ip]
    BY <1>0
  <1>2. ASSUME NEW i \in there PROVE c.resolved[i].entry \in b[c.resolved[i].mac][c.resolved[i].ip]
    <2>1. PICK r \in ResolvedOf(Seen) : r = c.resolved[i]
      BY LenProperties DEF CachesOf, QueuesOf
    <2>2. r.mac \in Macs /\ r.ip \in TargetIps /\ r.mac # x
      BY <2>1 DEF ResolvedOf, Resolved
    <2>3. c.bindings[r.mac][r.ip] = {r.entry}
      BY <2>1 DEF Sole, SoleQueue
    <2> QED BY <1>0, <2>1, <2>2, <2>3
  <1>3. there \in SUBSET (DOMAIN c.resolved)
    OBVIOUS
  <1>4. d.bindings = b /\ d.resolved = Kept(c.resolved, there)
    BY DEF WithoutDevice, Where
  <1> HIDE DEF b, there, d
  <1>5. Follows(c, d)
    BY <1>1, <1>2, <1>3, <1>4, LessFollows
  <1> QED BY <1>5 DEF d

LEMMA WithoutDomainFollows ==
    ASSUME NEW Seen \in Seens, NEW c \in CachesOf(Seen), Sole(c), NEW selected, NEW dom
    PROVE  Follows(c, WithoutDomain(c, selected, dom))
  <1> DEFINE Hits(m) == selected \in {m, None}
             b == [m \in Macs |-> [ip \in TargetIps |->
                      {e \in c.bindings[m][ip] : ~(Hits(m) /\ e.domain = dom)}]]
             there == {i \in DOMAIN c.resolved :
                          ~(Hits(c.resolved[i].mac) /\ c.resolved[i].entry.domain = dom)}
             d == WithoutDomain(c, selected, dom)
  <1>1. \A m \in Macs, ip \in TargetIps : b[m][ip] \subseteq c.bindings[m][ip]
    BY SMTT(30)
  <1>2. ASSUME NEW i \in there PROVE c.resolved[i].entry \in b[c.resolved[i].mac][c.resolved[i].ip]
    <2>1. PICK r \in ResolvedOf(Seen) : r = c.resolved[i]
      BY LenProperties DEF CachesOf, QueuesOf
    <2>2. r.mac \in Macs /\ r.ip \in TargetIps /\ ~(Hits(r.mac) /\ r.entry.domain = dom)
      BY <2>1 DEF ResolvedOf, Resolved
    <2>3. c.bindings[r.mac][r.ip] = {r.entry}
      BY <2>1 DEF Sole, SoleQueue
    <2> QED BY <2>1, <2>2, <2>3
  <1>3. there \in SUBSET (DOMAIN c.resolved)
    OBVIOUS
  <1>4. d.bindings = b /\ d.resolved = Kept(c.resolved, there)
    BY DEF WithoutDomain, Where
  <1> HIDE DEF b, there, d
  <1>5. Follows(c, d)
    BY <1>1, <1>2, <1>3, <1>4, LessFollows
  <1> QED BY <1>5 DEF d

LEMMA WithoutRangeFollows ==
    ASSUME NEW Seen \in Seens, NEW c \in CachesOf(Seen), Sole(c), NEW from, NEW to
    PROVE  Follows(c, WithoutRange(c, from, to))
  <1> DEFINE Inside(t) == t >= from /\ t < to
             b == [m \in Macs |-> [ip \in TargetIps |->
                      {e \in c.bindings[m][ip] : ~Inside(e.at)}]]
             there == {i \in DOMAIN c.resolved : ~Inside(c.resolved[i].entry.at)}
             d == WithoutRange(c, from, to)
  <1>1. \A m \in Macs, ip \in TargetIps : b[m][ip] \subseteq c.bindings[m][ip]
    BY SMTT(30)
  <1>2. ASSUME NEW i \in there PROVE c.resolved[i].entry \in b[c.resolved[i].mac][c.resolved[i].ip]
    <2>1. PICK r \in ResolvedOf(Seen) : r = c.resolved[i]
      BY LenProperties DEF CachesOf, QueuesOf
    <2>2. r.mac \in Macs /\ r.ip \in TargetIps /\ ~Inside(r.entry.at)
      BY <2>1 DEF ResolvedOf, Resolved
    <2>3. c.bindings[r.mac][r.ip] = {r.entry}
      BY <2>1 DEF Sole, SoleQueue
    <2> HIDE DEF Inside
    <2> QED BY <2>1, <2>2, <2>3
  <1>3. there \in SUBSET (DOMAIN c.resolved)
    OBVIOUS
  <1>4. d.bindings = b /\ d.resolved = Kept(c.resolved, there)
    BY DEF WithoutRange, Where
  <1> HIDE DEF b, there, d
  <1>5. Follows(c, d)
    BY <1>1, <1>2, <1>3, <1>4, LessFollows
  <1> QED BY <1>5 DEF d

LEMMA WithBindingFollows ==
    ASSUME NEW Seen \in Seens, NEW c \in CachesOf(Seen), Sole(c), NEW o \in ObservationsOf(Seen),
           NEW m \in Macs, NEW ip \in TargetIps, HeldAround(m, o.at)
    PROVE  Follows(c, WithBinding(c, m, ip, o))
  <1> DEFINE old == c.bindings[m][ip]
             new == Added(old, o)
             b == [c.bindings EXCEPT ![m][ip] = new]
             q == IF Renews(old, o) THEN Requeued(c.resolved, m, ip, new) ELSE c.resolved
             d == WithBinding(c, m, ip, o)
  <1>1. /\ c.bindings \in [Macs -> [TargetIps -> SUBSET Entry]]
        /\ old \in SUBSET EntriesOf(Seen, m) /\ c.resolved \in Seq(ResolvedOf(Seen))
    BY DEF CachesOf, BindingsOf, QueuesOf
  <1>2. d.bindings = b /\ d.resolved = q
    BY DEF WithBinding, CachesOf
  <1>3. OnePerName(new) /\ NotOlder(old, new) /\ OnePerName(old)
    BY <1>1, AddedDistinct DEF Sole, Distinct
  <1>4. new \in SUBSET EntriesOf(Seen, m) /\ (Renews(old, o) => new # {})
    BY <1>1, AddedEntries
  <1>5. ASSUME ~Renews(old, o), NEW e, old = {e} PROVE new = {e}
    <2>1. e \in Live(old, o.at)
      BY <1>5 DEF Renews, Live
    <2> QED BY <1>5, <2>1 DEF Added, Live
  <1> HIDE DEF new
  <1>6. b[m][ip] = new /\ \A n \in Macs, jp \in TargetIps :
            n # m \/ jp # ip => b[n][jp] = c.bindings[n][jp]
    BY <1>1
  <1>7. \A i \in DOMAIN c.resolved : c.resolved[i] \in ResolvedOf(Seen)
    BY <1>1, LenProperties
  <1>8. \A r \in ResolvedOf(Seen) : r.mac \in Macs /\ r.ip \in TargetIps
    BY DEF ResolvedOf, Resolved
  <1> HIDE DEF b
  <1>9. SoleQueue(q, b)
    <2>1. CASE Renews(old, o)
      <3>1. [mac |-> m, ip |-> ip, entry |-> CHOOSE e \in new : TRUE] \in ResolvedOf(Seen)
        BY <1>4, <2>1 DEF ResolvedOf, Resolved, EntriesOf
      <3>2. \A i \in DOMAIN c.resolved : c.resolved[i].mac # m \/ c.resolved[i].ip # ip =>
                b[c.resolved[i].mac][c.resolved[i].ip]
                    = c.bindings[c.resolved[i].mac][c.resolved[i].ip]
        BY <1>6, <1>7, <1>8
      <3>3. IsFiniteSet(b[m][ip])
        BY <1>3, <1>6 DEF OnePerName
      <3>4. SoleQueue(Requeued(c.resolved, m, ip, b[m][ip]), b)
        BY <1>1, <1>6, <3>1, <3>2, <3>3, RequeuedSole DEF Sole
      <3> QED BY <1>6, <2>1, <3>4
    <2>2. CASE ~Renews(old, o)
      <3>1. ASSUME NEW i \in DOMAIN c.resolved
            PROVE  b[c.resolved[i].mac][c.resolved[i].ip] = {c.resolved[i].entry}
        <4>1. PICK r \in ResolvedOf(Seen) : r = c.resolved[i]
          BY <1>7
        <4>2. c.bindings[r.mac][r.ip] = {r.entry} /\ r.mac \in Macs /\ r.ip \in TargetIps
          BY <1>8, <4>1 DEF Sole, SoleQueue
        <4>3. CASE r.mac = m /\ r.ip = ip
          BY <1>5, <1>6, <2>2, <4>1, <4>2, <4>3
        <4>4. CASE ~(r.mac = m /\ r.ip = ip)
          BY <1>6, <4>1, <4>2, <4>4
        <4> QED BY <4>3, <4>4
      <3> QED BY <2>2, <3>1 DEF Sole, SoleQueue
    <2> QED BY <2>1, <2>2
  <1>10. ASSUME NEW n \in Macs, NEW jp \in TargetIps
         PROVE  OnePerName(b[n][jp]) /\ NotOlder(c.bindings[n][jp], b[n][jp])
    <2>1. CASE n = m /\ jp = ip
      BY <1>3, <1>6, <2>1
    <2>2. CASE ~(n = m /\ jp = ip)
      BY <1>6, <2>2 DEF Sole, Distinct, OnePerName, NotOlder
    <2> QED BY <2>1, <2>2
  <1> QED BY <1>2, <1>9, <1>10 DEF Follows, Sole, Distinct

LEMMA RestoredFollows ==
    ASSUME NEW Seen \in Seens, NEW c \in CachesOf(Seen), Sole(c), NEW r \in ResolvedOf(Seen)
    PROVE  Follows(c, Restored(c, r))
  <1>1. CASE c.bindings[r.mac][r.ip] = {r.entry}
    <2> DEFINE d == Restored(c, r)
    <2>1. /\ d.bindings = c.bindings
          /\ d.resolved = Requeued(c.resolved, r.mac, r.ip, c.bindings[r.mac][r.ip])
      BY <1>1 DEF Restored, CachesOf
    <2> HIDE DEF d
    <2>2. [mac |-> r.mac, ip |-> r.ip, entry |-> CHOOSE e \in c.bindings[r.mac][r.ip] : TRUE]
              \in ResolvedOf(Seen)
      BY <1>1 DEF ResolvedOf, Resolved
    <2>3. c.resolved \in Seq(ResolvedOf(Seen)) /\ IsFiniteSet(c.bindings[r.mac][r.ip])
      BY <1>1, FS_Singleton DEF CachesOf, QueuesOf
    <2>4. SoleQueue(d.resolved, d.bindings)
      BY <2>1, <2>2, <2>3, RequeuedSole DEF Sole
    <2>5. Follows(c, d)
      BY <2>1, <2>4 DEF Follows, Sole, Distinct, OnePerName, NotOlder
    <2> QED BY <2>5 DEF d
  <1>2. CASE c.bindings[r.mac][r.ip] # {r.entry}
    BY <1>2, SameFollows DEF Restored
  <1> QED BY <1>1, <1>2

LEMMA StartResolvingFollows ==
    ASSUME NEW c, Sole(c), NEW d, Follows(c, d), NEW e, e.bindings = d.bindings,
           e.resolved = d.resolved
    PROVE  Follows(c, e)
  BY DEF Follows, Sole

LEMMA StepsFollow ==
    ASSUME NEW Seen \in Seens, Within(Seen), Sole(cache), [CacheStep]_vars
    PROVE  Follows(cache, cache')
  <1>0. cache \in CachesOf(Seen)
    BY DEF Within
  <1>1. ASSUME cache' = cache PROVE Follows(cache, cache')
    BY <1>1, SameFollows
  <1>2. ASSUME NEW c \in Callers, NEW t, CollectFrom(c, t) PROVE Follows(cache, cache')
    <2>1. PICK p \in CachesOf(Seen) : p = Purged(cache, t) /\ Follows(cache, p)
      BY <1>0, PurgedWithin, PurgedFollows
    <2>2. PICK s : cache' = [[p EXCEPT !.pending = s] EXCEPT !.pending = <<>>]
      BY <1>2, <2>1 DEF CollectFrom, StartResolving
    <2>3. cache'.bindings = p.bindings /\ cache'.resolved = p.resolved
      BY <2>2 DEF CachesOf
    <2> QED BY <2>1, <2>3, StartResolvingFollows
  <1>3. ASSUME NEW last \in Reports, NEW t, LearnFlowIdentities(last, t)
        PROVE  Follows(cache, cache')
    <2>1. PICK p \in CachesOf(Seen) : p = Purged(cache, t) /\ Follows(cache, p)
      BY <1>0, PurgedWithin, PurgedFollows
    <2>2. PICK s : cache' = [[p EXCEPT !.identities = s] EXCEPT !.pending = <<>>]
      BY <1>3, <2>1 DEF LearnFlowIdentities, StartResolving
    <2>3. cache'.bindings = p.bindings /\ cache'.resolved = p.resolved
      BY <2>2 DEF CachesOf
    <2> QED BY <2>1, <2>3, StartResolvingFollows
  <1>4. ASSUME ResolveKeep PROVE Follows(cache, cache')
    <2>1. cache'.bindings = cache.bindings /\ cache'.resolved = cache.resolved
      BY <1>0, <1>4 DEF ResolveKeep, CachesOf
    <2> QED BY <2>1, SameFollows
  <1>5. ASSUME NEW m \in Macs, NEW ip \in TargetIps, ResolveBind(m, ip)
        PROVE  Follows(cache, cache')
    <2>1. PICK o \in ObservationsOf(Seen) : o = Head(todo)
      BY <1>5, HeadOfTodo DEF ResolveBind, Resolving
    <2>2. HeldAround(m, o.at)
      BY <1>0, <1>5, <2>1, CandidateHeldAddress DEF ResolveBind
    <2>3. cache' = WithBinding(cache, m, ip, o)
      BY <1>5, <2>1 DEF ResolveBind
    <2> QED BY <1>0, <2>2, <2>3, WithBindingFollows
  <1>6. ASSUME NEW c \in Callers, DrainResolved(c) PROVE Follows(cache, cache')
    <2>1. cache'.bindings = cache.bindings /\ cache'.resolved = <<>>
      BY <1>0, <1>6 DEF DrainResolved, CachesOf
    <2>2. SoleQueue(<<>>, cache.bindings)
      BY DEF SoleQueue
    <2> QED BY <2>1, <2>2 DEF Follows, Sole, Distinct, OnePerName, NotOlder
  <1>7. ASSUME RequeueStep PROVE Follows(cache, cache')
    <2>1. restoring \in Callers /\ drained[restoring] \in Seq(ResolvedOf(Seen))
          /\ drained[restoring] # <<>>
      BY <1>7 DEF RequeueStep, Within
    <2>2. PICK r \in ResolvedOf(Seen) : r = Head(drained[restoring])
      BY <2>1, HeadTailProperties
    <2>3. cache' = Restored(cache, r)
      BY <1>7, <2>2 DEF RequeueStep
    <2> QED BY <1>0, <2>3, RestoredFollows
  <1>8. ASSUME NEW t, PurgeExpired(t) PROVE Follows(cache, cache')
    BY <1>0, <1>8, PurgedFollows DEF PurgeExpired
  <1>9. ASSUME NEW m, PurgeDevice(m) PROVE Follows(cache, cache')
    BY <1>0, <1>9, WithoutDeviceFollows DEF PurgeDevice, Purge
  <1>10. ASSUME NEW selected, NEW dom, PurgeDomain(selected, dom) PROVE Follows(cache, cache')
    BY <1>0, <1>10, WithoutDomainFollows DEF PurgeDomain, Purge
  <1>11. ASSUME NEW from, NEW to, PurgeRange(from, to) PROVE Follows(cache, cache')
    BY <1>0, <1>11, WithoutRangeFollows DEF PurgeRange, Purge
  <1>12. CASE UNCHANGED vars
    BY <1>1, <1>12 DEF vars
  <1>13. CASE Tick
    BY <1>1, <1>13 DEF Tick
  <1>14. CASE \E ip \in ClientIps, a \in Answers : Observe(ip, a)
    BY <1>1, <1>14 DEF Observe
  <1>15. CASE \E c \in Callers : Take(c)
    BY <1>1, <1>15 DEF Take
  <1>16. CASE \E c \in Callers : Persisted(c) \/ BeginRequeue(c)
    BY <1>1, <1>16 DEF Persisted, BeginRequeue
  <1> QED BY <1>2, <1>3, <1>4, <1>5, <1>6, <1>7, <1>8, <1>9, <1>10, <1>11, <1>12, <1>13,
             <1>14, <1>15, <1>16 DEF CacheStep

SoleInv == Within(AllSeen) /\ Sole(cache)

LEMMA InitSole == Init => SoleInv
  <1> SUFFICES ASSUME Init PROVE SoleInv
    OBVIOUS
  <1>1. \A m \in Macs, ip \in TargetIps : cache.bindings[m][ip] = {} /\ OnePerName({})
    BY FS_EmptySet DEF Init, EmptyCache, OnePerName
  <1>2. SoleQueue(cache.resolved, cache.bindings)
    BY DEF Init, EmptyCache, SoleQueue
  <1> QED BY <1>1, <1>2, InitAllSeen DEF SoleInv, Sole, Distinct

LEMMA NextSole ==
    SoleInv /\ [Next]_vars =>
        /\ SoleInv'
        /\ \A m \in Macs, ip \in TargetIps : NotOlder(cache.bindings[m][ip], cache'.bindings[m][ip])
  <1> SUFFICES ASSUME SoleInv, [Next]_vars
               PROVE  Sole(cache)' /\ Follows(cache, cache')
    BY NextAllSeen DEF SoleInv, Follows
  <1>1. Follows(cache, cache')
    BY NextIsCacheStep, StepsFollow DEF SoleInv, AllSeen, Seens
  <1> QED BY <1>1 DEF Follows

LEMMA SoleInvIsSole == SoleInv => QueuedIsSole
  <1> SUFFICES ASSUME SoleInv PROVE QueuedIsSole
    OBVIOUS
  <1>1. DOMAIN cache.resolved = 1 .. Len(cache.resolved)
    BY WithinParts, LenProperties DEF SoleInv, AllSeen, Seens
  <1> QED BY <1>1 DEF SoleInv, Sole, SoleQueue, QueuedIsSole

\* A binding waits for the backfill only as the one entry of its pair, and only
\* once, whatever was renewed, expired, purged, evicted or requeued since.
THEOREM QueuedAreSole == Spec => []QueuedIsSole
  BY InitSole, NextSole, SoleInvIsSole, PTL DEF Spec

\* No step replaces an answer by an older one about the same name.
THEOREM NoRegress == Spec => BindingsNeverRegress
  <1> DEFINE Step == \A m \in Macs, ip \in TargetIps :
                 \A e \in cache.bindings[m][ip], n \in cache'.bindings[m][ip] :
                     e.domain = n.domain => n = e \/ n.at >= e.at
  <1>1. SoleInv /\ [Next]_vars => SoleInv' /\ [Step]_cache
    BY NextSole DEF NotOlder
  <1> QED BY <1>1, InitSole, PTL DEF Spec, BindingsNeverRegress

-----------------------------------------------------------------------------
(* Pipeline.                                                                *)

-----------------------------------------------------------------------------
(* The invariant.                                                           *)

\* A name deleted everywhere, while nothing about it was under way, has been
\* seen since at most.
Possible ==
    {s \in Domains \X Times :
        forgotten[s[1]] # None /\ forgotten[s[1]].clean => s[2] >= forgotten[s[1]].at}

ForgottenInv ==
    /\ forgotten \in [Domains -> [at: Times, clean: BOOLEAN] \cup {None}]
    /\ \A d \in Domains : forgotten[d] # None => forgotten[d].at <= now

\* What a report says of a flow's last packet.
ReportedAt(f, t) ==
    /\ t \in Times /\ FirstSeen[f] <= t
    /\ Holder[ClientIp[f]][FirstSeen[f]] = ClientMac[f]
    /\ Holder[ClientIp[f]][t] = ClientMac[f]

\* An attribution of a row was seen and is the flow's device's.
RowOK(Seen, f, row) ==
    row \in FlowRow /\ (row.attr # None => row.attr \in EntriesOf(Seen, ClientMac[f]))

\* It was alive while the flow was.  A stored row that is reported again may show
\* an earlier last packet than it was attributed with.
Alive(f, row) == row.attr # None => row.attr.at <= row.last /\ FirstSeen[f] < row.attr.exp

RowsOK(Seen) ==
    /\ flows \in [FlowIds -> FlowRow \cup {None}] /\ batch \in [FlowIds -> FlowRow \cup {None}]
    /\ unmatched \subseteq {f \in FlowIds : batch[f] # None}
    /\ \A f \in FlowIds :
        /\ flows[f] # None => RowOK(Seen, f, flows[f])
        /\ batch[f] # None =>
            RowOK(Seen, f, batch[f]) /\ Alive(f, batch[f]) /\ ReportedAt(f, batch[f].last)

HandsInv ==
    /\ devices \subseteq Macs
    /\ pc \in [Callers -> Steps]
    /\ asOf \in [Callers -> Times \cup {None}]
    /\ deleting \in Scope \cup {None}
    /\ \A c \in Callers : /\ taken[c] # <<>> => pc[c] = "collect"
                          /\ drained[c] # <<>> => pc[c] = "flush" \/ restoring = c
                          /\ asOf[c] # None <=> pc[c] \in {"learn", "take", "collect", "purge"}
                          /\ c = "collector" /\ batch # NoBatch => pc[c] # "idle"

PipelineInv == Within(Possible) /\ ForgottenInv /\ RowsOK(Possible) /\ HandsInv

LEMMA PossibleSeen ==
    /\ Possible \in Seens
    /\ now \in Times /\ ForgottenInv => \A a \in Answers : <<a.domain, now>> \in Possible
  <1>1. Possible \in Seens
    BY DEF Possible, Seens
  <1>2. ASSUME now \in Times, ForgottenInv, NEW a \in Answers PROVE <<a.domain, now>> \in Possible
    <2>1. a.domain \in Domains
      BY CacheInputs DEF Answer
    <2>2. forgotten[a.domain] # None => now >= forgotten[a.domain].at
      BY <1>2, <2>1, CacheBounds DEF ForgottenInv, Times
    <2> QED BY <1>2, <2>1, <2>2 DEF Possible
  <1> QED BY <1>1, <1>2

LEMMA RowFields ==
    ASSUME NEW Seen \in Seens, NEW f \in FlowIds, NEW row, RowOK(Seen, f, row)
    PROVE  /\ row \in FlowRow /\ row.last \in Times /\ row.last \in Nat
           /\ row.attr # None => /\ row.attr \in EntriesOf(Seen, ClientMac[f])
                                 /\ row.attr.at \in Nat /\ row.attr.exp \in Nat
  <1>1. row \in FlowRow /\ row.last \in Times /\ row.last \in Nat
    BY CacheBounds DEF RowOK, FlowRow, Times
  <1>2. row.attr # None => row.attr \in EntriesOf(Seen, ClientMac[f])
    BY DEF RowOK
  <1> QED BY <1>1, <1>2, EntryFields

-----------------------------------------------------------------------------
(* The cache's part: a step of the pipeline is a step of the cache, leaves  *)
(* the cache alone, or starts the process again.                            *)

LEMMA BatchIsReport ==
    ASSUME NEW Seen, RowsOK(Seen)
    PROVE  [f \in FlowIds |-> IF batch[f] = None THEN None ELSE batch[f].last] \in Reports
  BY DEF RowsOK, ReportedAt, Reports

LEMMA PipelineIsCacheStep ==
    ASSUME NEW Seen, RowsOK(Seen), HandsInv, PipelineNext, ~Restart
    PROVE  [CacheStep]_vars
  <1>1. ASSUME UNCHANGED cacheVars PROVE [CacheStep]_vars
    BY <1>1 DEF cacheVars, vars
  <1>2. CASE WallClock
    BY <1>2 DEF WallClock, CacheStep
  <1>3. CASE \E ip \in ClientIps, a \in Answers : ProxyAnswer(ip, a)
    BY <1>3 DEF ProxyAnswer, CacheStep
  <1>4. CASE DnsTick
    BY <1>1, <1>4 DEF DnsTick
  <1>5. CASE \E last \in Batches(now) : Collect(last)
    BY <1>1, <1>5 DEF Collect
  <1>6. CASE LearnBatch
    BY <1>6, BatchIsReport DEF LearnBatch, CacheStep
  <1>7. CASE \E c \in Callers : TaskStep(c)
    <2>1. PICK c \in Callers : TaskStep(c)
      BY <1>7
    <2>2. CASE TakeObservations(c)
      BY <1>1, <2>2 DEF TakeObservations, CacheStep
    <2>3. CASE ObserveTaken(c)
      BY <1>1, <2>3 DEF ObserveTaken, CacheStep
    <2>4. CASE DropExpired(c)
      BY <2>4 DEF DropExpired, CacheStep
    <2>5. CASE Drain(c)
      BY <1>1, <2>5 DEF Drain, CacheStep
    <2>6. CASE Flush(c)
      BY <2>6 DEF Flush, CacheStep
    <2>7. CASE FlushFails(c)
      BY <2>7 DEF FlushFails, CacheStep
    <2> QED BY <2>1, <2>2, <2>3, <2>4, <2>5, <2>6, <2>7 DEF TaskStep
  <1>8. CASE CacheLoop
    BY <1>8 DEF CacheLoop, CacheStep
  <1>9. CASE \E f \in FlowIds : AttributeFlow(f)
    BY <1>1, <1>9 DEF AttributeFlow
  <1>10. CASE Ingest
    BY <1>1, <1>10 DEF Ingest
  <1>11. CASE \E s \in Deletions : DeleteStored(s)
    BY <1>1, <1>11 DEF DeleteStored
  <1>12. CASE DeleteCached
    <2>1. deleting \in Scope /\ PurgeFor(deleting)
      BY <1>12 DEF DeleteCached, HandsInv
    <2>2. CASE deleting.kind = "device"
      <3>1. deleting.mac \in Macs /\ PurgeDevice(deleting.mac)
        BY <2>1, <2>2 DEF Scope, PurgeFor
      <3> QED BY <3>1 DEF CacheStep
    <2>3. CASE deleting.kind = "domain"
      <3>1. /\ deleting.mac \in Macs \cup {None} /\ deleting.domain \in Domains
            /\ PurgeDomain(deleting.mac, deleting.domain)
        BY <2>1, <2>3 DEF Scope, PurgeFor
      <3> QED BY <3>1 DEF CacheStep
    <2>4. CASE deleting.kind = "range"
      <3>1. /\ deleting.from \in Times /\ deleting.to \in 1 .. MaxTime + 1
            /\ PurgeRange(deleting.from, deleting.to)
        BY <2>1, <2>4 DEF Scope, PurgeFor
      <3> QED BY <3>1 DEF CacheStep
    <2> QED BY <2>1, <2>2, <2>3, <2>4 DEF Scope
  <1> QED BY <1>2, <1>3, <1>4, <1>5, <1>6, <1>7, <1>8, <1>9, <1>10, <1>11, <1>12 DEF PipelineNext

-----------------------------------------------------------------------------
(* What a deletion everywhere leaves behind.                                *)

LEMMA OnlyDeletionForgets == PipelineNext => DeleteCached \/ UNCHANGED forgotten
  BY DEF PipelineNext, WallClock, ProxyAnswer, DnsTick, Collect, LearnBatch, TaskStep,
         TakeObservations, ObserveTaken, DropExpired, Drain, Flush, FlushFails, CacheLoop,
         AttributeFlow, Ingest, DeleteStored, Restart, history

LEMMA ForgottenStep ==
    ASSUME now \in Times, HandsInv, ForgottenInv, PipelineNext PROVE ForgottenInv'
  <1>1. CASE DeleteCached
    <2>1. now' = now /\ deleting \in Scope
      BY <1>1 DEF DeleteCached, PurgeFor, PurgeDevice, PurgeDomain, PurgeRange, Purge, Scope, HandsInv
    <2>2. CASE deleting.kind = "domain" /\ deleting.mac = None
      <3> DEFINE mark == [at |-> now, clean |-> ~UnderWay(deleting.domain)]
      <3>1. mark \in [at: Times, clean: BOOLEAN] /\ mark.at = now
        BY DEF UnderWay
      <3>2. /\ forgotten' = [forgotten EXCEPT ![deleting.domain] = mark]
            /\ deleting.domain \in Domains
        BY <1>1, <2>1, <2>2 DEF DeleteCached, Scope
      <3> HIDE DEF mark
      <3>3. now <= now
        BY CacheBounds DEF Times
      <3> QED BY <2>1, <3>1, <3>2, <3>3 DEF ForgottenInv
    <2>3. CASE ~(deleting.kind = "domain" /\ deleting.mac = None)
      BY <1>1, <2>1, <2>3 DEF DeleteCached, ForgottenInv
    <2> QED BY <2>2, <2>3
  <1>2. CASE UNCHANGED forgotten
    <2>1. now' = now \/ now' = now + 1
      BY DEF PipelineNext, WallClock, Tick, ProxyAnswer, Observe, DnsTick, Collect, LearnBatch,
         LearnFlowIdentities, TaskStep, TakeObservations, Take, ObserveTaken, CollectFrom,
         DropExpired, PurgeExpired, Drain, DrainResolved, Flush, Persisted, FlushFails, BeginRequeue,
         CacheLoop, ResolveKeep, ResolveBind, Resolving, RequeueStep, AttributeFlow,
         Ingest, DeleteStored, DeleteCached, PurgeFor, PurgeDevice, PurgeDomain, PurgeRange, Purge,
         Restart, cacheVars, Scope, HandsInv
    <2>2. ASSUME NEW d \in Domains, forgotten[d] # None PROVE forgotten[d].at <= now'
      BY <2>1, <2>2, CacheBounds DEF ForgottenInv, Times
    <2> QED BY <1>2, <2>2 DEF ForgottenInv
  <1> QED BY <1>1, <1>2, OnlyDeletionForgets

LEMMA EntriesMonotone ==
    ASSUME NEW Seen, NEW More, Seen \subseteq More
    PROVE  /\ ObservationsOf(Seen) \subseteq ObservationsOf(More)
           /\ \A m : EntriesOf(Seen, m) \subseteq EntriesOf(More, m)
           /\ ResolvedOf(Seen) \subseteq ResolvedOf(More)
  BY DEF ObservationsOf, EntriesOf, ResolvedOf

LEMMA WithinMonotone ==
    ASSUME NEW Seen, NEW More, Seen \subseteq More, Within(Seen)'
    PROVE  Within(More)'
  <1>1. /\ Seq(ObservationsOf(Seen)) \subseteq Seq(ObservationsOf(More))
        /\ Seq(ResolvedOf(Seen)) \subseteq Seq(ResolvedOf(More))
    BY EntriesMonotone
  <1>2. BindingsOf(Seen) \subseteq BindingsOf(More) /\ QueuesOf(Seen) \subseteq QueuesOf(More)
    BY <1>1, EntriesMonotone DEF BindingsOf, QueuesOf
  <1>3. CachesOf(Seen) \subseteq CachesOf(More)
    BY <1>1, <1>2 DEF CachesOf
  <1>4. /\ taken' \in [Callers -> Seq(ObservationsOf(More))]
        /\ drained' \in [Callers -> Seq(ResolvedOf(More))]
    BY <1>1 DEF Within
  <1> QED BY <1>1, <1>3, <1>4 DEF Within

\* Nothing about a name, in any of the places.
NoTrace(d) ==
    /\ \A i \in DOMAIN queue : queue[i].domain # d
    /\ \A i \in DOMAIN todo : todo[i].domain # d
    /\ \A c \in Callers : /\ \A i \in DOMAIN taken[c] : taken[c][i].domain # d
                          /\ \A i \in DOMAIN drained[c] : drained[c][i].entry.domain # d
    /\ \A i \in DOMAIN cache.pending : cache.pending[i].domain # d
    /\ \A i \in DOMAIN cache.resolved : cache.resolved[i].entry.domain # d
    /\ \A m \in Macs, ip \in TargetIps : \A e \in cache.bindings[m][ip] : e.domain # d

LEMMA SequenceNarrowed ==
    ASSUME NEW S, NEW T, NEW s \in Seq(S), \A i \in DOMAIN s : s[i] \in T
    PROVE  s \in Seq(T)
  <1>1. s \in [1 .. Len(s) -> S] /\ DOMAIN s = 1 .. Len(s) /\ Len(s) \in Nat
    BY LenProperties
  <1> QED BY <1>1

LEMMA WithinNarrowed ==
    ASSUME NEW Seen \in Seens, NEW d, Within(Seen)', NoTrace(d)'
    PROVE  Within({s \in Seen : s[1] # d})'
  <1> DEFINE Rest == {s \in Seen : s[1] # d}
  <1>1. \A o \in ObservationsOf(Seen) : o.domain # d => o \in ObservationsOf(Rest)
    BY DEF ObservationsOf
  <1>2. \A m : \A e \in EntriesOf(Seen, m) : e.domain # d => e \in EntriesOf(Rest, m)
    BY DEF EntriesOf
  <1>3. \A r \in ResolvedOf(Seen) : r.entry.domain # d => r \in ResolvedOf(Rest)
    BY <1>2 DEF ResolvedOf
  <1> HIDE DEF Rest
  <1>4. ASSUME NEW s \in Seq(ObservationsOf(Seen)), \A i \in DOMAIN s : s[i].domain # d
        PROVE  s \in Seq(ObservationsOf(Rest))
    <2>1. \A i \in DOMAIN s : s[i] \in ObservationsOf(Rest)
      BY <1>1, <1>4, LenProperties
    <2> QED BY <2>1, SequenceNarrowed
  <1>5. ASSUME NEW s \in Seq(ResolvedOf(Seen)), \A i \in DOMAIN s : s[i].entry.domain # d
        PROVE  s \in Seq(ResolvedOf(Rest))
    <2>1. \A i \in DOMAIN s : s[i] \in ResolvedOf(Rest)
      BY <1>3, <1>5, LenProperties
    <2> QED BY <2>1, SequenceNarrowed
  <1>6. queue' \in Seq(ObservationsOf(Rest)) /\ todo' \in Seq(ObservationsOf(Rest))
    BY <1>4 DEF Within, NoTrace
  <1>7. /\ taken' \in [Callers -> Seq(ObservationsOf(Rest))]
        /\ drained' \in [Callers -> Seq(ResolvedOf(Rest))]
    BY <1>4, <1>5 DEF Within, NoTrace
  <1>8. cache'.pending \in Seq(ObservationsOf(Rest)) /\ cache'.resolved \in QueuesOf(Rest)
    BY <1>4, <1>5 DEF Within, CachesOf, QueuesOf, NoTrace
  <1>9. cache'.bindings \in BindingsOf(Rest)
    BY <1>2 DEF Within, CachesOf, BindingsOf, NoTrace
  <1>10. cache' \in CachesOf(Rest)
    BY <1>8, <1>9 DEF Within, CachesOf
  <1>11. Within(Rest)'
    BY <1>6, <1>7, <1>10 DEF Within
  <1> QED BY <1>11 DEF Rest

LEMMA RowsMonotone ==
    ASSUME NEW Seen, NEW More, Seen \subseteq More, RowsOK(Seen)'
    PROVE  RowsOK(More)'
  <1>1. ASSUME NEW f \in FlowIds, NEW row, RowOK(Seen, f, row) PROVE RowOK(More, f, row)
    BY <1>1, EntriesMonotone DEF RowOK
  <1> QED BY <1>1 DEF RowsOK

\* No row and no flow of the batch is attributed to a name.
NoRowOf(d) ==
    \A f \in FlowIds : /\ flows[f] # None /\ flows[f].attr # None => flows[f].attr.domain # d
                       /\ batch[f] # None /\ batch[f].attr # None => batch[f].attr.domain # d

LEMMA RowsNarrowed ==
    ASSUME NEW Seen, NEW d, RowsOK(Seen)', NoRowOf(d)'
    PROVE  RowsOK({s \in Seen : s[1] # d})'
  <1> DEFINE Rest == {s \in Seen : s[1] # d}
  <1>1. \A m : \A e \in EntriesOf(Seen, m) : e.domain # d => e \in EntriesOf(Rest, m)
    BY DEF EntriesOf
  <1> HIDE DEF Rest
  <1>2. ASSUME NEW f \in FlowIds, NEW row, RowOK(Seen, f, row),
               row.attr # None => row.attr.domain # d
        PROVE  RowOK(Rest, f, row)
    BY <1>1, <1>2 DEF RowOK
  <1>3. RowsOK(Rest)'
    BY <1>2 DEF RowsOK, NoRowOf
  <1> QED BY <1>3 DEF Rest

\* The purge of a name everywhere leaves nothing of it in the cache; what is
\* left elsewhere is under way.
LEMMA CleanPurge ==
    ASSUME NEW Seen \in Seens, Within(Seen), NEW d, PurgeDomain(None, d), ~UnderWay(d),
           UNCHANGED <<flows, batch>>
    PROVE  NoTrace(d)' /\ NoRowOf(d)'
  <1>1. /\ cache' = WithoutDomain(cache, None, d) /\ todo = <<>>
        /\ UNCHANGED <<queue, taken, todo, drained>>
    BY DEF PurgeDomain, Purge, Free
  <1>2. cache \in CachesOf(Seen)
    BY DEF Within
  <1>3. \A m \in Macs, ip \in TargetIps : \A e \in cache'.bindings[m][ip] : e.domain # d
    BY <1>1 DEF WithoutDomain
  <1>4. \A i \in DOMAIN cache'.pending : cache'.pending[i].domain # d
    <2> DEFINE at == {i \in DOMAIN cache.pending :
                         ~(/\ cache.pending[i].domain = d
                           /\ None = None \/ Candidates(cache, cache.pending[i]) = {None})}
               Others == {o \in ObservationsOf(Seen) : o.domain # d}
    <2>1. cache'.pending = Kept(cache.pending, at)
      BY <1>1 DEF WithoutDomain, Where
    <2>2. cache.pending \in Seq(ObservationsOf(Seen))
      BY <1>2 DEF CachesOf
    <2>3. at \in SUBSET (DOMAIN cache.pending) /\ \A i \in at : cache.pending[i] \in Others
      BY <2>2, LenProperties
    <2> HIDE DEF at
    <2>4. Kept(cache.pending, at) \in Seq(Others)
      BY <2>2, <2>3, KeptWithin
    <2>5. \A i \in DOMAIN cache'.pending : cache'.pending[i] \in Others
      BY <2>1, <2>4, LenProperties
    <2> QED BY <2>5
  <1>5. \A i \in DOMAIN cache'.resolved : cache'.resolved[i].entry.domain # d
    <2> DEFINE at == {i \in DOMAIN cache.resolved :
                         ~(/\ None \in {cache.resolved[i].mac, None}
                           /\ cache.resolved[i].entry.domain = d)}
               Others == {r \in ResolvedOf(Seen) : r.entry.domain # d}
    <2>1. cache'.resolved = Kept(cache.resolved, at)
      BY <1>1 DEF WithoutDomain, Where
    <2>2. cache.resolved \in Seq(ResolvedOf(Seen))
      BY <1>2 DEF CachesOf, QueuesOf
    <2>3. at \in SUBSET (DOMAIN cache.resolved) /\ \A i \in at : cache.resolved[i] \in Others
      BY <2>2, LenProperties
    <2> HIDE DEF at
    <2>4. Kept(cache.resolved, at) \in Seq(Others)
      BY <2>2, <2>3, KeptWithin
    <2>5. \A i \in DOMAIN cache'.resolved : cache'.resolved[i] \in Others
      BY <2>1, <2>4, LenProperties
    <2> QED BY <2>5
  <1>6. /\ \A i \in DOMAIN queue : queue[i].domain # d
        /\ \A c \in Callers : /\ \A i \in DOMAIN taken[c] : taken[c][i].domain # d
                              /\ \A i \in DOMAIN drained[c] : drained[c][i].entry.domain # d
    BY DEF UnderWay, ToSet
  <1>7. DOMAIN todo = {}
    BY <1>1
  <1>8. NoTrace(d)'
    BY <1>1, <1>3, <1>4, <1>5, <1>6, <1>7 DEF NoTrace
  <1>9. NoRowOf(d)
    BY DEF UnderWay, NoRowOf
  <1> QED BY <1>8, <1>9 DEF NoRowOf

\* Whatever the deletion was, what all places and rows hold is still possible.
LEMMA DeletionWithin ==
    ASSUME PipelineInv, DeleteCached
    PROVE  Within(Possible)' /\ RowsOK(Possible)'
  <1>1. PICK P \in Seens : P = Possible
    BY PossibleSeen
  <1>2. PICK Q : Q = Possible'
    OBVIOUS
  <1>3. Within(P) /\ RowsOK(P) /\ HandsInv /\ ForgottenInv
    BY <1>1 DEF PipelineInv
  <1>4. deleting \in Scope /\ PurgeFor(deleting) /\ UNCHANGED <<flows, batch, unmatched>>
    BY <1>3 DEF DeleteCached, HandsInv, repository, work
  <1>5. Within(P)'
    <2>1. \/ \E m : PurgeDevice(m)
          \/ \E selected, dom : PurgeDomain(selected, dom)
          \/ \E from, to : PurgeRange(from, to)
      BY <1>4 DEF PurgeFor, Scope
    <2> QED BY <1>3, <2>1, PurgeStepsWithin
  <1>6. RowsOK(P)'
    BY <1>3, <1>4 DEF RowsOK
  <1>7. ASSUME P \subseteq Q PROVE Within(Q)' /\ RowsOK(Q)'
    <2>1. Within(Q)'
      BY <1>5, <1>7, WithinMonotone
    <2>2. RowsOK(Q)'
      BY <1>6, <1>7, RowsMonotone
    <2> QED BY <2>1, <2>2
  <1>8. CASE ~(deleting.kind = "domain" /\ deleting.mac = None)
    <2>1. Q = P
      BY <1>1, <1>2, <1>8 DEF DeleteCached, Possible
    <2> QED BY <1>2, <1>7, <2>1 DEF Within, RowsOK
  <1>9. CASE deleting.kind = "domain" /\ deleting.mac = None
    <2> DEFINE d == deleting.domain
               mark == [at |-> now, clean |-> ~UnderWay(d)]
    <2>1. d \in Domains /\ PurgeDomain(None, d)
      BY <1>4, <1>9 DEF Scope, PurgeFor
    <2>2. forgotten' = [forgotten EXCEPT ![d] = mark]
      BY <1>9 DEF DeleteCached
    <2>3. forgotten \in [Domains -> [at: Times, clean: BOOLEAN] \cup {None}]
      BY <1>3 DEF ForgottenInv
    <2>4. CASE UnderWay(d)
      <3>1. P \subseteq Q
        BY <1>1, <1>2, <2>2, <2>3, <2>4 DEF Possible
      <3> QED BY <1>2, <1>7, <3>1 DEF Within, RowsOK
    <2>5. CASE ~UnderWay(d)
      <3>2. PICK x : x = d
        OBVIOUS
      <3>1. PurgeDomain(None, x) /\ ~UnderWay(x) /\ UNCHANGED <<flows, batch>>
        BY <1>4, <2>1, <2>5, <3>2
      <3>3. NoTrace(x)' /\ NoRowOf(x)'
        BY <1>3, <3>1, CleanPurge
      <3>4. Within({s \in P : s[1] # x})' /\ RowsOK({s \in P : s[1] # x})'
        BY <1>5, <1>6, <3>3, WithinNarrowed, RowsNarrowed
      <3>5. {s \in P : s[1] # x} \subseteq Q
        BY <1>1, <1>2, <2>2, <2>3, <3>2 DEF Possible
      <3>6. Within(Q)' /\ RowsOK(Q)'
        BY <3>4, <3>5, WithinMonotone, RowsMonotone
      <3> QED BY <1>2, <3>6 DEF Within, RowsOK
    <2> QED BY <2>4, <2>5
  <1> QED BY <1>8, <1>9

-----------------------------------------------------------------------------
(* The rows: backfilled, attributed and stored, erased.                     *)

LEMMA CollectRows ==
    ASSUME NEW Seen \in Seens, RowsOK(Seen), NEW t, NEW last \in Batches(t), Collect(last)
    PROVE  RowsOK(Seen)'
  <1>1. flows' = flows /\ unmatched' = {f \in FlowIds : last[f] # None}
    BY DEF Collect, repository
  <1>2. batch' = [f \in FlowIds |->
            IF last[f] = None THEN None ELSE [last |-> last[f], attr |-> None]]
    BY DEF Collect
  <1>3. ASSUME NEW f \in FlowIds, last[f] # None
        PROVE  LET row == [last |-> last[f], attr |-> None]
               IN  /\ row \in FlowRow /\ row # None
                   /\ RowOK(Seen, f, row) /\ Alive(f, row) /\ ReportedAt(f, row.last)
    <2>1. last[f] \in Times
      BY <1>3 DEF Batches
    <2>2. ReportedAt(f, last[f])
      BY <1>3, <2>1 DEF Batches, ReportedAt
    <2> QED BY <2>1, <2>2, PipelineNone DEF FlowRow, RowOK, Alive
  <1>4. batch' \in [FlowIds -> FlowRow \cup {None}]
    BY <1>2, <1>3
  <1>5. ASSUME NEW f \in FlowIds, batch'[f] # None
        PROVE  /\ RowOK(Seen, f, batch'[f]) /\ Alive(f, batch'[f])
               /\ ReportedAt(f, batch'[f].last)
    BY <1>2, <1>3, <1>5
  <1>6. unmatched' \subseteq {f \in FlowIds : batch'[f] # None}
    BY <1>1, <1>2, <1>3
  <1> QED BY <1>1, <1>4, <1>5, <1>6 DEF RowsOK

LEMMA StrongerIsOneOf ==
    ASSUME NEW a, NEW b PROVE Stronger(a, b) \in {a, b}
  BY DEF Stronger

\* A backfill reaches a row only from a binding of its pair that was alive
\* while the flow was.
LEMMA FlushedRow ==
    ASSUME NEW Seen \in Seens, Within(Seen), RowsOK(Seen), NEW c \in Callers, Flush(c),
           NEW f \in FlowIds
    PROVE  \/ flows'[f] = flows[f]
           \/ /\ flows[f] # None /\ flows'[f] \in FlowRow /\ RowOK(Seen, f, flows'[f])
              /\ flows'[f].attr # flows[f].attr => Alive(f, flows'[f])
  <1> DEFINE hits == {b \in ToSet(drained[c]) : AppliesTo(b, f)}
             b == CHOOSE b \in hits : TRUE
  <1>1. ToSet(drained[c]) \subseteq ResolvedOf(Seen)
    <2>1. drained[c] \in Seq(ResolvedOf(Seen))
      BY DEF Within
    <2> QED BY <2>1, LenProperties DEF ToSet
  <1>2. flows'[f] = IF hits = {} THEN flows[f]
                    ELSE [flows[f] EXCEPT !.attr = Stronger(@, b.entry)]
    BY DEF Flush, Backfilled
  <1>3. CASE hits # {}
    <2>1. b \in ResolvedOf(Seen) /\ AppliesTo(b, f)
      BY <1>1, <1>3
    <2> HIDE DEF b, hits
    <2>2. /\ flows[f] # None /\ ClientMac[f] = b.mac
          /\ flows[f].last >= b.entry.at /\ FirstSeen[f] < b.entry.exp
      BY <2>1 DEF AppliesTo
    <2>3. /\ RowOK(Seen, f, flows[f]) /\ flows[f] \in FlowRow /\ flows[f].last \in Nat
      BY <2>2, RowFields DEF RowsOK
    <2>4. b.entry \in EntriesOf(Seen, ClientMac[f]) /\ b.entry.at \in Nat
      BY <2>1, <2>2, EntryFields DEF ResolvedOf
    <2>5. PICK a : a = Stronger(flows[f].attr, b.entry) /\ a \in {flows[f].attr, b.entry}
      BY StrongerIsOneOf
    <2>6. flows'[f] = [last |-> flows[f].last, attr |-> a]
      BY <1>2, <1>3, <2>3, <2>5 DEF FlowRow
    <2>7. a \in Entry \cup {None} /\ (a # None => a \in EntriesOf(Seen, ClientMac[f]))
      BY <2>3, <2>4, <2>5 DEF RowOK, EntriesOf, FlowRow
    <2>8. flows'[f] \in FlowRow
      BY <2>3, <2>6, <2>7 DEF FlowRow
    <2>9. RowOK(Seen, f, flows'[f])
      BY <2>6, <2>7, <2>8 DEF RowOK
    <2>10. a # flows[f].attr => a.at <= flows[f].last /\ FirstSeen[f] < a.exp
      BY <2>2, <2>3, <2>4, <2>5
    <2> QED BY <2>2, <2>6, <2>8, <2>9, <2>10 DEF Alive
  <1>4. CASE hits = {}
    BY <1>2, <1>4
  <1> QED BY <1>3, <1>4

LEMMA FlushRows ==
    ASSUME NEW Seen \in Seens, Within(Seen), RowsOK(Seen), NEW c \in Callers, Flush(c)
    PROVE  RowsOK(Seen)'
  <1>1. UNCHANGED <<batch, unmatched>> /\ flows' = [f \in FlowIds |-> flows'[f]]
    BY DEF Flush, Backfilled, work
  <1>2. \A f \in FlowIds :
            /\ flows'[f] \in FlowRow \cup {None}
            /\ flows'[f] # None => RowOK(Seen, f, flows'[f])
    BY FlushedRow DEF RowsOK
  <1>3. flows' \in [FlowIds -> FlowRow \cup {None}]
    BY <1>1, <1>2
  <1> QED BY <1>1, <1>2, <1>3 DEF RowsOK

\* attribute_flow takes an entry of the flow's own device whose lifetime the
\* flow overlaps.
LEMMA AttributeRows ==
    ASSUME NEW Seen \in Seens, Within(Seen), RowsOK(Seen), NEW f \in FlowIds, AttributeFlow(f)
    PROVE  RowsOK(Seen)'
  <1> DEFINE hits == Matching(cache, f, DestIp[f], batch[f].last)
             e == CHOOSE e \in hits : TRUE
  <1>1. flows' = flows /\ unmatched' = unmatched \ {f} /\ f \in unmatched
    BY DEF AttributeFlow, repository
  <1>2. batch' = IF Cardinality(hits) # 1 THEN batch ELSE [batch EXCEPT ![f].attr = e]
    BY DEF AttributeFlow
  <1>3. CASE Cardinality(hits) # 1
    BY <1>1, <1>2, <1>3 DEF RowsOK
  <1>4. CASE Cardinality(hits) = 1
    <2>1. ClientMac[f] \in Macs /\ DestIp[f] \in TargetIps
      BY CacheIdentities, PipelineAssumption
    <2>2. cache.bindings[ClientMac[f]][DestIp[f]] \subseteq EntriesOf(Seen, ClientMac[f])
      BY <2>1 DEF Within, CachesOf, BindingsOf
    <2>3. hits # {}
      BY <1>4, FS_EmptySet
    <2>4. /\ e \in EntriesOf(Seen, ClientMac[f])
          /\ e.at <= batch[f].last /\ FirstSeen[f] < e.exp
      BY <2>2, <2>3 DEF Matching
    <2> HIDE DEF e, hits
    <2>5. batch[f] # None /\ batch[f] \in FlowRow /\ ReportedAt(f, batch[f].last)
      BY <1>1 DEF RowsOK
    <2> PICK row : row = [last |-> batch[f].last, attr |-> e]
      OBVIOUS
    <2>6. row \in FlowRow /\ RowOK(Seen, f, row) /\ Alive(f, row) /\ row.last = batch[f].last
      BY <2>4, <2>5 DEF FlowRow, EntriesOf, RowOK, Alive
    <2>7. row # None
      BY <2>6, PipelineNone
    <2>8. batch' = [batch EXCEPT ![f] = row]
      <3>1. [batch[f] EXCEPT !.attr = e] = row
        BY <2>5 DEF FlowRow
      <3> QED BY <1>2, <1>4, <3>1
    <2>9. /\ batch'[f] = row /\ batch' \in [FlowIds -> FlowRow \cup {None}]
          /\ \A g \in FlowIds \ {f} : batch'[g] = batch[g]
      BY <2>6, <2>8 DEF RowsOK
    <2> QED BY <1>1, <2>5, <2>6, <2>7, <2>9 DEF RowsOK
  <1> QED BY <1>3, <1>4

\* A stored row keeps the stronger attribution, or takes the one of the batch.
LEMMA IngestedRow ==
    ASSUME NEW Seen \in Seens, RowsOK(Seen), flows' = Upserted(batch), NEW f \in FlowIds
    PROVE  \/ flows'[f] = flows[f]
           \/ /\ flows'[f] \in FlowRow /\ RowOK(Seen, f, flows'[f])
              /\ \/ Alive(f, flows'[f])
                 \/ flows[f] # None /\ flows'[f].attr = flows[f].attr
  <1>1. CASE batch[f] = None
    BY <1>1 DEF Upserted
  <1>2. CASE batch[f] # None
    <2> DEFINE old == IF flows[f] = None THEN None ELSE flows[f].attr
    <2>1. RowOK(Seen, f, batch[f]) /\ Alive(f, batch[f]) /\ batch[f] \in FlowRow
      BY <1>2 DEF RowsOK
    <2>2. old \in Entry \cup {None} /\ (old # None => old \in EntriesOf(Seen, ClientMac[f]))
      BY DEF RowsOK, RowOK, FlowRow
    <2>3. old # None => flows[f] # None /\ old = flows[f].attr
      OBVIOUS
    <2>4. PICK a : a = Stronger(old, batch[f].attr) /\ a \in {old, batch[f].attr}
      BY StrongerIsOneOf
    <2>5. flows'[f] = [last |-> batch[f].last, attr |-> a]
      BY <1>2, <2>4 DEF Upserted
    <2> HIDE DEF old
    <2>6. a \in Entry \cup {None} /\ (a # None => a \in EntriesOf(Seen, ClientMac[f]))
      BY <2>1, <2>2, <2>4 DEF RowOK, FlowRow
    <2>7. flows'[f] \in FlowRow
      BY <2>1, <2>5, <2>6 DEF FlowRow
    <2>8. RowOK(Seen, f, flows'[f])
      BY <2>5, <2>6, <2>7 DEF RowOK
    <2>9. CASE a = batch[f].attr \/ a = None
      BY <2>1, <2>5, <2>7, <2>8, <2>9 DEF Alive
    <2>10. CASE a = old /\ a # None
      BY <2>3, <2>5, <2>7, <2>8, <2>10
    <2> QED BY <2>4, <2>9, <2>10
  <1> QED BY <1>1, <1>2

LEMMA IngestRows ==
    ASSUME NEW Seen \in Seens, RowsOK(Seen), Ingest
    PROVE  RowsOK(Seen)'
  <1>1. batch' = NoBatch /\ (\A f \in FlowIds : batch'[f] = None) /\ unmatched' = {}
    BY DEF Ingest, NoBatch
  <1>2. batch' \in [FlowIds -> FlowRow \cup {None}]
    BY <1>1 DEF NoBatch
  <1>3. CASE UNCHANGED repository
    BY <1>1, <1>2, <1>3 DEF repository, RowsOK
  <1>4. CASE flows' = Upserted(batch)
    <2>1. \A f \in FlowIds :
              /\ flows'[f] \in FlowRow \cup {None}
              /\ flows'[f] # None => RowOK(Seen, f, flows'[f])
      BY <1>4, IngestedRow DEF RowsOK
    <2>2. flows' = [f \in FlowIds |-> flows'[f]]
      BY <1>4 DEF Upserted
    <2>3. flows' \in [FlowIds -> FlowRow \cup {None}]
      BY <2>1, <2>2
    <2> QED BY <1>1, <1>2, <2>1, <2>3 DEF RowsOK
  <1> QED BY <1>3, <1>4 DEF Ingest

\* An erased row is gone, has lost its name, or is what it was.
LEMMA LeftRow ==
    ASSUME NEW Seen \in Seens, RowsOK(Seen), NEW s \in Scope, NEW f \in FlowIds
    PROVE  \/ LeftOf(s, f) \in {None, flows[f]}
           \/ /\ LeftOf(s, f) \in FlowRow /\ LeftOf(s, f).attr = None
              /\ RowOK(Seen, f, LeftOf(s, f))
  <1>1. CASE flows[f] = None
    BY <1>1 DEF LeftOf
  <1>2. CASE flows[f] # None
    <2>1. flows[f] \in FlowRow
      BY <1>2 DEF RowsOK
    <2> DEFINE bare == [flows[f] EXCEPT !.attr = None]
    <2>2. bare = [last |-> flows[f].last, attr |-> None]
      BY <2>1 DEF FlowRow
    <2>3. bare \in FlowRow /\ RowOK(Seen, f, bare) /\ bare.attr = None
      BY <2>1, <2>2 DEF FlowRow, RowOK
    <2>4. LeftOf(s, f) \in {None, flows[f], bare}
      <3>1. CASE s.kind = "device"
        BY <1>2, <3>1 DEF LeftOf
      <3>2. CASE s.kind = "domain"
        BY <1>2, <3>2 DEF LeftOf
      <3>3. CASE s.kind = "range"
        BY <1>2, <3>3 DEF LeftOf
      <3> QED BY <3>1, <3>2, <3>3 DEF Scope
    <2> HIDE DEF bare
    <2> QED BY <2>3, <2>4
  <1> QED BY <1>1, <1>2

LEMMA DeleteRows ==
    ASSUME NEW Seen \in Seens, RowsOK(Seen), NEW s \in Scope, DeleteStored(s)
    PROVE  RowsOK(Seen)'
  <1>1. UNCHANGED <<batch, unmatched>> /\ flows' = Erased(s)
    BY DEF DeleteStored, work
  <1>2. \A f \in FlowIds : /\ flows'[f] \in FlowRow \cup {None}
                           /\ flows'[f] # None => RowOK(Seen, f, flows'[f])
    BY <1>1, LeftRow DEF Erased, RowsOK
  <1>3. flows' \in [FlowIds -> FlowRow \cup {None}]
    BY <1>1, <1>2 DEF Erased
  <1> QED BY <1>1, <1>2, <1>3 DEF RowsOK

LEMMA StepRows ==
    ASSUME NEW Seen \in Seens, Within(Seen), RowsOK(Seen), PipelineNext, ~DeleteCached
    PROVE  RowsOK(Seen)'
  <1>1. ASSUME UNCHANGED <<flows, work>> PROVE RowsOK(Seen)'
    BY <1>1 DEF RowsOK, work
  <1>2. CASE Restart
    BY <1>2 DEF Restart, RowsOK, NoBatch, repository
  <1>3. CASE \E c \in Callers : TaskStep(c)
    BY <1>1, <1>3, FlushRows DEF TaskStep, TakeObservations, ObserveTaken, DropExpired, Drain,
       FlushFails, repository
  <1>4. CASE WallClock \/ DnsTick \/ LearnBatch \/ CacheLoop
             \/ \E ip \in ClientIps, a \in Answers : ProxyAnswer(ip, a)
    BY <1>1, <1>4 DEF WallClock, DnsTick, LearnBatch, CacheLoop, ProxyAnswer, repository
  <1>5. CASE \E s \in Deletions : DeleteStored(s)
    BY <1>5, DeleteRows, PipelineAssumption
  <1> QED BY <1>2, <1>3, <1>4, <1>5, CollectRows, AttributeRows, IngestRows DEF PipelineNext

-----------------------------------------------------------------------------
(* What the tasks hold between two calls.                                   *)

LEMMA RestoredLast ==
    ASSUME NEW Seen \in Seens, Within(Seen), RequeueStep
    PROVE  /\ restoring \in Callers
           /\ restoring' = restoring \/ (restoring' = None /\ drained'[restoring] = <<>>)
           /\ \A c \in Callers : c # restoring => drained'[c] = drained[c]
           /\ taken' = taken
  <1>1. /\ restoring \in Callers /\ drained \in [Callers -> Seq(ResolvedOf(Seen))]
        /\ drained[restoring] # <<>>
    BY DEF RequeueStep, Within
  <1>2. /\ drained' = [drained EXCEPT ![restoring] = Tail(drained[restoring])]
        /\ restoring' = IF Len(drained[restoring]) = 1 THEN None ELSE restoring
        /\ taken' = taken
    BY <1>1 DEF RequeueStep
  <1>3. Len(drained[restoring]) = 1 => Tail(drained[restoring]) = <<>>
    <2> SUFFICES ASSUME Len(drained[restoring]) = 1 PROVE Tail(drained[restoring]) = <<>>
      OBVIOUS
    <2>1. /\ Tail(drained[restoring]) \in Seq(ResolvedOf(Seen))
          /\ Len(Tail(drained[restoring])) = Len(drained[restoring]) - 1
      BY <1>1, HeadTailProperties
    <2>2. Len(Tail(drained[restoring])) = 0
      BY <2>1
    <2> QED BY <2>1, <2>2, EmptySeq
  <1> QED BY <1>1, <1>2, <1>3

LEMMA HandsStep ==
    ASSUME NEW Seen \in Seens, Within(Seen), RowsOK(Seen), HandsInv, PipelineNext
    PROVE  HandsInv'
  <1> USE CacheNone, PipelineNone
  <1>0. /\ now \in Times /\ taken \in [Callers -> Seq(ObservationsOf(Seen))]
        /\ drained \in [Callers -> Seq(ResolvedOf(Seen))]
    BY DEF Within
  <1>1. CASE WallClock
    BY <1>1 DEF WallClock, Tick, repository, work, HandsInv
  <1>2. CASE \E ip \in ClientIps, a \in Answers : ProxyAnswer(ip, a)
    BY <1>2 DEF ProxyAnswer, Observe, repository, work, HandsInv
  <1>3. CASE DnsTick
    BY <1>0, <1>3 DEF DnsTick, BeginRound, work, At, Goto, Steps, cacheVars, repository, HandsInv
  <1>4. CASE \E last \in Batches(now) : Collect(last)
    BY <1>0, <1>4 DEF Collect, BeginRound, At, Goto, Steps, cacheVars, repository, HandsInv
  <1>5. CASE LearnBatch
    BY <1>5 DEF LearnBatch, LearnFlowIdentities, At, Goto, Steps, repository, work, HandsInv
  <1>6. CASE \E c \in Callers : TaskStep(c)
    <2>1. PICK c \in Callers : TaskStep(c)
      BY <1>6
    <2>2. CASE TakeObservations(c)
      BY <1>0, <2>2 DEF TakeObservations, Take, work, At, Goto, Steps, cacheVars, repository, HandsInv
    <2>3. CASE ObserveTaken(c)
      BY <1>0, <2>3 DEF ObserveTaken, CollectFrom, work, At, Goto, Steps, cacheVars, repository, HandsInv
    <2>4. CASE DropExpired(c)
      BY <2>4 DEF DropExpired, PurgeExpired, work, At, Goto, Steps, repository, HandsInv
    <2>5. CASE Drain(c)
      <3>1. CASE cache.resolved = <<>>
        BY ZenonT(40), <1>0, <2>5, <3>1 DEF Drain, AfterFlush, work, At, Goto, Steps, cacheVars, repository, HandsInv
      <3>2. CASE cache.resolved # <<>>
        BY ZenonT(40), <1>0, <2>5, <3>2 DEF Drain, DrainResolved, work, At, Goto, Steps, repository, HandsInv
      <3> QED BY <3>1, <3>2
    <2>6. CASE Flush(c)
      BY <1>0, <2>6 DEF Flush, Persisted, AfterFlush, work, At, Goto, Steps, HandsInv
    <2>7. CASE FlushFails(c)
      BY <1>0, <2>7 DEF FlushFails, BeginRequeue, AfterFlush, work, At, Free, Goto, Steps, repository, HandsInv
    <2> QED BY <2>1, <2>2, <2>3, <2>4, <2>5, <2>6, <2>7 DEF TaskStep
  <1>7. CASE CacheLoop
    <2>1. CASE RequeueStep
      BY <1>7, <2>1, RestoredLast DEF CacheLoop, repository, work, HandsInv
    <2>2. CASE ~RequeueStep
      BY <1>7, <2>2 DEF CacheLoop, ResolveKeep, ResolveBind, Resolving, repository, work, HandsInv
    <2> QED BY <2>1, <2>2
  <1>8. CASE \E f \in FlowIds : AttributeFlow(f)
    BY <1>8 DEF AttributeFlow, At, cacheVars, repository, HandsInv
  <1>9. CASE Ingest
    <2>1. devices' \subseteq Macs
      BY <1>9, CacheIdentities DEF Ingest, repository, HandsInv
    <2> QED BY <1>9, <2>1 DEF Ingest, At, Goto, Steps, cacheVars, HandsInv
  <1>10. CASE \E s \in Deletions : DeleteStored(s)
    BY <1>10, PipelineAssumption DEF DeleteStored, cacheVars, work, HandsInv
  <1>11. CASE DeleteCached
    BY <1>11 DEF DeleteCached, PurgeFor, PurgeDevice, PurgeDomain, PurgeRange, Purge, Scope,
       repository, work, HandsInv
  <1>12. CASE Restart
    BY <1>12 DEF Restart, Steps, repository, HandsInv
  <1> QED BY <1>1, <1>2, <1>3, <1>4, <1>5, <1>6, <1>7, <1>8, <1>9, <1>10, <1>11, <1>12 DEF PipelineNext

-----------------------------------------------------------------------------
(* The invariant holds, and the properties with it.                         *)

\* A restart empties everything in memory.
LEMMA RestartWithin ==
    ASSUME NEW Seen \in Seens, Within(Seen), Restart PROVE Within(Seen)'
  <1>1. EmptyCache.bindings \in BindingsOf(Seen) /\ EmptyCache.identities \in IdentitiesTrue
    BY DEF EmptyCache, BindingsOf, IdentitiesTrue
  <1>2. <<>> \in QueuesOf(Seen) /\ <<>> \in Seq(ObservationsOf(Seen)) /\ <<>> \in Seq(ResolvedOf(Seen))
    BY CacheBounds DEF QueuesOf
  <1>3. EmptyCache \in CachesOf(Seen) /\ EmptyCache.pending = <<>>
    BY <1>1, <1>2 DEF EmptyCache, CachesOf
  <1> QED BY <1>2, <1>3, CacheBounds DEF Restart, Within

LEMMA StepWithin ==
    ASSUME PipelineInv, PipelineNext, ~DeleteCached
    PROVE  Within(Possible)' /\ RowsOK(Possible)'
  <1>1. PICK P \in Seens : P = Possible
    BY PossibleSeen
  <1>2. Possible' = P
    BY <1>1, OnlyDeletionForgets DEF Possible
  <1>3. /\ Within(P) /\ RowsOK(P) /\ HandsInv
        /\ \A a \in Answers : <<a.domain, now>> \in P
    BY <1>1, PossibleSeen DEF PipelineInv, Within
  <1>4. Within(P)'
    BY <1>3, RestartWithin, PipelineIsCacheStep, StepsWithin
  <1>5. RowsOK(P)'
    BY <1>3, StepRows
  <1> QED BY <1>2, <1>4, <1>5 DEF Within, RowsOK

LEMMA PipelineInitInv == PipelineInit => PipelineInv
  <1> SUFFICES ASSUME PipelineInit PROVE PipelineInv
    OBVIOUS
  <1>1. Within(Possible)
    BY InitWithin, PossibleSeen DEF PipelineInit
  <1>2. ForgottenInv
    BY DEF PipelineInit, ForgottenInv
  <1>3. RowsOK(Possible)
    BY DEF PipelineInit, NoBatch, RowsOK
  <1>4. HandsInv
    BY DEF PipelineInit, Init, Steps, HandsInv
  <1> QED BY <1>1, <1>2, <1>3, <1>4 DEF PipelineInv

LEMMA PipelineNextInv == PipelineInv /\ [PipelineNext]_pipeline => PipelineInv'
  <1> SUFFICES ASSUME PipelineInv, [PipelineNext]_pipeline PROVE PipelineInv'
    OBVIOUS
  <1>1. CASE PipelineNext
    <2>1. Within(Possible)' /\ RowsOK(Possible)'
      BY <1>1, DeletionWithin, StepWithin
    <2>2. ForgottenInv'
      BY <1>1, ForgottenStep DEF PipelineInv, Within
    <2>3. HandsInv'
      BY <1>1, PossibleSeen, HandsStep DEF PipelineInv
    <2> QED BY <2>1, <2>2, <2>3 DEF PipelineInv
  <1>2. CASE UNCHANGED pipeline
    BY <1>2 DEF pipeline, cacheVars, repository, work, counters, history, PipelineInv, Within,
       Possible, ForgottenInv, RowsOK, HandsInv
  <1> QED BY <1>1, <1>2

LEMMA PipelineInvariant == PipelineSpec => []PipelineInv
  BY PipelineInitInv, PipelineNextInv, PTL DEF PipelineSpec

\* The tasks hold observations, bindings and batches only while the call that
\* needs them is due, across failing writes, requeues and restarts (main.rs).
THEOREM PipelineTypeCorrect == PipelineSpec => []PipelineTypeOK
  <1>1. PipelineInv => PipelineTypeOK
    BY DEF PipelineInv, HandsInv, RowsOK, PipelineTypeOK
  <1> QED BY <1>1, PipelineInvariant, PTL

\* The cache follows the leases also when the two loops and the deletion
\* handlers drive it, and a restart empties it.
THEOREM PipelineLeasesFollowed == PipelineSpec => []BindingsFollowLease
  <1>1. PipelineInv => BindingsFollowLease
    BY WithinFollowsLease, PossibleSeen DEF PipelineInv
  <1> QED BY <1>1, PipelineInvariant, PTL

\* The name stored with a flow was asked for around a time at which the flow's
\* device held a LAN address, whichever loop brought it there and whatever was
\* deleted, lost or retried in between.
THEOREM StoredFollowsLeases == PipelineSpec => []StoredFollowsLease
  <1>1. PipelineInv => StoredFollowsLease
    <2> SUFFICES ASSUME PipelineInv, NEW f \in FlowIds, flows[f] # None, flows[f].attr # None
                 PROVE  HeldAround(ClientMac[f], flows[f].attr.at)
      BY DEF StoredFollowsLease
    <2>1. RowOK(Possible, f, flows[f])
      BY DEF PipelineInv, RowsOK
    <2> QED BY <2>1, PossibleSeen, RowFields, EntryFields
  <1> QED BY <1>1, PipelineInvariant, PTL

\* A row is given a name only if the name was alive at some time of the flow, as
\* the row stands from then on, by whichever loop and whatever the others did
\* since the flow was matched or the binding drained.
THEOREM StoredAlive == PipelineSpec => StoredWithinLifetime
  <1> DEFINE Taken == \A f \in FlowIds : TakesName(f) =>
                 flows'[f].attr.at <= flows'[f].last /\ FirstSeen[f] < flows'[f].attr.exp
  <1>1. ASSUME PipelineInv, [PipelineNext]_pipeline PROVE [Taken]_flows
    <2>1. PICK P \in Seens : Within(P) /\ RowsOK(P)
      BY <1>1, PossibleSeen DEF PipelineInv
    <2>2. ASSUME NEW c \in Callers, Flush(c) PROVE Taken
      BY <2>1, <2>2, FlushedRow DEF TakesName, Alive
    <2>3. ASSUME flows' = Upserted(batch) PROVE Taken
      BY <2>1, <2>3, IngestedRow DEF TakesName, Alive
    <2>4. ASSUME NEW s \in Deletions, DeleteStored(s) PROVE Taken
      <3>1. s \in Scope /\ flows' = [f \in FlowIds |-> LeftOf(s, f)]
        BY <2>4, PipelineAssumption DEF DeleteStored, Erased
      <3> QED BY <2>1, <3>1, LeftRow DEF TakesName
    <2>5. CASE UNCHANGED pipeline
      BY <2>5 DEF pipeline, repository
    <2> QED
      BY <1>1, <2>2, <2>3, <2>4, <2>5
         DEF PipelineNext, WallClock, ProxyAnswer, DnsTick, Collect, LearnBatch, TaskStep,
             TakeObservations, ObserveTaken, DropExpired, Drain, FlushFails, CacheLoop,
             AttributeFlow, Ingest, DeleteCached, Restart, repository
  <1> QED BY <1>1, PipelineInvariant, PTL DEF PipelineSpec, StoredWithinLifetime

\* A name deleted everywhere while nothing about it was under way comes back
\* only with an answer seen later: the purge of the cache leaves nothing.
THEOREM CleanDeletionFinal == PipelineSpec => []CleanDeletionIsFinal
  <1>1. PipelineInv => CleanDeletionIsFinal
    <2> SUFFICES ASSUME PipelineInv, NEW d \in Domains, NEW f \in FlowIds,
                        forgotten[d] # None, forgotten[d].clean,
                        flows[f] # None, flows[f].attr # None, flows[f].attr.domain = d
                 PROVE  flows[f].attr.at >= forgotten[d].at
      BY DEF CleanDeletionIsFinal
    <2>1. RowOK(Possible, f, flows[f])
      BY DEF PipelineInv, RowsOK
    <2>2. <<d, flows[f].attr.at>> \in Possible
      BY <2>1, PossibleSeen, RowFields, EntryFields
    <2> QED BY <2>2 DEF Possible
  <1> QED BY <1>1, PipelineInvariant, PTL
=============================================================================
