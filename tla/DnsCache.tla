------------------------------ MODULE DnsCache ------------------------------
(***************************************************************************)
(* The DNS attribution cache of src/src/dns.rs: observations of the proxy  *)
(* wait until the flows seen by a collector tell which device held the     *)
(* client address, then become bindings (device, target) -> domain, and a  *)
(* binding that is the only one of its pair is queued for the backfill.    *)
(*                                                                         *)
(* Two tasks call the cache (the DNS loop and the collection loop) beside  *)
(* the deletion handlers.  Every method runs under one mutex; the loops    *)
(* inside resolve_pending and requeue_resolved_bindings are modelled step  *)
(* by step with the mutex held (`todo`, `restoring`), so no other method   *)
(* moves in between.  What a task holds between two calls (`taken`,        *)
(* `drained`) is outside the mutex.                                        *)
(***************************************************************************)
EXTENDS Integers, FiniteSets, Sequences, SequencesExt

CONSTANTS
    Macs,           \* device identities
    ClientIps,      \* LAN addresses, which DHCP hands from device to device
    TargetIps,      \* remote addresses, as numbers: the code sorts them
    Domains,        \* normalised domain names
    FlowIds,        \* flow_id values
    ClientMac,      \* [FlowIds -> Macs], part of the flow's identity
    ClientIp,       \* [FlowIds -> ClientIps], part of the flow's identity
    FirstSeen,      \* [FlowIds -> Times], part of the flow's identity
    Holder,         \* [ClientIps -> [Times -> Macs]], who really holds an address
    Answers,        \* what a DNS response says: domain, target set and TTL
    Callers,        \* the tasks that collect, drain and flush
    Grace,          \* IDENTITY_MATCH_GRACE_MS
    IdleRetention,  \* IDENTITY_IDLE_RETENTION_MS
    PendingAge,     \* MAX_PENDING_AGE_MS
    MaxPending,     \* MAX_PENDING_OBSERVATIONS
    MaxResolved,    \* MAX_RESOLVED_BINDINGS
    MaxTime,        \* bound on the clock
    MaxQueue,       \* bound on the proxy's queue
    None

Times == 0 .. MaxTime
Answer == [domain: Domains, targets: SUBSET TargetIps, ttl: Nat]
Observation == [ip: ClientIps, domain: Domains, targets: SUBSET TargetIps,
                at: Times, ttl: Nat]
Entry == [domain: Domains, at: Times, exp: Nat]
Interval == [ip: ClientIps, mac: Macs, first: Times, last: Times]
Resolved == [mac: Macs, ip: TargetIps, entry: Entry]
Cache == [bindings: [Macs -> [TargetIps -> SUBSET Entry]],
          identities: [FlowIds -> Interval \cup {None}],
          pending: Seq(Observation),
          resolved: Seq(Resolved)]

ASSUME CacheBounds ==
    /\ TargetIps \subseteq Nat /\ IsFiniteSet(TargetIps)
    /\ Grace \in Nat /\ IdleRetention \in Nat /\ PendingAge \in Nat \ {0}
    /\ MaxPending \in Nat \ {0} /\ MaxResolved \in Nat \ {0}
    /\ MaxTime \in Nat /\ MaxQueue \in Nat
ASSUME CacheIdentities ==
    /\ ClientMac \in [FlowIds -> Macs]
    /\ ClientIp \in [FlowIds -> ClientIps]
    /\ FirstSeen \in [FlowIds -> Times]
    /\ Holder \in [ClientIps -> [Times -> Macs]]
ASSUME CacheInputs == Answers \subseteq Answer
ASSUME CacheNone == None \notin Interval /\ None \notin Callers /\ None \notin Macs

VARIABLES
    now,        \* wall clock
    queue,      \* DnsObservationQueue: what the proxy pushed
    taken,      \* observations a task took and has not handed to the cache
    cache,      \* DnsCacheState
    todo,       \* observations resolve_pending has still to look at
    drained,    \* bindings a task drained and is persisting
    restoring   \* the task whose bindings are being requeued, or None

vars == <<now, queue, taken, cache, todo, drained, restoring>>

-----------------------------------------------------------------------------
(* Operators on the cache.                                                  *)

\* The elements of s at some of its positions, in their order, and those that
\* pass a test: SelectSeq without its recursion, which a proof cannot unfold.
Kept(s, at) ==
    [n \in 1 .. Cardinality(at) |->
        s[CHOOSE i \in at : Cardinality({j \in at : j <= i}) = n]]
Where(s, Test(_)) == Kept(s, {i \in DOMAIN s : Test(s[i])})

Expiry(o) == o.at + o.ttl
PendingExpiry(o) == IF o.ttl < PendingAge THEN Expiry(o) ELSE o.at + PendingAge

\* prepare_observation: an answer without a lifetime or an address is no binding.
Usable(o) == o.ttl > 0 /\ o.targets # {}

\* Slip: an identity never ends.
CoversForever(i, o) == i # None /\ i.ip = o.ip /\ i.first <= o.at

\* Slip: an identity holds for queries before its first packet.
CoversBackwards(i, o) == i # None /\ i.ip = o.ip /\ o.at <= i.last + Grace

Covers(i, o) == /\ i # None
                /\ i.ip = o.ip
                /\ i.first <= o.at /\ o.at <= i.last + Grace

\* The devices that may have asked: those with a flow from that address around then.
Candidates(c, o) ==
    {c.identities[f].mac : f \in {g \in FlowIds : Covers(c.identities[g], o)}}

Live(entries, t) == {e \in entries : e.exp > t}

\* purge_state
Purged(c, t) ==
    [bindings |-> [m \in Macs |-> [ip \in TargetIps |-> Live(c.bindings[m][ip], t)]],
     identities |-> [f \in FlowIds |->
         IF c.identities[f] # None /\ c.identities[f].last >= t - IdleRetention
         THEN c.identities[f] ELSE None],
     pending |-> Where(c.pending, LAMBDA o : PendingExpiry(o) > t),
     resolved |-> Where(c.resolved, LAMBDA r : r.entry.exp > t)]

\* Slip: the queue has no limit.
Unlimited(s, n) == s

LastOf(s, n) == IF Len(s) <= n THEN s ELSE SubSeq(s, Len(s) - n + 1, Len(s))

\* Slip: the observation that resolves last wins.
RenewsAlways(entries, o) == TRUE

\* The entries of a pair once an observation is added: expired ones leave, an
\* entry of the same domain is renewed unless the observation is older than it.
Renews(entries, o) ==
    \A e \in Live(entries, o.at) : e.domain = o.domain => o.at >= e.at
Added(entries, o) ==
    {e \in Live(entries, o.at) : Renews(entries, o) => e.domain # o.domain}
        \cup (IF Renews(entries, o)
              THEN {[domain |-> o.domain, at |-> o.at, exp |-> Expiry(o)]} ELSE {})

Without(resolved, mac, ip) ==
    Where(resolved, LAMBDA r : r.mac # mac \/ r.ip # ip)

\* A pair's place in the backfill queue: at the back when it has a single
\* entry, the oldest evicted at the limit; none when it is ambiguous.
Requeued(resolved, mac, ip, entries) ==
    LET others == Without(resolved, mac, ip)
    IN  IF Cardinality(entries) # 1 THEN others
        ELSE Append(LastOf(others, MaxResolved - 1),
                    [mac |-> mac, ip |-> ip, entry |-> CHOOSE e \in entries : TRUE])

\* add_domain_bindings for one target address
WithBinding(c, mac, ip, o) ==
    LET entries == Added(c.bindings[mac][ip], o)
    IN  [c EXCEPT !.bindings[mac][ip] = entries,
                  !.resolved = IF Renews(c.bindings[mac][ip], o)
                               THEN Requeued(@, mac, ip, entries) ELSE @]

\* Slip: a failed binding goes back without a look at the cache.
RestoredUnchecked(c, r) ==
    [c EXCEPT !.resolved = Requeued(@, r.mac, r.ip, {r.entry})]

\* Slip: a failed binding is given up.
RestoredNever(c, r) == c

\* requeue_resolved_bindings for one binding: only if it still is the pair's sole entry.
Restored(c, r) ==
    IF c.bindings[r.mac][r.ip] = {r.entry}
    THEN [c EXCEPT !.resolved = Requeued(@, r.mac, r.ip, {r.entry})] ELSE c

\* purge_device_data
WithoutDevice(c, m) ==
    [bindings |-> [c.bindings EXCEPT ![m] = [ip \in TargetIps |-> {}]],
     identities |-> [f \in FlowIds |->
         IF c.identities[f] # None /\ c.identities[f].mac = m
         THEN None ELSE c.identities[f]],
     pending |-> Where(c.pending, LAMBDA o : Candidates(c, o) # {m}),
     resolved |-> Where(c.resolved, LAMBDA r : r.mac # m)]

\* Slip: the observations that still wait for an identity are forgotten about.
WithoutDomainButPending(c, selected, dom) ==
    LET Hits(m) == selected \in {m, None}
    IN  [c EXCEPT
            !.bindings = [m \in Macs |-> [ip \in TargetIps |->
                {e \in c.bindings[m][ip] : ~(Hits(m) /\ e.domain = dom)}]],
            !.resolved = Where(@, LAMBDA r : ~(Hits(r.mac) /\ r.entry.domain = dom))]

\* purge_domain_data for one device or, with None, for all: a pending
\* observation belongs to a device only when that is its sole candidate.
WithoutDomain(c, selected, dom) ==
    LET Hits(m) == selected \in {m, None}
    IN  [bindings |-> [m \in Macs |-> [ip \in TargetIps |->
             {e \in c.bindings[m][ip] : ~(Hits(m) /\ e.domain = dom)}]],
         identities |-> c.identities,
         pending |-> Where(c.pending, LAMBDA o :
             ~(o.domain = dom /\ (selected = None \/ Candidates(c, o) = {selected}))),
         resolved |-> Where(c.resolved, LAMBDA r : ~(Hits(r.mac) /\ r.entry.domain = dom))]

\* purge_data_range
WithoutRange(c, from, to) ==
    LET Inside(t) == t >= from /\ t < to
    IN  [bindings |-> [m \in Macs |-> [ip \in TargetIps |->
            {e \in c.bindings[m][ip] : ~Inside(e.at)}]],
         identities |-> [f \in FlowIds |->
            IF /\ c.identities[f] # None
               /\ c.identities[f].first < to /\ c.identities[f].last + 1 > from
            THEN None ELSE c.identities[f]],
         pending |-> Where(c.pending, LAMBDA o : ~Inside(o.at)),
         resolved |-> Where(c.resolved, LAMBDA r : ~Inside(r.entry.at))]

\* attribute_flow: a flow's attribution, when exactly one entry covers it.
Matching(c, f, ip, last) ==
    {e \in c.bindings[ClientMac[f]][ip] : e.at <= last /\ FirstSeen[f] < e.exp}

-----------------------------------------------------------------------------
(* The methods, as steps.                                                   *)

EmptyCache ==
    [bindings |-> [m \in Macs |-> [ip \in TargetIps |-> {}]],
     identities |-> [f \in FlowIds |-> None],
     pending |-> <<>>, resolved |-> <<>>]

Init ==
    /\ now = 0
    /\ queue = <<>> /\ taken = [c \in Callers |-> <<>>]
    /\ cache = EmptyCache /\ todo = <<>>
    /\ drained = [c \in Callers |-> <<>>] /\ restoring = None

Free == todo = <<>> /\ restoring = None

\* The clock moves between the methods: one that runs has its time from its
\* caller, so a tick in the middle of it changes nothing that it reads.
Tick ==
    /\ Free /\ now < MaxTime
    /\ now' = now + 1
    /\ UNCHANGED <<queue, taken, cache, todo, drained, restoring>>

\* The proxy saw an answer to the device that holds the address (DnsObservationQueue::push).
Observe(ip, a) ==
    /\ Len(queue) < MaxQueue
    /\ queue' = Append(queue, [ip |-> ip, domain |-> a.domain, targets |-> a.targets,
                               at |-> now, ttl |-> a.ttl])
    /\ UNCHANGED <<now, taken, cache, todo, drained, restoring>>

\* The first half of collect_from empties the queue under the queue's own mutex.
Take(c) ==
    /\ taken[c] = <<>> /\ queue # <<>>
    /\ taken' = [taken EXCEPT ![c] = Where(queue, Usable)]
    /\ queue' = <<>>
    /\ UNCHANGED <<now, cache, todo, drained, restoring>>

\* resolve_pending takes the pending observations out, drops those that are
\* too old at the time t of its caller, and goes through the others.
StartResolving(c, t) ==
    /\ cache' = [c EXCEPT !.pending = <<>>]
    /\ todo' = Where(c.pending, LAMBDA o : PendingExpiry(o) > t)

\* Every caller read the clock before it called, maybe long before.
CollectFrom(c, t) ==
    /\ Free /\ taken[c] # <<>>
    /\ LET purged == Purged(cache, t)
       IN  StartResolving([purged EXCEPT !.pending = LastOf(@ \o taken[c], MaxPending)], t)
    /\ taken' = [taken EXCEPT ![c] = <<>>]
    /\ UNCHANGED <<now, queue, drained, restoring>>

\* What a collector that read the clock at t may report: flows seen while their
\* device held the address.  The last packet of a flow may be an earlier one than
\* was reported before: the CPUs write it over one another, and each collection
\* derives it anew from two clocks.
Batches(t) ==
    {last \in [FlowIds -> Times \cup {None}] :
        \A f \in FlowIds : last[f] # None =>
            /\ FirstSeen[f] <= last[f] /\ last[f] <= t
            /\ Holder[ClientIp[f]][FirstSeen[f]] = ClientMac[f]
            /\ Holder[ClientIp[f]][last[f]] = ClientMac[f]}

LearnFlowIdentities(last, t) ==
    /\ Free
    /\ LET purged == Purged(cache, t)
       IN  StartResolving([purged EXCEPT !.identities = [f \in FlowIds |->
               IF last[f] # None /\ last[f] >= t - IdleRetention
               THEN [ip |-> ClientIp[f], mac |-> ClientMac[f],
                     first |-> FirstSeen[f], last |-> last[f]]
               ELSE purged.identities[f]]], t)
    /\ UNCHANGED <<now, queue, taken, drained, restoring>>

Resolving == todo # <<>> /\ UNCHANGED <<now, queue, taken, drained, restoring>>

ResolveKeep ==
    /\ Resolving
    /\ Cardinality(Candidates(cache, Head(todo))) # 1
    /\ cache' = [cache EXCEPT !.pending = Append(@, Head(todo))]
    /\ todo' = Tail(todo)

\* One target of the observation, in ascending order.
ResolveBind(m, ip) ==
    /\ Resolving
    /\ LET o == Head(todo)
           rest == o.targets \ {ip}
       IN  /\ Candidates(cache, o) = {m}
           /\ ip \in o.targets /\ \A other \in o.targets : ip <= other
           /\ cache' = WithBinding(cache, m, ip, o)
           /\ todo' = IF rest = {} THEN Tail(todo)
                      ELSE [todo EXCEPT ![1].targets = rest]

PurgeExpired(t) ==
    /\ Free /\ cache' = Purged(cache, t)
    /\ UNCHANGED <<now, queue, taken, todo, drained, restoring>>

DrainResolved(c) ==
    /\ Free /\ drained[c] = <<>> /\ cache.resolved # <<>>
    /\ drained' = [drained EXCEPT ![c] = cache.resolved]
    /\ cache' = [cache EXCEPT !.resolved = <<>>]
    /\ UNCHANGED <<now, queue, taken, todo, restoring>>

\* The repository accepted the bindings.
Persisted(c) ==
    /\ drained[c] # <<>> /\ restoring # c
    /\ drained' = [drained EXCEPT ![c] = <<>>]
    /\ UNCHANGED <<now, queue, taken, cache, todo, restoring>>

\* The repository failed: the mutex is taken and the bindings go back one by one.
BeginRequeue(c) ==
    /\ Free /\ drained[c] # <<>>
    /\ restoring' = c
    /\ UNCHANGED <<now, queue, taken, cache, todo, drained>>

RequeueStep ==
    /\ restoring # None
    /\ LET bindings == drained[restoring]
       IN  /\ cache' = Restored(cache, Head(bindings))
           /\ drained' = [drained EXCEPT ![restoring] = Tail(@)]
           /\ restoring' = IF Len(bindings) = 1 THEN None ELSE restoring
    /\ UNCHANGED <<now, queue, taken, todo>>

Purge(c) == Free /\ cache' = c /\ UNCHANGED <<now, queue, taken, todo, drained, restoring>>
PurgeDevice(m) == Purge(WithoutDevice(cache, m))
PurgeDomain(selected, dom) == Purge(WithoutDomain(cache, selected, dom))
PurgeRange(from, to) == from < to /\ Purge(WithoutRange(cache, from, to))

Next ==
    \/ Tick
    \/ \E ip \in ClientIps, a \in Answers : Observe(ip, a)
    \/ \E c \in Callers : Take(c)
    \/ \E c \in Callers, t \in 0 .. now : CollectFrom(c, t)
    \/ \E t \in 0 .. now : \E last \in Batches(t) : LearnFlowIdentities(last, t)
    \/ ResolveKeep
    \/ \E m \in Macs, ip \in TargetIps : ResolveBind(m, ip)
    \/ \E t \in 0 .. now : PurgeExpired(t)
    \/ \E c \in Callers : DrainResolved(c) \/ Persisted(c) \/ BeginRequeue(c)
    \/ RequeueStep
    \/ \E m \in Macs : PurgeDevice(m)
    \/ \E selected \in Macs \cup {None}, dom \in Domains : PurgeDomain(selected, dom)
    \/ \E from \in Times, to \in 1 .. MaxTime + 1 : PurgeRange(from, to)

Spec == Init /\ [][Next]_vars

-----------------------------------------------------------------------------
(* Properties.                                                              *)

\* The cache is well formed and its queues respect their limits.
TypeOK ==
    /\ now \in Times
    /\ queue \in Seq(Observation)
    /\ taken \in [Callers -> Seq(Observation)]
    /\ cache \in Cache
    /\ Len(cache.pending) + Len(todo) <= MaxPending /\ Len(cache.resolved) <= MaxResolved
    /\ todo \in Seq(Observation)
    /\ drained \in [Callers -> Seq(Resolved)]
    /\ restoring \in Callers \cup {None}

\* A binding waits for the backfill only while it is the one entry of its
\* pair, and waits once: whatever was renewed, expired, purged or requeued
\* meanwhile, an ambiguous or forgotten association is never handed on.
QueuedIsSole ==
    LET q == cache.resolved
    IN  /\ \A i \in 1 .. Len(q) : cache.bindings[q[i].mac][q[i].ip] = {q[i].entry}
        /\ \A i, j \in 1 .. Len(q) :
               q[i].mac = q[j].mac /\ q[i].ip = q[j].ip => i = j

\* Observations resolve in any order, but a pair holds a domain once, with
\* the latest of the answers: an older one never shortens or revives it.
BindingsNeverRegress ==
    [][\A m \in Macs, ip \in TargetIps :
         \A e \in cache.bindings[m][ip], n \in cache'.bindings[m][ip] :
             e.domain = n.domain => n = e \/ n.at >= e.at]_cache

\* Device m held one address at or before t, and again no earlier than Grace
\* before t: as far as one of its flows from there can vouch for it.
HeldAround(m, t) ==
    \E client \in ClientIps, first \in Times, last \in Times :
        /\ first <= t /\ first <= last /\ t <= last + Grace
        /\ Holder[client][first] = m /\ Holder[client][last] = m

\* The device a name is bound to held an address around the query, or gave it
\* up at most Grace before: whatever was learnt, purged, expired or resolved
\* late, no device is given a name asked for before it came or after it left for good.
BindingsFollowLease ==
    \A m \in Macs, ip \in TargetIps : \A e \in cache.bindings[m][ip] : HeldAround(m, e.at)

\* README.md:13-14: a query that cannot be ascribed with certainty waits and is
\* "not guessed by the reusable client IP": the device a name is bound to is the
\* one that held the address when it asked.
BindingsBelongToAsker ==
    \A m \in Macs, ip \in TargetIps : \A e \in cache.bindings[m][ip] :
        \E client \in ClientIps : Holder[client][e.at] = m

=============================================================================
