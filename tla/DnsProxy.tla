------------------------------ MODULE DnsProxy ------------------------------
(***************************************************************************)
(* The DNS forwarder, src/src/dns_proxy.rs: a task of two listeners, and   *)
(* tasks of their own for UDP queries and TCP connections, which nobody    *)
(* joins.  A UDP query asks the upstream from a socket of its own; the     *)
(* network may delay, repeat or lose what the upstream says, and whatever  *)
(* arrives at a port goes to the socket that is bound to it then.          *)
(***************************************************************************)
EXTENDS Integers, FiniteSets, FiniteSetsExt

CONSTANTS
    UdpQueries, TcpQueries,
    Conns,          \* TCP connections
    ConnOf,         \* [TcpQueries -> Conns]
    Ports,          \* ephemeral ports for the upstream sockets
    AnswerOf,       \* [Queries -> A records of the upstream's answer]
    None

Queries == UdpQueries \cup TcpQueries
Record == [address: Nat, ttl: Nat]

ASSUME ProxyQueries ==
    /\ UdpQueries \cap TcpQueries = {} /\ IsFiniteSet(Queries)
    /\ ConnOf \in [TcpQueries -> Conns]
    /\ \A q \in Queries : AnswerOf[q] \subseteq Record /\ IsFiniteSet(AnswerOf[q])
ASSUME ProxyNone == None \notin Queries \cup Ports

VARIABLES
    shutdown,   \* what the watch channel holds
    listener,   \* the two halves of run_until_shutdown
    query,      \* the handler of each query
    conn,       \* the handler of each TCP connection
    network,    \* UDP queries sent upstream, for any answer may still come
    queue,      \* observations pushed and not yet collected
    before      \* what was over when a UDP query was sent upstream

proxyVars == <<shutdown, listener, query, conn, network, queue, before>>

Handler == [at: {"none", "received", "waiting", "reply", "record", "over"},
            port: Ports \cup {None}, about: Queries \cup {None}]
Datagram == [port: Ports, of: Queries]

Over == [at |-> "over", port |-> None, about |-> None]
Finished == {q \in Queries : query[q] = Over}

-----------------------------------------------------------------------------
(* The listeners.                                                           *)

Listeners == {"udp", "tcp"}

ListenerSees(l) ==
    /\ listener[l] = "open" /\ shutdown
    /\ listener' = [listener EXCEPT ![l] = "closed"]
    /\ UNCHANGED <<shutdown, query, conn, network, queue, before>>

\* recv_from or accept returns an error: try_join drops the other half too.
ListenerFails ==
    /\ \E l \in Listeners : listener[l] = "open"
    /\ listener' = [l \in Listeners |-> "closed"]
    /\ UNCHANGED <<shutdown, query, conn, network, queue, before>>

\* serve_udp, up to the spawn of handle_udp.
Receive(q) ==
    /\ listener["udp"] = "open" /\ query[q].at = "none"
    /\ query' = [query EXCEPT ![q].at = "received"]
    /\ UNCHANGED <<shutdown, listener, conn, network, queue, before>>

\* serve_tcp, up to the spawn of handle_tcp.
Accept(c) ==
    /\ listener["tcp"] = "open" /\ conn[c] = "none"
    /\ conn' = [conn EXCEPT ![c] = "idle"]
    /\ UNCHANGED <<shutdown, listener, query, network, queue, before>>

-----------------------------------------------------------------------------
(* handle_udp.                                                              *)

\* Slip: one upstream socket for all the queries.
SharedPorts == Ports

\* Ports that bind may yield: none that a socket of another query holds.
FreePorts == Ports \ {query[q].port : q \in Queries}

Ask(q) ==
    /\ query[q].at = "received"
    /\ \E p \in FreePorts :
           /\ query' = [query EXCEPT ![q].at = "waiting", ![q].port = p]
           /\ network' = network \cup {[port |-> p, of |-> q]}
    /\ before' = [before EXCEPT ![q] = Finished]
    /\ UNCHANGED <<shutdown, listener, conn, queue>>

\* The identifier and the question of what arrives are not looked at.
Arrive(q, m) ==
    /\ query[q].at = "waiting" /\ m \in network /\ m.port = query[q].port
    /\ query' = [query EXCEPT ![q].at = "reply", ![q].about = m.of]
    /\ UNCHANGED <<shutdown, listener, conn, network, queue, before>>

\* The socket, the query timeout or the client makes the handler give up.
UdpFails(q) ==
    /\ query[q].at \in {"received", "waiting", "reply"}
    /\ query' = [query EXCEPT ![q] = Over]
    /\ UNCHANGED <<shutdown, listener, conn, network, queue, before>>

SendReply(q) ==
    /\ query[q].at = "reply"
    /\ query' = [query EXCEPT ![q].at = "record"]
    /\ UNCHANGED <<shutdown, listener, conn, network, queue, before>>

-----------------------------------------------------------------------------
(* parse_dns_observations and record_observations.                          *)

\* Slip: an answer that must not be kept is recorded too.
ObservedWithZeroTtl(q, about) ==
    LET ttls == {r.ttl : r \in AnswerOf[about]}
    IN  IF ttls = {} THEN {}
        ELSE {[domain |-> q, targets |-> {r.address : r \in AnswerOf[about]}, ttl |-> Min(ttls)]}

\* One observation of all the addresses, good for the shortest time to live;
\* none if there is no address or one must not be kept.
Observed(q, about) ==
    LET ttls == {r.ttl : r \in AnswerOf[about]}
    IN  IF ttls = {} \/ 0 \in ttls THEN {}
        ELSE {[domain |-> q, targets |-> {r.address : r \in AnswerOf[about]}, ttl |-> Min(ttls)]}

\* After the answer has been written, in the same poll of the task.
RecordAnswer(q) ==
    /\ query[q].at = "record"
    /\ queue' = queue \cup Observed(q, query[q].about)
    /\ query' = [query EXCEPT ![q] = Over]
    /\ conn' = IF q \in TcpQueries THEN [conn EXCEPT ![ConnOf[q]] = "idle"] ELSE conn
    /\ UNCHANGED <<shutdown, listener, network, before>>

-----------------------------------------------------------------------------
(* handle_tcp: a loop over the frames of a connection, deaf to shutdown.    *)

ReadFrame(q) ==
    /\ conn[ConnOf[q]] = "idle" /\ query[q].at = "none"
    /\ conn' = [conn EXCEPT ![ConnOf[q]] = "busy"]
    /\ query' = [query EXCEPT ![q].at = "waiting"]
    /\ UNCHANGED <<shutdown, listener, network, queue, before>>

\* The client closes, or sends a frame that is empty or cut off.
ClientLeaves(c) ==
    /\ conn[c] = "idle"
    /\ conn' = [conn EXCEPT ![c] = "closed"]
    /\ UNCHANGED <<shutdown, listener, query, network, queue, before>>

\* forward_tcp: the stream is this query's own.
Forwarded(q) ==
    /\ query[q].at = "waiting"
    /\ query' = [query EXCEPT ![q].at = "reply", ![q].about = q]
    /\ UNCHANGED <<shutdown, listener, conn, network, queue, before>>

\* The upstream or the query timeout fails it, and the connection with it.
TcpTimesOut(q) ==
    /\ query[q].at = "waiting"
    /\ query' = [query EXCEPT ![q] = Over]
    /\ conn' = [conn EXCEPT ![ConnOf[q]] = "closed"]
    /\ UNCHANGED <<shutdown, listener, network, queue, before>>

WriteFails(q) ==
    /\ query[q].at = "reply"
    /\ query' = [query EXCEPT ![q] = Over]
    /\ conn' = [conn EXCEPT ![ConnOf[q]] = "closed"]
    /\ UNCHANGED <<shutdown, listener, network, queue, before>>

-----------------------------------------------------------------------------

ProxyInit ==
    /\ shutdown = FALSE /\ listener = [l \in Listeners |-> "unbound"]
    /\ query = [q \in Queries |-> [at |-> "none", port |-> None, about |-> None]]
    /\ conn = [c \in Conns |-> "none"]
    /\ network = {} /\ queue = {} /\ before = [q \in UdpQueries |-> {}]

UdpStep(q) ==
    \/ Receive(q) \/ Ask(q) \/ UdpFails(q)
    \/ \E m \in network : Arrive(q, m)

TcpStep(q) == ReadFrame(q) \/ Forwarded(q) \/ TcpTimesOut(q) \/ WriteFails(q)

ProxyNext ==
    \/ ListenerFails \/ \E l \in Listeners : ListenerSees(l)
    \/ \E q \in UdpQueries : UdpStep(q)
    \/ \E q \in TcpQueries : TcpStep(q)
    \/ \E q \in Queries : SendReply(q) \/ RecordAnswer(q)
    \/ \E c \in Conns : Accept(c) \/ ClientLeaves(c)

\* Besides the types: an observation has addresses and a time to live.
ProxyTypeOK ==
    /\ shutdown \in BOOLEAN
    /\ listener \in [Listeners -> {"unbound", "open", "closed"}]
    /\ query \in [Queries -> Handler]
    /\ conn \in [Conns -> {"none", "idle", "busy", "closed"}]
    /\ network \subseteq Datagram
    /\ \A o \in queue :
           /\ o.domain \in Queries /\ o.ttl \in Nat \ {0}
           /\ o.targets \subseteq Nat /\ o.targets # {}
    /\ before \in [UdpQueries -> SUBSET Queries]

\* A question is joined to the answer of another only by an answer that came
\* after its own query was over: two queries under way at once cannot be mixed
\* up, although nothing in an answer is compared with the question.
AnswersNotMixed ==
    \A q \in Queries :
        query[q].about \notin {None, q} => q \in UdpQueries /\ query[q].about \in before[q]
=============================================================================
