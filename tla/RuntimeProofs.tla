---------------------------- MODULE RuntimeProofs ----------------------------
(***************************************************************************)
(* Proofs about Runtime and the forwarder within it, DnsProxy, for any     *)
(* number of queries, connections, ports, HTTP requests and loops.         *)
(***************************************************************************)
EXTENDS Runtime, WellFoundedInduction, TLAPS

-----------------------------------------------------------------------------
(* What a recorded answer yields.                                           *)

\* Min is what it says for any set of natural numbers that is not empty.
LEMMA MinOfNaturals ==
    ASSUME NEW S, S \subseteq Nat, S # {}
    PROVE  Min(S) \in S /\ \A n \in S : Min(S) <= n
  <1>1. PICK least \in S : \A n \in S : ~(<<n, least>> \in OpToRel(<, Nat))
    BY WFMin, NatLessThanWellFounded
  <1>2. ASSUME NEW n \in S PROVE least <= n
    <2>1. <<n, least>> \in Nat \X Nat /\ <<n, least>>[1] = n /\ <<n, least>>[2] = least
      OBVIOUS
    <2>2. ~(n < least)
      BY <1>1, <2>1 DEF OpToRel
    <2>3. QED
      BY <2>2
  <1>3. QED
    BY <1>2 DEF Min

LEMMA ObservedType ==
    ASSUME NEW q \in Queries, NEW about \in Queries, NEW o \in Observed(q, about)
    PROVE  /\ o.domain \in Queries /\ o.ttl \in Nat \ {0}
           /\ o.targets \subseteq Nat /\ o.targets # {}
  <1> DEFINE ttls == {r.ttl : r \in AnswerOf[about]}
  <1>1. AnswerOf[about] \subseteq Record
    BY ProxyQueries
  <1>2. /\ ttls # {} /\ 0 \notin ttls
        /\ o = [domain |-> q, targets |-> {r.address : r \in AnswerOf[about]},
                ttl |-> Min(ttls)]
    BY DEF Observed
  <1>3. ttls \subseteq Nat
    BY <1>1 DEF Record
  <1>4. Min(ttls) \in ttls
    BY <1>2, <1>3, MinOfNaturals
  <1>5. PICK r \in AnswerOf[about] : r.ttl \in ttls
    BY <1>2
  <1>6. r.address \in {x.address : x \in AnswerOf[about]}
    OBVIOUS
  <1>7. {x.address : x \in AnswerOf[about]} \subseteq Nat
    BY <1>1 DEF Record
  <1>8. QED
    BY <1>2, <1>3, <1>4, <1>6, <1>7

-----------------------------------------------------------------------------
(* Types.                                                                   *)

USE DEF Over, Listeners

\* What is said of a query fits how far it has come: it has an answer to be
\* about only between the answer's arrival and its end.
AnswerInTime ==
    \A q \in Queries :
        /\ query[q].at \in {"none", "received", "waiting"} => query[q].about = None
        /\ query[q].at \in {"reply", "record"} => query[q].about \in Queries

ProxyInv == ProxyTypeOK /\ AnswerInTime

LEMMA ProxyInitInv ==
    ASSUME ProxyInit
    PROVE  ProxyInv
  <1>1. /\ shutdown \in BOOLEAN
        /\ listener \in [Listeners -> {"unbound", "open", "closed"}]
        /\ conn \in [Conns -> {"none", "idle", "busy", "closed"}]
    BY DEF ProxyInit
  <1>2. query \in [Queries -> Handler] /\ AnswerInTime
    BY DEF ProxyInit, Handler, AnswerInTime
  <1>3. network = {} /\ queue = {} /\ before \in [UdpQueries -> SUBSET Queries]
    BY DEF ProxyInit
  <1>4. QED
    BY <1>1, <1>2, <1>3 DEF ProxyInv, ProxyTypeOK

LEMMA ProxyNextInv ==
    ASSUME ProxyInv, ProxyNext
    PROVE  ProxyInv'
  <1> USE DEF ProxyInv, ProxyTypeOK, AnswerInTime, Handler
  <1>1. CASE ListenerFails
    BY <1>1 DEF ListenerFails
  <1>2. ASSUME NEW l \in Listeners, ListenerSees(l)
        PROVE  ProxyInv'
    BY <1>2 DEF ListenerSees
  <1>3. ASSUME NEW q \in UdpQueries, Receive(q)
        PROVE  ProxyInv'
    BY <1>3 DEF Receive, Queries
  <1>4. ASSUME NEW q \in UdpQueries, Ask(q)
        PROVE  ProxyInv'
    BY <1>4 DEF Ask, Queries, FreePorts, Datagram, Finished
  <1>5. ASSUME NEW q \in UdpQueries, NEW m \in network, Arrive(q, m)
        PROVE  ProxyInv'
    BY ZenonT(60), <1>5 DEF Arrive, Queries, Datagram
  <1>6. ASSUME NEW q \in UdpQueries, UdpFails(q)
        PROVE  ProxyInv'
    BY <1>6 DEF UdpFails, Queries
  <1>7. ASSUME NEW q \in Queries, SendReply(q)
        PROVE  ProxyInv'
    BY <1>7 DEF SendReply
  <1>8. ASSUME NEW q \in Queries, RecordAnswer(q)
        PROVE  ProxyInv'
    <2>1. query[q].about \in Queries
      BY <1>8 DEF RecordAnswer
    <2>2. \A o \in queue' :
              /\ o.domain \in Queries /\ o.ttl \in Nat \ {0}
              /\ o.targets \subseteq Nat /\ o.targets # {}
      BY <1>8, <2>1, ObservedType DEF RecordAnswer
    <2>3. query' = [query EXCEPT ![q] = Over] /\ query' \in [Queries -> Handler]
      BY <1>8 DEF RecordAnswer
    <2>4. conn' \in [Conns -> {"none", "idle", "busy", "closed"}]
      BY <1>8 DEF RecordAnswer
    <2>5. QED
      BY <1>8, <2>2, <2>3, <2>4 DEF RecordAnswer
  <1>9. ASSUME NEW q \in TcpQueries, TcpStep(q)
        PROVE  ProxyInv'
    BY <1>9 DEF TcpStep, ReadFrame, Forwarded, TcpTimesOut, WriteFails, Queries
  <1>10. ASSUME NEW c \in Conns, Accept(c) \/ ClientLeaves(c)
         PROVE  ProxyInv'
    BY <1>10 DEF Accept, ClientLeaves
  <1>11. QED
    BY <1>1, <1>2, <1>3, <1>4, <1>5, <1>6, <1>7, <1>8, <1>9, <1>10
       DEF ProxyNext, UdpStep

LEMMA InitType ==
    ASSUME Init
    PROVE  TypeOK /\ AnswerInTime
  <1>1. ProxyTypeOK /\ AnswerInTime
    BY ProxyInitInv DEF Init, ProxyInv
  <1>2. QED
    BY <1>1 DEF Init, TypeOK, Phases

\* What main and the loops do to the forwarder's state is to open its
\* listeners, to set the channel and to empty the queue.
LEMMA MainNextType ==
    ASSUME TypeOK, AnswerInTime, Next, ~ Proxy(ProxyNext)
    PROVE  ProxyTypeOK' /\ AnswerInTime' /\ TypeOK'
  <1> USE DEF TypeOK, ProxyTypeOK, AnswerInTime, proxyVars, Phases
  <1>1. CASE StartTasks
    BY <1>1 DEF StartTasks
  <1>2. CASE StartFails \/ BindHttp \/ Drained \/ TimeoutFires \/ Joined \/ Drop
    BY <1>2 DEF StartFails, BindHttp, Drained, TimeoutFires, Joined, Drop
  <1>3. CASE BindHttpFails \/ Signal
    BY <1>3 DEF BindHttpFails, Signal
  <1>4. ASSUME NEW h \in Requests, HttpAccept(h) \/ HttpServed(h)
        PROVE  ProxyTypeOK' /\ AnswerInTime' /\ TypeOK'
    BY <1>4 DEF HttpAccept, HttpServed
  <1>5. ASSUME NEW l \in Loops, LoopTick(l) \/ LoopSees(l)
        PROVE  ProxyTypeOK' /\ AnswerInTime' /\ TypeOK'
    BY <1>5 DEF LoopTick, LoopSees, Seen
  <1>6. ASSUME NEW l \in Loops, LoopWork(l)
        PROVE  ProxyTypeOK' /\ AnswerInTime' /\ TypeOK'
    BY <1>6 DEF LoopWork
  <1>7. CASE CollectFails
    BY <1>7 DEF CollectFails
  <1>8. QED
    BY <1>1, <1>2, <1>3, <1>4, <1>5, <1>6, <1>7 DEF Next, Main

LEMMA NextType ==
    ASSUME TypeOK, AnswerInTime, Next
    PROVE  TypeOK' /\ AnswerInTime'
  <1>1. CASE Proxy(ProxyNext)
    <2>1. ProxyInv'
      BY <1>1, ProxyNextInv DEF Proxy, ProxyInv, TypeOK
    <2>2. QED
      BY <1>1, <2>1 DEF Proxy, mainVars, ProxyInv, TypeOK
  <1>2. QED
    BY <1>1, MainNextType

LEMMA StutterType ==
    ASSUME TypeOK, AnswerInTime, UNCHANGED vars
    PROVE  TypeOK' /\ AnswerInTime'
  BY DEF vars, proxyVars, mainVars, TypeOK, ProxyTypeOK, AnswerInTime

\* The process and its forwarder keep their types; what is said of a query
\* fits how far its handler has come.
THEOREM TypeCorrect == Spec => [](TypeOK /\ AnswerInTime)
  <1>1. TypeOK /\ AnswerInTime /\ [Next]_vars => (TypeOK /\ AnswerInTime)'
    BY NextType, StutterType
  <1>2. QED
    BY InitType, <1>1, PTL DEF Spec

-----------------------------------------------------------------------------
(* Whose answer may arrive at a port.                                       *)

\* A query has a port of its own from its question to its end.
PortInTime ==
    /\ \A q \in TcpQueries : query[q].port = None /\ query[q].about \in {None, q}
    /\ \A q \in UdpQueries : query[q].at \in {"none", "received"} => query[q].port = None

\* The socket a datagram was sent from is still its query's, or it is closed;
\* what may arrive at a socket is the answer to its query, or to one that was
\* over before the socket was bound.
PortsReused ==
    /\ \A m \in network :
           m.of \in UdpQueries /\ (query[m.of] = Over \/ query[m.of].port = m.port)
    /\ \A q \in UdpQueries, m \in network :
           m.port = query[q].port => m.of = q \/ m.of \in before[q]

PortsInv == PortInTime /\ PortsReused /\ AnswersNotMixed

LEMMA InitPorts ==
    ASSUME Init
    PROVE  PortsInv
  BY DEF Init, ProxyInit, PortsInv, PortInTime, PortsReused, AnswersNotMixed, Queries

\* The step that matters: the port that bind yields may have been another
\* query's, which is over then.
LEMMA AskPorts ==
    ASSUME TypeOK, AnswerInTime, PortsInv, NEW q \in UdpQueries, Ask(q)
    PROVE  PortsInv'
  <1> USE ProxyQueries, ProxyNone
  <1>1. PICK p \in FreePorts :
            /\ query' = [query EXCEPT ![q].at = "waiting", ![q].port = p]
            /\ network' = network \cup {[port |-> p, of |-> q]}
    BY DEF Ask
  <1>2. /\ query[q].at = "received" /\ query[q].port = None /\ query[q].about = None
        /\ query \in [Queries -> Handler] /\ q \in Queries /\ q \notin TcpQueries
        /\ network \subseteq Datagram
    BY DEF Ask, PortsInv, PortInTime, AnswerInTime, Queries, TypeOK, ProxyTypeOK
  <1>3. /\ p \in Ports /\ p # None /\ \A x \in Queries : query[x].port # p
    BY DEF FreePorts
  <1>4. /\ \A x \in Queries \ {q} : query'[x] = query[x]
        /\ query'[q].at = "waiting" /\ query'[q].port = p /\ query'[q].about = None
    BY <1>1, <1>2 DEF Handler
  <1>5. before' = [before EXCEPT ![q] = Finished]
        /\ before \in [UdpQueries -> SUBSET Queries]
    BY DEF Ask, TypeOK, ProxyTypeOK
  <1>6. PortInTime'
    BY <1>2, <1>4 DEF PortsInv, PortInTime, Queries
  <1>7. ASSUME NEW m \in network
        PROVE  /\ m.of \in UdpQueries \ {q} /\ m.port \in Ports
               /\ query[m.of] = Over \/ query[m.of].port = m.port
    <2>1. m.of \in UdpQueries /\ (query[m.of] = Over \/ query[m.of].port = m.port)
      BY DEF PortsInv, PortsReused
    <2>2. m.port \in Ports
      BY <1>2 DEF Datagram
    <2>3. QED
      BY <1>2, <2>1, <2>2
  <1>8. ASSUME NEW m \in network'
        PROVE  m.of \in UdpQueries /\ (query'[m.of] = Over \/ query'[m.of].port = m.port)
    <2>1. CASE m \in network
      BY <1>4, <1>7, <2>1 DEF Queries
    <2>2. CASE m = [port |-> p, of |-> q]
      BY <1>4, <2>2
    <2>3. QED
      BY <1>1, <2>1, <2>2
  <1>9. ASSUME NEW x \in UdpQueries, NEW m \in network', m.port = query'[x].port
        PROVE  m.of = x \/ m.of \in before'[x]
    <2>1. CASE x = q /\ m \in network
      <3>1. query[m.of] = Over
        BY <1>3, <1>4, <1>7, <1>9, <2>1 DEF Queries
      <3>2. m.of \in Finished
        BY <1>7, <2>1, <3>1 DEF Finished, Queries
      <3>3. QED
        BY <1>5, <2>1, <3>2
    <2>2. CASE x # q /\ m \in network
      <3>1. m.port = query[x].port
        BY <1>4, <1>9, <2>2 DEF Queries
      <3>2. m.of = x \/ m.of \in before[x]
        BY <2>2, <3>1 DEF PortsInv, PortsReused
      <3>3. QED
        BY <1>5, <2>2, <3>2
    <2>3. CASE m = [port |-> p, of |-> q]
      BY <1>3, <1>4, <1>9, <2>3 DEF Queries
    <2>4. QED
      BY <1>1, <2>1, <2>2, <2>3
  <1>10. AnswersNotMixed'
    BY <1>2, <1>4, <1>5 DEF PortsInv, AnswersNotMixed
  <1>11. QED
    BY <1>6, <1>8, <1>9, <1>10 DEF PortsInv, PortsReused

\* Any other step leaves the network and what was over alone, opens no socket,
\* and tells a query of an answer only when one arrives at it.
LEMMA OtherPorts ==
    ASSUME TypeOK, AnswerInTime, PortsInv, UNCHANGED <<network, before>>,
           query' \in [Queries -> Handler],
           \A q \in Queries :
               \/ query'[q] = query[q] \/ query'[q] = Over
               \/ /\ query[q].at # "over" /\ query'[q].port = query[q].port
                  /\ query'[q].at \in {"none", "received"} => query[q].at \in {"none", "received"}
                  /\ \/ query'[q].about = query[q].about
                     \/ q \in TcpQueries /\ query'[q].about = q
                     \/ /\ q \in UdpQueries
                        /\ \E m \in network : m.port = query[q].port /\ query'[q].about = m.of
    PROVE  PortsInv'
  <1> USE ProxyQueries, ProxyNone DEF Queries
  <1>1. network \subseteq Datagram /\ query \in [Queries -> Handler]
    BY DEF TypeOK, ProxyTypeOK
  <1>2. PortInTime'
    BY DEF PortsInv, PortInTime
  <1>3. ASSUME NEW m \in network
        PROVE  m.of \in UdpQueries /\ (query'[m.of] = Over \/ query'[m.of].port = m.port)
    <2>1. m.of \in UdpQueries /\ (query[m.of] = Over \/ query[m.of].port = m.port)
      BY DEF PortsInv, PortsReused
    <2>2. QED
      BY <2>1
  <1>4. ASSUME NEW q \in UdpQueries, NEW m \in network, m.port = query'[q].port
        PROVE  m.of = q \/ m.of \in before[q]
    <2>1. m.port \in Ports
      BY <1>1 DEF Datagram
    <2>2. query'[q].port = query[q].port
      BY <1>4, <2>1
    <2>3. QED
      BY <1>4, <2>2 DEF PortsInv, PortsReused
  <1>5. ASSUME NEW q \in Queries, query'[q].about \notin {None, q}
        PROVE  q \in UdpQueries /\ query'[q].about \in before[q]
    <2>1. CASE query'[q].about = query[q].about
      BY <1>5, <2>1 DEF PortsInv, AnswersNotMixed
    <2>2. ASSUME NEW m \in network, q \in UdpQueries,
                 m.port = query[q].port, query'[q].about = m.of
          PROVE  m.of \in before[q]
      BY <1>5, <2>2 DEF PortsInv, PortsReused
    <2>3. QED
      BY <1>5, <2>1, <2>2
  <1>6. QED
    BY <1>2, <1>3, <1>4, <1>5 DEF PortsInv, PortsReused, AnswersNotMixed

LEMMA ProxyNextPorts ==
    ASSUME TypeOK, AnswerInTime, PortsInv, ProxyNext
    PROVE  PortsInv'
  <1> USE ProxyQueries DEF Queries
  <1>1. query' \in [Queries -> Handler]
    BY ProxyNextInv DEF TypeOK, ProxyInv, ProxyTypeOK
  <1>2. query \in [Queries -> Handler] /\ AnswerInTime
    BY DEF TypeOK, ProxyTypeOK
  <1>3. ASSUME NEW q \in UdpQueries, NEW m \in network, Arrive(q, m)
        PROVE  PortsInv'
    BY <1>1, <1>2, <1>3, OtherPorts DEF Arrive, Handler
  <1>4. ASSUME NEW q \in UdpQueries, Receive(q) \/ UdpFails(q)
        PROVE  PortsInv'
    BY <1>1, <1>2, <1>4, OtherPorts DEF Receive, UdpFails, Handler
  <1>5. ASSUME NEW q \in TcpQueries, TcpStep(q)
        PROVE  PortsInv'
    BY <1>1, <1>2, <1>5, OtherPorts
       DEF TcpStep, ReadFrame, Forwarded, TcpTimesOut, WriteFails, Handler
  <1>6. ASSUME NEW q \in Queries, SendReply(q) \/ RecordAnswer(q)
        PROVE  PortsInv'
    BY <1>1, <1>2, <1>6, OtherPorts DEF SendReply, RecordAnswer, Handler
  <1>7. CASE \/ ListenerFails \/ \E l \in Listeners : ListenerSees(l)
             \/ \E c \in Conns : Accept(c) \/ ClientLeaves(c)
    BY <1>1, <1>7, OtherPorts DEF ListenerFails, ListenerSees, Accept, ClientLeaves
  <1>8. QED
    BY <1>3, <1>4, <1>5, <1>6, <1>7, AskPorts DEF ProxyNext, UdpStep

LEMMA NextPorts ==
    ASSUME TypeOK, AnswerInTime, PortsInv, [Next]_vars
    PROVE  PortsInv'
  <1>1. CASE Proxy(ProxyNext)
    BY <1>1, ProxyNextPorts DEF Proxy
  <1>2. CASE UNCHANGED <<query, network, before>>
    BY <1>2 DEF PortsInv, PortInTime, PortsReused, AnswersNotMixed
  <1>3. CASE Next /\ ~ Proxy(ProxyNext)
    BY <1>2, <1>3
       DEF Next, Main, proxyVars, StartTasks, StartFails, BindHttp, BindHttpFails, Signal,
           Drained, TimeoutFires, Joined, Drop, HttpAccept, HttpServed,
           LoopTick, LoopSees, LoopWork, CollectFails
  <1>4. QED
    BY <1>1, <1>2, <1>3 DEF vars, proxyVars

\* A question is joined to the answer of another only by an answer that came
\* after its own query was over, however many queries share however few ports
\* and however the network delays and repeats the answers (dns_proxy.rs compares
\* neither the identifier nor the question of what arrives).
THEOREM NotMixed == Spec => []AnswersNotMixed
  <1>1. PortsInv /\ (TypeOK /\ AnswerInTime) /\ [Next]_vars => PortsInv'
    BY NextPorts
  <1>2. PortsInv => AnswersNotMixed
    BY DEF PortsInv
  <1>3. QED
    BY InitPorts, <1>1, <1>2, TypeCorrect, PTL DEF Spec

-----------------------------------------------------------------------------
(* Requests and the exit.                                                   *)

\* No request is open before the server serves, nor after its graceful stop.
NoneOpen == \A h \in Requests : http[h] # "open"

RequestsInv ==
    /\ phase \in {"starting", "binding"} => NoneOpen
    /\ phase \in {"joining", "dropping", "exited"} /\ ~late => NoneOpen

\* The exit cuts a request off only after the shutdown timeout: every other way
\* to the end of main (a start that fails, a port that is taken, the graceful
\* stop) leaves none open.
THEOREM CutOnlyLate == Spec => []CutOnlyWhenLate
  <1> USE DEF RequestsInv, NoneOpen
  <1>1. Init => RequestsInv
    BY DEF Init, ProxyInit
  <1>2. TypeOK /\ RequestsInv /\ [Next]_vars => RequestsInv'
    <2> SUFFICES ASSUME TypeOK, RequestsInv, [Next]_vars
                 PROVE  RequestsInv'
      OBVIOUS
    <2> USE DEF TypeOK, proxyVars, mainVars
    <2>1. CASE Main
      BY <2>1 DEF Main, StartTasks, StartFails, BindHttp, BindHttpFails, Signal,
                  Drained, ServerDone, TimeoutFires, Joined, Drop
    <2>2. ASSUME NEW h \in Requests, HttpAccept(h) \/ HttpServed(h)
          PROVE  RequestsInv'
      BY <2>2 DEF HttpAccept, HttpServed
    <2>3. ASSUME NEW l \in Loops, LoopTick(l) \/ LoopSees(l) \/ LoopWork(l)
          PROVE  RequestsInv'
      BY <2>3 DEF LoopTick, LoopSees, LoopWork
    <2>4. CASE CollectFails
      BY <2>4 DEF CollectFails
    <2>5. CASE Proxy(ProxyNext)
      BY <2>5 DEF Proxy
    <2>6. CASE UNCHANGED vars
      BY <2>6 DEF vars
    <2>7. QED
      BY <2>1, <2>2, <2>3, <2>4, <2>5, <2>6 DEF Next
  <1>3. RequestsInv => CutOnlyWhenLate
    BY DEF CutOnlyWhenLate
  <1>4. QED
    BY <1>1, <1>2, <1>3, TypeCorrect, PTL DEF Spec
=============================================================================
