------------------------------ MODULE Runtime ------------------------------
(***************************************************************************)
(* The process: start_server of src/src/main.rs from start to exit, with   *)
(* the tasks it spawns, the DNS forwarder among them (DnsProxy).           *)
(*                                                                         *)
(* A signal closes the HTTP listener and sets the watch channel; main      *)
(* waits for the open requests no longer than the shutdown timeout, then   *)
(* for its background tasks, and returns.  The runtime is dropped: a task  *)
(* keeps running until it awaits something and is dropped there.           *)
(***************************************************************************)
EXTENDS DnsProxy

CONSTANTS
    Requests,       \* HTTP requests
    Loops           \* the background loops of the full configuration

ASSUME RuntimeLoops == {"dns", "collection"} \subseteq Loops

VARIABLES
    phase,      \* where main is
    collecting, \* whether the configuration names a collector
    loop,       \* the background loops
    http,       \* the HTTP requests
    late        \* whether the shutdown timeout has ended the wait

mainVars == <<phase, collecting, loop, http, late>>
vars == <<proxyVars, mainVars>>

Phases == {"starting", "binding", "serving", "draining", "joining", "dropping", "exited"}

-----------------------------------------------------------------------------
(* Start.                                                                   *)

\* Slip: observations are only of use to a collector.
SpawnedWithCollector ==
    IF collecting THEN Loops ELSE Loops \ {"dns", "collection"}

\* The loops of a configuration with the DNS forwarder.
Spawned == IF collecting THEN Loops ELSE Loops \ {"collection"}

\* Store, account and collector are there; the forwarder binds; tasks start.
StartTasks ==
    /\ phase = "starting" /\ phase' = "binding"
    /\ listener' = [l \in Listeners |-> "open"]
    /\ loop' = [l \in Loops |-> IF l \in Spawned THEN "select" ELSE "done"]
    /\ UNCHANGED <<shutdown, query, conn, network, queue, before,
                   collecting, http, late>>

\* Any of these fails: main returns before there is a task.
StartFails ==
    /\ phase = "starting" /\ phase' = "exited"
    /\ UNCHANGED <<proxyVars, collecting, loop, http, late>>

BindHttp ==
    /\ phase = "binding" /\ phase' = "serving"
    /\ UNCHANGED <<proxyVars, collecting, loop, http, late>>

\* main returns with its tasks running: the sender of the channel is dropped,
\* which ends a loop as the signal does.
BindHttpFails ==
    /\ phase = "binding" /\ phase' = "dropping" /\ shutdown' = TRUE
    /\ UNCHANGED <<listener, query, conn, network, queue, before,
                   collecting, loop, http, late>>

-----------------------------------------------------------------------------
(* Requests, the signal and the end.                                        *)

HttpAccept(h) ==
    /\ phase = "serving" /\ http[h] = "none"
    /\ http' = [http EXCEPT ![h] = "open"]
    /\ UNCHANGED <<proxyVars, phase, collecting, loop, late>>

HttpServed(h) ==
    /\ phase # "exited" /\ http[h] = "open"
    /\ http' = [http EXCEPT ![h] = "none"]
    /\ UNCHANGED <<proxyVars, phase, collecting, loop, late>>

Signal ==
    /\ phase = "serving" /\ phase' = "draining" /\ shutdown' = TRUE
    /\ UNCHANGED <<listener, query, conn, network, queue, before,
                   collecting, loop, http, late>>

\* Slip: main leaves as soon as the channel says so.
ServerStopped == TRUE

\* with_graceful_shutdown completes once no request is open.
ServerDone == \A h \in Requests : http[h] # "open"

Drained ==
    /\ phase = "draining" /\ ServerDone /\ phase' = "joining"
    /\ UNCHANGED <<proxyVars, collecting, loop, http, late>>

TimeoutFires ==
    /\ phase = "draining" /\ phase' = "joining" /\ late' = TRUE
    /\ UNCHANGED <<proxyVars, collecting, loop, http>>

\* Every background task has returned; the forwarder's with both listeners.
\* The handlers that it spawned are not waited for.
Joined ==
    /\ phase = "joining" /\ phase' = "dropping"
    /\ \A l \in Loops : loop[l] = "done"
    /\ \A l \in Listeners : listener[l] = "closed"
    /\ UNCHANGED <<proxyVars, collecting, loop, http, late>>

\* The runtime waits for the tasks that are running, not for the others.
Drop ==
    /\ phase = "dropping" /\ phase' = "exited"
    /\ \A l \in Loops : loop[l] # "work"
    /\ \A q \in Queries : query[q].at # "record"
    /\ UNCHANGED <<proxyVars, collecting, loop, http, late>>

-----------------------------------------------------------------------------
(* The loops.                                                               *)

LoopTick(l) ==
    /\ phase # "exited" /\ loop[l] = "select"
    /\ loop' = [loop EXCEPT ![l] = "work"]
    /\ UNCHANGED <<proxyVars, phase, collecting, http, late>>

\* Slip: the branch of the channel goes back to the top of the loop.
SeenAndContinued == "select"

\* What the shutdown branch of a loop's select leaves of the loop.
Seen == "done"

LoopSees(l) ==
    /\ phase # "exited" /\ loop[l] = "select" /\ shutdown
    /\ loop' = [loop EXCEPT ![l] = Seen]
    /\ UNCHANGED <<proxyVars, phase, collecting, http, late>>

\* The body of a loop; two of them drain the observations.
LoopWork(l) ==
    /\ phase # "exited" /\ loop[l] = "work"
    /\ loop' = [loop EXCEPT ![l] = "select"]
    /\ queue' = IF l \in {"dns", "collection"} THEN {} ELSE queue
    /\ UNCHANGED <<shutdown, listener, query, conn, network, before,
                   phase, collecting, http, late>>

\* A collection that fails leaves the observations where they are.
CollectFails ==
    /\ phase # "exited" /\ loop["collection"] = "work"
    /\ loop' = [loop EXCEPT !["collection"] = "select"]
    /\ UNCHANGED <<proxyVars, phase, collecting, http, late>>

-----------------------------------------------------------------------------

Init ==
    /\ ProxyInit
    /\ phase = "starting" /\ collecting \in BOOLEAN
    /\ loop = [l \in Loops |-> "none"]
    /\ http = [h \in Requests |-> "none"] /\ late = FALSE

Proxy(A) == phase # "exited" /\ A /\ UNCHANGED mainVars

Main ==
    \/ StartTasks \/ StartFails \/ BindHttp \/ BindHttpFails
    \/ Signal \/ Drained \/ TimeoutFires \/ Joined \/ Drop

Next ==
    \/ Main
    \/ \E h \in Requests : HttpAccept(h) \/ HttpServed(h)
    \/ \E l \in Loops : LoopTick(l) \/ LoopSees(l) \/ LoopWork(l)
    \/ CollectFails
    \/ Proxy(ProxyNext)

\* What the process does by itself: not a request or a signal, nor that a
\* client reads, an upstream answers or a handler gives up.  select takes a
\* ready branch at random, so a loop that comes back to it sees the channel in
\* the end.
Fairness ==
    /\ WF_vars(Drained \/ TimeoutFires \/ Joined \/ Drop)
    /\ \A l \in Loops : WF_vars(LoopTick(l) \/ LoopWork(l)) /\ SF_vars(LoopSees(l))
    /\ WF_vars(Proxy(\E l \in Listeners : ListenerSees(l)))
    /\ WF_vars(Proxy(\E q \in Queries : RecordAnswer(q)))

Spec == Init /\ [][Next]_vars /\ Fairness

-----------------------------------------------------------------------------
(* Properties.                                                              *)

\* Types, of the forwarder too.
TypeOK ==
    /\ ProxyTypeOK
    /\ phase \in Phases /\ collecting \in BOOLEAN /\ late \in BOOLEAN
    /\ loop \in [Loops -> {"none", "select", "work", "done"}]
    /\ http \in [Requests -> {"none", "open"}]

\* A request that was accepted is cut off by the exit only if the shutdown
\* timeout ended the wait for it.
CutOnlyWhenLate ==
    phase = "exited" /\ ~late => \A h \in Requests : http[h] # "open"

\* After the signal the process ends, whatever clients of HTTP and of the
\* forwarder go on holding, and however busy the loops are.
ExitsWhenAsked == (phase = "draining") ~> (phase = "exited")

\* What the forwarder has recorded is taken over by the attribution cache while
\* the process runs, with or without a collector and even if every collection fails.
RecordedIsTaken == (queue # {}) ~> (queue = {} \/ shutdown)
=============================================================================
