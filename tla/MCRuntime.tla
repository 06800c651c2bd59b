----------------------------- MODULE MCRuntime -----------------------------
EXTENDS Runtime

CONSTANTS u1, u2, c1, c2, conn1

MCConnOf == [q \in TcpQueries |-> conn1]
\* Two addresses, of which the one to be kept shorter counts; one that must
\* not be kept; none.
MCAnswerOf ==
    [q \in Queries |->
        CASE q = u1 -> {[address |-> 1, ttl |-> 2], [address |-> 2, ttl |-> 1]}
          [] q = u2 -> {[address |-> 1, ttl |-> 0]}
          [] OTHER -> {}]
=============================================================================
