----------------------------- MODULE MCFlowMap -----------------------------
(* An instance of FlowMap for TLC.                                           *)
EXTENDS FlowMap

CONSTANTS c1, c2

\* One CPU has the first packet, of either flow, and may be slow with it; the
\* other has those that follow.
SlowAndFast == [c \in Cpus |-> [k \in Keys |->
                    IF c = c1 THEN 1 ELSE IF k = 1 THEN 4 ELSE 0]]

\* Four packets of one flow alone, or two beside the one packet of a quiet flow.
AloneOrBeside == {load \in [Keys -> 0 .. 4] : load[2] = 0 \/ (load[1] <= 2 /\ load[2] = 1)}
=============================================================================
