---------------------------- MODULE MCFlowPaging ----------------------------
(* Instances of FlowPaging for TLC.                                          *)
EXTENDS FlowPaging

CONSTANTS m1, m2

\* Three flows of one device, so that pages of one or two leave some to come,
\* beside one flow of another.
PagedClientMac == [f \in FlowIds |-> IF f = 9 THEN m2 ELSE m1]
=============================================================================
