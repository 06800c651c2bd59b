---------------------------- MODULE MCFlowLedger ----------------------------
(* Instances of FlowLedger for TLC: names, flow identities and inputs.       *)
EXTENDS FlowRefinement, TLC

CONSTANTS f1, f2, m1, m2, ip1, d1, d2

Attr(dom, conf, src, at, exp) ==
    [domain |-> dom, confidence |-> conf, source |-> src, at |-> at, exp |-> exp]

Hint == Attr(d1, "low", "sni", 0, 2)          \* a collector's weak hint
Resolved == Attr(d2, "high", "dns", 0, 3)     \* what DNS resolved
Later == Attr(d1, "high", "dns", 1, 3)        \* a later answer for the same address

\* Both flows belong to one device and one destination.
SharedClientMac == f1 :> m1 @@ f2 :> m1
SharedDestIp == f1 :> ip1 @@ f2 :> ip1
SharedFirstSeen == f1 :> 0 @@ f2 :> 1
SharedAttributions == {Hint}
SharedBindings == {[mac |-> m1, ip |-> ip1, attr |-> a] : a \in {Resolved, Later}}

\* A single flow, written under the current schema.
SoleClientMac == f1 :> m1
SoleDestIp == f1 :> ip1
SoleFirstSeen == f1 :> 0
=============================================================================
