----------------------------- MODULE MCPipeline -----------------------------
(* Instances of Pipeline for TLC.                                            *)
EXTENDS Pipeline, TLC

CONSTANTS m1, m2, x, f1, f2, d1, d2

\* DHCP hands the address x from m1 to m2; each has a flow to the same target.
HandoverClientMac == f1 :> m1 @@ f2 :> m2
HandoverClientIp == f1 :> x @@ f2 :> x
HandoverFirstSeen == f1 :> 0 @@ f2 :> 1
HandoverDestIp == f1 :> 1 @@ f2 :> 1
HandoverHolder == x :> [t \in Times |-> IF t = 0 THEN m1 ELSE m2]

\* One device, one flow.
AloneClientMac == f1 :> m1
AloneClientIp == f1 :> x
AloneFirstSeen == f1 :> 0
AloneDestIp == f1 :> 1
AloneHolder == x :> [t \in Times |-> m1]

Says(dom, ip, ttl) == [domain |-> dom, targets |-> {ip}, ttl |-> ttl]
OneName == {Says(d1, 1, 2)}
\* A name of the flow's target, and of another target.
TwoTargets == {Says(d1, 1, 1), Says(d1, 2, 1)}

NameEverywhere == {[kind |-> "domain", mac |-> None, domain |-> d1]}
HandoverDeletions ==
    NameEverywhere \cup
        {[kind |-> "device", mac |-> m2], [kind |-> "domain", mac |-> m2, domain |-> d1],
         [kind |-> "range", from |-> 0, to |-> 2]}
NoDeletions == {}
=============================================================================
