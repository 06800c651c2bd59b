----------------------------- MODULE MCDnsCache -----------------------------
(* Instances of DnsCache for TLC: one LAN address that DHCP hands over.      *)
EXTENDS DnsCache, TLC

CONSTANTS m1, m2, x, f1, f2, d1, d2

\* f1 is a flow of the first holder, f2 of the next.
TwoClientMac == f1 :> m1 @@ f2 :> m2
TwoClientIp == f1 :> x @@ f2 :> x
TwoFirstSeen == f1 :> 0 @@ f2 :> 1
\* m2 has the address for a while, then it goes back to m1.
TwoHolder == x :> [t \in Times |-> IF t = 1 THEN m2 ELSE m1]

OneDeviceMac == f1 :> m1
OneDeviceIp == f1 :> x
OneDeviceFirst == f1 :> 0
OneHolder == x :> [t \in Times |-> m1]

Says(dom, targets, ttl) == [domain |-> dom, targets |-> targets, ttl |-> ttl]
TwoAnswers == {Says(d1, {1}, 2), Says(d2, {1}, 1)}
WideAnswers == {Says(d1, {1, 2}, 2), Says(d2, {1}, 1), Says(d1, {}, 1), Says(d2, {2}, 0)}
=============================================================================
