------------------------------- MODULE MC_Routes -------------------------------
(* Two links and two gateway nodes.  The mesh M holds both cluster        *)
(* addresses and one unused address; outside it, a service network A, a  *)
(* more specific egress B inside A, a default route W and a host route H  *)
(* onto the second link's cluster address.                                *)
EXTENDS Routes, TLC

CONSTANTS n1, n2, g1, g2, c1, c2, p, e1, e2, e3

MCAddr == {c1, c2, p, e1, e2, e3}
MCNames == {n1, n2}
MCNodes == {g1, g2}
M == [addrs |-> {c1, c2, p}, len |-> 24]
A == [addrs |-> {e1, e2}, len |-> 16]
B == [addrs |-> {e2}, len |-> 24]
W == [addrs |-> MCAddr, len |-> 0]
H == [addrs |-> {c2}, len |-> 32]

MCService == {A}
MCEgress  == {B, W, H}

MCClusterIP  == n1 :> c1 @@ n2 :> c2
MCClusterNet == n1 :> M @@ n2 :> M
=============================================================================
