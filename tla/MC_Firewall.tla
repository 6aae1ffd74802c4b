------------------------------ MODULE MC_Firewall ------------------------------
EXTENDS Firewall, TLC

CONSTANTS n1, n2, c1, c2, s1, s2, x

MCNames == {n1, n2}
MCAddr  == {c1, c2, s1, s2, x}
MCLinkIP == n1 :> c1 @@ n2 :> c2

(* Ingress entries over three CIDRs: two single services and a range       *)
(* holding both, each allowed or denied; lists of up to two entries.        *)
Entries == [deny : BOOLEAN, net : {{s1}, {s2}, {s1, s2}}]
MCIngress == {<<>>} \cup {<<e>> : e \in Entries} \cup {<<e, f>> : e, f \in Entries}
=============================================================================
