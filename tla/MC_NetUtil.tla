------------------------------- MODULE MC_NetUtil -------------------------------
(* Model-checking instance of NetUtil and BrokerConfig.  Address bytes at  *)
(* the carry edges (0, 1, 127, 128, 255), prefixes at and around the byte  *)
(* boundaries, SubIP offsets 0, 1, the cluster DNS offset 10 and 256 (a    *)
(* carry out of the last byte with nothing added to it), payload lengths   *)
(* at the edges of a byte, of the read buffer and of uint16.  Three CIDR   *)
(* texts: two addresses of one /24 and one /16 around it, so a link       *)
(* address is inside one mesh and outside the other.                      *)
EXTENDS BrokerConfig

MCParsedCIDR ==
    "10.1.0.5/24" :> [ip |-> <<10, 1, 0, 5>>, prefix |-> 24] @@
    "10.1.0.7/24" :> [ip |-> <<10, 1, 0, 7>>, prefix |-> 24] @@
    "10.1.1.1/16" :> [ip |-> <<10, 1, 1, 1>>, prefix |-> 16]
=============================================================================
