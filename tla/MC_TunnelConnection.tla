------------------------- MODULE MC_TunnelConnection -------------------------
(* Model-checking instance of TunnelConnection.  Addresses: this node's   *)
(* mesh address, a registered peer and an unregistered mesh address, two  *)
(* local service addresses and one address outside everything.  The peer *)
(* link's ingress is ["svcA/32", "!svcB/32"] (an allow and a deny entry,  *)
(* scenario S3 of the specification).                                     *)
EXTENDS TunnelConnection

CONSTANTS self, peer, other, svcA, svcB, ext, w1, w2

MCAddr    == {self, peer, other, svcA, svcB, ext}
MCMeshNet == {self, peer, other}
MCLocal   == << {svcA, svcB} >>
MCLinks   == peer :> << [deny |-> FALSE, net |-> {svcA}], [deny |-> TRUE, net |-> {svcB}] >>

MCHelloCidrs ==
    { [ip |-> peer,  net |-> MCMeshNet],   \* a proper peer
      [ip |-> other, net |-> MCMeshNet],   \* an address other than the link's
      [ip |-> peer,  net |-> {peer}],      \* our address not in its range
      [ip |-> Zero,  net |-> {}] }         \* anonymous

Pkt(s, d) == [v4 |-> TRUE, ok |-> TRUE, src |-> s, dst |-> d]

MCPackets ==
    { Pkt(peer, svcA), Pkt(peer, svcB), Pkt(peer, ext),
      Pkt(other, svcA), Pkt(ext, self), Pkt(ext, svcA),
      [v4 |-> FALSE, ok |-> TRUE, src |-> ext, dst |-> ext],
      [v4 |-> TRUE, ok |-> FALSE, src |-> peer, dst |-> svcA] }
=============================================================================
