------------------------------ MODULE MC_ConnectTask ------------------------------
(* Model-checking instance of ConnectTask: two responsible links, two     *)
(* endpoint hosts whose brokers announce the addresses i1 and i2, and a   *)
(* link spec may name either host with either address, so a link can be  *)
(* re-addressed or point at the wrong peer.                               *)
EXTENDS ConnectTask

CONSTANTS n1, n2, h1, h2, i1, i2

MCHelloAt == h1 :> i1 @@ h2 :> i2
=============================================================================
