------------------------------- MODULE MC_Links -------------------------------
(* Model-checking instances of Links.  Three endpoint hosts and three     *)
(* cluster addresses let one link move onto a key that another link is    *)
(* about to leave; the foreign-data values are cut down per run.          *)
EXTENDS Links, TLC

CONSTANTS n1, n2, h1, h2, h3, i1, i2, i3, a0, a1, d0, d1

MCNames == {n1, n2}
Symmetry == Permutations(MCNames) \cup Permutations(Hosts) \cup Permutations(IPs)
=============================================================================
