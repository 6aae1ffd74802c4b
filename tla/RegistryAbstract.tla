--------------------------- MODULE RegistryAbstract ---------------------------
(***************************************************************************)
(* What the link registry promises (spec section 4.3), independent of its  *)
(* three maps and of the reconciler's queue.  The state is the cluster's   *)
(* KubeLink objects (store) and the registry as one function from a link   *)
(* name to the link's endpoint host, cluster address and foreign data.    *)
(*                                                                         *)
(*  - Load: the registry is filled once from the objects it finds, each    *)
(*    valid one with fresh foreign data;                                   *)
(*  - Put: a link takes over the host and address its object has NOW in   *)
(*    the cluster, and keeps its foreign data across the replacement;      *)
(*  - Remove: only a link whose object is gone from the cluster goes;      *)
(*  - Stage: new foreign data; while a staged value is pending only a call *)
(*    that is itself pending may replace it;                               *)
(*  - Confirm: the pending mark clears, the values stay.                   *)
(*                                                                         *)
(* The collision rule of section 4.3 (reject a Put whose address or host   *)
(* another link holds) is not part of this promise; see README, finding 1. *)
(***************************************************************************)
EXTENDS Naturals, FiniteSets, Functions, TLC

CONSTANTS Names, Hosts, IPs, Access, ZeroAccess, DNS, ZeroDNS

VARIABLES
    store,  \* name -> KubeLink spec, as in the cluster
    reg     \* name -> [host, ip, fd], the registered links

KubeLinkSpec == [host : Hosts, ip : IPs, valid : BOOLEAN]
ForeignData  == [pending : BOOLEAN, access : Access, dns : DNS]
ZeroForeign  == [pending |-> FALSE, access |-> ZeroAccess, dns |-> ZeroDNS]
Entry        == [host : Hosts, ip : IPs, fd : ForeignData]

IsPartialMap(f, K, V) == DOMAIN f \subseteq K /\ \A k \in DOMAIN f : f[k] \in V

(* The cluster never holds two objects with the same host or address. *)
Unique(st) == \A a, b \in DOMAIN st : a # b => st[a].host # st[b].host /\ st[a].ip # st[b].ip

ChangeStore ==
    /\ IsPartialMap(store', Names, KubeLinkSpec) /\ Unique(store')
    /\ UNCHANGED reg

Load ==
    /\ DOMAIN reg = {}
    /\ reg' = [n \in {m \in DOMAIN store : store[m].valid} |->
                  [host |-> store[n].host, ip |-> store[n].ip, fd |-> ZeroForeign]]
    /\ UNCHANGED store

Put(n) ==
    /\ n \in DOMAIN store /\ store[n].valid
    /\ reg' = n :> [host |-> store[n].host, ip |-> store[n].ip,
                    fd   |-> IF n \in DOMAIN reg THEN reg[n].fd ELSE ZeroForeign] @@ reg
    /\ UNCHANGED store

Remove(n) ==
    /\ n \in DOMAIN reg /\ n \notin DOMAIN store
    /\ reg' = Restrict(reg, DOMAIN reg \ {n})
    /\ UNCHANGED store

Stage(n) ==
    /\ n \in DOMAIN reg
    /\ \E fd \in ForeignData :
          /\ ~reg[n].fd.pending \/ fd.pending
          /\ reg' = [reg EXCEPT ![n].fd = fd]
    /\ UNCHANGED store

Confirm(n) ==
    /\ n \in DOMAIN reg /\ reg[n].fd.pending
    /\ reg' = [reg EXCEPT ![n].fd.pending = FALSE]
    /\ UNCHANGED store

Init == store = [n \in {} |-> ZeroForeign] /\ reg = [n \in {} |-> ZeroForeign]

Next ==
    \/ ChangeStore
    \/ Load
    \/ \E n \in Names : Put(n) \/ Remove(n) \/ Stage(n) \/ Confirm(n)

Spec == Init /\ [][Next]_<<store, reg>>

=============================================================================
