-------------------------------- MODULE Routes --------------------------------
(***************************************************************************)
(* The routing side of the link registry (src/pkg/kubelink/links.go):      *)
(* the egress list LinkFor builds from a KubeLink spec, the lookup the Mux *)
(* uses to pick a peer for a destination (GetLinkForIP), and what the      *)
(* registry hands to the router for the node's kernel: the routes via the  *)
(* link gateways (GetRoutes), the routes into the kubelink device on the   *)
(* gateway node itself (GetRoutesToLink), IsGateway and GetMeshGatewaysFor. *)
(*                                                                         *)
(* Each query runs under the read lock, so it is a function of one         *)
(* registry snapshot.  The state is that snapshot, name -> [egress,        *)
(* gateway]; the environment adds, changes and removes links.  A link's    *)
(* cluster address is fixed per name (module Links covers readdressing),   *)
(* and the clusteraddr index is taken as complete (Links shows when it is  *)
(* not).  A CIDR is a record [addrs, len]: the addresses it contains and   *)
(* its prefix length.  Go's map iteration order is not fixed, so a query   *)
(* that returns the first or last match yields the SET of its possible    *)
(* answers.  The kernel picks, among the routes that cover a destination,  *)
(* the ones with the longest prefix.                                       *)
(***************************************************************************)
EXTENDS Naturals, FiniteSets

CONSTANTS
    Names,         \* link names
    Nodes,         \* node interface addresses; link gateways are nodes
    Addr,          \* destination addresses
    ServiceNets,   \* CIDRs a spec.cidr may name
    EgressNets,    \* CIDRs a spec.egress entry may name
    ClusterIP,     \* name -> the IP of the link's cluster address
    ClusterNet,    \* name -> CIDRNet(ClusterAddress), the mesh network
    Dev,           \* the kubelink device (GetRoutesToLink's LinkIndex)
    None

Nets == ServiceNets \cup EgressNets \cup {ClusterNet[n] : n \in Names}

(* The mesh: the networks of the links' cluster addresses. *)
MeshAddr == UNION {ClusterNet[n].addrs : n \in Names}

(* The part of a KubeLink spec the routing reads. *)
KubeLinkSpec == [cidr : ServiceNets \cup {None}, egress : SUBSET EgressNets, gateway : Nodes]

VARIABLE links   \* Links.links: name -> [egress, gateway]

-----------------------------------------------------------------------------
LinkForNoEmptyCheck(s) ==
    [egress |-> {s.cidr} \cup s.egress, gateway |-> s.gateway]

(* LinkFor: the service CIDR, if the spec names one, then every egress     *)
(* entry; the gateway from the status.                                     *)
LinkFor(s) ==
    [egress |-> (IF s.cidr = None THEN {} ELSE {s.cidr}) \cup s.egress,
     gateway |-> s.gateway]

Covers(c, ip) == ip \in c.addrs

(* GetLinkForIP: the link with that cluster address; otherwise the first  *)
(* link, in map order, one of whose egress CIDRs contains the address.     *)
GetLinkForIP(lk, ip) ==
    LET byAddr   == {n \in DOMAIN lk : ClusterIP[n] = ip}
        byEgress == {n \in DOMAIN lk : \E c \in lk[n].egress : Covers(c, ip)}
    IN  IF byAddr # {} THEN byAddr ELSE IF byEgress # {} THEN byEgress ELSE {None}

(* IsGateway: some link has this node as its gateway. *)
IsGateway(lk, me) == \E n \in DOMAIN lk : lk[n].gateway = me

(* GetMeshGatewaysFor: the gateways of all links whose cluster address    *)
(* contains ip (a list in Go; its set here), and CIDRNet of the last such  *)
(* link in map order.                                                      *)
GetMeshGatewaysFor(lk, ip) ==
    LET m == {n \in DOMAIN lk : Covers(ClusterNet[n], ip)}
    IN  IF m = {} THEN {[cidr |-> None, gateways |-> {}]}
        ELSE {[cidr |-> ClusterNet[k], gateways |-> {lk[n].gateway : n \in m}] : k \in m}

GetRoutesNoGatewayCheck(lk, me) ==
    UNION {{[dst |-> c, via |-> lk[n].gateway] : c \in lk[n].egress \cup {ClusterNet[n]}}
             : n \in DOMAIN lk}

(* GetRoutes: for every link whose gateway is another node, a route via   *)
(* that gateway to each egress CIDR and to CIDRNet(ClusterAddress).        *)
GetRoutes(lk, me) ==
    UNION {{[dst |-> c, via |-> lk[n].gateway] : c \in lk[n].egress \cup {ClusterNet[n]}}
             : n \in {k \in DOMAIN lk : lk[k].gateway # me}}

(* GetRoutesToLink: on the gateway node, each egress CIDR of its links    *)
(* into the kubelink device.                                               *)
GetRoutesToLink(lk, me) ==
    UNION {{[dst |-> c, via |-> Dev] : c \in lk[n].egress}
             : n \in {k \in DOMAIN lk : lk[k].gateway = me}}

(* The kernel of node me: where the most specific routes to d lead. *)
Targets(lk, me, d) ==
    LET rs   == {r \in GetRoutes(lk, me) \cup GetRoutesToLink(lk, me) : Covers(r.dst, d)}
        best == {r \in rs : \A r2 \in rs : r2.dst.len <= r.dst.len}
    IN  {r.via : r \in best}

-----------------------------------------------------------------------------
(* The link reconciler's UpdateLink and RemoveLink, as far as routing     *)
(* sees them.                                                              *)
SetLink(n, s) ==
    /\ ~(n \in DOMAIN links /\ links[n] = LinkFor(s))
    /\ links' = [k \in DOMAIN links \cup {n} |-> IF k = n THEN LinkFor(s) ELSE links[k]]

DropLink(n) ==
    /\ n \in DOMAIN links
    /\ links' = [k \in DOMAIN links \ {n} |-> links[k]]

Init == links = [n \in {} |-> None]

Next ==
    \/ \E n \in Names, s \in KubeLinkSpec : SetLink(n, s)
    \/ \E n \in Names : DropLink(n)

Spec == Init /\ [][Next]_links

-----------------------------------------------------------------------------
TypeOK ==
    /\ DOMAIN links \subseteq Names
    /\ \A n \in DOMAIN links : links[n].egress \subseteq Nets /\ links[n].gateway \in Nodes

(* A destination outside the mesh that exactly one registered link's      *)
(* egress covers reaches that link from every node: the most specific     *)
(* routes a node installs (GetRoutes and GetRoutesToLink) lead via the    *)
(* link's gateway, or into the kubelink device on the gateway itself, and *)
(* there GetLinkForIP picks that link in every map order.  The gateway    *)
(* split of the two route queries and the egress scan of the lookup must  *)
(* agree for it, across every registry the reconciler can produce.        *)
EgressRoutedToItsLink ==
    \A d \in Addr \ MeshAddr, me \in Nodes :
        LET owners == {n \in DOMAIN links : \E c \in links[n].egress : Covers(c, d)}
        IN  \A l \in owners :
              owners = {l} =>
                 /\ Targets(links, me, d) = IF links[l].gateway = me THEN {Dev}
                                            ELSE {links[l].gateway}
                 /\ GetLinkForIP(links, d) = {l}

=============================================================================
