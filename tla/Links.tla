-------------------------------- MODULE Links --------------------------------
(***************************************************************************)
(* The link registry of the broker (src/pkg/kubelink/links.go, type       *)
(* Links) together with the environment that drives it:                    *)
(*                                                                         *)
(*  - the KubeLink objects in the cluster (the informer cache, "store"),   *)
(*    which the link reconciler turns into UpdateLink / RemoveLink calls   *)
(*    through a de-duplicating FIFO work queue;                            *)
(*  - the HELLO handler and the reconciler, which stage and confirm the    *)
(*    foreign data (access and DNS info) advertised by a peer through      *)
(*    UpdateLinkInfo and LinkInfoUpdated.                                  *)
(*                                                                         *)
(* Every method of Links takes the registry lock for its whole body, so    *)
(* each one is a single atomic step here.  A Link value is an immutable    *)
(* snapshot: the three maps hold snapshots, and a replaced snapshot stays  *)
(* in an index only if the code forgets to overwrite or delete it.         *)
(*                                                                         *)
(* Data is abstracted: a CIDR/IP is a model value of IPs, an endpoint host *)
(* a model value of Hosts, access and DNS info are values of Access / DNS. *)
(* LinkFor's parse errors (bad CIDR, no endpoint, no gateway, bad port or  *)
(* key) are the single flag "valid" of a KubeLink spec.                    *)
(***************************************************************************)
EXTENDS Naturals, Sequences, SequencesExt, FiniteSets, Functions

CONSTANTS
    Names,       \* names of KubeLink objects (link names)
    Hosts,       \* endpoint hosts (parts[0] of spec.endpoint)
    IPs,         \* cluster addresses inside the mesh
    Access,      \* LinkAccessInfo values, ZeroAccess is the Go zero value
    ZeroAccess,
    DNS,         \* LinkDNSInfo values, ZeroDNS is the Go zero value
    ZeroDNS,
    Nil          \* a nil *LinkAccessInfo / *LinkDNSInfo argument

ASSUME ZeroAccess \in Access /\ ZeroDNS \in DNS /\ Nil \notin Access \cup DNS

VARIABLES
    links,        \* Links.links       : name -> *Link
    endpoints,    \* Links.endpoints   : host -> *Link
    clusteraddr,  \* Links.clusteraddr : ip   -> *Link
    initialized,  \* Links.initialized
    store,        \* KubeLink objects in the informer cache: name -> spec
    queue,        \* the reconciler's work queue of link names
    unconfirmed   \* history: staged foreign fields not yet echoed back

regVars == <<links, endpoints, clusteraddr, initialized>>
envVars == <<store, queue>>
vars    == <<regVars, envVars, unconfirmed>>

Fields == {"access", "dns"}

(* The spec part of a KubeLink object that LinkFor reads. *)
KubeLinkSpec == [host : Hosts, ip : IPs, valid : BOOLEAN]

(* LinkForeignData: UpdatePending, LinkAccessInfo, LinkDNSInfo. *)
ForeignData == [pending : BOOLEAN, access : Access, dns : DNS]
ZeroForeign == [pending |-> FALSE, access |-> ZeroAccess, dns |-> ZeroDNS]

Link == [name : Names, host : Hosts, ip : IPs, fd : ForeignData]

(* The empty Go map. *)
EmptyMap == [k \in {} |-> Nil]
(* A partial function with k mapped to v (Go: m[k] = v). *)
MapPut(f, k, v) == k :> v @@ f
(* A partial function without k (Go: delete(m, k)). *)
MapDelete(f, k) == Restrict(f, DOMAIN f \ {k})

(* The registry as one value, so that the methods compose as in Go. *)
Reg == [links |-> links, endpoints |-> endpoints, clusteraddr |-> clusteraddr]

SetReg(r) ==
    /\ links' = r.links
    /\ endpoints' = r.endpoints
    /\ clusteraddr' = r.clusteraddr

(***************************************************************************)
(* Mutations of the code used by the mutant runs (see PROJECT.json).       *)
(***************************************************************************)
replaceLinkSwappedKeys(r, l) ==
    [r EXCEPT !.links       = MapPut(@, l.name, l),
              !.endpoints   = MapPut(@, l.ip, l),
              !.clusteraddr = MapPut(@, l.host, l)]

(* Links.replaceLink: the snapshot goes into all three maps. *)
replaceLink(r, l) ==
    [r EXCEPT !.links       = MapPut(@, l.name, l),
              !.endpoints   = MapPut(@, l.host, l),
              !.clusteraddr = MapPut(@, l.ip, l)]

(* Links.LinkFor: the new snapshot for a KubeLink spec, fresh foreign data. *)
LinkFor(n, s) == [name |-> n, host |-> s.host, ip |-> s.ip, fd |-> ZeroForeign]

updateLinkIgnoreExisting(r, n, s) ==
    IF ~s.valid \/ n \in DOMAIN r.links THEN r ELSE replaceLink(r, LinkFor(n, s))

updateLinkKeepOldHost(r, n, s) ==
    LET l   == LinkFor(n, s)
        old == r.links[n]
        r1  == [r EXCEPT !.clusteraddr = IF old.ip # l.ip THEN MapDelete(@, old.ip) ELSE @]
    IN  IF ~s.valid THEN r
        ELSE IF n \notin DOMAIN r.links THEN replaceLink(r, l)
        ELSE replaceLink(r1, [l EXCEPT !.fd = old.fd])

updateLinkDropForeign(r, n, s) ==
    LET l   == LinkFor(n, s)
        old == r.links[n]
        r1  == [r EXCEPT !.endpoints   = IF old.host # l.host THEN MapDelete(@, old.host) ELSE @,
                         !.clusteraddr = IF old.ip # l.ip THEN MapDelete(@, old.ip) ELSE @]
    IN  IF ~s.valid THEN r
        ELSE IF n \notin DOMAIN r.links THEN replaceLink(r, l)
        ELSE replaceLink(r1, l)

(* Links.updateLink: drop the index entries of the old host and address   *)
(* if they changed, carry the foreign data over, then replaceLink.         *)
(* A spec LinkFor rejects leaves the registry as it is.                    *)
updateLink(r, n, s) ==
    LET l   == LinkFor(n, s)
        old == r.links[n]
        r1  == [r EXCEPT !.endpoints   = IF old.host # l.host THEN MapDelete(@, old.host) ELSE @,
                         !.clusteraddr = IF old.ip # l.ip THEN MapDelete(@, old.ip) ELSE @]
    IN  IF ~s.valid THEN r
        ELSE IF n \notin DOMAIN r.links THEN replaceLink(r, l)
        ELSE replaceLink(r1, [l EXCEPT !.fd = old.fd])

(* Links.RemoveLink: delete the name and the old snapshot's two keys. *)
RemoveLink(r, n) ==
    IF n \notin DOMAIN r.links THEN r
    ELSE LET l == r.links[n]
         IN [r EXCEPT !.links       = MapDelete(@, n),
                      !.endpoints   = MapDelete(@, l.host),
                      !.clusteraddr = MapDelete(@, l.ip)]

(* Links.GetLinkForClusterAddress / GetLinkForEndpoint. *)
GetLinkForClusterAddress(ip) == IF ip \in DOMAIN clusteraddr THEN clusteraddr[ip] ELSE Nil
GetLinkForEndpoint(h)        == IF h \in DOMAIN endpoints THEN endpoints[h] ELSE Nil

(***************************************************************************)
(* Environment: KubeLink objects change in the cluster.  Each change puts  *)
(* the name into the work queue unless it is queued already.  The store    *)
(* never holds two objects with the same cluster address or endpoint host  *)
(* (the data model's uniqueness rule); the registry is not asked to cope   *)
(* with a store that breaks it.                                            *)
(***************************************************************************)
(* The controller work queue: a queued key is not queued twice. *)
Enqueue(q, n) == IF Contains(q, n) THEN q ELSE Append(q, n)

StoreUnique(st) ==
    \A a, b \in DOMAIN st : a # b => st[a].host # st[b].host /\ st[a].ip # st[b].ip

StorePut(n, s) ==
    /\ StoreUnique(MapPut(store, n, s))
    /\ ~(n \in DOMAIN store /\ store[n] = s)
    /\ store' = MapPut(store, n, s)
    /\ queue' = Enqueue(queue, n)
    /\ UNCHANGED <<regVars, unconfirmed>>

StoreDelete(n) ==
    /\ n \in DOMAIN store
    /\ store' = MapDelete(store, n)
    /\ queue' = Enqueue(queue, n)
    /\ UNCHANGED <<regVars, unconfirmed>>

(***************************************************************************)
(* Links.RegisterLink(name, clusterCIDR, fqdn, cidr), the auto-connect     *)
(* registration: Create a KubeLink object with name, cluster address,      *)
(* endpoint and service CIDR (an existing name makes Create fail and      *)
(* nothing happens), then UpdateLink with that object.  The object has no  *)
(* status, so LinkFor rejects it ("no gateway address"): the object is in  *)
(* the store and queued, the registry is left as it is whatever ran in     *)
(* between, and the link appears only once its status names a gateway.    *)
(***************************************************************************)
RegisterLink(n, h, i) ==
    LET kl == [host |-> h, ip |-> i, valid |-> FALSE] IN
    /\ n \notin DOMAIN store
    /\ StoreUnique(MapPut(store, n, kl))
    /\ store' = MapPut(store, n, kl)
    /\ queue' = Enqueue(queue, n)
    /\ SetReg(updateLink(Reg, n, kl))
    /\ UNCHANGED <<initialized, unconfirmed>>

(***************************************************************************)
(* Links.Setup: once, under the lock, updateLink for every cached object,  *)
(* in the (unspecified) order of the cache listing.                        *)
(***************************************************************************)
Setup ==
    /\ ~initialized
    /\ initialized' = TRUE
    /\ \E order \in SetToSeqs(DOMAIN store) :
          SetReg(FoldLeft(LAMBDA r, n : updateLink(r, n, store[n]), Reg, order))
    /\ UNCHANGED <<envVars, unconfirmed>>

(***************************************************************************)
(* The link reconciler: take the head of the queue; an existing object is  *)
(* handed to UpdateLink, a deleted one to RemoveLink.  A spec LinkFor      *)
(* rejects is an error and the name is queued again (rate limited retry).  *)
(***************************************************************************)
Reconcile ==
    /\ initialized
    /\ queue # <<>>
    /\ LET n == Head(queue) IN
       IF n \in DOMAIN store
       THEN /\ SetReg(updateLink(Reg, n, store[n]))
            /\ queue' = IF store[n].valid THEN Tail(queue) ELSE Enqueue(Tail(queue), n)
            /\ unconfirmed' = IF n \in DOMAIN links THEN unconfirmed
                              ELSE [unconfirmed EXCEPT ![n] = {}]
       ELSE /\ SetReg(RemoveLink(Reg, n))
            /\ queue' = Tail(queue)
            /\ unconfirmed' = [unconfirmed EXCEPT ![n] = {}]
    /\ UNCHANGED <<initialized, store>>

(***************************************************************************)
(* Links.UpdateLinkInfo(name, access, dns, pending): a field that differs  *)
(* from the snapshot is taken over if no update is pending or the new one  *)
(* is itself pending (both tests read the OLD snapshot); the snapshot is   *)
(* replaced only if some field was taken over.                             *)
(***************************************************************************)
Differs(v, cur) == v # Nil /\ v # cur

UpdateLinkInfoNoPendingGuard(n, access, dns, pending) ==
    /\ n \in DOMAIN links
    /\ LET old    == links[n]
           accNew == Differs(access, old.fd.access)
           dnsNew == Differs(dns, old.fd.dns)
           taken  == {f \in Fields : IF f = "access" THEN accNew ELSE dnsNew}
           new    == [old EXCEPT !.fd.access  = IF accNew THEN access ELSE @,
                                 !.fd.dns     = IF dnsNew THEN dns ELSE @,
                                 !.fd.pending = pending]
       IN /\ taken # {}
          /\ SetReg(replaceLink(Reg, new))
          /\ unconfirmed' = [unconfirmed EXCEPT ![n] =
                               IF pending THEN @ \cup taken ELSE @ \ taken]
    /\ UNCHANGED <<initialized, envVars>>

UpdateLinkInfo(n, access, dns, pending) ==
    /\ n \in DOMAIN links
    /\ LET old    == links[n]
           accNew == Differs(access, old.fd.access) /\ (~old.fd.pending \/ pending)
           dnsNew == Differs(dns, old.fd.dns) /\ (~old.fd.pending \/ pending)
           taken  == {f \in Fields : IF f = "access" THEN accNew ELSE dnsNew}
           new    == [old EXCEPT !.fd.access  = IF accNew THEN access ELSE @,
                                 !.fd.dns     = IF dnsNew THEN dns ELSE @,
                                 !.fd.pending = pending]
       IN /\ taken # {}
          /\ SetReg(replaceLink(Reg, new))
          /\ unconfirmed' = [unconfirmed EXCEPT ![n] =
                               IF pending THEN @ \cup taken ELSE @ \ taken]
    /\ UNCHANGED <<initialized, envVars>>

(***************************************************************************)
(* Links.LinkInfoUpdated(name, access, dns): the confirmation.  If a given *)
(* value equals the snapshot's, UpdatePending is cleared and the snapshot  *)
(* replaced.                                                               *)
(***************************************************************************)
LinkInfoUpdated(n, access, dns) ==
    /\ n \in DOMAIN links
    /\ LET old    == links[n]
           accEq  == access # Nil /\ access = old.fd.access
           dnsEq  == dns # Nil /\ dns = old.fd.dns
           echoed == {f \in Fields : IF f = "access" THEN accEq ELSE dnsEq}
       IN /\ echoed # {}
          /\ SetReg(replaceLink(Reg, [old EXCEPT !.fd.pending = FALSE]))
          /\ unconfirmed' = [unconfirmed EXCEPT ![n] = @ \ echoed]
    /\ UNCHANGED <<initialized, envVars>>

Init ==
    /\ links = EmptyMap /\ endpoints = EmptyMap /\ clusteraddr = EmptyMap
    /\ initialized = FALSE
    /\ store = EmptyMap
    /\ queue = <<>>
    /\ unconfirmed = [n \in Names |-> {}]

Next ==
    \/ \E n \in Names, s \in KubeLinkSpec : StorePut(n, s)
    \/ \E n \in Names : StoreDelete(n)
    \/ \E n \in Names, h \in Hosts, i \in IPs : RegisterLink(n, h, i)
    \/ Setup
    \/ Reconcile
    \/ \E n \in Names, a \in Access \cup {Nil}, d \in DNS \cup {Nil}, p \in BOOLEAN :
          UpdateLinkInfo(n, a, d, p)
    \/ \E n \in Names, a \in Access \cup {Nil}, d \in DNS \cup {Nil} :
          LinkInfoUpdated(n, a, d)

Spec == Init /\ [][Next]_vars

-----------------------------------------------------------------------------
(***************************************************************************)
(* Properties                                                              *)
(***************************************************************************)

IsMap(f, K, V) == DOMAIN f \subseteq K /\ \A k \in DOMAIN f : f[k] \in V

TypeOK ==
    /\ IsMap(links, Names, Link)
    /\ IsMap(endpoints, Hosts, Link)
    /\ IsMap(clusteraddr, IPs, Link)
    /\ initialized \in BOOLEAN
    /\ IsMap(store, Names, KubeLinkSpec)
    /\ queue \in Seq(Names) /\ IsInjective(queue)
    /\ unconfirmed \in [Names -> SUBSET Fields]

(* GetLinkForEndpoint and GetLinkForClusterAddress never answer with a    *)
(* removed link or an outdated snapshot: every index entry is the current *)
(* snapshot of a registered link that has that host / address.  This is   *)
(* what updateLink's deletes of the old keys and replaceLink's overwrites  *)
(* have to achieve across renames, removals and foreign-data updates.     *)
IndexSound ==
    /\ \A h \in DOMAIN endpoints :
          LET l == endpoints[h] IN l.name \in DOMAIN links /\ links[l.name] = l /\ l.host = h
    /\ \A i \in DOMAIN clusteraddr :
          LET l == clusteraddr[i] IN l.name \in DOMAIN links /\ links[l.name] = l /\ l.ip = i

(* Once the reconciler has drained its queue, the registry holds exactly  *)
(* the cluster's valid KubeLink objects with their hosts and addresses.   *)
RegistryMirrorsStore ==
    (initialized /\ queue = <<>>) =>
        /\ DOMAIN links = DOMAIN store
        /\ \A n \in DOMAIN links : links[n].host = store[n].host /\ links[n].ip = store[n].ip

(* Once the queue is drained (the registry then mirrors a store without   *)
(* duplicate addresses), every registered link is found by its cluster    *)
(* address (GetLinkForClusterAddress, the per-packet lookup of serve's    *)
(* ingress check at endpoints.go:558).                                     *)
ConvergedIndexComplete ==
    (initialized /\ queue = <<>>) =>
        \A n \in DOMAIN links : GetLinkForClusterAddress(links[n].ip) = links[n]

(* A staged (pending) foreign value is replaced only by another staged    *)
(* value, never by an unconfirmed plain update (UpdateLinkInfo with       *)
(* pending = FALSE) or by a store reconcile.                              *)
StagedNotOverwritten ==
    [][\A n \in DOMAIN links \cap DOMAIN links' :
          /\ links[n].fd.pending
          /\ (links'[n].fd.access # links[n].fd.access \/ links'[n].fd.dns # links[n].fd.dns)
          => links'[n].fd.pending]_links

(* The two-phase foreign-data update: as long as some staged value has    *)
(* not been echoed back by LinkInfoUpdated, the link stays marked pending. *)
PendingUntilConfirmed ==
    \A n \in DOMAIN links : unconfirmed[n] # {} => links[n].fd.pending

-----------------------------------------------------------------------------
(***************************************************************************)
(* Refinement: the registry implements the promise of spec section 4.3    *)
(* (module RegistryAbstract).  The abstract registry is the links map      *)
(* with each snapshot cut down to host, address and foreign data; the two  *)
(* indices, the queue and the history are internal.                        *)
(***************************************************************************)
AbsEntry(l) == [host |-> l.host, ip |-> l.ip, fd |-> l.fd]

Registry == INSTANCE RegistryAbstract WITH reg <- [n \in DOMAIN links |-> AbsEntry(links[n])]

(* Every step of the registry and its reconciler is a step of the abstract *)
(* registry: Setup is Load, a reconcile of a valid object is a Put that    *)
(* keeps the foreign data (updateLink), a reconcile of a deleted object a  *)
(* Remove, UpdateLinkInfo a Stage that respects a pending value and        *)
(* LinkInfoUpdated a Confirm.                                              *)
RegistryRefinement == Registry!Spec

=============================================================================
