# TLA+ models of kubelink

This directory holds TLA+ models of the kubelink broker: its link registry, its
ingress policy and routes, its tunnel connection, its connect tasks, its
start-up configuration and the byte-level helpers under them. Each model is checked with TLC.
Every definition is translated from the Go source under `src/`. `PROJECT.json`
maps each definition to the lines it models, and lists the runs, the mutants
that show each property can fail, the findings and the hazards.

## 1. The system

kubelink connects Kubernetes clusters into an IP mesh. Each node runs a
*broker* with these parts:

| Part | Source | State | Operations |
|------|--------|-------|------------|
| Link registry `Links` | `src/pkg/kubelink/links.go` 280-671 | `links` (name→*Link), `endpoints` (host→*Link), `clusteraddr` (ip→*Link), `initialized`, all under one RWMutex | `Setup`, `UpdateLink`/`updateLink`, `ReplaceLink`, `RemoveLink`, `UpdateLinkInfo`, `LinkInfoUpdated`, lookups (`GetLink`, `GetLinkForClusterAddress`, `GetLinkForEndpoint`, `GetLinkForIP`), `Visit`, `GetFirewallChains`, `GetRoutes` |
| Link parsing | `links.go` 49-264 | a `Link` is an immutable snapshot | `LinkFor`, `ParseIPRange` |
| Ingress policy | `links.go` 63-106, 144-179; `src/pkg/tcp/util.go` 112-146 | `IPRange{Allowed, Denied}` of `CIDRList` | `IsSet`, `Contains`, `AllowIngress`, `GetIngressChain` |
| Tunnel connection | `src/pkg/controllers/endpoints.go` 340-655 | `wlock`, `rlock`, the stream, the handlers | `NewTunnelConnection` (HELLO handshake and checks), `ReadPacket`, `WritePacket`, `Serve`/`serve`, `notify` |
| Connect task | `endpoints.go` 659-687 | rate limiter | `Execute`: `GetLink`, then `Mux.AssureTunnel` |
| Broker configuration | `endpoints.go` 97-296 | the `Config` fields, set once at start-up | `AddOptionsToSet`, `Prepare`, `MatchLink` |
| Endpoints parsing | `endpoints.go` 31-61 | none | `GetEndpoints` |
| Mux, link reconciler, informer cache | not under `src/` | tunnel table, work queue | `AssureTunnel`, `Notify`, reconcile |

How the parts interact:

- **Reconciler to registry.** The link reconciler watches KubeLink objects.
  It feeds each object through a de-duplicating work queue into `UpdateLink`
  or `RemoveLink`. `Setup` replays the informer cache once.
- **Connections to registry.** HELLO handlers stage a peer's advertised
  access and DNS info with `UpdateLinkInfo(pending)`. A later echo confirms it
  through `LinkInfoUpdated`.
- **Tunnel to registry.** A tunnel's read loop looks up the sender's link by
  cluster address for every packet. It applies that link's ingress policy
  before writing the packet to the tun device.
- **Tunnel to Mux.** Mux threads write packets to the tunnel concurrently with
  the handshake's HELLO writer. When the read loop ends, `notify` reports the
  error to the Mux and to the fail handlers.

What is hard here and what makes each part correct:

- **Registry.** Reconciles run in queue order, not event order. Setup
  replays the cache in map order. Invalid specs are retried while the other
  links move on. The two-phase foreign-data protocol is driven from two
  places. The registry is correct when:
  - the indexes hold only the current snapshot of each link under its own
    keys;
  - once quiet, the registry mirrors the cache and every link is found by its
    address and host;
  - a staged value stays until it is confirmed.
- **Tunnel.** Two goroutines write, each with two `write` calls per frame.
  The handshake reads while writing. The peer may send anything: a non-HELLO
  first, zero-length, unknown, oversize or cut-off frames, then FIN or RST.
  The tunnel is correct when:
  - frames never interleave on the wire;
  - nothing is served without a valid HELLO;
  - packets from the mesh come from registered links and pass their ingress
    policy;
  - the loop ends when the peer ends;
  - failures are reported.

## 2. Modules

| Module | Models | Composition |
|--------|--------|-------------|
| `Ingress` | `IPRange`, `ParseIPRange`, `IsSet`, `Contains`, `AllowIngress`, `CIDRList.IsSet/Contains` as pure operators; `SpecAllowIngress` is the policy as spec sections 3 and 4.7 state it | used by `TunnelConnection` |
| `Links` | the registry (three maps, `initialized`) with the informer cache and work queue as its environment | standalone; a fixed registry stands for it in `TunnelConnection` |
| `TunnelConnection` | one connection: handshake, framing, serve loop, notify; the peer as environment | `EXTENDS Ingress` |
| `Firewall` | `GetIngressChain`, `GetFirewallChains`, `FirewallEmbedding` and the chain constants; iptables traversal as a recursive operator `Walk` | `EXTENDS Ingress`; its state is the links' ingress lists, which `Links` changes |
| `RegistryAbstract` | what the registry promises (spec section 4.3): the cluster's objects and one name→[host, ip, fd] function, with `Load`, `Put`, `Remove`, `Stage`, `Confirm` | `Links` refines it through `INSTANCE ... WITH` |
| `ConnectTask` | `connectTask.Execute` (`GetLink`, then `AssureTunnel`) for every responsible link, the Mux peer table (spec-modelled) and an environment that changes links, peers and tunnels | composes a registry and the Mux; the handshake is reduced to the HELLO address check of `TunnelConnection` |
| `NetUtil` | the frame header (`WritePacket`, `ReadPacket`, `HtoNs`, `NtoHs`) and the address helpers `SubIP` and `CIDRNet`, as operators checked against integer reference definitions | standalone |
| `BrokerConfig` | `Config.Prepare` (its checks in order and the values it derives), `Config.MatchLink`, the flag defaults of `AddOptionsToSet`, and `GetEndpoints`, as operators checked against references over bounded inputs | `EXTENDS NetUtil` for `SubIP`, `CIDRNet` and the reference `Network`; checked in the `netutil` run |
| `Routes` | the routing queries of `Links`: `GetLinkForIP`, `GetRoutes`, `GetRoutesToLink`, `IsGateway`, `GetMeshGatewaysFor`, and the egress list and gateway `LinkFor` builds; the kernel's longest-prefix choice among the routes (`Targets`) | standalone; its state is the registry as the routing queries read it |
| `MC_*` | model values, small sets and symmetry for TLC | |

### Links

Variables:

- `links`, `endpoints` and `clusteraddr` are partial functions. Their values
  are `Link` records `[name, host, ip, fd]`. A record is a snapshot, as in the
  code.
- `store` is the informer cache, mapping a name to `[host, ip, valid]`.
  `valid` stands for every error `LinkFor` can return.
- `queue` is the work queue. `Enqueue` skips a name that is already queued.
- `unconfirmed` is a history variable: the foreign fields staged as pending
  and not yet echoed.

Each `Links` method holds the lock for its whole body, so each method is one
action. The actions are:

- `Setup`. It folds `updateLink` over the cache in every possible listing
  order.
- `Reconcile`. It takes the head of the queue and calls `updateLink` or
  `RemoveLink`. It requeues an invalid spec.
- `StorePut` and `StoreDelete`, the environment's changes to the cache. The
  cache keeps hosts and addresses unique.
- `UpdateLinkInfo(n, access, dns, pending)`. `Nil` stands for a nil pointer.
- `LinkInfoUpdated(n, access, dns)`.
- `RegisterLink(n, h, i)`, the auto-connect registration. It creates the
  object and then calls `UpdateLink` with it. The object has no status, so
  `LinkFor` rejects it (no gateway address) and the registry stays as it is,
  whatever ran in between.

`updateLink`, `replaceLink` and `RemoveLink` are operators on a registry
record. `Setup` and `Reconcile` apply them to the registry with `SetReg`.

**Refinement.** `Links` implements `RegistryAbstract`. The refinement
mapping keeps `store` and maps each registered link to its host, address and
foreign data (`AbsEntry`); the indexes, the queue and `initialized` are
hidden. `Setup` is `Load`, a reconcile of a valid object is `Put`, a
reconcile of a deleted object is `Remove`, `UpdateLinkInfo` is `Stage` (or a
stutter) and `LinkInfoUpdated` is `Confirm` (or a stutter). The property
`RegistryRefinement == Registry!Spec` is checked in `links_safety`. It shows
that, seen through `links` alone, the registry follows the cache and keeps a
link's foreign data across replacements; what goes wrong in the indexes
(finding 1) is invisible to the abstraction.

### TunnelConnection

Variables:

- `phase` is one of handshake, serving, failed or done.
- `inbound` holds the frames from the peer not yet read. `peerEnd` is open,
  fin or rst. `sent` is the history of every frame the peer sent.
- `out` is the stream to the peer.
- `wlock` and `wpc` are the write lock and each thread's position within
  `WritePacket`.
- `tun` holds the packets written to the device.
- `exitErr` is the error `serve` returns. `cause` records what really ended
  the loop. `notified` records whether `notify` reported it.

Actions:

- `WriteHeader(w)` and `WritePayload(w)` are the two `write` calls of
  `WritePacket`, made under `wlock`.
- `ReadHello` and `HandshakeDone` are `readHello` and the checks of
  `NewTunnelConnection` after `wg.Wait`. Both return values of the handshake
  are kept.
- `ServeFrame` is one iteration of `serve`. It covers an error exit with the
  error mapped to `io.EOF` when `n <= 0`, the `continue`s for zero-length,
  non-DATA and filtered packets, and the tun write.
- `ServeTunFail` is a failed tun write.

`ReadPacket` is an operator. It classifies the head frame by its declared
length:

- `zero`: the length is 0.
- `fits`: the length is at most `BufferSize`.
- `oversize`: the length exceeds `BufferSize`; the call errors with no
  payload read.
- `cut`: the stream closes mid-payload, so the call reads n > 0 with an EOF
  error.

### ConnectTask

Variables:

- `links` is the registry seen through `GetLink`: name→[host, ip].
- `task` is each connect task: `wait` (scheduled), `assure` (inside
  `AssureTunnel` with the snapshot `GetLink` returned) or `done`.
- `tunnels` is the Mux peer table, cluster address→host.
- `up` says which peer brokers accept connections; `HelloAt` is the cluster
  address each peer announces in its HELLO.
- `changes` counts environment steps, bounded by `MaxChanges`.

Actions:

- `ExecuteGetLink(n)`: a missing link ends the task; otherwise the snapshot is
  taken and the registry lock released.
- `ExecuteAssure(n)`: `AssureTunnel` on the snapshot. An existing tunnel under
  the address is reused; otherwise the host is dialled and the tunnel is
  inserted when the peer is up and its HELLO carries the snapshot's address.
  Success and error both reschedule the task (`RescheduleAfter`,
  `DelayOnError`).
- Environment: `SetLink` (reschedules a finished task and drops the tunnel
  under a replaced address), `RemoveLink` (drops the tunnel), `SetUp`,
  `TunnelFail`.

### NetUtil

`NetUtil` has one variable, `arg`, the arguments of one call. Each step
changes one argument, so TLC visits every combination of the bounded inputs.
`SubIPLoop` is the byte loop of `SubIP` as a recursive operator, and yields
`Panic` where Go indexes `ip[-1]`. The references `AddToIP` and `Network`
work on the first byte plus the 24-bit rest, or on 16-bit halves, because
TLC's integers end at 2^31.

### BrokerConfig

`BrokerConfig` has no variables of its own. `Prepare(f)` takes a record of
flag values:

- a CIDR flag is empty, malformed, or one of a few texts that
  `net.ParseCIDR` accepts (`ParsedCIDR` gives their address and prefix);
- a file or secret flag is set or not;
- `--served-links` is the sequence `strings.Split` returns, each part a name
  with or without blanks around it.

`Prepare` lists its checks in the code's order and returns the first that
fails, or the derived config. That config holds:

- the cluster CIDR and address;
- the service network and the default DNS address, which is `SubIP` of the
  service network;
- the served set, with "all" collapsing it;
- the manage mode, the service account and the lower-cased DNS mode.

The broker does not start on an error, so the fields assigned before the
error are not kept. The embedded `controllers.Config.Prepare` and
`RequireCIDR`/`OptionalCIDR` are not under `src/`. They stand as a success
flag and as `ParseCIDR`.

`MatchLink` and the port loop of `GetEndpoints` (a fold) are translated line
by line. The checked facts are constant formulas over all bounded inputs.
TLC evaluates each once. `Throughout` states each as a predicate of every
state of the `netutil` run.

### Routes

The only variable is `links`, name→[egress, gateway], the registry as the
routing queries read it under the read lock. `SetLink` and `DropLink` are the
reconciler's `UpdateLink` and `RemoveLink`. `SetLink` runs `LinkFor` on a spec
with an optional service CIDR, an egress list and a gateway. The model makes
these simplifications:

- A CIDR is a record of the addresses it contains and its prefix length.
- A link's cluster address is fixed per name; `Links` covers readdressing.
- The clusteraddr index is taken as complete. `Links` shows when it is not
  (finding 1).
- A route is `[dst, via]`, where `via` is a gateway node or the kubelink
  device. The device index, the ONLINK flag from the tunl0 state, protocol
  and priority are left out: they do not change where a destination goes.
- A query that returns the first or last match in Go's map order yields the
  set of its possible answers.

`Targets(lk, me, d)` is the kernel of node `me`: where the most specific of
the routes from `GetRoutes` and `GetRoutesToLink` send `d`.

`IsGateway` and `GetMeshGatewaysFor` are translated too. They have no caller
under `src/`, and no property of the `routes` run reads them.

### Firewall

The only variable is `links`, the ingress list of each registered link. The
actions are `SetLink` and `DropLink`, the policy changes that `UpdateLink` and
`RemoveLink` make. Each state stands for the chains emitted from that
registry.

A rule is `[src, dst, mark, target]`. `Walk` evaluates a chain as iptables
does:

- a jump to a user chain returns to the next rule unless the callee dropped
  the packet;
- `RETURN` and the end of a chain go back to the caller;
- the mark bit 0x2000 is a boolean.

`Traverse` runs the hooks of `FirewallEmbedding` for a packet forwarded from
the tunnel to a pod: mangle PREROUTING, then FORWARD. The properties range
over every packet from every link's cluster address.

## 3. Runs

| Run | Result | What it shows |
|-----|--------|---------------|
| `links_safety` (`MC_Links.cfg`) | pass, about 84,000 states, under 2 min | The properties below, and the refinement of `RegistryAbstract`, hold for 2 links, 3 hosts, 3 addresses, 2 access values and 1 DNS value, with all interleavings of cache changes, Setup, reconciles and foreign-data calls. |
| `links_index_loss` (`MC_Links_index.cfg`) | violation of `ConvergedIndexComplete` | A link's index entry is lost permanently (finding 1). |
| `links_pending_confirm` (`MC_Links_pending.cfg`) | violation of `PendingUntilConfirmed` | An echo of an unchanged field clears pending (finding 2). |
| `tunnel_safety` (`MC_TunnelConnection.cfg`) | pass, about 448,000 states, about 1 min | The properties below hold with up to 3 peer frames of every kind, two Mux writers plus the hello writer, an expected link or an incoming connection, and every kind of HELLO. |
| `tunnel_ingress` (`MC_TunnelConnection_ingress.cfg`) | violation of `IngressEnforced` | A packet to a denied destination reaches tun (finding 3). |
| `tunnel_notify` (`MC_TunnelConnection_notify.cfg`) | violation of `FailureReported` | An oversize frame ends the loop and nothing is reported (finding 4). |
| `firewall_chains` (`MC_Firewall.cfg`) | pass, 1,936 states, a few seconds | The properties below hold for every registry of two links whose ingress lists have up to two entries over three CIDRs. |
| `firewall_denyonly` (`MC_Firewall_denyonly.cfg`) | violation of `IngressMarkMatchesSpec` | A deny-only list marks every packet (finding 5). |
| `connect_liveness` (`MC_ConnectTask.cfg`) | pass, 5,632 states, a few seconds | Every registered, reachable link eventually has a tunnel and keeps it, through readdressing, peers going down and tunnels breaking. |
| `connect_stale_tunnel` (`MC_ConnectTask_stale.cfg`) | violation of `StaleTunnelClosed` | A tunnel dialled from a stale snapshot outlives the link change (finding 6). |
| `routes` (`MC_Routes.cfg`) | pass, 1,089 states, 1 s | For every registry of two links over two gateway nodes, the routes of every node and the Mux's lookup agree on where a destination goes. |
| `netutil` (`MC_NetUtil.cfg`) | pass, 17,527 states, 5 s | The frame header round-trips at every length boundary. `SubIP` adds with carry and panics exactly on overflow, and `CIDRNet` is the network of the CIDR. `Prepare` with `MatchLink` serves what spec section 4.6 says. `GetEndpoints` keeps exactly the subsets with a port. |

`links_safety` checks these properties:

- `IndexSound`: every index entry is the current snapshot of a link, under
  that snapshot's key.
- `RegistryMirrorsStore`: after Setup, with the queue empty, the registry
  holds exactly the valid cached objects.
- `StagedNotOverwritten`, an action property: a pending value is never
  replaced by a non-pending one.
- `RegistryRefinement`: `Links` implements `RegistryAbstract`.
- `TypeOK`.

`routes` checks these properties:

- `EgressRoutedToItsLink`: take a destination outside the mesh that exactly
  one link's egress covers. From every node, the most specific routes lead
  via that link's gateway, or into the kubelink device on the gateway
  itself. There, `GetLinkForIP` picks that link in every map order.
- `TypeOK`.

`connect_liveness` checks `TypeOK` (which includes that a task in `assure`
holds a snapshot) and `EventuallyConnected`.

`netutil` checks these properties:

- `FrameRoundTrip`, `SubIPIsOffset` and `CIDRNetIsNetwork`.
- `ServedAsSpecified`: take every `--served-links` list of one or two parts,
  blanks included. `Prepare` accepts it, and `MatchLink` accepts a link
  exactly when its name or "all" is among the trimmed parts and its cluster
  address parses and lies in the mesh (spec section 4.6).
- `EndpointsOfPortedSubsets`: `GetEndpoints` returns, in order, the
  parseable addresses of exactly the subsets that have a port.

`tunnel_safety` checks these properties:

- `OutboundFramed`: header and payload are adjacent and from the same
  thread, and the HELLO goes first.
- `DeliveredInOrder`: tun receives the admitted packets of the peer's DATA
  frames in the order sent (spec scenario S5). If the peer sent no oversize
  or cut-off frame and no tun write failed, all of them arrive by the end:
  zero-length and unknown frames never end the loop early.
- `EndsAfterPeerEnd`: a liveness property. After FIN or RST the connection
  reaches failed or done.
- `TypeOK`.

`firewall_chains` checks these properties:

- `AllowListMarkMatchesSpec`: for a link whose list has an allowed CIDR,
  the chains mark exactly what the specified policy denies. A packet of a
  link without a policy is never marked.
- `TypeOK`, which includes that every jump target is an emitted chain or a
  verdict.

Each property of a passing run has a mutant in `PROJECT.json`. A mutant is an
operator defined just before the one it replaces, with a plausible bug:

- `replaceLink` with the host and address keys swapped;
- `updateLink` that keeps the old host key;
- `updateLink` that leaves an already registered link unchanged;
- `UpdateLinkInfo` without the pending guard;
- `ReadHello` without the frame type check;
- `WriteHeader` without the lock;
- `ServeFrame` that ignores read errors;
- `ServeFrame` that ends the loop on a zero-length frame (`n <= 0` for
  `n < 0`);
- `GetIngressChain` with the allow rules before the deny rules;
- `GetFirewallChains` without the MARK-DROP chain;
- `updateLink` that does not carry the foreign data over (refinement);
- `ExecuteGetLink` without the nil check on the link;
- `ExecuteAssure` that stops rescheduling after success;
- `ReadPacket` that refuses a frame of exactly the buffer size;
- `SubIP` without the carry;
- `CIDRNet` that does not mask the address;
- `LinkFor` that adds the service CIDR even when the spec names none;
- `GetRoutes` without the check that the gateway is another node;
- `ParseResponsible` without `TrimSpace`;
- `GetEndpoints`' port loop that takes only "wireguard" or "bridge" ports.

TLC finds each mutant's property violated.

### Bounds

`Links`:

- Two names suffice for one link to collide with another. Three hosts and
  three addresses let both links move without running out of free keys.
- The index-loss trace needs only 2 names, 3 hosts and 2 addresses.
- One DNS value keeps the pass run near one minute. The pending run uses 2
  DNS values, which the echo scenario needs.
- Symmetry over names, hosts and addresses is sound: no definition
  distinguishes individual model values of these sets.

`TunnelConnection`:

- `MaxIn = 3` frames covers HELLO followed by two frames. Two frames can
  show a skip followed by a delivery, or a delivery followed by an exit.
- `MaxOut = 1` packet per writer. With two writers and the hello goroutine
  that gives three concurrent `WritePacket` calls.
- The packet set covers these cases:
  - a registered source to an allowed, a denied and an unlisted destination;
  - an unregistered mesh source;
  - a foreign source to this node and to another address;
  - a non-IPv4 packet;
  - an unparseable IPv4 packet.
- The HELLO set covers a proper peer, the wrong mesh address, a range that
  excludes us, and the anonymous sentinel.

`ConnectTask`:

- Two names, two hosts and two addresses let one link take over the other's
  old address or host, and a snapshot go stale against a change.
- `MaxChanges = 4` allows a readdress, a peer going down and up again, and a
  broken tunnel within one behaviour. The liveness property is about what
  happens after the environment stops, which the bound guarantees.

`NetUtil`:

- Bytes 0, 1, 127, 128, 255 and offsets 0, 1, 10, 256 reach carries through
  one, two and three bytes and the overflow past 255.255.255.255.
- Prefixes 0, 7, 8, 9, 24, 31, 32 hit each side of a byte boundary.
- Lengths 0, 1, 255, 256, the buffer size 17000 and its neighbours, 65535
  and 65536 are the boundaries of both header checks.

`BrokerConfig` (in `MC_NetUtil`):

- Three CIDR texts: two addresses of one /24, and a /16 around them. A link
  address is then inside one mesh and outside the other.
- Link names "a" and "b", with "all" and the empty part: served lists of up
  to two parts, each with or without blanks. That is 72 lists, for which
  every link and cluster address is matched.
- Endpoints objects of up to two subsets, each with up to two ports over
  three names and up to two addresses, one of them unparseable: 8,373
  objects.

`Routes`:

- Two gateway nodes let a node be the gateway of one link and not of the
  other, and let both links share a gateway.
- The nets cover these cases:
  - a service network `A` with a more specific egress `B` inside it;
  - a default route `W`;
  - a host route `H` onto the second link's cluster address, which exercises
    the cluster-address-first lookup;
  - the mesh `M`, which holds both cluster addresses and one unused address.
- Every spec combination of two links is reached: 1,089 registries.

`Firewall`:

- Three CIDRs (`{s1}`, `{s2}`, `{s1, s2}`) and lists of up to two entries
  give overlapping allow and deny entries, deny-only and allow-only lists.
- Two links give a packet the chance to meet another link's chain.
- Five addresses cover each link's source, each service, and an address
  outside every CIDR.

### Fairness

`TunnelConnection` assumes weak fairness of `ReadHello`, `HandshakeDone`,
`ServeFrame` and each thread's `WriteHeader`/`WritePayload`. Each is a
goroutine blocked only on I/O or on `wlock`, and Go's scheduler runs a
runnable goroutine eventually. The peer has no fairness, because it may stay
silent forever. The `Links` runs check only safety properties and assume no
fairness.

`ConnectTask` assumes weak fairness of each task's `ExecuteGetLink` and
`ExecuteAssure`: a scheduled task is woken by the controller's timer and run
by a worker. The environment has no fairness; it is bounded instead.
`CHECK_DEADLOCK FALSE` is set because the broker really idles once the
environment stops and every task has finished.

`CHECK_DEADLOCK FALSE` is set for `TunnelConnection`, because a connection
that has failed or finished really does stop. `Links` keeps deadlock checking
on: the cache can always change.

## 4. Findings

1. **Lost index entries** (links.go:425, 442). `updateLink` and
   `RemoveLink` delete the old host and address keys without checking that
   they still belong to this link. The trace runs as follows:
   - links n1 (invalid spec) and n2 (address i2) are in the cache, and
     `Setup` registers n2;
   - n2 is deleted, and n1 is fixed to use i2, which n2 has just given up;
   - the queue reconciles n1 first, which takes `clusteraddr[i2]`;
   - it then reconciles the deletion of n2, and `RemoveLink` deletes
     `clusteraddr[i2]`, which now belongs to n1.

   The queue is then empty and the entry stays lost until n1 is updated
   again. `GetLinkForClusterAddress(i2)` returns nil, so serve drops every
   packet whose source is n1's cluster address (endpoints.go:558-561).
2. **Pending cleared by an unrelated echo** (links.go:331-342).
   `LinkInfoUpdated` clears `UpdatePending` when any given field equals the
   current value. Spec section 4.3 clears it only when the staged value is
   echoed back.
3. **Ingress bypass** (links.go:98-105). When `Allowed` is set and does not
   contain the destination, `IPRange.Contains` returns true without looking at
   `Denied`. With ingress `[A, !B]`, serve therefore admits packets to B and to
   any address outside A. Spec sections 3 and 4.7 and testable property 5 say
   such packets are dropped. Scenario S3 of the spec misses this because its
   denied address lies inside the allowed range.
4. **Errors reported as EOF** (endpoints.go:535-537, 416-419). A connection
   reset and an oversize frame both make `ReadPacket` return n = 0 with an
   error. `serve` replaces every error that comes with n <= 0 by `io.EOF`,
   and `notify` then suppresses it. The trace shows an oversize frame after
   an anonymous HELLO. Spec section 7 says such errors are reported to the
   fail sinks. A frame cut off mid-payload is not reported either. That case
   does not involve the replacement: Go's connection itself returns `io.EOF`
   with n > 0. `FailureReported` therefore covers only the reset and oversize
   cases.

5. **Deny-only lists mark every packet** (links.go:171).
   `GetIngressChain` ends every link chain with an unconditional jump to
   MARK-DROP. For a list with only denied CIDRs that marks every packet,
   while `AllowIngress` and the spec admit what is not denied. The spec's own
   sketch of the chains has the same catch-all.
6. **Stale tunnels stay** (endpoints.go:676). `Execute` reads the link with
   `GetLink` and then calls `AssureTunnel` on that snapshot with the registry
   unlocked. If the link changes address in between, the Mux inserts a tunnel
   under the old address after the reconciler dropped it. Nothing removes
   that tunnel later: the task only assures the current address.

`readHello` (endpoints.go:511) sets no deadline on the connection. Spec
section 4.5 puts the HELLO deadline into the Mux's `AssureTunnel`, which is
not under `src/`. The connection may therefore carry a deadline already, so
no run claims that the wait is unbounded.

`RegisterLink` (links.go:660-670) returns an error for every registration
whose `Create` succeeded, because the object it hands to `UpdateLink` has no
gateway status. `links_safety` shows that the registry stays consistent with
the cache through it.

`FirewallEmbedding` (firewall.go:57) hooks only PREROUTING to the LINKS
chain, because `DROP_ACTION` is `"DROP"`. The chain that drops marked
packets is installed by the router, which is not under `src/`, so whether
marked packets are dropped is not decided here.

## 5. Not modelled, and the plan

Not modelled:

- The generated client and the manifests.
- The Mux, the link reconciler and the informer cache beyond what `Links`
  and `ConnectTask` take from spec section 4.5 and 4.6: they are not under
  `src/`.
- The mesh types (`mesh.go`): type declarations with no behaviour.
- The flags of `Prepare` that only pass a string on (cluster name, ports,
  interface, domains, CoreDNS deployment and secret names): no check reads
  them.
- `onceCloseListener`.

Also not modelled:

- `Visit` and `HasWireguard`: their callers (route and firewall reconcilers,
  the WireGuard datapath) are not under `src/`.
- The asynchronous `UpdateAccess` (endpoints.go:399): the connection handler
  is not under `src/`, and the spec does not say what it writes.

Plan for the next sittings, in order:

1. **Colliding specs.** Spec section 4.3 says `Put` rejects a cluster address
   or endpoint that collides with another link, but `updateLink` has no such
   check. A run with a cache that allows collisions can show what the
   registry then does to testable invariant 1.
2. **Readdressing in `Routes`.** Let a link's cluster address change, so that
   the lookup meets the stale index entries of finding 1.
