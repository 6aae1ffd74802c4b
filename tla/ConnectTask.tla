----------------------------- MODULE ConnectTask -----------------------------
(***************************************************************************)
(* The broker's connect reconciler (src/pkg/controllers/endpoints.go,      *)
(* connectTask) together with the two components it drives: the link      *)
(* registry (Links.GetLink) and the Mux's peer table (AssureTunnel,        *)
(* Notify, DropTunnel; spec section 4.5, the Mux code is not part of the   *)
(* repository's sources).                                                  *)
(*                                                                         *)
(* One task per link name the node is responsible for.  A task wakes,      *)
(* reads the link (GetLink, under the registry lock), and then, with the   *)
(* registry unlocked, asks the Mux for a tunnel to that snapshot.  The Mux *)
(* dials the snapshot's endpoint host; the handshake of                    *)
(* NewTunnelConnection accepts the peer only if the cluster address of its *)
(* HELLO is the snapshot's (module TunnelConnection checks the rest).      *)
(* Time is abstracted: RescheduleAfter(10 min) and the rate limiter's      *)
(* DelayOnError both mean "wakes again later".                             *)
(*                                                                         *)
(* The environment changes links in the registry, takes peer endpoints     *)
(* up and down and breaks tunnels, at most MaxChanges times in all.        *)
(***************************************************************************)
EXTENDS Naturals, FiniteSets, Functions, TLC

CONSTANTS
    Names,       \* links the node is responsible for (Config.MatchLink)
    Hosts,       \* endpoint hosts
    IPs,         \* cluster addresses
    HelloAt,     \* host -> cluster address the broker there sends in HELLO
    MaxChanges,  \* bound: environment steps
    NoLink       \* GetLink returned nil

LinkSpec == [host : Hosts, ip : IPs]

VARIABLES
    links,    \* registry: name -> [host, ip]
    task,     \* name -> [pc, snap]: "wait" (scheduled), "assure" (in
              \* AssureTunnel with the snapshot read by GetLink), "done"
    tunnels,  \* Mux peer table: cluster address -> host of the tunnel
    up,       \* host -> the peer's broker accepts connections
    changes   \* environment steps taken

vars == <<links, task, tunnels, up, changes>>

-----------------------------------------------------------------------------
(***************************************************************************)
(* connectTask.Execute, first half: GetLink.  A missing link ends the task *)
(* with Succeeded and no reschedule.                                       *)
(***************************************************************************)
ExecuteGetLinkNoNilCheck(n) ==
    /\ task[n].pc = "wait"
    /\ task' = [task EXCEPT ![n] =
                   [pc |-> "assure", snap |-> IF n \in DOMAIN links THEN links[n] ELSE NoLink]]
    /\ UNCHANGED <<links, tunnels, up, changes>>

ExecuteGetLink(n) ==
    /\ task[n].pc = "wait"
    /\ task' = [task EXCEPT ![n] =
                   IF n \in DOMAIN links THEN [pc |-> "assure", snap |-> links[n]]
                   ELSE [pc |-> "done", snap |-> NoLink]]
    /\ UNCHANGED <<links, tunnels, up, changes>>

(* Mux.AssureTunnel(link): an existing tunnel under the link's cluster     *)
(* address is returned; otherwise the endpoint is dialled and the tunnel   *)
(* inserted once the handshake accepts the peer.                           *)
Handshake(s) == up[s.host] /\ HelloAt[s.host] = s.ip

AssureTunnel(s) ==
    IF s.ip \in DOMAIN tunnels THEN [ok |-> TRUE, tunnels |-> tunnels]
    ELSE IF Handshake(s) THEN [ok |-> TRUE, tunnels |-> s.ip :> s.host @@ tunnels]
    ELSE [ok |-> FALSE, tunnels |-> tunnels]

ExecuteAssureNoReschedule(n) ==
    /\ task[n].pc = "assure"
    /\ LET r == AssureTunnel(task[n].snap) IN
       /\ tunnels' = r.tunnels
       /\ task' = [task EXCEPT ![n] = [pc |-> IF r.ok THEN "done" ELSE "wait", snap |-> NoLink]]
    /\ UNCHANGED <<links, up, changes>>

(* connectTask.Execute, second half: AssureTunnel on the snapshot.  On     *)
(* success ratelimiter.Succeeded and RescheduleAfter(10 min); on error     *)
(* DelayOnError.  Either way the task wakes again.                         *)
ExecuteAssure(n) ==
    /\ task[n].pc = "assure"
    /\ LET r == AssureTunnel(task[n].snap) IN
       /\ tunnels' = r.tunnels
       /\ task' = [task EXCEPT ![n] = [pc |-> "wait", snap |-> NoLink]]
    /\ UNCHANGED <<links, up, changes>>

-----------------------------------------------------------------------------
(***************************************************************************)
(* Environment.  The link reconciler applies a KubeLink change to the      *)
(* registry and (re)schedules the link's connect task (spec section 4.6);  *)
(* a deleted link is removed and its tunnel dropped (Mux.DropTunnel), as   *)
(* is the tunnel under a link's old address when the address changes.     *)
(* Two links never share an address or a host (the store's uniqueness     *)
(* rule).  A broken tunnel is removed from the table by Mux.Notify.        *)
(***************************************************************************)
EnvStep == changes < MaxChanges /\ changes' = changes + 1

SetLink(n, l) ==
    /\ EnvStep
    /\ ~(n \in DOMAIN links /\ links[n] = l)
    /\ \A m \in DOMAIN links \ {n} : links[m].ip # l.ip /\ links[m].host # l.host
    /\ links' = n :> l @@ links
    /\ task' = IF task[n].pc = "done" THEN [task EXCEPT ![n].pc = "wait"] ELSE task
    /\ tunnels' = IF n \in DOMAIN links /\ links[n].ip # l.ip
                  THEN Restrict(tunnels, DOMAIN tunnels \ {links[n].ip}) ELSE tunnels
    /\ UNCHANGED up

RemoveLink(n) ==
    /\ EnvStep
    /\ n \in DOMAIN links
    /\ links' = Restrict(links, DOMAIN links \ {n})
    /\ tunnels' = Restrict(tunnels, DOMAIN tunnels \ {links[n].ip})
    /\ UNCHANGED <<task, up>>

SetUp(h, b) ==
    /\ EnvStep
    /\ up[h] # b
    /\ up' = [up EXCEPT ![h] = b]
    /\ UNCHANGED <<links, task, tunnels>>

TunnelFail(ip) ==
    /\ EnvStep
    /\ ip \in DOMAIN tunnels
    /\ tunnels' = Restrict(tunnels, DOMAIN tunnels \ {ip})
    /\ UNCHANGED <<links, task, up>>

-----------------------------------------------------------------------------
(* NewConnectTask for every responsible link: scheduled, registry empty.  *)
Init ==
    /\ links = [n \in {} |-> NoLink]
    /\ task = [n \in Names |-> [pc |-> "wait", snap |-> NoLink]]
    /\ tunnels = [i \in {} |-> NoLink]
    /\ up \in [Hosts -> BOOLEAN]
    /\ changes = 0

Next ==
    \/ \E n \in Names : ExecuteGetLink(n) \/ ExecuteAssure(n)
    \/ \E n \in Names, l \in LinkSpec : SetLink(n, l)
    \/ \E n \in Names : RemoveLink(n)
    \/ \E h \in Hosts, b \in BOOLEAN : SetUp(h, b)
    \/ \E ip \in IPs : TunnelFail(ip)

(* A scheduled task is woken by the controller's timer and run by a       *)
(* worker; nothing starves it.  The environment gets no fairness.         *)
Fairness == \A n \in Names : WF_vars(ExecuteGetLink(n)) /\ WF_vars(ExecuteAssure(n))

Spec == Init /\ [][Next]_vars /\ Fairness

-----------------------------------------------------------------------------
TypeOK ==
    /\ DOMAIN links \subseteq Names /\ \A n \in DOMAIN links : links[n] \in LinkSpec
    /\ task \in [Names -> [pc : {"wait", "assure", "done"}, snap : LinkSpec \cup {NoLink}]]
    /\ \A n \in Names : task[n].pc = "assure" <=> task[n].snap \in LinkSpec
    /\ DOMAIN tunnels \subseteq IPs /\ \A i \in DOMAIN tunnels : tunnels[i] \in Hosts
    /\ up \in [Hosts -> BOOLEAN]
    /\ changes \in 0..MaxChanges

(* A link is reachable when its peer is up and announces the link's       *)
(* cluster address.                                                        *)
Reachable(n) == n \in DOMAIN links /\ Handshake(links[n])

(* Every registered, reachable link ends up with a tunnel and keeps it:    *)
(* after a failed dial, a broken tunnel or a change of the link, the task  *)
(* wakes again and redials (the reschedule after success and the delay on  *)
(* error in Execute, and the reconciler's rescheduling of finished tasks). *)
EventuallyConnected ==
    <>[](\A n \in Names : Reachable(n) => links[n].ip \in DOMAIN tunnels)

(* A tunnel whose cluster address no registered link has any more is      *)
(* eventually closed.                                                      *)
StaleTunnelClosed ==
    \A ip \in IPs :
        (ip \in DOMAIN tunnels /\ \A n \in DOMAIN links : links[n].ip # ip)
            ~> (ip \notin DOMAIN tunnels \/ \E n \in DOMAIN links : links[n].ip = ip)

=============================================================================
