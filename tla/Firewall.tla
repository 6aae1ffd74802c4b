------------------------------- MODULE Firewall -------------------------------
(***************************************************************************)
(* The kernel side of the per-link ingress policy: the iptables chains the *)
(* registry emits (src/pkg/kubelink/links.go: Link.GetIngressChain,        *)
(* Links.GetFirewallChains) and the hooks that embed them                  *)
(* (src/pkg/kubelink/firewall.go: FirewallEmbedding and the chain/table    *)
(* constants).                                                             *)
(*                                                                         *)
(* A rule is [src, dst, mark, target]: src and dst are the address sets it *)
(* matches (no -s / -d option matches every address), mark is "any" or     *)
(* "set" (-m mark --mark 0x2000/0x2000), target a chain or a verdict.  The *)
(* packet mark is the single bit 0x2000 the chains use, a boolean here.    *)
(* Chains are evaluated as iptables does: a jump to a user chain returns   *)
(* to the next rule unless the callee dropped the packet; RETURN and the   *)
(* end of a chain return to the caller.                                    *)
(*                                                                         *)
(* The state is the registry's links (name -> spec.ingress list) as the    *)
(* chains see them after each sync; the properties speak of every packet   *)
(* a link's cluster address may send through the node in that state.      *)
(***************************************************************************)
EXTENDS Naturals, Sequences, SequencesExt, Ingress

CONSTANTS
    Names,     \* link names
    Addr,      \* addresses
    LinkIP,    \* name -> cluster address of the link (distinct per link)
    IngressLists, \* spec.ingress lists a link may have
    None

(* firewall.go: chain names, and the drop action of this build. *)
LINKS_CHAIN     == "KUBELINK-LINKS"
FIREWALL_CHAIN  == "KUBELINK-FIREWALL"
DROP_CHAIN      == "KUBELINK-DROP"
MARK_DROP_CHAIN == "KUBELINK-MARK-DROP"
DROP_ACTION     == "DROP"

Rule(src, dst, mark, target) == [src |-> src, dst |-> dst, mark |-> mark, target |-> target]
All == Addr

(* Link.GetIngressChain: nothing for an unset policy; otherwise a comment  *)
(* rule, a MARK-DROP jump per denied CIDR, a RETURN per allowed CIDR and a *)
(* final MARK-DROP jump.  The chain is named after the link.               *)
GetIngressChainAllowFirst(r) ==
    IF ~IPRangeIsSet(r) THEN None
    ELSE << Rule(All, All, "any", "NONE") >>
         \o [i \in 1..Len(r.allowed) |-> Rule(All, r.allowed[i], "any", "RETURN")]
         \o [i \in 1..Len(r.denied) |-> Rule(All, r.denied[i], "any", MARK_DROP_CHAIN)]
         \o << Rule(All, All, "any", MARK_DROP_CHAIN) >>

GetIngressChain(r) ==
    IF ~IPRangeIsSet(r) THEN None
    ELSE << Rule(All, All, "any", "NONE") >>
         \o [i \in 1..Len(r.denied) |-> Rule(All, r.denied[i], "any", MARK_DROP_CHAIN)]
         \o [i \in 1..Len(r.allowed) |-> Rule(All, r.allowed[i], "any", "RETURN")]
         \o << Rule(All, All, "any", MARK_DROP_CHAIN) >>

(* Links.GetFirewallChains: a per-link chain for every link with a policy, *)
(* a LINKS chain that sends each such link's cluster address into its     *)
(* chain, the MARK-DROP and DROP chains and the FIREWALL chain; nothing at *)
(* all if no link has a policy.  The links are visited in map order; the  *)
(* cluster addresses are distinct, so the order of the LINKS rules does    *)
(* not change which rule a packet matches.                                 *)
GetFirewallChainsNoMarkDrop(lk) ==
    LET set   == {n \in DOMAIN lk : GetIngressChain(ParseIPRange(lk[n])) # None}
        order == SetToSeq(set)
        rules == [i \in 1..Len(order) |-> Rule({LinkIP[order[i]]}, All, "any", order[i])]
        fixed == DROP_CHAIN :> << Rule(All, All, "any", "CLEARMARK"), Rule(All, All, "any", "DROP") >>
                 @@ LINKS_CHAIN :> rules
                 @@ FIREWALL_CHAIN :> << Rule(All, All, "set", DROP_CHAIN) >>
    IN  IF set = {} THEN [c \in {} |-> <<>>]
        ELSE fixed @@ [n \in set |-> GetIngressChain(ParseIPRange(lk[n]))]

GetFirewallChains(lk) ==
    LET set   == {n \in DOMAIN lk : GetIngressChain(ParseIPRange(lk[n])) # None}
        order == SetToSeq(set)
        rules == [i \in 1..Len(order) |-> Rule({LinkIP[order[i]]}, All, "any", order[i])]
        fixed == DROP_CHAIN :> << Rule(All, All, "any", "CLEARMARK"), Rule(All, All, "any", "DROP") >>
                 @@ MARK_DROP_CHAIN :> << Rule(All, All, "any", "SETMARK") >>
                 @@ LINKS_CHAIN :> rules
                 @@ FIREWALL_CHAIN :> << Rule(All, All, "set", DROP_CHAIN) >>
    IN  IF set = {} THEN [c \in {} |-> <<>>]
        ELSE fixed @@ [n \in set |-> GetIngressChain(ParseIPRange(lk[n]))]

(* FirewallEmbedding: the LINKS chain is hooked into PREROUTING; FORWARD   *)
(* and OUTPUT jump to the FIREWALL chain only when the drop action is the  *)
(* MARK-DROP chain.                                                        *)
FirewallEmbedding ==
    IF DROP_ACTION = MARK_DROP_CHAIN
    THEN [h \in {"PREROUTING", "FORWARD", "OUTPUT"} |->
             IF h = "PREROUTING" THEN << Rule(All, All, "any", LINKS_CHAIN) >>
             ELSE << Rule(All, All, "any", FIREWALL_CHAIN) >>]
    ELSE "PREROUTING" :> << Rule(All, All, "any", LINKS_CHAIN) >>

(***************************************************************************)
(* iptables: walk the rules of a chain from position i with mark m.  The   *)
(* result is the mark and whether the packet was dropped.  A jump to a     *)
(* chain that is not installed matches nothing.                            *)
(***************************************************************************)
RECURSIVE Walk(_, _, _, _, _)
Walk(ch, rules, i, p, m) ==
    IF i > Len(rules) THEN [mark |-> m, drop |-> FALSE]
    ELSE LET r == rules[i]
             next(m2) == Walk(ch, rules, i + 1, p, m2)
         IN  IF ~(p.src \in r.src /\ p.dst \in r.dst /\ (r.mark = "set" => m)) THEN next(m)
             ELSE CASE r.target = "RETURN"    -> [mark |-> m, drop |-> FALSE]
                    [] r.target = "DROP"      -> [mark |-> m, drop |-> TRUE]
                    [] r.target = "SETMARK"   -> next(TRUE)
                    [] r.target = "CLEARMARK" -> next(FALSE)
                    [] r.target \in DOMAIN ch ->
                          LET res == Walk(ch, ch[r.target], 1, p, m)
                          IN  IF res.drop THEN res ELSE next(res.mark)
                    [] OTHER                  -> next(m)

(* A packet from the tunnel to a pod: mangle PREROUTING, then FORWARD. *)
Traverse(ch, p) ==
    LET hook(h, m) == IF h \in DOMAIN FirewallEmbedding
                      THEN Walk(ch, FirewallEmbedding[h], 1, p, m)
                      ELSE [mark |-> m, drop |-> FALSE]
        pre == hook("PREROUTING", FALSE)
        fwd == hook("FORWARD", pre.mark)
    IN  [mark |-> fwd.mark, drop |-> pre.drop \/ fwd.drop]

-----------------------------------------------------------------------------
VARIABLE
    links     \* the registry's links as the installed chains reflect them

vars == <<links>>

(* UpdateLink / RemoveLink change a link's ingress list; the chains are   *)
(* re-emitted from the whole registry (GetFirewallChains).                 *)
SetLink(n, ing) ==
    /\ ~(n \in DOMAIN links /\ links[n] = ing)
    /\ links' = n :> ing @@ links

DropLink(n) ==
    /\ n \in DOMAIN links
    /\ links' = [m \in DOMAIN links \ {n} |-> links[m]]

Init == links = [n \in {} |-> <<>>]

Next ==
    \/ \E n \in Names, ing \in IngressLists : SetLink(n, ing)
    \/ \E n \in Names : DropLink(n)

Spec == Init /\ [][Next]_vars

-----------------------------------------------------------------------------
Verdicts == {"NONE", "RETURN", "DROP", "SETMARK", "CLEARMARK"}

(* What the installed chains do to a packet from link n's cluster address *)
(* to dst on its way from the tunnel to a pod.                             *)
Outcome(n, dst) == Traverse(GetFirewallChains(links), [src |-> LinkIP[n], dst |-> dst])

(* The policy of link n in the registry, NoRange if it has none. *)
PolicyOf(n) == IF n \in DOMAIN links THEN ParseIPRange(links[n]) ELSE NoRange

SpecDenies(n, dst) == ~SpecAllowIngress(PolicyOf(n), dst)[1]

(* Types, and the emitted chains are loadable: every jump goes to a chain  *)
(* that is part of the same request set.                                   *)
TypeOK ==
    /\ DOMAIN links \subseteq Names /\ \A n \in DOMAIN links : links[n] \in IngressLists
    /\ LET ch == GetFirewallChains(links)
       IN  \A c \in DOMAIN ch : \A i \in 1..Len(ch[c]) : ch[c][i].target \in Verdicts \cup DOMAIN ch

(* The chains GetFirewallChains emits mark exactly the packets the         *)
(* specified policy denies (section 4.7), for every link whose ingress     *)
(* list has an allowed CIDR: deny rules before allow rules, jumps that     *)
(* return, and the LINKS dispatch by source must all be right for it.     *)
(* Packets of links without a policy are never marked.                     *)
AllowListMarkMatchesSpec ==
    \A n \in Names, dst \in Addr :
        IF IPRangeIsSet(PolicyOf(n))
        THEN CIDRListIsSet(PolicyOf(n).allowed) => Outcome(n, dst).mark = SpecDenies(n, dst)
        ELSE ~Outcome(n, dst).mark

(* The same for every policy, deny-only lists included. *)
IngressMarkMatchesSpec ==
    \A n \in DOMAIN links, dst \in Addr : Outcome(n, dst).mark = SpecDenies(n, dst)

=============================================================================
