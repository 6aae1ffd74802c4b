----------------------------- MODULE BrokerConfig -----------------------------
(***************************************************************************)
(* The broker's start-up configuration and the two pure helpers of         *)
(* src/pkg/controllers/endpoints.go that turn cluster objects into inputs  *)
(* of the rest of the broker:                                              *)
(*                                                                         *)
(*  - Config.Prepare: the chain of checks on the command-line flags, in    *)
(*    the code's order, and the values it derives (cluster CIDR and        *)
(*    address, service CIDR, the set of served links, the manage mode,     *)
(*    the service account, the DNS addresses and the DNS mode);            *)
(*  - Config.MatchLink: whether this node is responsible for a KubeLink    *)
(*    (spec section 4.6), from the served set and the cluster CIDR;        *)
(*  - GetEndpoints: the addresses of a Kubernetes Endpoints object.        *)
(*                                                                         *)
(* Flag texts are abstracted: "" is an empty flag, "bad" one that does not *)
(* parse, a CIDR text one of CIDRTexts with its parsed address and prefix  *)
(* in ParsedCIDR; a file or secret flag is set or not.  A comma-separated  *)
(* list is the sequence strings.Split gives, each part a name with or      *)
(* without surrounding blanks.  Prepare returns the first error or the     *)
(* prepared config (the broker does not start on an error, so the fields   *)
(* assigned before it are not kept).  Addresses and CIDRs are NetUtil's.   *)
(***************************************************************************)
EXTENDS NetUtil, FiniteSets

CONSTANTS
    CIDRTexts,       \* CIDR texts that net.ParseCIDR accepts
    ParsedCIDR,      \* CIDRTexts -> [ip, prefix]: the address and its prefix
    LinkNames,       \* names of KubeLink objects
    ExplicitDNSIP,   \* the address a valid --dns-service-ip names
    CLUSTER_DNS_IP,  \* offset of the cluster DNS service (outside src)
    PortNames,       \* names of Endpoints ports
    AddrTexts        \* address texts of Endpoints; "bad" does not parse

ASSUME DOMAIN ParsedCIDR = CIDRTexts /\ "" \notin CIDRTexts /\ "bad" \notin CIDRTexts

CIDRFlag == CIDRTexts \cup {"", "bad"}
IPFlag   == {"", "bad", "ip"}

MANAGE_MODES == {"none", "self", "cert"}   \* valid_modes
DNSMODES     == {"kubernetes", "dns", "none"}

(* One part of a split list: the name, and whether blanks surround it. *)
Token == [name : LinkNames \cup {"all", ""}, padded : BOOLEAN]

Flags == [base : BOOLEAN,  \* controllers.Config.Prepare succeeds
          address : CIDRFlag, service : CIDRFlag, autoConnect : BOOLEAN,
          secret : BOOLEAN, certFile : BOOLEAN, keyFile : BOOLEAN, caCertFile : BOOLEAN,
          manageMode : {"", "other"} \cup MANAGE_MODES, dnsName : BOOLEAN,
          serviceAccount : SeqOf({"ns", "sa"}, 3),  \* Split(flag, "/"); <<>> is ""
          coreDNSServiceIP : IPFlag, dnsServiceIP : IPFlag,
          dnsPropagation : [word : DNSMODES \cup {"other"}, upper : BOOLEAN],
          responsible : SeqOf(Token, 2) \ {<<>>}]

(* AddOptionsToSet: the flag defaults (served-links "all", manage mode     *)
(* "none", DNS mode "none", everything else empty or off), with base and   *)
(* link-address given, since the broker cannot start without them.        *)
DefaultFlags(address) ==
    [base |-> TRUE, address |-> address, service |-> "", autoConnect |-> FALSE,
     secret |-> FALSE, certFile |-> FALSE, keyFile |-> FALSE, caCertFile |-> FALSE,
     manageMode |-> "none", dnsName |-> FALSE, serviceAccount |-> << >>,
     coreDNSServiceIP |-> "", dnsServiceIP |-> "",
     dnsPropagation |-> [word |-> "none", upper |-> FALSE],
     responsible |-> << [name |-> "all", padded |-> FALSE] >>]

-----------------------------------------------------------------------------
(* strings.TrimSpace of a list part. *)
TrimSpace(t) == t.name

(* The part as it is, blanks included. *)
Untrimmed(t) == IF t.padded THEN " " \o t.name ELSE t.name

ParseResponsibleUntrimmed(toks) ==
    LET s == {Untrimmed(toks[i]) : i \in DOMAIN toks}
    IN  IF "all" \in s THEN {"all"} ELSE s

(* Prepare, lines 210-217: the trimmed parts of --served-links; a set      *)
(* that contains "all" is replaced by {"all"}.                             *)
ParseResponsible(toks) ==
    LET s == {TrimSpace(toks[i]) : i \in DOMAIN toks}
    IN  IF "all" \in s THEN {"all"} ELSE s

(* IPNet.Contains: the address masked with the prefix is the network. *)
NetContains(net, ip) == CIDRNet([ip |-> ip, prefix |-> net.prefix]).ip = net.ip

(* Prepare, the auto-connect checks: a local service CIDR and a secret or *)
(* a certificate file.                                                     *)
AutoConnectChecks(f) ==
    << <<"auto-connect requires local service cidr", f.autoConnect /\ f.service = "">>,
       <<"auto-connect requires authenticated mode", f.autoConnect /\ ~f.secret /\ ~f.certFile>> >>

(* Config.Prepare: the checks in the code's order; the first that fails   *)
(* is the error.  On success the derived config.                           *)
Prepare(f) ==
    LET checks ==
          << <<"base", ~f.base>>,
             <<"link-address", f.address \notin CIDRTexts>>,
             <<"service-cidr", f.service = "bad">> >> \o AutoConnectChecks(f) \o
          << <<"only secret or cert file", f.secret /\ f.certFile>>,
             <<"invalid management mode", f.manageMode \notin MANAGE_MODES \cup {""}>>,
             <<"dns name required", f.manageMode = "self" /\ ~f.dnsName>>,
             <<"key file must be specified", f.certFile /\ ~f.keyFile>>,
             <<"ca cert file must be specified", f.certFile /\ ~f.caCertFile>>,
             <<"invalid service account name", Len(f.serviceAccount) > 2>>,
             <<"invalid ip of coredns service", f.coreDNSServiceIP = "bad">>,
             <<"invalid ip of dns service", f.dnsServiceIP = "bad">>,
             <<"invalid dns mode", f.dnsPropagation.word \notin DNSMODES>> >>
        failed == SelectSeq(checks, LAMBDA c : c[2])
        cidr   == ParsedCIDR[f.address]
        svc    == IF f.service = "" THEN None ELSE CIDRNet(ParsedCIDR[f.service])
        sa     == f.serviceAccount
    IN  IF failed # << >> THEN [err |-> Head(failed)[1], cfg |-> None]
        ELSE [err |-> None,
              cfg |-> [clusterCIDR    |-> CIDRNet(cidr),
                       clusterAddress |-> cidr,          \* CIDRIP(cidr, ip)
                       serviceCIDR    |-> svc,
                       responsible    |-> ParseResponsible(f.responsible),
                       manageMode     |-> IF f.manageMode = "" THEN "none" ELSE f.manageMode,
                       serviceAccount |-> CASE Len(sa) = 0 -> None
                                            [] Len(sa) = 1 -> <<"kube-system", sa[1]>>
                                            [] OTHER       -> sa,
                       coreDNSServiceIP |-> IF f.coreDNSServiceIP = "ip" THEN "coredns" ELSE None,
                       dnsServiceIP   |-> IF f.dnsServiceIP = "ip" THEN ExplicitDNSIP
                                          ELSE IF svc # None THEN SubIP(svc, CLUSTER_DNS_IP)
                                          ELSE None,
                       dnsPropagation |-> f.dnsPropagation.word]]  \* strings.ToLower

(* Config.MatchLink(obj): FALSE for a cluster address that does not parse *)
(* or a link that is not served; else whether the cluster CIDR contains   *)
(* the address, and the address.                                          *)
MatchLink(c, obj) ==
    IF obj.clusterAddress \notin CIDRTexts THEN [ok |-> FALSE, ip |-> None]
    ELSE LET ip == ParsedCIDR[obj.clusterAddress].ip IN
         IF "all" \notin c.responsible /\ obj.name \notin c.responsible
         THEN [ok |-> FALSE, ip |-> None]
         ELSE [ok |-> NetContains(c.clusterCIDR, ip), ip |-> ip]

-----------------------------------------------------------------------------
SelectPortNamedOnly(ports) ==
    FoldLeft(LAMBDA port, p : IF p \in {"wireguard", "bridge"} THEN p ELSE port, None, ports)

(* GetEndpoints, the port loop of a subset: the first port, replaced by    *)
(* every later port named "wireguard" or "bridge".                         *)
SelectPort(ports) ==
    FoldLeft(LAMBDA port, p : IF port = None \/ p \in {"wireguard", "bridge"} THEN p ELSE port,
             None, ports)

(* GetEndpoints: for each subset with a port, its addresses that parse    *)
(* (net.ParseIP), in order.                                                *)
GetEndpoints(subsets) ==
    FoldLeft(LAMBDA res, sub :
                IF SelectPort(sub.ports) # None
                THEN res \o SelectSeq(sub.addrs, LAMBDA a : a # "bad")
                ELSE res,
             << >>, subsets)

-----------------------------------------------------------------------------
(* The facts below are about the operators alone, over all bounded inputs; *)
(* each is a constant formula, stated as a predicate of every state of the *)
(* run that checks NetUtil, so that it is an invariant of that run.        *)
Throughout(fact) == arg = arg /\ fact

(* Spec section 4.6: the node is responsible for a link when the served   *)
(* set is "all" or names the link.  With every --served-links list of one *)
(* or two parts, blanks around a part included, Prepare accepts the flag  *)
(* and MatchLink accepts a link exactly when its name (or "all") is among *)
(* the trimmed parts, its cluster address parses, and the address is in   *)
(* the mesh network of --link-address (integer reference Network).        *)
ServedForAllFlags ==
    \A a \in CIDRTexts, toks \in SeqOf(Token, 2) \ {<< >>}, n \in LinkNames, ca \in CIDRFlag :
        LET r      == Prepare([DefaultFlags(a) EXCEPT !.responsible = toks])
            m      == MatchLink(r.cfg, [name |-> n, clusterAddress |-> ca])
            served == {toks[i].name : i \in DOMAIN toks}
            mesh   == ParsedCIDR[a]
        IN  /\ r.err = None
            /\ m.ok <=> /\ "all" \in served \/ n \in served
                        /\ ca \in CIDRTexts
                        /\ Network(ParsedCIDR[ca].ip, mesh.prefix) = Network(mesh.ip, mesh.prefix)

(* GetEndpoints returns, in order, the parseable addresses of exactly the *)
(* subsets that have a port: the preference for a "wireguard" or "bridge" *)
(* port never drops a subset whose ports have other names.                *)
EndpointsForAllObjects ==
    \A subsets \in SeqOf([ports : SeqOf(PortNames, 2), addrs : SeqOf(AddrTexts, 2)], 2) :
        GetEndpoints(subsets) =
            FlattenSeq([i \in DOMAIN subsets |->
                           IF subsets[i].ports = << >> THEN << >>
                           ELSE SelectSeq(subsets[i].addrs, LAMBDA x : x \in AddrTexts \ {"bad"})])

(* Spec section 4.6: MatchLink serves a link exactly when its name or     *)
(* "all" is in --served-links and its cluster address is in the mesh      *)
(* (ServedForAllFlags).                                                    *)
ServedAsSpecified == Throughout(ServedForAllFlags)

(* GetEndpoints keeps the addresses of exactly the subsets with a port    *)
(* (EndpointsForAllObjects).                                               *)
EndpointsOfPortedSubsets == Throughout(EndpointsForAllObjects)

=============================================================================
