------------------------------- MODULE Ingress -------------------------------
(***************************************************************************)
(* The per-link ingress policy (src/pkg/kubelink/links.go: IPRange,        *)
(* ParseIPRange, IsSet, Contains, Link.AllowIngress) and the CIDR list it  *)
(* is built from (src/pkg/tcp/util.go: CIDRList).  A CIDR is abstracted to *)
(* the set of addresses it contains, so net.IPNet.Contains is \in.  A      *)
(* spec.ingress entry is a record [deny, net]: "!cidr" has deny = TRUE.    *)
(*                                                                         *)
(* SpecAllowIngress is the policy as the specification states it, kept    *)
(* beside the code's version so that the two can be compared.             *)
(***************************************************************************)
EXTENDS Sequences, SequencesExt

CONSTANT NoRange   \* a nil *IPRange

(* CIDRList.IsSet: the list is non-nil, i.e. something was added to it. *)
CIDRListIsSet(l) == l # <<>>

(* CIDRList.Contains: some CIDR of the list contains ip. *)
CIDRListContains(l, ip) == \E i \in 1..Len(l) : ip \in l[i]

(* ParseIPRange: nil for an empty list; otherwise "!" entries go to Denied *)
(* and the others to Allowed, each in list order.                          *)
ParseIPRange(list) ==
    LET Nets(es) == [i \in 1..Len(es) |-> es[i].net]
    IN  IF list = <<>> THEN NoRange
        ELSE [allowed |-> Nets(SelectSeq(list, LAMBDA e : ~e.deny)),
              denied  |-> Nets(SelectSeq(list, LAMBDA e : e.deny))]

(* IPRange.IsSet *)
IPRangeIsSet(r) ==
    r # NoRange /\ (CIDRListIsSet(r.allowed) \/ CIDRListIsSet(r.denied))

(* IPRange.Contains: the Denied loop runs only when Allowed is unset or    *)
(* contains ip; in every other case the answer is TRUE.                    *)
IPRangeContains(r, ip) ==
    IF r = NoRange THEN TRUE
    ELSE IF ~CIDRListIsSet(r.allowed) \/ CIDRListContains(r.allowed, ip)
         THEN ~CIDRListContains(r.denied, ip)
         ELSE TRUE

(* Link.AllowIngress: <<granted, set>>. *)
AllowIngress(r, ip) ==
    IF ~IPRangeIsSet(r) THEN <<TRUE, FALSE>> ELSE <<IPRangeContains(r, ip), TRUE>>

(* The policy as the specification states it: admit iff Allowed is empty  *)
(* or contains dst, and no Denied entry contains dst.                      *)
SpecAllowIngress(r, ip) ==
    IF ~IPRangeIsSet(r) THEN <<TRUE, FALSE>>
    ELSE << /\ (~CIDRListIsSet(r.allowed) \/ CIDRListContains(r.allowed, ip))
            /\ ~CIDRListContains(r.denied, ip),
            TRUE >>

=============================================================================
