------------------------------- MODULE NetUtil -------------------------------
(***************************************************************************)
(* The byte-level helpers the broker relies on, as operators over IPv4     *)
(* addresses (4-byte sequences) and byte values, checked against integer   *)
(* reference definitions over bounded inputs:                              *)
(*                                                                         *)
(*  - the frame header of the tunnel wire format: WritePacket encodes the  *)
(*    payload length with HtoNs and appends the type byte; ReadPacket     *)
(*    decodes it with NtoHs and checks it against the caller's buffer     *)
(*    (src/pkg/controllers/endpoints.go, src/pkg/tunnel/net.go);           *)
(*  - SubIP, which Config.Prepare uses to derive the cluster DNS address   *)
(*    from the service CIDR, and CIDRNet, which gives the destination of   *)
(*    the mesh route (Links.GetRoutes) and the mesh CIDR (NewMeshInfo)     *)
(*    (src/pkg/tcp/util.go).                                               *)
(*                                                                         *)
(* A payload is abstracted to its length; a Go panic is the value Panic.   *)
(* The state is the input of one call, chosen freely at every step.        *)
(***************************************************************************)
EXTENDS Naturals, Sequences, SequencesExt, Bitwise

CONSTANTS
    Bytes,      \* byte values the address inputs draw from
    PrefixLens,   \* prefix lengths of the CIDR inputs
    Offsets,    \* n arguments of SubIP
    Lengths,    \* payload lengths handed to WritePacket
    Types,      \* frame type bytes
    BufferSize, \* the read buffer of serve and readHello
    Panic,      \* a Go runtime panic (index out of range)
    None

ASSUME BufferSize \in Nat /\ \A b \in Bytes : b \in 0..255

-----------------------------------------------------------------------------
(* net.go: HtoNs / NtoHs, binary.BigEndian on 16 bits.  The argument of    *)
(* HtoNs is a uint16, so the caller's conversion keeps the low 16 bits.    *)
HtoNs(val) == << (val % 65536) \div 256, val % 256 >>
NtoHs(buf) == buf[1] * 256 + buf[2]

(* WritePacket(ty, data): refuse more than 65535 bytes, else the header    *)
(* HtoNs(len) ++ ty on the stream, then the payload.                       *)
WritePacket(ty, len) ==
    IF len > 65535 THEN [err |-> "too large", hdr |-> <<>>, pay |-> 0]
    ELSE [err |-> None, hdr |-> HtoNs(len) \o << ty >>, pay |-> len]

ReadPacketOffByOne(stream, size) ==
    LET length == NtoHs(SubSeq(stream.hdr, 1, 2)) IN
    IF length >= size THEN [n |-> 0, ty |-> 0, err |-> "buffer too small"]
    ELSE [n |-> length, ty |-> stream.hdr[3],
          err |-> IF stream.pay >= length THEN None ELSE "EOF"]

(* ReadPacket(data): read the 3-byte header, refuse a length above         *)
(* len(data), then read exactly length payload bytes.                      *)
ReadPacket(stream, size) ==
    LET length == NtoHs(SubSeq(stream.hdr, 1, 2)) IN
    IF length > size THEN [n |-> 0, ty |-> 0, err |-> "buffer too small"]
    ELSE [n |-> length, ty |-> stream.hdr[3],
          err |-> IF stream.pay >= length THEN None ELSE "EOF"]

-----------------------------------------------------------------------------
(* util.go: SubIP(cidr, n) adds n to the CIDR's address byte by byte from  *)
(* the last byte, carrying into the next; it stops when the carry is 0 and *)
(* indexes ip[-1] (a panic) if a carry is left after the first byte.       *)
RECURSIVE SubIPLoop(_, _, _)
SubIPLoop(ip, i, n) ==
    IF n = 0 THEN ip
    ELSE IF i = 0 THEN Panic
    ELSE LET m == n + ip[i]
         IN  SubIPLoop([ip EXCEPT ![i] = m % 256], i - 1, m \div 256)

SubIPNoCarry(cidr, n) ==
    LET ip == cidr.ip
    IN  IF n = 0 THEN ip ELSE [ip EXCEPT ![4] = (n + ip[4]) % 256]

SubIP(cidr, n) == SubIPLoop(cidr.ip, Len(cidr.ip), n)

(* The mask of a prefix length, byte by byte (net.CIDRMask). *)
MaskByte(p, k) ==
    LET bits == IF p >= 8 * k THEN 8 ELSE IF p <= 8 * (k - 1) THEN 0 ELSE p - 8 * (k - 1)
    IN  256 - 2^(8 - bits)

CIDRNetUnmasked(cidr) == cidr

(* CIDRNet: a copy of the CIDR whose address is masked (IP.Mask). *)
CIDRNet(cidr) ==
    [cidr EXCEPT !.ip = [k \in 1..4 |-> cidr.ip[k] & MaskByte(cidr.prefix, k)]]

-----------------------------------------------------------------------------
(* Reference definitions, in integer arithmetic.  TLC's integers end at   *)
(* 2^31, so a 32-bit address is handled as its first byte and the 24-bit  *)
(* number of the other three, or as two 16-bit halves.                    *)
Low24(ip) == ip[2] * 65536 + ip[3] * 256 + ip[4]

(* The address n above ip, or Panic when it exceeds 255.255.255.255. *)
AddToIP(ip, n) ==
    LET s == Low24(ip) + n
        c == s \div 16777216
    IN  IF ip[1] + c > 255 THEN Panic
        ELSE << ip[1] + c, (s % 16777216) \div 65536, (s % 65536) \div 256, s % 256 >>

(* The network of ip under prefix p: the low 32 - p bits cleared. *)
Network(ip, p) ==
    LET hi == ip[1] * 256 + ip[2]
        lo == ip[3] * 256 + ip[4]
        h2 == IF p >= 16 THEN hi ELSE hi - (hi % 2^(16 - p))
        l2 == IF p >= 16 THEN lo - (lo % 2^(32 - p)) ELSE 0
    IN  << h2 \div 256, h2 % 256, l2 \div 256, l2 % 256 >>

AddrCases  ==[kind : {"addr"}, cidr : [ip : [1..4 -> Bytes], prefix : PrefixLens], n : Offsets]
FrameCases == [kind : {"frame"}, len : Lengths, ty : Types]

VARIABLE arg  \* the arguments of the current call

(* The next call differs from the last in one argument. *)
SetByte(k, b)     == arg.kind = "addr" /\ arg' = [arg EXCEPT !.cidr.ip[k] = b]
SetPrefix(p)      == arg.kind = "addr" /\ arg' = [arg EXCEPT !.cidr.prefix = p]
SetOffset(n)      == arg.kind = "addr" /\ arg' = [arg EXCEPT !.n = n]
SetFrame(len, ty) == arg.kind = "frame" /\ arg' = [arg EXCEPT !.len = len, !.ty = ty]

Init == arg \in FrameCases \cup {CHOOSE c \in AddrCases : TRUE}

Next ==
    \/ \E k \in 1..4, b \in Bytes : SetByte(k, b)
    \/ \E p \in PrefixLens : SetPrefix(p)
    \/ \E n \in Offsets : SetOffset(n)
    \/ \E len \in Lengths, ty \in Types : SetFrame(len, ty)

Spec == Init /\ [][Next]_arg

-----------------------------------------------------------------------------
(* The frame header round trip at the length boundaries: a frame that     *)
(* WritePacket accepts is read back by ReadPacket into the read buffer of *)
(* serve/readHello with its length and type, exactly when it fits the     *)
(* buffer (0 and BufferSize included); a longer one is refused by the     *)
(* reader, one above 65535 by the writer.                                 *)
FrameRoundTrip ==
    arg.kind = "frame" =>
        LET w == WritePacket(arg.ty, arg.len)
            r == ReadPacket(w, BufferSize)
        IN  IF arg.len > 65535 THEN w.err # None
            ELSE /\ w.err = None
                 /\ IF arg.len <= BufferSize
                    THEN r = [n |-> arg.len, ty |-> arg.ty, err |-> None]
                    ELSE r.err = "buffer too small"

(* SubIP(cidr, n) is the address n above the CIDR's address, with the     *)
(* carry through every byte, and panics exactly when that address does    *)
(* not fit into 32 bits.                                                   *)
SubIPIsOffset ==
    arg.kind = "addr" => SubIP(arg.cidr, arg.n) = AddToIP(arg.cidr.ip, arg.n)

(* CIDRNet gives the network of the CIDR: same prefix, exactly the host    *)
(* bits cleared, so the mesh route of GetRoutes (Dst CIDRNet(Cluster-      *)
(* Address)) is a valid route destination that covers the link's address. *)
CIDRNetIsNetwork ==
    arg.kind = "addr" =>
        LET c == CIDRNet(arg.cidr) IN
        c.prefix = arg.cidr.prefix /\ c.ip = Network(arg.cidr.ip, arg.cidr.prefix)

=============================================================================
