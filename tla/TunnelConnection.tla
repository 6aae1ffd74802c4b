--------------------------- MODULE TunnelConnection ---------------------------
(***************************************************************************)
(* One broker tunnel connection (src/pkg/controllers/endpoints.go, type    *)
(* TunnelConnection): the HELLO handshake of NewTunnelConnection, the      *)
(* framing of ReadPacket / WritePacket, and the read loop Serve / serve    *)
(* with its ingress filter in front of the tun device.                     *)
(*                                                                         *)
(* The peer is the environment: it sends any sequence of frames (HELLO,    *)
(* DATA, unknown types, zero-length, over-long, cut off) and then closes   *)
(* the stream cleanly (FIN) or resets it.  Local writers are the hello     *)
(* goroutine of handshake() and the Mux threads that forward tun packets   *)
(* once the tunnel is registered; each WritePacket writes the 3-byte       *)
(* header and the payload with two write() calls under wlock.              *)
(*                                                                         *)
(* The link registry is fixed here (Links: cluster address -> the link's   *)
(* spec.ingress list); module Links models how it changes.                 *)
(***************************************************************************)
EXTENDS Naturals, Sequences, SequencesExt, Ingress

CONSTANTS
    Addr,        \* IP addresses (model values)
    Self,        \* mux.clusterAddr.IP
    MeshNet,     \* mux.clusterAddr as a CIDR: the mesh addresses
    LocalNets,   \* mux.local: the local service CIDRs (a sequence)
    Links,       \* registered links: cluster address -> spec.ingress list
    Zero,        \* net.IPv6zero: the anonymous HELLO cluster address
    HelloCidrs,  \* HELLO cluster CIDRs a peer may send: [ip, net]
    Packets,     \* packets a peer may send in DATA frames
    Writers,     \* Mux threads that write packets to the tunnel
    MaxIn,       \* bound: frames the peer sends
    MaxOut,      \* bound: packets each writer sends
    NoLink,      \* NewTunnelConnection's link argument is nil (incoming)
    NoOne,       \* wlock is free
    Short,       \* a HELLO payload shorter than the HELLO header
    Pending,     \* readHello has not returned yet
    HsError,     \* readHello returned an error
    None

Hello == "hello"             \* the handshake goroutine writing the HELLO
Threads == Writers \cup {Hello}

Packet == [v4 : BOOLEAN, ok : BOOLEAN, src : Addr, dst : Addr]
(* A frame on the stream from the peer.  size is the declared length:     *)
(* zero, fitting BufferSize, larger than BufferSize, or cut off by the     *)
(* peer's close before the payload is complete.                           *)
Frame ==
    [ty : {"hello"}, size : {"fits"}, body : HelloCidrs \cup {Short}]
    \cup [ty : {"data"}, size : {"fits"}, body : Packets]
    \cup [ty : {"data", "other"}, size : {"zero", "oversize", "cut"}, body : {None}]
    \cup [ty : {"other"}, size : {"fits"}, body : {None}]

VARIABLES
    link,       \* the expected link's cluster address, or NoLink
    phase,      \* "handshake", "serving", "failed" (handshake error), "done"
    inbound,    \* frames from the peer not yet read
    peerEnd,    \* "open", "fin" or "rst": how the peer ends the stream
    sent,       \* the frames the peer has sent, in order (history)
    helloRead,  \* result of readHello: Pending, HsError or the HELLO cidr
    out,        \* chunks written to the stream to the peer
    wlock,      \* TunnelConnection.wlock
    wpc,        \* per writing thread: "idle" or "payload" (header written)
    wcount,     \* packets written per Mux writer
    helloDone,  \* the handshake's writeHello goroutine has returned
    tun,        \* packets written to the tun device
    exitErr,    \* the error serve() returns
    cause,      \* what really ended serve(): "eof", "reset", "toolarge",
                \* "truncated" or "tun" (history, for the properties)
    notified    \* notify() has called mux.Notify and the fail handlers

hsVars   == <<link, helloRead, helloDone>>
peerVars == <<inbound, peerEnd, sent>>
wrVars   == <<out, wlock, wpc, wcount>>
exitVars == <<exitErr, cause, notified>>
vars     == <<hsVars, phase, peerVars, wrVars, tun, exitVars>>

-----------------------------------------------------------------------------
(***************************************************************************)
(* Peer                                                                    *)
(***************************************************************************)
PeerSend(f) ==
    /\ peerEnd = "open" /\ Len(sent) < MaxIn
    /\ inbound' = Append(inbound, f)
    /\ sent' = Append(sent, f)
    /\ peerEnd' = IF f.size = "cut" THEN "fin" ELSE "open"
    /\ UNCHANGED <<hsVars, phase, wrVars, tun, exitVars>>

PeerEnd(e) ==
    /\ peerEnd = "open"
    /\ peerEnd' = e
    /\ UNCHANGED <<hsVars, phase, inbound, sent, wrVars, tun, exitVars>>

-----------------------------------------------------------------------------
(***************************************************************************)
(* WritePacket(ty, data): header, then payload, both under wlock.          *)
(***************************************************************************)
MayWrite(w) ==
    IF w = Hello THEN phase = "handshake" /\ ~helloDone
    ELSE phase = "serving" /\ wcount[w] < MaxOut

WriteHeaderNoLock(w) ==
    /\ wpc[w] = "idle" /\ MayWrite(w)
    /\ out' = Append(out, [part |-> "hdr", w |-> w])
    /\ wpc' = [wpc EXCEPT ![w] = "payload"]
    /\ UNCHANGED <<hsVars, phase, peerVars, wlock, wcount, tun, exitVars>>

WriteHeader(w) ==
    /\ wpc[w] = "idle" /\ MayWrite(w)
    /\ wlock = NoOne
    /\ wlock' = w
    /\ out' = Append(out, [part |-> "hdr", w |-> w])
    /\ wpc' = [wpc EXCEPT ![w] = "payload"]
    /\ UNCHANGED <<hsVars, phase, peerVars, wcount, tun, exitVars>>

WritePayload(w) ==
    /\ wpc[w] = "payload"
    /\ out' = Append(out, [part |-> "pay", w |-> w])
    /\ wpc' = [wpc EXCEPT ![w] = "idle"]
    /\ wlock' = IF wlock = w THEN NoOne ELSE wlock
    /\ IF w = Hello
       THEN helloDone' = TRUE /\ UNCHANGED wcount
       ELSE wcount' = [wcount EXCEPT ![w] = @ + 1] /\ UNCHANGED helloDone
    /\ UNCHANGED <<link, helloRead, phase, peerVars, tun, exitVars>>

-----------------------------------------------------------------------------
(***************************************************************************)
(* ReadPacket: read the 3-byte header, reject a length above BufferSize,   *)
(* read the payload.  It blocks while the peer is silent.  Its result is   *)
(* <<n, ty, err>> with the real cause of an error kept beside it.          *)
(***************************************************************************)
CanRead == inbound # <<>> \/ peerEnd # "open"

ReadPacket ==
    IF inbound = <<>>
    THEN IF peerEnd = "fin" THEN [n |-> 0, err |-> "EOF", cause |-> "eof"]
                            ELSE [n |-> 0, err |-> "reset", cause |-> "reset"]
    ELSE LET f == Head(inbound) IN
         CASE f.size = "oversize" -> [n |-> 0, err |-> "toolarge", cause |-> "toolarge"]
           [] f.size = "cut"      -> [n |-> 1, err |-> "EOF", cause |-> "truncated"]
           [] f.size = "zero"     -> [n |-> 0, err |-> None, cause |-> None]
           [] OTHER               -> [n |-> 1, err |-> None, cause |-> None]

-----------------------------------------------------------------------------
(***************************************************************************)
(* handshake(): readHello in this thread while the goroutine writes the    *)
(* local HELLO; wg.Wait(); a read error wins over a write error.  Then     *)
(* NewTunnelConnection checks the remote cluster CIDR.                     *)
(***************************************************************************)
ReadHelloNoTypeCheck ==
    /\ phase = "handshake" /\ helloRead = Pending /\ CanRead
    /\ LET r == ReadPacket
           f == Head(inbound)
       IN helloRead' = IF r.err # None \/ f.body = Short THEN HsError ELSE f.body
    /\ inbound' = IF inbound = <<>> THEN inbound ELSE Tail(inbound)
    /\ UNCHANGED <<link, helloDone, phase, peerEnd, sent, wrVars, tun, exitVars>>

ReadHello ==
    /\ phase = "handshake" /\ helloRead = Pending /\ CanRead
    /\ LET r == ReadPacket
           f == Head(inbound)
       IN helloRead' = IF r.err # None \/ f.ty # "hello" \/ f.body = Short
                       THEN HsError ELSE f.body
    /\ inbound' = IF inbound = <<>> THEN inbound ELSE Tail(inbound)
    /\ UNCHANGED <<link, helloDone, phase, peerEnd, sent, wrVars, tun, exitVars>>

(* NewTunnelConnection: a HELLO with the all-zero address is anonymous;    *)
(* otherwise its address must be the expected link's, its range must       *)
(* contain our address and our range its address.                          *)
ValidHello(h) ==
    \/ h.ip = Zero
    \/ /\ link # NoLink => h.ip = link
       /\ Self \in h.net
       /\ h.ip \in MeshNet

HandshakeDone ==
    /\ phase = "handshake" /\ helloRead # Pending /\ helloDone
    /\ phase' = IF helloRead # HsError /\ ValidHello(helloRead) THEN "serving" ELSE "failed"
    /\ UNCHANGED <<hsVars, peerVars, wrVars, tun, exitVars>>

-----------------------------------------------------------------------------
(***************************************************************************)
(* serve(): one iteration per frame.  A failed read ends the loop; the     *)
(* error is replaced by io.EOF when n <= 0.  Zero-length and non-DATA      *)
(* frames are skipped.  An IPv4 packet passes the ingress filter before it *)
(* is written to tun; anything else is written to tun uninspected.         *)
(***************************************************************************)
LocalIsSet == LocalNets # <<>>

(* The filter of serve() for an IPv4 packet with a parseable header. *)
Admitted(p) ==
    IF p.src \in MeshNet
    THEN /\ p.src \in DOMAIN Links
         /\ LET ga == AllowIngress(ParseIPRange(Links[p.src]), p.dst)
            IN /\ ga[1]
               /\ ga[2] \/ ~LocalIsSet \/ CIDRListContains(LocalNets, p.dst)
    ELSE p.dst = Self

ToTun(p) == ~p.v4 \/ (p.ok /\ Admitted(p))

(* serve(): an error that comes with n <= 0 is replaced by io.EOF. *)
ServeErr(r) == IF r.n <= 0 THEN "EOF" ELSE r.err

(* Serve(): serve() returns err, notify(err) ignores io.EOF. *)
ServeExit ==
    LET r == ReadPacket
        e == ServeErr(r)
    IN /\ exitErr' = e
       /\ cause' = r.cause
       /\ notified' = (e # "EOF")

ServeFrameIgnoringErr ==
    /\ phase = "serving" /\ CanRead
    /\ IF inbound = <<>>
       THEN UNCHANGED <<phase, inbound, tun, exitVars>>
       ELSE LET r == ReadPacket
                f == Head(inbound)
            IN /\ inbound' = Tail(inbound)
               /\ tun' = IF r.err = None /\ r.n > 0 /\ f.ty = "data" /\ ToTun(f.body)
                         THEN Append(tun, f.body) ELSE tun
               /\ UNCHANGED <<phase, exitVars>>
    /\ UNCHANGED <<hsVars, peerEnd, sent, wrVars>>

ServeFrameZeroEnds ==
    /\ phase = "serving" /\ CanRead
    /\ LET r == ReadPacket IN
       IF r.err # None \/ r.n <= 0
       THEN /\ ServeExit
            /\ phase' = "done"
            /\ UNCHANGED <<inbound, tun>>
       ELSE LET f == Head(inbound) IN
            /\ inbound' = Tail(inbound)
            /\ tun' = IF f.ty = "data" /\ ToTun(f.body) THEN Append(tun, f.body) ELSE tun
            /\ UNCHANGED <<phase, exitVars>>
    /\ UNCHANGED <<hsVars, peerEnd, sent, wrVars>>

ServeFrame ==
    /\ phase = "serving" /\ CanRead
    /\ LET r == ReadPacket IN
       IF r.err # None
       THEN /\ ServeExit
            /\ phase' = "done"
            /\ UNCHANGED <<inbound, tun>>
       ELSE LET f == Head(inbound) IN
            /\ inbound' = Tail(inbound)
            /\ tun' = IF r.n > 0 /\ f.ty = "data" /\ ToTun(f.body)
                      THEN Append(tun, f.body) ELSE tun
            /\ UNCHANGED <<phase, exitVars>>
    /\ UNCHANGED <<hsVars, peerEnd, sent, wrVars>>

(* The tun write of an admitted packet fails: serve() returns that error. *)
ServeTunFail ==
    /\ phase = "serving" /\ inbound # <<>>
    /\ LET f == Head(inbound) IN
       /\ f.ty = "data" /\ f.size = "fits" /\ ToTun(f.body)
       /\ inbound' = Tail(inbound)
       /\ phase' = "done"
       /\ exitErr' = "tun" /\ cause' = "tun" /\ notified' = TRUE
    /\ UNCHANGED <<hsVars, peerEnd, sent, wrVars, tun>>

-----------------------------------------------------------------------------
Init ==
    /\ link \in (DOMAIN Links) \cup {NoLink}
    /\ phase = "handshake"
    /\ inbound = <<>> /\ peerEnd = "open" /\ sent = <<>>
    /\ helloRead = Pending /\ helloDone = FALSE
    /\ out = <<>> /\ wlock = NoOne
    /\ wpc = [w \in Threads |-> "idle"]
    /\ wcount = [w \in Writers |-> 0]
    /\ tun = <<>>
    /\ exitErr = None /\ cause = None /\ notified = FALSE

Next ==
    \/ \E f \in Frame : PeerSend(f)
    \/ \E e \in {"fin", "rst"} : PeerEnd(e)
    \/ \E w \in Threads : WriteHeader(w) \/ WritePayload(w)
    \/ ReadHello
    \/ HandshakeDone
    \/ ServeFrame
    \/ ServeTunFail

(* The read loop, the handshake and every writer run on their own         *)
(* goroutines and are never starved: weak fairness on each.               *)
Fairness ==
    /\ WF_vars(ReadHello) /\ WF_vars(HandshakeDone) /\ WF_vars(ServeFrame)
    /\ \A w \in Threads : WF_vars(WriteHeader(w)) /\ WF_vars(WritePayload(w))

Spec == Init /\ [][Next]_vars /\ Fairness

-----------------------------------------------------------------------------
(***************************************************************************)
(* Properties                                                              *)
(***************************************************************************)
TypeOK ==
    /\ link \in Addr \cup {NoLink}
    /\ phase \in {"handshake", "serving", "failed", "done"}
    /\ inbound \in Seq(Frame) /\ peerEnd \in {"open", "fin", "rst"} /\ sent \in Seq(Frame) /\ Len(sent) <= MaxIn
    /\ helloRead \in {Pending, HsError} \cup HelloCidrs
    /\ out \in Seq([part : {"hdr", "pay"}, w : Threads])
    /\ wlock \in Threads \cup {NoOne}
    /\ wpc \in [Threads -> {"idle", "payload"}]
    /\ wcount \in [Writers -> 0..MaxOut] /\ helloDone \in BOOLEAN
    /\ tun \in Seq(Packet)
    /\ exitErr \in {None, "EOF", "reset", "toolarge", "tun"}
    /\ cause \in {None, "eof", "reset", "toolarge", "truncated", "tun"}
    /\ notified \in BOOLEAN

(* Frames written by concurrent threads never interleave on the stream    *)
(* (WritePacket's two write() calls under wlock), and the HELLO of the    *)
(* handshake goroutine is the first frame the peer receives.              *)
OutboundFramed ==
    /\ out # <<>> => out[1] = [part |-> "hdr", w |-> Hello]
    /\ \A i \in 1..Len(out) :
          /\ out[i].part = "hdr" /\ i < Len(out) => out[i + 1] = [part |-> "pay", w |-> out[i].w]
          /\ out[i].part = "pay" => i > 1 /\ out[i - 1] = [part |-> "hdr", w |-> out[i].w]

(* The packets of the peer's complete DATA frames, in the order sent. *)
DataSent ==
    LET d == SelectSeq(sent, LAMBDA f : f.ty = "data" /\ f.size = "fits")
    IN  [i \in DOMAIN d |-> d[i].body]

(* Spec section 4.4 and scenario S5: tun receives the admitted packets of *)
(* the peer's DATA frames in the order they were sent; and when the peer  *)
(* sent no oversize or cut-off frame and the loop did not end on a tun    *)
(* write error, serve has delivered all of them: zero-length and unknown- *)
(* type frames are skipped (serve's n == 0 and type checks) and never end *)
(* the connection early.                                                  *)
DeliveredInOrder ==
    LET expected == SelectSeq(DataSent, ToTun) IN
    /\ IsPrefix(tun, expected)
    /\ (/\ phase = "done" /\ cause # "tun"
        /\ \A i \in 1..Len(sent) : sent[i].size \in {"fits", "zero"})
          => tun = expected

(* Once the peer has closed or reset the stream, the connection ends:     *)
(* no frame sequence keeps the handshake or the read loop alive.          *)
EndsAfterPeerEnd ==
    (peerEnd # "open") ~> (phase \in {"failed", "done"})

(* The ingress policy as the specification states it (section 4.7 and     *)
(* testable property 5): a packet from a mesh address is delivered only   *)
(* if its link's Allowed list is empty or contains the destination, and   *)
(* no Denied entry contains it.                                           *)
IngressEnforced ==
    \A i \in 1..Len(tun) :
        (tun[i].v4 /\ tun[i].src \in MeshNet /\ tun[i].src \in DOMAIN Links) =>
            SpecAllowIngress(ParseIPRange(Links[tun[i].src]), tun[i].dst)[1]

(* Failures are reported: when the read loop ends because the connection *)
(* was reset or a frame is larger than the read buffer, notify() passes   *)
(* the error to mux.Notify and the registered fail handlers (serve's      *)
(* n <= 0 replacement and notify's io.EOF filter decide this).            *)
FailureReported ==
    (phase = "done" /\ cause \in {"reset", "toolarge"}) => notified

=============================================================================
