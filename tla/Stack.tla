-------------------------------- MODULE Stack --------------------------------
(***************************************************************************)
(* A packet's way through the device: uip6.c, uip-icmp6.c, uip-udp-packet.c*)
(* and tcpip.c over Sicslowpan and Framer, against a peer on the link (the *)
(* router, which is also the CoAP server of the client).                   *)
(*                                                                         *)
(* uip_buf and packetbuf hold one packet, and every handler runs from the  *)
(* call or the frame that starts it to the transmission without giving up  *)
(* the processor: it is one action.  The peer compresses as this code does *)
(* and addresses its frames properly; it advertises its contexts, and the  *)
(* device may miss an advertisement.                                       *)
(***************************************************************************)
EXTENDS Sicslowpan, ExtHeaders

CONSTANTS
  Dev, Peer,     \* link-layer addresses
  Wild,          \* the bytes found where no neighbor entry is
  Offers,        \* context id -> the contexts the peer may use for it
  PeerPackets,   \* what the peer sends: [p, body, to]
  Lens           \* lengths of what an application sends

VARIABLES
  air,           \* frames sent and not yet received
  ctx,           \* node -> uip_ds6_addr_context_table
  global,        \* the device's global address: none, tentative, preferred
  hasrouter,     \* is there a default router?
  conn           \* is the client's UDP connection open?
stackVars == <<air, ctx, global, hasrouter, conn>>

Nodes       == {Dev, Peer}
LinkLocal(l) == [pfx |-> "ll", iid |-> OfMac(l)]
Global      == [pfx |-> "p1", iid |-> OfMac(Dev)]

LOCAL_PORT  == 61617
REMOTE_PORT == 61616
cur_hop_limit == 64

(* A packet is its header p, with the ports of an uncompressed UDP header, *)
(* and the body after it: extension headers, the upper-layer protocol with *)
(* its ports or its sum, and the kind of message; len is all of its bytes. *)
NoPorts == [sport |-> 0, dport |-> 0, sum |-> Zero]

Port      == {n \in Nat : n < 65536}
FlowLabel == {n \in Nat : n < 1048576}
IsRecord(r, fields) == r = [f \in fields |-> r[f]]
IsAddress(a) ==
  IsRecord(a, IF IsMulticast(a) THEN {"pfx", "scope", "iid"} ELSE {"pfx", "iid"})
IsPorts(u) ==
  /\ IsRecord(u, {"sport", "dport", "sum"})
  /\ u.sport \in Port /\ u.dport \in Port
IsHeader(p) ==
  /\ IsRecord(p, {"version", "tc", "fl", "proto", "hl", "src", "dst", "up"})
  /\ p.version = 6 /\ p.tc \in 0 .. 255 /\ p.fl \in FlowLabel /\ p.hl \in 0 .. 255
  /\ IsAddress(p.src) /\ IsAddress(p.dst) /\ IsPorts(p.up)
  /\ p.proto # "udp" => p.up = NoPorts
IsBody(b) ==
  /\ IsRecord(b, {"exts", "upper", "up", "sum", "type", "len"})
  /\ b.exts \in Seq(ExtHeader) /\ IsPorts(b.up)
  /\ b.len \in Nat /\ b.len >= Length(b.exts)
IsContext(c) ==
  /\ IsRecord(c, {"state", "prefix", "length"})
  /\ c.state \in {"compress", "uncompress"} /\ c.length \in 0 .. 128
  /\ IsAddress(c.prefix) /\ ~IsMulticast(c.prefix)

(* The peer sends packets as they may be, whatever their contents, and the *)
(* prefixes it offers as contexts are not those of groups.                 *)
ASSUME NodesAssumption == Dev # Peer /\ Lens \subseteq Nat
ASSUME OffersAssumption == \A i \in ContextIds : \A c \in Offers[i] : IsContext(c)
ASSUME PeerAssumption ==
  \A s \in PeerPackets :
    /\ IsHeader(s.p) /\ IsBody(s.body)
    /\ s.p.proto = "udp" <=> s.body.upper = "udp" /\ s.body.exts = <<>>

StackInit ==
  /\ air = <<>>
  /\ ctx = [n \in Nodes |-> [i \in ContextIds |-> NoContext]]
  /\ global = "none"
  /\ hasrouter = FALSE
  /\ conn = FALSE
-----------------------------------------------------------------------------
(* Addresses (uip-ds6.c).                                                  *)
uip_ds6_is_my_addr(a) == a = LinkLocal(Dev) \/ (global # "none" /\ a = Global)

uip_ds6_select_src(dst) ==
  CASE IsLinkLocal(dst) \/ IsMulticast(dst) -> LinkLocal(Dev)
    [] ~IsLinkLocal(dst) /\ ~IsMulticast(dst) /\ global = "preferred" -> Global
    [] OTHER -> Unspecified

Ports(p, body) == IF body.exts = <<>> THEN p.up ELSE body.up

(* The checksum of a UDP packet or an ICMPv6 message covers the addresses, *)
(* the protocol, the ports and the data; two that differ in one of them    *)
(* are taken to differ in their sums.                                      *)
upper_layer_chksum(p, body) ==
  <<p.src, p.dst, body.upper, Ports(p, body).sport, Ports(p, body).dport, body.type>>

(* With a checksum in place; with its own.  A sum is never Zero, which is  *)
(* what a UDP packet has that carries none.                                *)
WithSum(p, body, sum) ==
  CASE body.upper = "udp" /\ body.exts = <<>> -> [p |-> [p EXCEPT !.up.sum = sum], body |-> body]
    [] body.upper = "udp" /\ body.exts # <<>> -> [p |-> p, body |-> [body EXCEPT !.up.sum = sum]]
    [] OTHER -> [p |-> p, body |-> [body EXCEPT !.sum = sum]]
Summed(p, body) == WithSum(p, body, upper_layer_chksum(p, body))

(* A header made here: no traffic class and flow label.                    *)
Header6(src, dst, proto, up) ==
  [version |-> 6, tc |-> 0, fl |-> 0, proto |-> proto, hl |-> cur_hop_limit,
   src |-> src, dst |-> dst, up |-> up]

Body(upper, type, len) ==
  [exts |-> <<>>, upper |-> upper, up |-> NoPorts, sum |-> Zero, type |-> type, len |-> len]

(* udp_send of uip_process().                                              *)
Udp(src, dst, sport, dport, len) ==
  Summed(Header6(src, dst, "udp", [sport |-> sport, dport |-> dport, sum |-> Zero]),
         Body("udp", "data", len))
-----------------------------------------------------------------------------
(* Output.                                                                 *)

(* The frame from n to the link-layer address dest, with the packet it     *)
(* stands for and the contexts its header was compressed with; none if it  *)
(* does not fit (sicslowpan.c, output()) or the buffer has no room.        *)
ContextsUsed(table, h) ==
  LET ids == (IF h.sac /\ h.sam # 0 THEN {IF h.cid THEN h.inline[1].v[1] ELSE 0} ELSE {})
             \cup (IF h.dac THEN {IF h.cid THEN h.inline[1].v[2] ELSE 0} ELSE {})
  IN  {[id |-> i, prefix |-> table[i].prefix, length |-> table[i].length] : i \in ids}

output(n, dest, pkt) ==
  LET h == compress_hdr_hc06(ctx[n], n, dest, pkt.p)
      b == [packetbuf_clear EXCEPT !.receiver = dest,
                                   !.buflen = rime_hdr_len(h) + pkt.body.len]
      f == send_packet(n, b)
  IN  IF Fits(h, pkt.body.len) /\ f.sent
      THEN {[mhr |-> f.hdr, h |-> h, body |-> pkt.body, len |-> packetbuf_totlen(f.buf),
             from |-> n, orig |-> pkt.p, used |-> ContextsUsed(ctx[n], h)]}
      ELSE {}

(* tcpip_ipv6_output(): the next hop is determined, but the neighbor entry *)
(* it should lead to is not looked up: the link-layer address is read at   *)
(* its offset from a null pointer, where there may be zeros, the address   *)
(* of a broadcast, or anything else.                                       *)
NullRead == {NullMac, Wild}

HasNextHop(dst) == IsLinkLocal(dst) \/ hasrouter

tcpip_ipv6_output(pkt) ==
  LET dst == pkt.p.dst
  IN  CASE dst = Unspecified                          -> {}
        [] IsMulticast(dst)                           -> output(Dev, NullMac, pkt)
        [] dst # Unspecified /\ ~IsMulticast(dst)
             /\ HasNextHop(dst)                       -> UNION {output(Dev, l, pkt) : l \in NullRead}
        [] OTHER                                      -> {}

(* The frames that go out are on the air, or lost.                         *)
Transmit(rest, frames) ==
  \/ air' = rest
  \/ \E f \in frames : air' = Append(rest, f)
-----------------------------------------------------------------------------
(* Input.                                                                  *)

(* From the frame to the IPv6 packet: sicslowmac, nullmac, sicslowpan.     *)
Taken(n, f) == input_packet(n, f.mhr, f.len).taken

Uncompressed(n, f) ==
  LET b == input_packet(n, f.mhr, f.len).buf
  IN  uncompress_hdr_hc06(ctx[n], b.sender, b.receiver, f.h)

(* The checks of uip_process() up to the dispatch.  A packet uncompressed  *)
(* without its context has no addresses of this node.                      *)
ForThisNode(q) ==
  /\ q.version = 6
  /\ "dst" \in DOMAIN q
  /\ ~IsMulticast(q.src)
  /\ uip_ds6_is_my_addr(q.dst) \/ IsMulticast(q.dst)

Headers(q, body) == ExtensionHeaders(body.exts, body.upper, IsMulticast(q.dst))

(* Faulty: no checksum is computed for a UDP packet.                       *)
BadChecksumHolds(q, body) ==
  body.upper = "udp" \/ body.sum = upper_layer_chksum(q, body)

(* A UDP packet that carries no checksum is taken as it is.                *)
Unchecked(q, body) == body.upper = "udp" /\ Ports(q, body).sum = Zero
ChecksumHolds(q, body) ==
  \/ Unchecked(q, body)
  \/ (IF body.upper = "udp" THEN Ports(q, body).sum ELSE body.sum) = upper_layer_chksum(q, body)

(* The search of uip_udp_conns for the client's connection.                *)
udp_found(q, up) ==
  /\ conn
  /\ up.dport = LOCAL_PORT
  /\ up.sport = REMOTE_PORT
  /\ q.src = LinkLocal(Peer)

Reaches(q, body, upper) ==
  /\ ForThisNode(q)
  /\ Headers(q, body).fate = GoesOn
  /\ body.upper = upper
  /\ ChecksumHolds(q, body)

ToClient(q, body)  == Reaches(q, body, "udp") /\ udp_found(q, Ports(q, body))

(* What the client is given: where its data begin in the packet, and how   *)
(* many bytes they are.  The code leaves uip_ext_len out: behind extension *)
(* headers it is the end of these, the UDP header and the data.  The CoAP  *)
(* server adds it itself, the client does not.                             *)
UIP_IPUDPH_LEN == UIP_IPH_LEN + 8
uip_len(body) ==
  body.len + (IF body.upper = "udp" /\ body.exts = <<>> THEN UIP_IPUDPH_LEN ELSE UIP_IPH_LEN)
uip_appdata(body) == [at |-> UIP_IPUDPH_LEN, len |-> uip_len(body) - UIP_IPUDPH_LEN]

IsEcho(q, body)    == Reaches(q, body, "icmp6") /\ body.type = "echo"
IsProblem(q, body) == ForThisNode(q) /\ Headers(q, body).fate.is = "problem"

(* Faulty: an echo to a group is answered in the name of the group.        *)
BadEchoReply(q, body) ==
  Summed([q EXCEPT !.hl = cur_hop_limit, !.dst = q.src, !.src = q.dst, !.proto = "icmp6"],
         Body("icmp6", "reply", body.len - Headers(q, body).ext_len))

(* uip_icmp6_echo_request_input(): without the extension headers.          *)
EchoReply(q, body) ==
  Summed([q EXCEPT !.hl = cur_hop_limit,
                   !.proto = "icmp6",
                   !.dst = q.src,
                   !.src = IF IsMulticast(q.dst) THEN uip_ds6_select_src(q.src) ELSE q.dst],
         Body("icmp6", "reply", body.len - Headers(q, body).ext_len))

(* uip_icmp6_error_output(): the packet it answers follows the message, as *)
(* long as the compressed header was left out of its length.  The test for *)
(* an answer to an error looks at packets without extension headers, which *)
(* have none of these problems if they are ICMPv6.                         *)
SendsError(q, problem) ==
  /\ q.src # Unspecified
  /\ ~IsMulticast(q.dst) \/ problem.code = "option"

uip_icmp6_error_output(q, body) ==
  LET problem == Headers(q, body).fate
      src     == IF IsMulticast(q.dst) THEN uip_ds6_select_src(q.dst) ELSE q.dst
  IN  IF SendsError(q, problem)
      THEN {Summed(Header6(src, q.src, "icmp6", NoPorts),
                   [exts |-> <<>>, upper |-> "icmp6", up |-> NoPorts, sum |-> Zero,
                    type |-> "error", len |-> 8 + UIP_IPH_LEN + body.len,
                    code |-> problem.code, pointer |-> problem.pointer,
                    about |-> [exts |-> body.exts, upper |-> body.upper]])}
      ELSE {}

(* What uip_process() leaves in uip_buf for tcpip_ipv6_output().           *)
Answer(q, body) ==
  CASE IsEcho(q, body)    -> {EchoReply(q, body)}
    [] IsProblem(q, body) -> uip_icmp6_error_output(q, body)
    [] OTHER              -> {}
-----------------------------------------------------------------------------
(* Actions of the device.                                                  *)

(* The client's first run: udp_new() and udp_bind().                       *)
Open ==
  /\ ~conn
  /\ conn' = TRUE
  /\ UNCHANGED <<air, ctx, global, hasrouter>>

(* uip_udp_packet_send() by the client: the source is chosen, the checksum *)
(* computed, the packet sent.                                              *)
AppSend ==
  /\ conn
  /\ air = <<>>
  /\ \E len \in Lens :
       Transmit(air, tcpip_ipv6_output(
         Udp(uip_ds6_select_src(LinkLocal(Peer)), LinkLocal(Peer), LOCAL_PORT, REMOTE_PORT, len)))
  /\ UNCHANGED <<ctx, global, hasrouter, conn>>

(* A frame is processed: cc2520_process's poll handler down to the         *)
(* application or the answer.                                              *)
Receive ==
  /\ air # <<>>
  /\ Head(air).from = Peer
  /\ LET f == Head(air)
     IN  \/ ~Taken(Dev, f) /\ air' = Tail(air)
         \/ /\ Taken(Dev, f)
            /\ LET q == Uncompressed(Dev, f)
               IN  Transmit(Tail(air),
                            UNION {tcpip_ipv6_output(a) : a \in Answer(q, f.body)})
  /\ UNCHANGED <<ctx, global, hasrouter, conn>>

(* uip_nd6_ra_input(): the 6LoWPAN context option of context i.            *)
Advertised(i) ==
  /\ ctx' = [ctx EXCEPT ![Dev][i] =
       IF ctx[Peer][i] = NoContext THEN NoContext
       ELSE ContextOf(ctx[Peer][i].prefix, ctx[Peer][i].length, Compresses(ctx[Peer][i]))]
  /\ UNCHANGED <<air, global, hasrouter, conn>>

(* uip_ds6_periodic().                                                     *)
ContextTimeout(i) ==
  /\ ctx[Dev][i] # NoContext
  /\ ctx' = [ctx EXCEPT ![Dev][i] = Aged(@)]
  /\ UNCHANGED <<air, global, hasrouter, conn>>

(* The work of module Ds6, as far as it matters here.                      *)
AddressChange(to) ==
  /\ to # global
  /\ global' = to
  /\ UNCHANGED <<air, ctx, hasrouter, conn>>

RouterChange ==
  /\ hasrouter' = ~hasrouter
  /\ UNCHANGED <<air, ctx, global, conn>>
-----------------------------------------------------------------------------
(* The peer.  Its UDP packets may carry no checksum.                       *)
PeerSums(p, body) ==
  {upper_layer_chksum(p, body)} \cup (IF body.upper = "udp" THEN {Zero} ELSE {})

PeerSend ==
  /\ air = <<>>
  /\ \E s \in PeerPackets : \E sum \in PeerSums(s.p, s.body) :
       Transmit(air, output(Peer, IF IsMulticast(s.p.dst) THEN NullMac ELSE s.to,
                            WithSum(s.p, s.body, sum)))
  /\ UNCHANGED <<ctx, global, hasrouter, conn>>

PeerReceive ==
  /\ air # <<>>
  /\ Head(air).from = Dev
  /\ air' = Tail(air)
  /\ UNCHANGED <<ctx, global, hasrouter, conn>>

PeerContext(i) ==
  /\ \E c \in Offers[i] \cup {NoContext} : c # ctx[Peer][i] /\ ctx' = [ctx EXCEPT ![Peer][i] = c]
  /\ UNCHANGED <<air, global, hasrouter, conn>>
-----------------------------------------------------------------------------
StackNext ==
  \/ Open \/ AppSend \/ Receive
  \/ \E i \in ContextIds : Advertised(i) \/ ContextTimeout(i) \/ PeerContext(i)
  \/ \E to \in {"none", "tentative", "preferred"} : AddressChange(to)
  \/ RouterChange
  \/ PeerSend \/ PeerReceive

StackSpec == StackInit /\ [][StackNext]_stackVars
-----------------------------------------------------------------------------
(* Properties.                                                             *)

StackTypeOK ==
  /\ Len(air) <= 1
  /\ \A k \in DOMAIN air : air[k].from \in Nodes /\ air[k].len \in Nat
  /\ \A n \in Nodes, i \in ContextIds :
       ctx[n][i] = NoContext \/ IsContext(ctx[n][i])
  /\ global \in {"none", "tentative", "preferred"}
  /\ hasrouter \in BOOLEAN /\ conn \in BOOLEAN

Receiver(f) == IF f.from = Dev THEN Peer ELSE Dev

(* The header a receiver uncompresses is the one that was compressed,      *)
(* every field of it, whenever it still has the contexts the sender used:  *)
(* compress_hdr_hc06() and uncompress_hdr_hc06() agree on the form of each *)
(* field, its length and its place, and on the link-layer addresses that   *)
(* stand for identifiers.  Two things are lost, and nothing else: an       *)
(* identifier of 16 bits and the scope of a group that is not the link's.  *)
Lossy(a) ==
  \/ ~IsMulticast(a) /\ IsShort(a)
  \/ IsMulticast(a) /\ a.scope # LinkScope /\ a.iid[1] # "g128"

RoundTrip ==
  \A k \in DOMAIN air :
    LET f == air[k]
        n == Receiver(f)
        has == \A u \in f.used : /\ ctx[n][u.id] # NoContext
                                 /\ ctx[n][u.id].prefix = u.prefix
                                 /\ ctx[n][u.id].length = u.length
    IN  has /\ Taken(n, f) /\ ~Lossy(f.orig.src) /\ ~Lossy(f.orig.dst)
          => Uncompressed(n, f) = f.orig

(* Neither what is lost nor contexts that differ, because an advertisement *)
(* was lost or a context given another prefix while a frame was on its     *)
(* way, ever make the device take a packet for another one, if it carries  *)
(* a checksum: the header of what reaches the client, or is answered as an *)
(* echo, is the one that was sent.  The code takes a UDP packet without a  *)
(* checksum too; of that the addresses may be wrong and nothing else.  The *)
(* data uip_process() hands up are those of the packet just when it has no *)
(* extension headers.                                                      *)
UdpData(body) == [at  |-> UIP_IPUDPH_LEN + Length(body.exts),
                  len |-> uip_len(body) - UIP_IPUDPH_LEN - Length(body.exts)]

NeverMistaken ==
  \A k \in DOMAIN air :
    LET f == air[k]
        q == Uncompressed(Dev, f)
    IN  f.from = Peer /\ Taken(Dev, f) =>
          /\ (ToClient(q, f.body) \/ IsEcho(q, f.body)) /\ ~Unchecked(q, f.body) => q = f.orig
          /\ ToClient(q, f.body) =>
               /\ [q EXCEPT !.src = f.orig.src, !.dst = f.orig.dst] = f.orig
               /\ uip_appdata(f.body) = UdpData(f.body) <=> Length(f.body.exts) = 0

(* The device speaks in its own name: the source of what it sends, asked   *)
(* by an application, answering an echo to it or to a group, or reporting  *)
(* an error, is an address it has, or unspecified; and nothing goes to the *)
(* unspecified address.  The address may have gone since.                  *)
OwnSource ==
  \A k \in DOMAIN air :
    air[k].from = Dev => /\ air[k].orig.src \in {LinkLocal(Dev), Global, Unspecified}
                         /\ air[k].orig.dst # Unspecified

(* A frame is within what the radio can send (127 bytes and two of them    *)
(* the checksum), with all of its header and data.                         *)
WholeFrame ==
  \A k \in DOMAIN air :
    /\ air[k].len <= 125
    /\ air[k].len = Bytes(air[k].mhr) + rime_hdr_len(air[k].h) + air[k].body.len

(* A Parameter Problem of the device points into the packet it answers at  *)
(* what is wrong there: the field that names a header the node does not    *)
(* know, or has had often enough; the type of a routing header with        *)
(* segments left; or the option that asked for the answer.  Where that is  *)
(* follows from the lengths of the headers before it.                      *)
At(exts, k)     == UIP_IPH_LEN + Length(SubSeq(exts, 1, k - 1))
NamedAt(exts, k) == IF k = 1 THEN NextHdrAt ELSE At(exts, k - 1)
Size(o)         == IF o.type = PAD1 THEN 1 ELSE 2 + o.len
Sizes(opts)     == FoldLeft(LAMBDA n, o : n + Size(o), 0, opts)
OptionAt(exts, k, j) ==
  At(exts, k) + 2 + Sizes(SubSeq(exts[k].opts, 1, j - 1))

Repeated(exts, k) ==
  Cardinality({j \in 1 .. k : exts[j].kind = exts[k].kind}) > MostOf[exts[k].kind]

Culprits(exts, upper) ==
  {<<"nextheader", NamedAt(exts, k)>> : k \in {k \in DOMAIN exts : Repeated(exts, k)}}
  \cup (IF upper \in {"udp", "icmp6", "frag", "none"} THEN {}
        ELSE {<<"nextheader", NamedAt(exts, Len(exts) + 1)>>})
  \cup {<<"header", At(exts, k) + 2>> : k \in {k \in DOMAIN exts :
                                             exts[k].kind = "routing" /\ exts[k].seg > 0}}
  \cup UNION {{<<"option", OptionAt(exts, k, j)>> : j \in {j \in DOMAIN exts[k].opts :
                                             exts[k].opts[j].type \div 128 = 1}}
              : k \in DOMAIN exts}

ProblemLocated ==
  \A k \in DOMAIN air :
    LET b == air[k].body
    IN  air[k].from = Dev /\ b.type = "error" =>
          <<b.code, b.pointer>> \in Culprits(b.about.exts, b.about.upper)
=============================================================================
