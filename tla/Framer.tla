------------------------------- MODULE Framer -------------------------------
(***************************************************************************)
(* The packet buffer (core/net/packetbuf.c), the 802.15.4 frame header     *)
(* (core/net/mac/frame802154.c) and the MAC that uses both                 *)
(* (core/net/mac/sicslowmac.c; nullmac.c hands its calls through).         *)
(*                                                                         *)
(* A header is the list of its fields, each with its number of bytes;      *)
(* parsing takes them from the list in the order of the bytes.  The        *)
(* sequence number, which no receiver looks at, is always 0.               *)
(***************************************************************************)
EXTENDS Integers, SequencesExt

CONSTANTS
  NullMac,       \* rimeaddr_null
  Pan,           \* IEEE802154_PANID
  BroadcastPan   \* FRAME802154_BROADCASTPANDID

Field(n, v)   == <<[n |-> n, v |-> v]>>
Bytes(fields) == FoldLeft(LAMBDA n, f : n + f.n, 0, fields)
-----------------------------------------------------------------------------
(* packetbuf.c: PACKETBUF_HDR_SIZE bytes for headers before the data; the  *)
(* addresses are attributes.                                               *)
PACKETBUF_SIZE     == 128
PACKETBUF_HDR_SIZE == 48

packetbuf_clear == [hdrptr |-> PACKETBUF_HDR_SIZE, bufptr |-> 0, buflen |-> 0,
                    sender |-> NullMac, receiver |-> NullMac]

packetbuf_copyfrom(len) ==
  [packetbuf_clear EXCEPT !.buflen = IF len > PACKETBUF_SIZE THEN PACKETBUF_SIZE ELSE len]

packetbuf_totlen(b) == PACKETBUF_HDR_SIZE - b.hdrptr + b.buflen

CanHdrAlloc(b, size)       == b.hdrptr >= size /\ packetbuf_totlen(b) + size <= PACKETBUF_SIZE
packetbuf_hdralloc(b, size) == [b EXCEPT !.hdrptr = @ - size]

CanHdrReduce(b, size)       == b.buflen >= size
packetbuf_hdrreduce(b, size) == [b EXCEPT !.bufptr = @ + size, !.buflen = @ - size]
-----------------------------------------------------------------------------
(* frame802154.c.                                                          *)
addr_len(mode) == CASE mode = "short" -> 2 [] mode = "long" -> 8 [] OTHER -> 0

(* The source PAN id is left out when it is that of the destination.       *)
field_len(p) ==
  LET both == p.dmode # "none" /\ p.smode # "none" /\ p.spid = p.dpid
  IN  [compression |-> both,
       dpid |-> IF p.dmode # "none" THEN 2 ELSE 0,
       spid |-> IF p.smode # "none" /\ ~both THEN 2 ELSE 0,
       daddr |-> addr_len(p.dmode), saddr |-> addr_len(p.smode)]

frame802154_hdrlen(p) ==
  LET n == field_len(p) IN 3 + n.dpid + n.daddr + n.spid + n.saddr

frame802154_create(p) ==
  LET n == field_len(p)
      optional(len, v) == IF len = 0 THEN <<>> ELSE Field(len, v)
  IN  Field(1, [type |-> "data", compression |-> n.compression])
      \o Field(1, [dmode |-> p.dmode, smode |-> p.smode])
      \o Field(1, 0)
      \o optional(n.dpid, p.dpid) \o optional(n.daddr, p.daddr)
      \o optional(n.spid, p.spid) \o optional(n.saddr, p.saddr)

(* What input_packet() uses of a parsed header; len is the whole frame's.  *)
frame802154_parse(hdr, len) ==
  LET dmode == hdr[2].v.dmode
      smode == hdr[2].v.smode
      d     == IF dmode = "none" THEN 3 ELSE 5      \* the last field of the destination
      s     == IF hdr[1].v.compression THEN d ELSE d + 1
  IN  [dmode |-> dmode,
       dpid  |-> IF dmode = "none" THEN 0 ELSE hdr[4].v,
       daddr |-> IF dmode = "none" THEN NullMac ELSE hdr[5].v,
       saddr |-> IF smode = "none" THEN NullMac ELSE hdr[s + 1].v,
       payload_len |-> len - Bytes(hdr)]
-----------------------------------------------------------------------------
(* sicslowmac.c.                                                           *)
Broadcast == "ffff"

(* send_packet() up to the radio: the header of the frame, or none when    *)
(* the buffer has no room for it.                                          *)
send_packet(own, b) ==
  LET all    == b.receiver = NullMac
      params == [dmode |-> IF all THEN "short" ELSE "long", smode |-> "long",
                 dpid |-> Pan, spid |-> Pan,
                 daddr |-> IF all THEN Broadcast ELSE b.receiver, saddr |-> own]
      len    == frame802154_hdrlen(params)
  IN  IF CanHdrAlloc(b, len)
      THEN [sent |-> TRUE, hdr |-> frame802154_create(params),
            buf  |-> packetbuf_hdralloc(b, len)]
      ELSE [sent |-> FALSE]

(* is_broadcast_addr() compares the bytes [i] after the last of them is    *)
(* counted down, so all of them.                                           *)
is_broadcast_addr(mode, a) == a = Broadcast /\ mode = "short"

(* input_packet(): the buffer as the network layer gets it, or dropped.    *)
input_packet(own, hdr, len) ==
  LET b == packetbuf_copyfrom(len)
      p == frame802154_parse(hdr, b.buflen)
      r == packetbuf_hdrreduce(b, b.buflen - p.payload_len)
      everyone == is_broadcast_addr(p.dmode, p.daddr)
      ok == /\ CanHdrReduce(b, b.buflen - p.payload_len)
            /\ p.dmode # "none" => /\ p.dpid \in {Pan, BroadcastPan}
                                   /\ everyone \/ p.daddr = own
  IN  IF ok THEN [taken |-> TRUE,
                  buf |-> [r EXCEPT !.sender = p.saddr,
                                    !.receiver = IF p.dmode = "none" \/ everyone
                                                 THEN NullMac ELSE p.daddr]]
            ELSE [taken |-> FALSE]
=============================================================================
