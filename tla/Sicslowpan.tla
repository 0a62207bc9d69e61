----------------------------- MODULE Sicslowpan -----------------------------
(***************************************************************************)
(* The 6LoWPAN adaptation layer: IPHC header compression and its inverse,  *)
(* platform/torrija/nd-opt/sicslowpan.c as it is configured (HC06, address *)
(* contexts of the router advertisements, no fragmentation), with the      *)
(* context tables of uip-ds6.c.                                            *)
(*                                                                         *)
(* An IPv6 address is a prefix and an interface identifier; identifiers    *)
(* are told apart by the forms the compression distinguishes: derived from *)
(* the MAC address l, sixteen bits (two bytes), a mapped short address     *)
(* (0000:00ff:fe00:XXXX), any other.  A compressed header is its flag bits *)
(* and the list of the fields written at hc06_ptr, each with its number of *)
(* bytes; reading a field is taking it from the list at the same place.    *)
(***************************************************************************)
EXTENDS Framer

Zero        == <<"zero">>
Unspecified == [pfx |-> "none", iid |-> Zero]
OfMac(l)    == <<"mac", l>>
Mapped(b)   == <<"mapped", b[1], b[2]>>    \* iid_16_mapping
Group(scope, g) == [pfx |-> "mcast", scope |-> scope, iid |-> g]
LinkScope   == 2
AllNodes    == Group(LinkScope, <<"g8", 1>>)          \* ff02::1

IsMulticast(a)      == a.pfx = "mcast"
IsLinkLocal(a)      == a.pfx = "ll"
IsMacBased(a, l)    == a.iid = OfMac(l)
IsShort(a)          == a.iid[1] = "short"  \* ::XXXX, the top bit clear
-----------------------------------------------------------------------------
(* Contexts: a table indexed by context id, as uip_ds6_addr_context_table. *)
ContextIds == 0 .. 1
NoContext  == [state |-> "free"]

PrefixMatches(a, c) ==
  /\ a.pfx = c.prefix.pfx
  /\ c.length = 128 => a.iid = c.prefix.iid

(* uip_ds6_context_lookup_by_prefix(): the first that matches, whatever    *)
(* its state.                                                              *)
LookupByPrefix(table, a) ==
  LET hits == {i \in ContextIds : table[i].state # "free" /\ PrefixMatches(a, table[i])}
  IN  IF hits = {} THEN NoContext
      ELSE LET i == CHOOSE i \in hits : \A j \in hits : i <= j
               c == table[i]
           IN  [state |-> c.state, prefix |-> c.prefix, length |-> c.length, id |-> i]

(* uip_ds6_context_add() and the update in uip_nd6_ra_input().             *)
ContextOf(prefix, length, compress) ==
  [state  |-> IF compress THEN "compress" ELSE "uncompress",
   prefix |-> prefix, length |-> length]

(* uip_ds6_periodic(): an expired context is kept for uncompression.       *)
Aged(c) == [c EXCEPT !.state = "uncompress"]
-----------------------------------------------------------------------------
(* Compression.                                                            *)
Compresses(c) == c.state = "compress"

(* compress_addr(): the two mode bits and what is carried in line.  l is   *)
(* the link-layer address the identifier may be elided for.                *)
compress_iid(a, l) ==
  CASE IsMacBased(a, l)                  -> [mode |-> 3, inline |-> <<>>]
    [] ~IsMacBased(a, l) /\ IsShort(a)   -> [mode |-> 2, inline |-> Field(2, <<a.iid[2], a.iid[3]>>)]
    [] OTHER                             -> [mode |-> 1, inline |-> Field(8, a.iid)]

compress_addr(c, a, l) ==
  CASE Compresses(c) /\ c.length = 128      -> [mode |-> 3, inline |-> <<>>]
    [] Compresses(c) /\ c.length # 128      -> compress_iid(a, l)
    [] ~Compresses(c) /\ IsLinkLocal(a)     -> compress_iid(a, l)
    [] OTHER                                -> [mode |-> 0, inline |-> Field(16, a)]

(* FF02::00XX, FFXX::00XX:XXXX, FFXX::00XX:XXXX:XXXX, or all of it: an     *)
(* identifier of a group is named for the bits it takes.                   *)
compress_mcast(a) ==
  LET bits == a.iid[1]
  IN  CASE bits = "g8" /\ a.scope = LinkScope -> [mode |-> 3, inline |-> Field(1, a.iid)]
        [] (bits = "g8" /\ a.scope # LinkScope) \/ bits = "g32" ->
                           [mode |-> 2, inline |-> Field(4, <<a.scope, a.iid>>)]
        [] bits = "g48" -> [mode |-> 1, inline |-> Field(6, <<a.scope, a.iid>>)]
        [] OTHER        -> [mode |-> 0, inline |-> Field(16, a)]

(* Faulty: the two bits of the ECN are forgotten on the way back.          *)
BadFromLink(tc) == ((tc \div 4) % 16) * 16 + (tc % 4) * 4

(* The traffic class is DSCP | ECN in IPv6 and ECN | DSCP on the link.     *)
ToLink(tc)   == (tc % 4) * 64 + tc \div 4
FromLink(tc) == ((tc \div 4) % 16) * 16 + (tc % 4) * 4 + tc \div 64

compress_tf(p) ==
  CASE p.fl = 0 /\ p.tc = 0 -> <<>>
    [] p.fl = 0 /\ p.tc # 0 -> Field(1, ToLink(p.tc))
    [] p.fl # 0 /\ p.tc = 0 -> Field(3, p.fl)
    [] p.fl # 0 /\ p.tc # 0 -> Field(4, <<ToLink(p.tc), p.fl>>)

CompressedHops == <<1, 64, 255>>
compress_ttl(hl) ==
  IF \E i \in 1 .. 3 : CompressedHops[i] = hl
  THEN [bits |-> CHOOSE i \in 1 .. 3 : CompressedHops[i] = hl, inline |-> <<>>]
  ELSE [bits |-> 0, inline |-> Field(1, hl)]

FourBit  == 61616    \* 0xF0B0
EightBit == 61440    \* 0xF000
IsFourBit(port)  == port \div 16 = FourBit \div 16
IsEightBit(port) == port \div 256 = EightBit \div 256

(* The NHC byte names the form of the ports; the checksum is always        *)
(* carried.                                                                *)
compress_udp(u) ==
  (CASE IsFourBit(u.sport) /\ IsFourBit(u.dport) ->
          Field(1, "P_11") \o Field(1, <<u.sport - FourBit, u.dport - FourBit>>)
     [] ~(IsFourBit(u.sport) /\ IsFourBit(u.dport)) /\ IsEightBit(u.dport) ->
          Field(1, "P_01") \o Field(3, <<u.sport, u.dport - EightBit>>)
     [] ~IsEightBit(u.dport) /\ IsEightBit(u.sport) ->
          Field(1, "P_10") \o Field(3, <<u.sport - EightBit, u.dport>>)
     [] ~IsEightBit(u.dport) /\ ~IsEightBit(u.sport) ->
          Field(1, "P_00") \o Field(4, <<u.sport, u.dport>>))
  \o Field(2, u.sum)

(* compress_hdr_hc06(): own is uip_lladdr, dest the link-layer destination.*)
compress_hdr_hc06(table, own, dest, p) ==
  LET sc    == LookupByPrefix(table, p.src)
      dc    == LookupByPrefix(table, p.dst)
      sci   == IF Compresses(sc) THEN sc.id ELSE 0
      dci   == IF Compresses(dc) THEN dc.id ELSE 0
      ttl   == compress_ttl(p.hl)
      s     == IF p.src = Unspecified THEN [mode |-> 0, inline |-> <<>>]
               ELSE compress_addr(sc, p.src, own)
      d     == IF IsMulticast(p.dst) THEN compress_mcast(p.dst)
               ELSE compress_addr(dc, p.dst, dest)
      isUdp == p.proto = "udp"
  IN  [cid |-> sci # 0 \/ dci # 0,
       sac |-> Compresses(sc) \/ p.src = Unspecified, sam |-> s.mode,
       m   |-> IsMulticast(p.dst), dac |-> Compresses(dc), dam |-> d.mode,
       flc |-> p.fl = 0, tcc |-> p.tc = 0, nhc |-> isUdp, ttl |-> ttl.bits,
       inline |-> (IF sci # 0 \/ dci # 0 THEN Field(1, <<sci, dci>>) ELSE <<>>)
                  \o compress_tf(p)
                  \o (IF isUdp THEN <<>> ELSE Field(1, p.proto))
                  \o ttl.inline \o s.inline \o d.inline
                  \o (IF isUdp THEN compress_udp(p.up) ELSE <<>>)]
-----------------------------------------------------------------------------
(* Uncompression.                                                          *)

(* uncompress_addr(): mode and context as the encoding says, v the field   *)
(* at hc06_ptr, l the link-layer address of the frame.  The two bytes of a *)
(* short identifier are both read from the first; the prefix is written    *)
(* last, over the identifier when it is that long.                         *)
uncompress_addr(stateful, c, mode, v, l) ==
  LET pfx == IF stateful THEN c.prefix.pfx ELSE "ll"
      iid == CASE mode = 1 -> v
               [] mode = 2 -> Mapped(<<v[1], v[1]>>)
               [] mode = 3 -> OfMac(l)
  IN  CASE mode = 0 /\ stateful  -> Unspecified
        [] mode = 0 /\ ~stateful -> v
        [] mode # 0 /\ stateful /\ c.length = 128 -> c.prefix
        [] OTHER                 -> [pfx |-> pfx, iid |-> iid]

(* The scope of the longer forms is stored into mcast_prefix, a constant   *)
(* array: it is in flash, where the store has no effect.                   *)
mcast_prefix == LinkScope
uncompress_mcast(mode, v) ==
  CASE mode = 0       -> v
    [] mode = 3       -> Group(mcast_prefix, v)
    [] mode \in {1, 2} -> Group(mcast_prefix, v[2])

uncompress_udp(form, v, sum) ==
  CASE form = "P_11" -> [sport |-> FourBit + v[1],  dport |-> FourBit + v[2],  sum |-> sum]
    [] form = "P_01" -> [sport |-> v[1],            dport |-> EightBit + v[2], sum |-> sum]
    [] form = "P_10" -> [sport |-> EightBit + v[1], dport |-> v[2],            sum |-> sum]
    [] form = "P_00" -> [sport |-> v[1],            dport |-> v[2],            sum |-> sum]

(* A context the table does not have: uncompress_hdr_hc06() returns with   *)
(* rime_hdr_len and uncomp_hdr_len 0, and input() copies the frame as it   *)
(* is over the IPv6 header.  Its first byte is then read as version and    *)
(* traffic class: 011 and the bit of an elided flow label.                 *)
Garbage(h) == [version |-> IF h.flc THEN 7 ELSE 6]

uncompress_hdr_hc06(table, sender, receiver, h) ==
  LET third  == IF h.cid THEN h.inline[1].v ELSE <<0, 0>>
      sc     == table[third[1]]
      dc     == table[third[2]]
      i0     == IF h.cid THEN 1 ELSE 0
      i1     == i0 + (IF h.flc /\ h.tcc THEN 0 ELSE 1)       \* traffic class, flow label
      i2     == i1 + (IF h.nhc THEN 0 ELSE 1)                \* next header
      i3     == i2 + (IF h.ttl = 0 THEN 1 ELSE 0)            \* hop limit
      i4     == i3 + (IF h.sam = 3 \/ (h.sac /\ h.sam = 0) THEN 0 ELSE 1)
      i5     == i4 + (IF (h.dam = 3 /\ ~h.m) \/ (h.dac /\ h.dam = 0) THEN 0 ELSE 1)
      at(i)  == h.inline[i].v
      tf     == IF h.flc THEN [fl |-> 0, tc |-> IF h.tcc THEN 0 ELSE FromLink(at(i1))]
                ELSE IF h.tcc THEN [fl |-> at(i1), tc |-> 0]
                ELSE [fl |-> at(i1)[2], tc |-> FromLink(at(i1)[1])]
      field(i, before) == IF i > before THEN at(i) ELSE Zero
      src    == uncompress_addr(h.sac, sc, h.sam, field(i4, i3), sender)
      dst    == IF h.m THEN uncompress_mcast(h.dam, at(i5))
                ELSE uncompress_addr(h.dac, dc, h.dam, field(i5, i4), receiver)
      udp    == uncompress_udp(at(i5 + 1), at(i5 + 2), at(i5 + 3))
  IN  IF (h.sac /\ h.sam # 0 /\ sc.state = "free") \/ (h.dac /\ dc.state = "free")
      THEN Garbage(h)
      ELSE [version |-> 6, tc |-> tf.tc, fl |-> tf.fl,
            proto |-> IF h.nhc THEN "udp" ELSE at(i2),
            hl    |-> IF h.ttl = 0 THEN at(i3) ELSE CompressedHops[h.ttl],
            src   |-> src, dst |-> dst,
            up    |-> IF h.nhc THEN udp ELSE [sport |-> 0, dport |-> 0, sum |-> Zero]]
-----------------------------------------------------------------------------
(* Lengths, in bytes.                                                      *)
MAC_MAX_PAYLOAD == 102

rime_hdr_len(h) == 2 + Bytes(h.inline)

(* Faulty: the compressed header is not counted.                           *)
BadFits(h, len) == len <= MAC_MAX_PAYLOAD

(* output(): a packet that does not fit in one frame is dropped.  len is   *)
(* what follows the headers that are compressed.                           *)
Fits(h, len) == len <= MAC_MAX_PAYLOAD - rime_hdr_len(h)
=============================================================================
