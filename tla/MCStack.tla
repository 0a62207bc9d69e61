------------------------------- MODULE MCStack -------------------------------
(***************************************************************************)
(* The device and its peer with two contexts: context 0 may change from    *)
(* one prefix to another, context 1 is the peer's whole address.           *)
(***************************************************************************)
EXTENDS Stack

P(pfx)     == [pfx |-> pfx, iid |-> Zero]
PeerGlobal == [pfx |-> "p1", iid |-> <<"long", 1>>]
C(p, len)  == [state |-> "compress", prefix |-> p, length |-> len]

MCOffers == [i \in ContextIds |->
  IF i = 0 THEN {C(P("p1"), 64), C(P("p2"), 64)}
           ELSE {C(PeerGlobal, 128)}]

Packet(h, proto, src, dst, sport, dport) ==
  [version |-> 6, tc |-> h[1], fl |-> h[2], hl |-> h[3], proto |-> proto, src |-> src,
   dst |-> dst, up |-> [sport |-> sport, dport |-> dport, sum |-> Zero]]

Plain  == <<0, 0, 64>>
Others == {<<3, 0, 1>>, <<184, 5, 100>>, <<0, 5, 255>>}
PortPairs == {<<61616, 61617>>, <<5683, 61617>>, <<61616, 5683>>, <<5683, 5684>>}
Groups == {AllNodes, Group(LinkScope, <<"g48", 1>>), Group(5, <<"g128", 1>>),
           Group(5, <<"g32", 1>>), Group(5, <<"g8", 1>>)}

(* Another address of the peer, with an identifier of 16 bits.             *)
ShortAddress == [pfx |-> "ll", iid |-> <<"short", 1, 2>>]

Plainly(src, dst) ==
  {[p |-> Packet(Plain, q[1], src, dst, 0, 0), body |-> Body(q[1], q[2], 20)]
   : q \in {<<"icmp6", "echo">>, <<"unknown", "data">>}}

Contents(src, dst) ==
  {[p |-> Packet(Plain, "udp", src, dst, q[1], q[2]), body |-> Body("udp", "data", 20)]
   : q \in PortPairs}
  \cup {[p |-> Packet(h, "icmp6", src, dst, 0, 0), body |-> Body("icmp6", "echo", 64)]
        : h \in Others}
  \cup Plainly(src, dst)

(* Extension headers: all 8 or 16 bytes long.                              *)
Hdr(kind, opts)  == [kind |-> kind, len |-> 8, seg |-> 0, opts |-> opts]
Opt(type, len)   == [type |-> type, len |-> len]
Pad              == <<Opt(PADN, 4)>>
Routing(seg)     == [kind |-> "routing", len |-> 16, seg |-> seg, opts |-> <<>>]
Asks(act)        == <<Opt(PAD1, 0), Opt(5, 1), Opt(64 * act + 5, 0)>>

Chains ==
  {<< <<Hdr("hbho", Pad), Hdr("desto", Pad), Routing(0), Hdr("desto", Pad)>>, up>>
     : up \in {"udp", "icmp6", "none", "frag"}}
  \cup {<< <<Hdr("hbho", Pad), Routing(0)>>, "unknown">>,
        << <<Hdr("desto", Pad), Hdr("hbho", Pad), Hdr("hbho", Pad)>>, "icmp6">>,
        << <<Hdr("desto", Pad), Hdr("desto", Pad), Hdr("desto", Pad)>>, "icmp6">>,
        << <<Hdr("desto", Pad), Routing(0), Routing(1)>>, "icmp6">>,
        << <<Hdr("hbho", Pad), Routing(1)>>, "udp">>}
  \cup {<< <<Routing(0), Hdr("desto", Asks(act))>>, "icmp6">> : act \in 0 .. 3}

Extended(src, dst) ==
  {[p    |-> Packet(Plain, c[1][1].kind, src, dst, 0, 0),
    body |-> [exts |-> c[1], upper |-> c[2], sum |-> Zero,
              up   |-> IF c[2] = "udp" THEN [sport |-> 61616, dport |-> 61617, sum |-> Zero]
                       ELSE NoPorts,
              type |-> IF c[2] = "icmp6" THEN "echo" ELSE "data",
              len  |-> 12 + FoldLeft(LAMBDA n, e : n + e.len, 0, c[1])]]
   : c \in Chains}

(* The device under the prefix that context 0 changes to.                  *)
Renumbered == [pfx |-> "p2", iid |-> OfMac(Dev)]

MCPeerPackets ==
  {s @@ [to |-> Dev] : s \in
     UNION {Contents(src, dst) : src \in {LinkLocal(Peer), PeerGlobal},
                                 dst \in {LinkLocal(Dev), Global}}
     \cup UNION {Plainly(src, dst) : src \in {LinkLocal(Peer), PeerGlobal, ShortAddress, Unspecified},
                                    dst \in {LinkLocal(Dev)} \cup Groups}
     \cup UNION {Extended(LinkLocal(Peer), dst) : dst \in {LinkLocal(Dev), AllNodes}}}
  \cup {[p |-> Packet(Plain, "icmp6", LinkLocal(Peer), LinkLocal(Wild), 0, 0),
         body |-> Body("icmp6", "echo", 20), to |-> Wild],
        [p |-> Packet(Plain, "udp", LinkLocal(Peer), Renumbered, 61616, 61617),
         body |-> Body("udp", "data", 20), to |-> Dev]}

MCLens == {8, 80, 90}
=============================================================================
