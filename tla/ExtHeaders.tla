------------------------------ MODULE ExtHeaders ------------------------------
(***************************************************************************)
(* The extension headers of an IPv6 packet: the loop over the next header  *)
(* fields in uip_process() and ext_hdr_options_process(), core/net/uip6.c, *)
(* without reassembly and TCP (UIP_CONF_IPV6_REASSEMBLY, UIP_CONF_TCP 0).  *)
(*                                                                         *)
(* An extension header is [kind, len, seg, opts]: its kind, its length in  *)
(* bytes, the segments left of a routing header, and the options of the    *)
(* other two, each [type, len] with len the bytes after its type and       *)
(* length.  The headers of a packet are a sequence, and upper is the       *)
(* protocol, or the fragment header, that the last of them names.          *)
(***************************************************************************)
EXTENDS Integers, SequencesExt

UIP_IPH_LEN == 40
NextHdrAt   == 6        \* offset of proto in the IPv6 header

PAD1 == 0
PADN == 1

TLV       == [type : 0 .. 255, len : Nat]
ExtHeader == [kind : {"hbho", "desto", "routing"}, len : Nat, seg : Nat, opts : Seq(TLV)]
Length(exts) == FoldLeft(LAMBDA n, e : n + e.len, 0, exts)

(* What has become of the packet: still going on; discarded; answered with *)
(* a Parameter Problem of this code, pointing to this byte of the packet.  *)
GoesOn               == [is |-> "going"]
Discarded            == [is |-> "discarded"]
Problem(code, at)    == [is |-> "problem", code |-> code, pointer |-> at]

-----------------------------------------------------------------------------
(* ext_hdr_options_process(): offset of the option in the header at `at`.  *)
(* Options the node does not know say themselves what to do with them.     *)
Option(acc, o, at, mcast) ==
  LET act  == (o.type \div 64) % 4
      step == IF o.type = PAD1 THEN 1 ELSE o.len + 2
  IN  CASE acc.fate # GoesOn                        -> acc
        [] acc.fate = GoesOn /\ (o.type \in {PAD1, PADN} \/ act = 0)
                                                    -> [acc EXCEPT !.offset = @ + step]
        [] acc.fate = GoesOn /\ (act = 1 \/ (act = 3 /\ mcast))
                                                    -> [acc EXCEPT !.fate = Discarded]
        [] OTHER -> [acc EXCEPT !.fate = Problem("option", at + acc.offset)]

ext_hdr_options_process(e, at, mcast) ==
  FoldLeft(LAMBDA acc, o : Option(acc, o, at, mcast), [fate |-> GoesOn, offset |-> 2], e.opts).fate

(* The state of the loop: how often each kind was seen (uip_ext_bitmap),   *)
(* uip_ext_len, and the offset of the field uip_next_hdr points to.        *)
Start == [fate |-> GoesOn, hbho |-> 0, desto |-> 0, routing |-> 0,
          ext_len |-> 0, next_hdr |-> NextHdrAt]
MostOf == [hbho |-> 1, desto |-> 2, routing |-> 1]

(* Faulty: to the header itself, not to the field that names it.           *)
BadNamed(acc) == [acc EXCEPT !.fate = Problem("nextheader", UIP_IPH_LEN + acc.ext_len)]

bad_hdr(acc) == [acc EXCEPT !.fate = Problem("nextheader", acc.next_hdr)]

(* Past this header.                                                       *)
Skip(acc, e) == [acc EXCEPT !.next_hdr = UIP_IPH_LEN + acc.ext_len, !.ext_len = @ + e.len]

Header(acc, e, mcast) ==
  LET at         == UIP_IPH_LEN + acc.ext_len
      options    == ext_hdr_options_process(e, at, mcast)
      proceed(a) == IF options = GoesOn THEN Skip(a, e) ELSE [a EXCEPT !.fate = options]
  IN  CASE acc.fate # GoesOn -> acc
        [] acc.fate = GoesOn /\ acc[e.kind] = MostOf[e.kind] -> bad_hdr(acc)
        [] acc.fate = GoesOn /\ acc[e.kind] # MostOf[e.kind] /\ e.kind \in {"hbho", "desto"} ->
             proceed([acc EXCEPT ![e.kind] = @ + 1])
        [] acc.fate = GoesOn /\ acc.routing = 0 /\ e.kind = "routing" /\ e.seg > 0 ->
             [acc EXCEPT !.routing = 1, !.fate = Problem("header", at + 2)]
        [] OTHER -> Skip([acc EXCEPT !.routing = 1], e)

(* The whole loop: its last state, with an upper-layer protocol reached or *)
(* a fate decided.  A fragment is not reassembled.                         *)
ExtensionHeaders(exts, upper, mcast) ==
  LET acc == FoldLeft(LAMBDA a, e : Header(a, e, mcast), Start, exts)
  IN  CASE acc.fate # GoesOn \/ upper \in {"udp", "icmp6"}      -> acc
        [] acc.fate = GoesOn /\ upper \in {"frag", "none"}      -> [acc EXCEPT !.fate = Discarded]
        [] OTHER                                                -> bad_hdr(acc)
=============================================================================
