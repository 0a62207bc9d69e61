----------------------------- MODULE CoapMessage -----------------------------
(***************************************************************************)
(* CoAP messages: coap-common.c, the parser and the option setters of      *)
(* coap-server.c, and the static buffer of rest-common/buffer.c that all   *)
(* packets, options, paths and payloads of one exchange are cut from.      *)
(*                                                                         *)
(* A value is [len, is]: its bytes, and what they say.  A packet carries   *)
(* in used the bytes of the buffer taken when it was last written to.  On  *)
(* the wire an option is a difference of four bits and its value; cut says *)
(* that the message ends before its last option does.                      *)
(***************************************************************************)
EXTENDS Integers, SequencesExt

COAP_DATA_BUFF_SIZE == 255
MAX_URI_PATH_LENGTH == 32
SizeofPacket        == 38      \* coap_packet_t and header_option_t, with
SizeofOption        == 8       \* pointers of two bytes

Content_Type == 1
Uri_Path     == 9
Observe      == 10
Token        == 11

GET  == 1
POST == 2
CONTENT_205               == 69
BAD_REQUEST_400           == 128
NOT_FOUND_404             == 132
METHOD_NOT_ALLOWED_405    == 133
INTERNAL_SERVER_ERROR_500 == 160

Value(len, is) == [len |-> len, is |-> is]
Nothing        == Value(0, "nothing")
-----------------------------------------------------------------------------
(* allocate_buffer(): sizes have eight bits and are rounded up to even     *)
(* ones; the last byte is never given out.                                 *)
Even(size) == (size + (size % 2)) % 256
Allocates(used, size) == used + Even(size) < COAP_DATA_BUFF_SIZE

init_packet(used) ==
  [type |-> "CON", code |-> 0, tid |-> 0, options |-> <<>>, payload |-> Nothing, used |-> used]

(* coap_set_option(): before the first option with a greater number; not   *)
(* at all when the buffer is used up, which nobody looks at.               *)
Before(options, n) ==
  Min({i \in DOMAIN options : options[i].n > n} \cup {Len(options) + 1})

coap_set_option(m, n, value) ==
  IF Allocates(m.used, SizeofOption + value.len)
  THEN [m EXCEPT !.used = @ + Even(SizeofOption + value.len),
                 !.options = InsertAt(@, Before(@, n), [n |-> n, value |-> value])]
  ELSE m

coap_set_payload(m, value) ==
  IF Allocates(m.used, value.len)
  THEN [m EXCEPT !.used = @ + Even(value.len), !.payload = value]
  ELSE m

Named(m, n)           == {i \in DOMAIN m.options : m.options[i].n = n}
HasOption(m, n)       == Named(m, n) # {}
coap_get_option(m, n) == m.options[Min(Named(m, n))].value

(* The sum of the first k numbers.                                         *)
SumTo(numbers, k) ==
  LET sum[i \in 0 .. k] == IF i = 0 THEN 0 ELSE sum[i - 1] + numbers[i]
  IN  sum[k]

Numbers(options) == [i \in DOMAIN options |-> options[i].n]
Deltas(options)  == [i \in DOMAIN options |-> options[i].delta]
Lengths(options) == [i \in DOMAIN options |-> options[i].value.len]

(* serialize_packet(): option_delta adds up the numbers of the options     *)
(* before, so that from the third on the difference is not to the one      *)
(* before it: a token behind two others is written as another Observe.     *)
serialize_packet(m) ==
  [type |-> m.type, code |-> m.code, tid |-> m.tid, payload |-> m.payload, cut |-> FALSE,
   options |-> [i \in DOMAIN m.options |->
     [delta |-> (m.options[i].n - SumTo(Numbers(m.options), i - 1)) % 16,
      value |-> m.options[i].value]]]

(* parse_message(): used counts what the packet itself took.  The path is  *)
(* put together in a part of the buffer of its own.  When the path or the  *)
(* options do not fit, what follows is not looked at.                      *)
Numbered(w) ==
  [i \in DOMAIN w.options |->
     [n |-> SumTo(Deltas(w.options), i), value |-> w.options[i].value]]

(* The options of the path stand together, as numbers only grow.           *)
Path(opts) ==
  LET at == {i \in DOMAIN opts : opts[i].n = Uri_Path}
  IN  IF at = {} THEN <<>> ELSE SubSeq(opts, Min(at), Max(at))

(* Faulty: for each part of it.                                            *)
BadUrlRoom(path) == MAX_URI_PATH_LENGTH * Len(path)

UrlRoom(path) == IF path = <<>> THEN 0 ELSE MAX_URI_PATH_LENGTH

Fault(noRoom, cut) ==
  CASE noRoom          -> "MEMORY_ALLOC_ERR"
    [] ~noRoom /\ cut  -> "BAD_REQUEST_ERR"
    [] ~noRoom /\ ~cut -> "NO_ERROR"

parse_message(w, used) ==
  LET opts    == Numbered(w)
      path    == Path(opts)
      url_len == SumTo(Lengths(path), Len(path)) + Len(path) - 1
      forOpts == SizeofOption * Len(opts)
      forUrl  == UrlRoom(path)
      noRoom  == \/ opts # <<>> /\ ~Allocates(used, forOpts)
                 \/ path # <<>> /\ ~Allocates(used + forOpts, forUrl)
                 \/ path # <<>> /\ url_len > MAX_URI_PATH_LENGTH
  IN  [error |-> Fault(noRoom, w.cut), type |-> w.type, code |-> w.code, tid |-> w.tid,
       addr |-> "::", port |-> 0, options |-> opts, payload |-> w.payload,
       url  |-> [i \in DOMAIN path |-> path[i].value.is],
       used |-> used + forOpts + forUrl]
=============================================================================
