-------------------------------- MODULE Coap --------------------------------
(***************************************************************************)
(* The CoAP server and the REST engine: rest-coap/coap-server.c,           *)
(* rest-common/rest.c with core/lib/list.c and memb.c below them, and the  *)
(* resources of coap-app/coap_app.c, of which the tag reader's can be      *)
(* observed.  Beside it, what coap_app_client sends.                       *)
(*                                                                         *)
(* Threads run from event to event, so that a request, an event taken from *)
(* the queue or a tick of the resource's timer is one action.  The kernel  *)
(* is the bounded queue of module EventQueue, the event timer what module  *)
(* Etimer was checked for.                                                 *)
(***************************************************************************)
EXTENDS CoapMessage

CONSTANTS
  Clients,       \* endpoints [addr, port], the port in network order
  Requests,      \* messages as they come in, of a form serialize_packet() has
  Tag,           \* what the reader has to tell, as a value
  Junk,          \* what may be found at address 0
  MaxObservers,  \* COAP_MAX_OBSERVERS
  NumEvents,     \* length of the event queue
  ClockBytes,    \* how many bytes clock_seconds() may take in an option
  MaxOther       \* bound on the events of others in the queue

ASSUME CoapAssumption ==
  MaxObservers \in Nat \ {0} /\ NumEvents \in Nat \ {0} /\ MaxOther \in Nat

VARIABLES
  observers,     \* the list of observers: blocks, in the order of addition
  count,         \* of memb: the reference count of each block
  observer,      \* block -> observer_t
  timer,         \* handler_cb_timer_rfid: running or not
  queue,         \* the kernel's events
  outStr_buf,    \* the tag reader's text
  sent,          \* datagrams on their way out
  told,          \* clients that were last told that they observe
  late           \* the timer ran out again before a change was announced
tableVars == <<observers, count, observer>>
vars == <<tableVars, timer, queue, outStr_buf, sent, told, late>>

Blocks == 1 .. MaxObservers
Empty  == Value(0, "empty")
NoOne  == [client_port |-> 0, client_ipaddr |-> "::", token |-> Empty]

(* rest_init() and the activation of the resources, with the event the     *)
(* manager sent itself in PROCESS_PAUSE().                                 *)
Init ==
  /\ observers = <<>>
  /\ count = [b \in Blocks |-> 0]
  /\ observer = [b \in Blocks |-> NoOne]
  /\ timer = "off"
  /\ queue = <<"continue">>
  /\ outStr_buf = Empty
  /\ sent = <<>>
  /\ told = {}
  /\ late = FALSE

UIP_HTONS(port) == (port % 256) * 256 + port \div 256

(* process_post(): the event is dropped when the queue is full.            *)
Post(q, ev) == IF Len(q) < NumEvents THEN Append(q, ev) ELSE q

Places(ev)  == {k \in DOMAIN queue : queue[k] = ev}
Waiting(ev) == Places(ev) # {}
-----------------------------------------------------------------------------
(* list.c and memb.c.                                                      *)
list_remove(list, item) == RemoveFirst(list, item)
list_add(list, item)    == Append(list_remove(list, item), item)

FreeBlocks == {b \in Blocks : count[b] = 0}
memb_alloc == Min(FreeBlocks)
memb_free(b) == [count EXCEPT ![b] = IF @ > 0 THEN @ - 1 ELSE 0]
-----------------------------------------------------------------------------
(* The resources (coap_app.c): all of them are only to be read.            *)
Resources == {<<"hi">>, <<".well-known", "core">>, <<"rfid">>}
Observable == <<"rfid">>
Methods(url) == {GET}

Text(url) == CASE url = <<"hi">>                  -> Value(13, "Torrija here!")
               [] url = <<".well-known", "core">> -> Value(37, "links")

(* What a handler adds: the discovery sets the payload first, the tag      *)
(* reader's handler nothing.                                               *)
Handler(url, m) ==
  CASE url = <<"hi">> ->
         coap_set_payload(coap_set_option(m, Content_Type, Value(1, "plain")), Text(url))
    [] url = <<".well-known", "core">> ->
         coap_set_option(coap_set_payload(m, Text(url)), Content_Type, Value(1, "links"))
    [] OTHER -> m

(* get_rfid_data(): the text is handed out once; then there is no text,    *)
(* and the caller copies from a null pointer what it finds there.          *)
get_rfid_data(text, found) == IF text = Empty THEN found ELSE text

SetObserve(m, bytes) == coap_set_option(m, Observe, Value(bytes, "seconds"))
SetToken(m, token)   == coap_set_option(m, Token, token)
-----------------------------------------------------------------------------
(* rest_invoke_restful_service().                                          *)
Parsed == [w \in Requests |-> parse_message(w, SizeofPacket)]

request_of(c, w) == [Parsed[w] EXCEPT !.addr = c.addr, !.port = UIP_HTONS(c.port)]

IsObserver(b, request) ==
  /\ observer[b].client_port = request.port
  /\ observer[b].client_ipaddr = request.addr

Found(request) == {i \in DOMAIN observers : IsObserver(observers[i], request)}

(* Faulty: the timer is set for those who find one observing already.      *)
BadAdd(b, request, token) ==
  /\ observers' = list_add(observers, b)
  /\ count' = [count EXCEPT ![b] = @ + 1]
  /\ observer' = [observer EXCEPT ![b] =
       [client_port |-> request.port, client_ipaddr |-> request.addr, token |-> token]]
  /\ timer' = IF observers = <<>> THEN timer ELSE "running"

rest_add_observer(b, request, token) ==
  /\ observers' = list_add(observers, b)
  /\ count' = [count EXCEPT ![b] = @ + 1]
  /\ observer' = [observer EXCEPT ![b] =
       [client_port |-> request.port, client_ipaddr |-> request.addr, token |-> token]]
  /\ timer' = IF observers = <<>> THEN "running" ELSE timer

(* Faulty: the block is not given back.                                    *)
BadRemove(b) ==
  /\ observers' = list_remove(observers, b)
  /\ timer' = IF observers' = <<>> THEN "off" ELSE timer
  /\ UNCHANGED <<count, observer>>

(* What a free block held is forgotten: nobody reads it before it is       *)
(* written anew.                                                           *)
rest_remove_observer(b) ==
  /\ observers' = list_remove(observers, b)
  /\ count' = memb_free(b)
  /\ observer' = [observer EXCEPT ![b] = NoOne]
  /\ timer' = IF observers' = <<>> THEN "off" ELSE timer

TokenOf(request) == IF HasOption(request, Token) THEN coap_get_option(request, Token) ELSE Empty

(* What becomes of the observers with a GET of the observable resource.    *)
(* observer->token has room for eight bytes (MessagesAssumption).          *)
Refresh(b, request) ==
  /\ observer' = [observer EXCEPT ![b].token = TokenOf(request)]
  /\ UNCHANGED <<observers, count, timer>>

Register(request) ==
  LET found == Found(request)
  IN  CASE HasOption(request, Observe) /\ found # {} ->
             Refresh(observers[Min(found)], request)
        [] HasOption(request, Observe) /\ found = {} /\ FreeBlocks # {} ->
             rest_add_observer(memb_alloc, request, TokenOf(request))
        [] ~HasOption(request, Observe) /\ found # {} ->
             rest_remove_observer(observers[Min(found)])
        [] OTHER -> UNCHANGED <<tableVars, timer>>

Observes(request) ==
  HasOption(request, Observe) /\ (Found(request) # {} \/ FreeBlocks # {})

Served(request, m, bytes) ==
  LET echoed == IF HasOption(request, Token) THEN SetToken(m, TokenOf(request)) ELSE m
  IN  Handler(request.url,
              IF request.url = Observable /\ Observes(request)
              THEN SetObserve(echoed, bytes) ELSE echoed)

IsServed(request) == request.url \in Resources /\ request.code \in Methods(request.url)

Response(request, m, bytes) ==
  CASE IsServed(request)                  -> Served(request, m, bytes)
    [] request.url \notin Resources       -> [m EXCEPT !.code = NOT_FOUND_404]
    [] request.url \in Resources
         /\ request.code \notin Methods(request.url)
                                          -> [m EXCEPT !.code = METHOD_NOT_ALLOWED_405]
-----------------------------------------------------------------------------
(* coap-server.c.                                                          *)

(* The server's own message ids are counted by current_tid; no property    *)
(* tells them apart.                                                       *)
OwnTid == 0

(* A message that is no request at all is answered like a confirmable one  *)
(* with message id 0.                                                      *)
init_response(request) ==
  LET m == [init_packet(request.used + SizeofPacket) EXCEPT !.code = CONTENT_205]
  IN  CASE request.type = "CON" -> [m EXCEPT !.type = "ACK", !.tid = request.tid]
        [] request.type = "NON" -> [m EXCEPT !.type = "NON", !.tid = OwnTid]
        [] OTHER                -> m

fill_error_packet(error, tid) ==
  [init_packet(0) EXCEPT
     !.type = "ACK", !.tid = tid,
     !.code = IF error = "BAD_REQUEST_ERR" THEN BAD_REQUEST_400 ELSE INTERNAL_SERVER_ERROR_500]

(* The error of handle_incoming_data().                                    *)
ErrorOf(request) ==
  CASE request.error # "NO_ERROR" -> request.error
    [] request.error = "NO_ERROR" /\ request.type # "ACK"
         /\ ~Allocates(request.used, SizeofPacket) -> "MEMORY_ALLOC_ERR"
    [] OTHER -> "NO_ERROR"

Answer(c, w, m) == [to |-> c, re |-> <<w>>, w |-> serialize_packet(m)]

Believes(c, w, answers) ==
  IF w.code = GET /\ \E k \in DOMAIN answers :
       answers[k].w.code = CONTENT_205 /\ Parsed[w].url = Observable
  THEN IF HasOption(parse_message(answers[1].w, 0), Observe) THEN told \cup {c} ELSE told \ {c}
  ELSE told

handle_incoming_data(c, w) ==
  LET request == request_of(c, w)
      error   == ErrorOf(request)
      served  == error = "NO_ERROR" /\ w.type # "ACK"
  IN  /\ \E bytes \in ClockBytes :
           sent' = CASE w.type = "ACK" -> <<>>
                     [] served         -> <<Answer(c, w, Response(request, init_response(request), bytes))>>
                     [] OTHER          -> <<Answer(c, w, fill_error_packet(error, w.tid))>>
      /\ IF served /\ IsServed(request) /\ request.url = Observable
         THEN Register(request)
         ELSE UNCHANGED <<tableVars, timer>>
      /\ told' = Believes(c, w, sent')

Incoming ==
  /\ \E c \in Clients, w \in Requests : handle_incoming_data(c, w)
  /\ UNCHANGED <<queue, outStr_buf, late>>

(* A notification to the k-th observer.                                    *)
rfid_observable_response_generator(m, text) ==
  coap_set_payload(coap_set_option(m, Content_Type, Value(1, "plain")), text)

Notification(k, bytes, found) ==
  LET o == observer[observers[k]]
      m == SetObserve([init_packet(SizeofPacket) EXCEPT
                         !.code = CONTENT_205, !.tid = OwnTid], bytes)
  IN  rfid_observable_response_generator(
        IF o.token.len > 0 THEN SetToken(m, o.token) ELSE m,
        get_rfid_data(IF k = 1 THEN outStr_buf ELSE Empty, found))

Endpoint(o) == [addr |-> o.client_ipaddr, port |-> UIP_HTONS(o.client_port)]

(* The server takes observable_resource_changed_event.                     *)
NotifyAll ==
  /\ \E bytes \in ClockBytes, found \in [DOMAIN observers -> Junk] :
       sent' = [k \in DOMAIN observers |->
                  [to |-> Endpoint(observer[observers[k]]), re |-> <<>>,
                   w  |-> serialize_packet(Notification(k, bytes, found[k]))]]
  /\ outStr_buf' = IF observers = <<>> THEN outStr_buf ELSE Empty

(* Faulty: any timer event is taken for the one of the resource's timer.   *)
BadDue == observers # <<>>

(* rest_manager_process takes a TIMER event; etimer_expired() is et->p     *)
(* being unset.                                                            *)
Due == observers # <<>> /\ timer = "off"

(* Faulty: the timer is only set again when nothing has changed.           *)
BadCheck ==
  /\ queue' = IF Due /\ outStr_buf # Empty THEN Post(Tail(queue), "changed") ELSE Tail(queue)
  /\ timer' = IF Due /\ outStr_buf = Empty THEN "running" ELSE timer

Check ==
  /\ queue' = IF Due /\ outStr_buf # Empty THEN Post(Tail(queue), "changed") ELSE Tail(queue)
  /\ timer' = IF Due THEN "running" ELSE timer

Event(ev) == queue # <<>> /\ Head(queue) = ev

ManagerTimer ==
  /\ Event("timer")
  /\ Check
  /\ UNCHANGED <<tableVars, outStr_buf, sent>>

(* PROCESS_PAUSE() ends with the first event, which is the one it posted.  *)
ManagerResumes ==
  /\ Event("continue")
  /\ queue' = Tail(queue)
  /\ UNCHANGED <<tableVars, timer, outStr_buf, sent>>

ServerChanged ==
  /\ Event("changed")
  /\ NotifyAll
  /\ queue' = Tail(queue)
  /\ UNCHANGED <<tableVars, timer>>

OtherTake ==
  /\ Event("other")
  /\ queue' = Tail(queue)
  /\ UNCHANGED <<tableVars, timer, outStr_buf, sent>>

Take ==
  /\ ManagerTimer \/ ManagerResumes \/ ServerChanged \/ OtherTake
  /\ UNCHANGED <<told, late>>

(* etimer_process: the event is posted once there is room for it.          *)
Expire ==
  /\ timer = "running"
  /\ Len(queue) < NumEvents
  /\ timer' = "off"
  /\ queue' = Append(queue, "timer")
  /\ late' = (late \/ Waiting("changed"))
  /\ UNCHANGED <<tableVars, outStr_buf, sent, told>>

(* tagit_inventory_request has read a tag.                                 *)
NewTag ==
  /\ outStr_buf' = Tag
  /\ UNCHANGED <<tableVars, timer, queue, sent, told, late>>

OtherPost ==
  /\ Cardinality(Places("other")) < MaxOther /\ Len(queue) < NumEvents
  /\ queue' = Append(queue, "other")
  /\ UNCHANGED <<tableVars, timer, outStr_buf, sent, told, late>>

(* uip_udp_packet_send() takes a datagram down to the radio, and forgets   *)
(* the address it bound the connection to, before anything else happens.   *)
Leave ==
  /\ sent # <<>>
  /\ sent' = <<>>
  /\ late' = (late /\ Waiting("changed"))
  /\ UNCHANGED <<tableVars, timer, queue, outStr_buf, told>>

Next ==
  \/ sent = <<>> /\ (Incoming \/ Take \/ Expire \/ NewTag \/ OtherPost)
  \/ Leave

Spec ==
  /\ Init /\ [][Next]_vars
  /\ WF_vars(Leave) /\ SF_vars(sent = <<>> /\ Take) /\ SF_vars(sent = <<>> /\ Expire)
-----------------------------------------------------------------------------
(* What may be kept of a client, the NoOne of a free block included.       *)
Incomers  == {request_of(c, w) : c \in Clients, w \in Requests}
Observers == [client_port   : {0} \cup {request.port : request \in Incomers},
              client_ipaddr : {"::"} \cup {request.addr : request \in Incomers},
              token         : {Empty} \cup {TokenOf(request) : request \in Incomers}]

(* Endpoints have ports of sixteen bits, a message at most the fifteen     *)
(* options its four bits can count, the tag's text the 49 bytes of         *)
(* outStr_buf, and clock_seconds() sixteen bits.  What lies at address 0   *)
(* ends within the bytes send_response() has room for.  A token has up to  *)
(* eight bytes, which is what observer_t has room for: rest.c copies a     *)
(* longer one all the same, over what follows it, of which nothing is said.*)
ASSUME MessagesAssumption ==
  /\ \A c \in Clients : c.port \in Nat /\ c.port < 65536 /\ c = [addr |-> c.addr, port |-> c.port]
  /\ \A w \in Requests :
       /\ \E n \in 0 .. 15 : DOMAIN w.options = 1 .. n
       /\ TokenOf(Parsed[w]).len \in 0 .. 8
  /\ ClockBytes \subseteq 0 .. 2
  /\ Tag.len \in 1 .. 49 /\ Tag \notin Junk
  /\ \A found \in Junk : found.len \in 0 .. 100

TypeOK ==
  /\ observers \in Seq(Blocks)
  /\ count \in [Blocks -> Nat]
  /\ observer \in [Blocks -> Observers]
  /\ timer \in {"off", "running"}
  /\ queue \in Seq({"continue", "timer", "changed", "other"}) /\ Len(queue) <= NumEvents
  /\ outStr_buf \in {Empty, Tag}
  /\ told \subseteq Clients
  /\ late \in BOOLEAN

(* The list has each block that is allocated, once, and no client is on it *)
(* twice, with another token say.                                          *)
TableExact ==
  /\ \A i, j \in DOMAIN observers : observers[i] = observers[j] => i = j
  /\ \A b \in Blocks :
       /\ count[b] \in {0, 1}
       /\ count[b] = 1 <=> \E i \in DOMAIN observers : observers[i] = b
  /\ \A a, b \in Blocks :
       /\ count[a] = 1 /\ count[b] = 1
       /\ observer[a].client_port = observer[b].client_port
       /\ observer[a].client_ipaddr = observer[b].client_ipaddr
       => a = b

(* The observers' table and its clients agree: it is exact, and has those  *)
(* clients that were told so in an answer, and no other.                   *)
Agreed ==
  /\ TableExact
  /\ {Endpoint(observer[b]) : b \in ToSet(observers)} = told

(* While the resource is observed its timer runs or the manager has the    *)
(* timer's event to come, whatever registrations, expirations and events   *)
(* of a timer stopped before come between; and otherwise it does not run.  *)
Checked ==
  /\ observers # <<>> => timer = "running" \/ Waiting("timer")
  /\ timer = "running" => observers # <<>>

(* A request has its answer with the message id of what it acknowledges,   *)
(* and a client that parses it finds its own token, however much of the    *)
(* buffer the request's options have taken.  The text of a resource and    *)
(* its type are there as long as the request had ten options or fewer;     *)
(* after more, either may be left out, but no part of the text.            *)
Answered ==
  \A k \in DOMAIN sent : sent[k].re # <<>> =>
    LET request == Parsed[sent[k].re[1]]
        answer  == parse_message(sent[k].w, 0)
    IN  /\ answer.error = "NO_ERROR"
        /\ answer.type = "ACK" => answer.tid = request.tid
        /\ request.type = "CON" => answer.type = "ACK"
        /\ answer.code = CONTENT_205 =>
             /\ TokenOf(answer) = TokenOf(request)
             /\ request.url # Observable =>
                  /\ answer.payload \in {Text(request.url), Nothing}
                  /\ Len(request.options) <= 10 =>
                       answer.payload = Text(request.url) /\ HasOption(answer, Content_Type)

(* A change is announced once to each of those who observe, but the tag    *)
(* reaches just one of them, the first on the list: the others are sent    *)
(* what lies at address 0.  The first gets it unless the event of the      *)
(* change was still waiting when the timer ran out again, which may bring  *)
(* a second event, that finds the text gone.  No client can tell from an   *)
(* announcement by which token it had asked: with its token written as     *)
(* another Observe option, it finds no Token option, and finds nothing     *)
(* else amiss.                                                             *)
TagDelivered ==
  (\E k \in DOMAIN sent : sent[k].re = <<>>) =>
     /\ {sent[k].to : k \in DOMAIN sent} = told
     /\ \A i, j \in DOMAIN sent : sent[i].to = sent[j].to => i = j
     /\ \A k \in DOMAIN sent :
          LET read  == parse_message(sent[k].w, 0)
              token == observer[observers[k]].token
          IN  /\ read.error = "NO_ERROR"
              /\ read.payload = Tag => k = 1
              /\ ~late /\ k = 1 => read.payload = Tag
              /\ Numbers(read.options) = <<Content_Type, Observe>> \o
                   (IF token.len > 0 THEN <<Observe>> ELSE <<>>)

(* A tag that was read is told to an observer, as long as there is one,    *)
(* whatever events of timers since stopped the manager takes.              *)
Notified == (outStr_buf # Empty) ~> (outStr_buf = Empty \/ observers = <<>>)
=============================================================================
