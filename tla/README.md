# A verification of the Torrija gateway

Torrija is a gateway between a person at a USB console, an RFID reader and a
6LoWPAN network.  It is a Contiki 2.x program for an MSP430F5519 with a CC2520
radio and a TRF tag reader.  This directory holds TLA+ models of it, the TLC
runs that check them on small instances, and proofs, checked by TLAPS, of what
matters most for every instance.

1. The system  2. The plan, and what came of it  3. The modules  4. What is
checked  5. What is proved  6. What is not modelled, and why

All paths below are relative to `src/test_CCS_project_Torrija_GCC/`.  The
repository has no tests and no documentation besides the comments of the code,
so the code is the reference, and the comments are what a property is compared
with where one of them says more than the code does.

## 1. The system

`main()` (`platform/torrija/contiki-torrija-host-main.c`) starts `etimer_process`, the radio
process, `tcpip_process`, `rfid_find_tags`, `usb_input` and `coap_app_client`,
and then calls `process_run()` for ever.  There is one stack and no preemption:
threads are protothreads, run to their next wait, and talk through an event
ring of 32 entries, poll flags, and direct (synchronous) calls.  The only real
concurrency is between the main loop and interrupt handlers: the clock, port 2
(radio), port 1 (tag reader) and USB.

    clock ISR --poll--> etimer_process --TIMER--> tcpip_process, rfid threads
    port 2 ISR --ring--> cc2520_process --call--> MAC -> 6LoWPAN -> tcpip_process
    tcpip_process --synchronous tcpip_event--> coap_app_client
    port 1 ISR --i_reg, CONTINUE--> tagit_inventory_request <--CONTINUE--> rfid_find_tags
    USB ISR --bDataReceived_event--> usb_input (polls itself) --CONTINUE--> coap_app_client
    coap_app_client -> UDP -> IPv6 -> 6LoWPAN -> MAC -> radio;  received text -> USB

### Components

**Kernel: processes, events and polls** (`core/sys/process.c`, `pt.h`).
State: `process_list`, each process' state and `needspoll`, `poll_requested`,
the ring `events[]` with `nevents` and `fevent`, `process_current`.
Operations: start, post, synchronous post, poll, and `process_run()` (all polls,
then one event).  Hard: interrupts that poll and post between any two
instructions; broadcasts that poll in the middle; nested calls.  Correct when
the ring is a bounded FIFO queue, no poll is lost, no thread is re-entered,
`process_current` is right, everything posted or polled is served.

**Event timers and the clock** (`core/sys/etimer.c`, `timer.c`,
`platform/torrija/clock_arch.c`).  State: `timerlist`, each timer's start,
interval and owner, `next_expiration`, a 16-bit tick count at 16 Hz.
Operations: set, reset, restart, stop, the walk of `etimer_process`, the tick.
Hard: the clock wraps; it ticks during the walk; the event ring is full when a
timer is due; a timer is set again while listed.  Correct when a timer is
linked once at most, judged by true time, never early and never forgotten.

**Seconds timers** (`core/sys/stimer.c`).  The same on a 32-bit count of
seconds; the lifetimes of the neighbor-discovery tables use it, and the
solicitation of routers compares what is left of them.

**Radio driver** (`platform/torrija/dev/cc2520ll.c`, `cc2520_process.c`,
`utils/sense_utils.c`).  State: the chip's FIFO and exception flag, P2IFG and
P2IE, a receive ring of 512 bytes, the transmit buffer.  Operations: the receive interrupt, the poll
handler, prepare and transmit.  Hard: a frame may complete between any two
instructions of the handler; the interrupt is on an edge; a transmission masks
it; frames are flushed; the ring wraps and fills; the channel stays busy until
the driver gives up.  Correct when the ring holds whole packets, the driver hands
frames up in order, each at most once, goes on receiving, and sends the frame it
was given last; the last two only as far as the handler leaves the main loop's
SPI transfers alone.

**Radio register access** (`platform/torrija/dev/hal_cc2520.c`).
SPI transfers and instruction encodings.  No state of its own.

**Tag reader** (`apps/application-rfid/rfid-processes.c`,
`platform/rfid/trf_hardware.c` and the files of the parallel bus).  State: two
threads, two timers, `i_reg`, `RXErrorFlag`, the chip and its IRQStatus.
Operations: the two threads, the interrupt handler and its classification of
the status.  Hard: the two threads wait for each other; the handler posts into
a ring that may be full; the reply races a timeout.  Correct when neither
thread waits for ever and an inventory is only run when asked for.

**Neighbor discovery and registration** (`platform/torrija/nd-opt/uip-nd6.c`,
`uip-ds6.c`).  State: default routers, neighbor cache, addresses, prefixes,
contexts, registrations (ARO), `registration_in_progress`; for the
solicitations their timer and two counts.  Operations: RA, NS and NA input, the
periodic pass, router solicitation with back-off.  Hard: the tables point at
one another by slot; slots are reused while answers are under way; the cache
evicts; a pass may send one packet only; what is renewed in time depends on the
least of many lifetimes.  Correct when no address is used that was not granted,
no table lists a thing twice, an eviction takes no registration with it and spares
its neighbor while the router is listed, a host without a router goes on asking
for one, and one with a router asks before it expires.

**6LoWPAN adaptation** (`platform/torrija/nd-opt/sicslowpan.c`).  State: the
table of address contexts, which routers advertise and which times out; the
packet under way in `packetbuf` and `uip_buf`.  Operations: compression and
uncompression of an IPv6 (and UDP) header, output, input.  Fragmentation is
compiled out.  Hard: both ends have to agree on the form of every field and on
the contexts, which change at different times; a frame has a limit.  Correct
when uncompression inverts compression for every header the two agree on, and
contexts that differ never make one packet another.

**IPv6 and UDP** (`core/net/uip6.c`, `uip-icmp6.c`, `uip-udp-packet.c`,
`platform/torrija/nd-opt/tcpip.c`).  State: the one buffer `uip_buf` with `uip_len`
and `uip_ext_len`, UDP connections and the process each belongs to.  Operations:
input (checks, extension headers, checksums, the search of a connection, echo,
parameter problems), output (source, next hop).  TCP is compiled out.  Hard: one
buffer for what is received and what is sent; an error names a place in a packet
whose headers were walked over.  Correct when a packet goes to the one
connection that matches, and what goes out is from an address of the device.

**MAC, framer and packet buffers** (`core/net/mac/`, `packetbuf.c`).  One packet
at a time in the shared `packetbuf`, headers growing towards its front.
Operations: build and parse a frame, filter by PAN and destination.  Correct
when a parsed frame is what was built and a frame fits the radio.

**USB console and CoAP client** (`apps/application-usb/usb-processes.c`,
`apps/coap-app/coap_app_client.c`).  State: `bDataReceived_event`, the line under
construction, the request to send, the client's connection.  Operations: the
poll handler (collect, echo, parse, post), the client's thread.  Hard: the flag
is cleared after the data were read; the text to echo is on the stack; a text is
still being copied when the call that sends it returns.  Correct when what was
typed is announced until it is read, and what is printed is what was meant.

**USB device stack** (`platform/usb_api/`).  Vendor code.  Its CDC sends and
receives keep a pointer, a count and a current endpoint buffer, shared with the
interrupt.  Correct when the bytes sent and received are a FIFO stream.

**CoAP server and REST engine** (`apps/rest-coap`, `apps/rest-common`,
`apps/coap-app/coap_app.c`).  State: the resources, the list of observers and the
memory blocks under it, the timer of the observed resource, the static buffer
one exchange is cut from.  Operations: requests, registrations, the check of the
resource, notifications.  Hard: clients register, change their token and leave in
any order; events are dropped by a full queue; a stopped timer's event is still
in the queue; the buffer runs out.  Correct when the table is what the clients
were told, requests are answered with their own id and token, and a tag
that was read reaches an observer.  `main()` does not start it in this
configuration (line 93).

**Lists and memory blocks** (`core/lib/list.c`, `memb.c`): used by the REST
engine.  **Buttons and LEDs**, **random numbers**: small libraries.

## 2. The plan, and what came of it

In this order, the most shared part first.

| # | module | abstract specification | proofs |
|---|---|---|---|
| 1 | `Process` (`MCProcess`) | `EventQueue`, a bounded FIFO queue | `ProcessProofs` |
| 2 | `Etimer` (`MCEtimer`) | - | `EtimerProofs` |
| 3 | `Radio` | `LossyChannel`, in order and at most once | `RadioProofs` |
| 4 | `Rfid` | - | `RfidProofs` |
| 5 | `Ds6` | - | `Ds6Proofs` |
| 6 | `Solicit` | - | `Ipv6Proofs` |
| 7 | `UsbCdc`, and `UsbConsole` on top of it | the two streams, as invariants against what was typed and what was given to send | `UsbProofs` |
| 8 | `Framer`, `Sicslowpan` on it, `ExtHeaders`, and `Stack` (`MCStack`) of the three | uncompression inverts compression | `Ipv6Proofs` |
| 9 | `CoapMessage`, and `Coap` (`MCCoap`) on it | what the clients were told | `CoapProofs` |

What the plan has left: the control endpoint and enumeration of the USB stack
(vendor code), the frames of the radio while the receiver is turned off, and one
module of all tables of neighbor discovery with their lifetimes in place of the
two that share them.

Compositions: 1 is what every other module assumes of the kernel.  A module
does not repeat the kernel's detail but the promise that module 1 was checked
for: a bounded FIFO queue, polls that are not lost, one event a pass.  7 is
composed of the transfer and, on top of it, the three threads that print; 8 is
the stack's layers around the two shared buffers, with a peer; 9 has the
messages below and the server, the REST engine and the resources above.

Each module is parameterised by CONSTANTS with named assumptions where a proof
or a run needs them, has an action for every operation, and declares no
recursive operator, so that it can be proved about as well as checked.

## 3. The modules

A definition has the name of the function or variable of the code where there
is one.  `Bad...` operators are seeded faults: each stands before the
definition it is a faulty form of, and nothing refers to it.  They show that
the properties can fail.

### Process, MCProcess

`process.c` step by step: one action per access of the main loop to data an
interrupt handler may touch.  `process_post()` is thus five actions (`PostBegin`
.. `PostCount`), `do_event()` two before the call (`TakeEvent`, `CountEvent`),
`do_poll()` one to begin and one per process (`PollVisit`).  `stack` is the C
stack of threads under execution.  `started` is `process_list` in starting
order; the list inserts at its head, so a walk counts down.  Threads are the
environment: while one runs it may poll, start, call and post whatever the
constants `Polls`, `Starts`, `Calls`, `Posts` allow.  Interrupt handlers poll
(`IsrPoll`) and post (`IsrPost`), whole, between any two steps.
`exit_process()` is left out: no thread reaches `PROCESS_END` and nothing calls
`process_exit()`.

`QueueSpec` is the refinement of `EventQueue`: the ring contents, minus the
entry already read but not yet uncounted, are its queue.

### Etimer, MCEtimer

`etimer.c`, `timer.c` and the clock interrupt.  Threads run whole between
passes (they are not preempted); the tick falls between any two steps of the
walk.  `age` is true time, which the program does not have; it is there to
compare the wrapped arithmetic with.  `W` stands for 2^16.  The one assumption
on the clock is `MaxAge + 1 < W`: the main loop comes to a timer before it is
nearly 2^16 ticks (over an hour) old; `Tick` is disabled where that would be
broken, and that is a bound as well as an assumption.  `MaxPosts` bounds the
events others post.  `etimer_adjust()` and the timers of an exited process are
left out: nothing in the build calls them.

### Radio, LossyChannel

The chip, the handler of port 2 (seven actions, since an edge may fall between
any two), the ring and the main loop, which reads packets and masks the
interrupt while it fills the transmit buffer (`prepare`) and then sends: it
strobes until the chip finds the channel clear, at most `Tries` - 1 times, and
waits for the end, or flushes the buffer (`timeOut`).

The main loop and the handler share the SPI bus.  Two transfers of the main loop
do not mask the handler: the clearing of RX_FRM_DONE in
`cc2520ll_disableRxInterrupt()` (`prepare` .. `prepareBit`), and the flush of a
transmission given up (`timeOut`, `flushTx`).  These are modelled access by access
(chip select, each byte written, each wait for the byte that comes back: `Begin`, `Write`,
`SpiWait`, `SpiEnd`), and the handler falls between any two: it raises chip select (`cs`)
and reads the byte the main loop waits for (`rxReady`).  The other transfers are
whole, for nothing interrupts them.  `cut` is history, the flushes a handler has cut off
since the last that was carried out; `Stuck` is a main loop that waits for a
byte the handler has read, as it then does for ever.

The chip's FIFO counts frames, not bytes, and `FRMFILT0` is 0, so
frames of all destinations come in.  Of an acknowledgment the driver reads the
length byte only; what it leaves in the FIFO is later read as a frame of length
`ResidueLen` whose CRC bit may be anything (`"residue"`).  Not modelled: a frame
too long for `prepare()`, which changes nothing; `receiveOn/Off` after the start;
channel and power.

`ChannelSpec` is the refinement of `LossyChannel`: what is in the ring and the
FIFO is in flight.  A step of the channel may lose a stretch of what is in
flight: flushing the FIFO loses the frames behind those in the ring.

### Rfid

The threads `rfid_find_tags` and `tagit_inventory_request`, the two timers, the
chip, and the handler in two steps with the chip free to act between them.
`Handle` is `InterruptHandlerReader()`: which combination of status bits leaves
what in `i_reg`.  A transaction on the parallel bus is a step; the inventory
mask, the UID and the bus signals are data that the properties do not tell
apart.  `by` in an event, `lost`, `missed` and `hurried` are not in the code:
they are history.

The chip reports when it likes, before the thread has armed `i_reg` or come to its
wait as well as after.  `Missed` is what the code does not provide for, and it is
three reports: the reply to a slot comes before `i_reg` is set busy for it and is
overwritten (`rfid-processes.c:215`); a CRC error is read together with the nine
bytes, and the reply taken to go on (`trf_hardware.c:222`); a collision is found when
the status is read the second time, and dropped (`trf_hardware.c:171`).  After any of them the
thread may wait for ever, the timer notwithstanding, since nothing in its loop
looks at the timer.  `Awaited` and `RoundEnds` say that nothing else makes it do so:
in particular no report between the test of `i_reg` and the wait, nor one between
the reading of the status and its handling, other than those.  `Served` also excuses
a report that came before its thread waited (`hurried`), for then the events the
handler posts pile up.  `NotStranded` excuses neither.

### Ds6

The tables of a host with their slots (0 is the null pointer, a free slot keeps
what it held), RA, NS and NA input, and `uip_ds6_periodic` registration by
registration.  `net` holds solicitations a router may still answer, in any
order or never.  What is abstracted:

- Lifetimes.  When one has run out is a choice of the pass that looks.  An
  infinite lifetime is the behaviour in which it never does.
- Whether a router solicitation goes out is a choice, where the code may send one
  (`ExpireAddrs`, `ExpireRouters`), and either takes the pass's permission with it;
  module Solicit says when it does.
- A router's `registrations` counter: it only orders routers in
  `uip_ds6_defrt_choose_min_reg()`; any router the address is not registered
  with may be chosen.
- A registration's count saturates at `MaxUnicast`, the value it is compared
  with.
- A freed registration is forgotten, unless `registration_in_progress` points
  at it.
- Prefix and context tables, link-layer addresses and neighbor states.  DELAY
  and PROBE are never entered in this build (`tcpip_ipv6_output()` does not look
  the neighbor up).
- The write through a null `min_defrt` (a listed hazard) is lost.
- Neighbor advertisements are those sent to this host's own address.

### Solicit

When the host asks for a router: `uip_ds6_send_rs()` with its timer and the two
counts (to all routers, and to the one that is about to expire), `beb_next()`,
and the part of `uip_ds6_periodic()` and of RA and NA input that acts on
them.  Ds6 has the tables with lifetimes as choices; Solicit has one table with
lifetimes as numbers, and takes what befalls it from the other tables
(an eviction, a registration given up, a neighbor that is no router) as choices.

Time is discrete.  Its unit is a quarter of the 10 seconds between two
solicitations, so that the run's `Interval` of 4, `MaxInterval` of 24 and
`Threshold` of 24 are the code's 10, 60 and 60 seconds.  The code runs ten
passes a second; the model any number in a unit, but at least one that still
has its permission to send (`ran`).  That is the assumption on what else
the host does: registrations do not use up every pass for 2.5 seconds.  Lifetimes are shorter than
the 4096 seconds after which the 16-bit clock of `timer_expired()` wraps and an
old solicitation timer looks set again.  `quiet`, `asked`, `shared` and `row` are history.

- `FinitePrefix` says that a prefix or a context may have less to live than
  every router.  Then `min_defrt` is a null pointer or what lies behind the
  list of routers, and the pass does nothing or asks everybody
  (`uip-ds6.c:298`, `:318`).  The run has it FALSE: prefixes outlive their
  router.  With TRUE, `NeverUnasked` fails within a few steps.
- `shared`: of several routers that run out together only the one with the
  least left is asked alone, so `NeverUnasked` speaks of a router that had its
  last minute for itself at some time.
- A solicitation that is written while a neighbor advertisement is processed
  is discarded with it (`uip-nd6.c:437`): it sets the timer and counts, but
  nobody hears it.

### UsbCdc, UsbConsole

The serial line: `usb_cdc.c`, the data endpoints of the interrupt handler, and
suspension and reset of the bus.  A call disables interrupts, so it is whole
and atomic, and so are the handlers `IsrIn` and `IsrOut`.  A buffer's NAK bit is
whether it holds bytes; the host fills or empties the buffers in turn.  What a
byte *is* does not matter, so a byte to the host is the name of the memory the
interrupt copies it from (`stack`, `line`, `text`, `const`) and turns into `Junk`
when that memory is given up or written anew before it was copied; a byte from
the host is its number and whether it is a return.  `typed`, `seen`, `owed` and
`troubles` are history.

`UsbConsole` adds the poll handler of `usb_input_process`, with a step for each
call it makes, since interrupts and the host act between any two, and the two
other threads that print.  `PollDone` may leave a command unposted: the kernel's
queue may be full, and the code ignores the result.  Abstractions: a return is
the last byte of its packet (what follows it is discarded with the line anyway);
the parts of a command line are one byte each; `BusBack` assumes that resuming
or enumerating the bus takes longer than the few instructions of the loop that
counts bytes and reads them.  Not modelled: writing past the end of `wholeString`;
calls that nobody makes (`USBCDC_abortSend`, `abortReceive`, `rejectData`, the
`waitTilDone` calls); an open receive operation, which `NoneOpen` shows is never
left, and with it `CdcToBufferFromHost()`; control transfers on endpoint 0.

### Framer, Sicslowpan, ExtHeaders, Stack, MCStack

A packet's way between the radio and the client.  Every handler runs from the
call or the frame that starts it to the transmission without giving up the
processor, and `uip_buf` and `packetbuf` hold one packet: a handler is one action of
`Stack`, and what it does is a composition of operators with the names of the
functions.

- `Framer`: `packetbuf.c`, `frame802154.c` and `sicslowmac.c`.  A header is the
  list of its fields with their sizes; parsing takes them from the list in the
  order of the bytes, so that a field one side writes and the other does not
  expect shows.
- `Sicslowpan`: `compress_hdr_hc06()` and `uncompress_hdr_hc06()`, over the
  contexts.  Addresses are a prefix and an identifier, told apart by the forms
  the compression knows.  Assumed: prefixes of contexts have 64 or 128 bits, two
  context ids of the sixteen.  The code's lookup returns a context whatever its
  state; `Aged` is what a lifetime does to it: never to remove it, since the
  second state is never left.
- `ExtHeaders`: the loop of `uip_process()` over the extension headers and
  `ext_hdr_options_process()`, as a fold over the chain.
- `Stack`: `uip_process()` up to the connection or the answer,
  `uip_icmp6_echo_request_input()`, `uip_icmp6_error_output()`,
  `tcpip_ipv6_output()`.  `AddressChange` and `RouterChange` are the work of Ds6 as
  far as it matters here.  The peer is the router and the client's server; it
  compresses as this code does and addresses its frames properly, and its
  advertisement of a context may be missed.  A checksum is what it
  covers: two packets that differ in it are taken to differ in their sums.
  `NullRead`: `tcpip_ipv6_output()` reads the next hop's link-layer address
  through a pointer nobody set (`tcpip.c:597`), so a frame goes to a broadcast
  or to whatever bytes are there.  `hasrouter` is `uip_ds6_defrt_choose()` finding one.

What a packet is, for the proofs as for the run: `IsHeader`, `IsBody` and
`IsContext` give the fields of the records and their ranges (a port has 16 bits, a
flow label 20, a context is of a prefix that is no group's).  Three assumptions
say that the constants are such: `NodesAssumption` (two nodes; lengths are
numbers), `OffersAssumption` (the peer offers contexts), and `PeerAssumption`, by
which a packet of the peer is well formed: its header names UDP as the next one
exactly if UDP follows at once.  TLC evaluates them on the packets of `MCStack`.

`RoundTrip` excludes two things that are lost (`Lossy`), both visible in the
code: the scope of a group other than the link's (`sicslowpan.c:312`), and an identifier of sixteen
bits, both bytes of which are read from the same place (`sicslowpan.c:466`).  `NeverMistaken` shows
that they do no harm to a packet with a checksum, which covers the addresses.

A UDP packet may have the checksum 0 and is then taken unchecked (`Unchecked`,
`uip6.c:1373`); the peer sends such packets too (`PeerSums`).  Of them `NeverMistaken` says
only that ports, class and the like are right: the addresses may be another packet's.
It also says what the client is given (`uip_appdata`): for UDP, `uip_process()` adds
to the place and takes off the length what a header of UDP alone has
(`uip6.c:1371`, `:1425`), so the data are those of the packet just when it has no extension
headers.  The CoAP server adds `uip_ext_len` itself (`coap-server.c:510`), the client does not.

### CoapMessage, Coap, MCCoap

`CoapMessage` is the parser, the serializer and the setters of options, on the
buffer of 255 bytes that everything of one exchange is cut from: a size is rounded
up to an even one, in eight bits (`buffer.c:55`, with the alignment of
`contiki-conf.h:27`), and a setter for which there is no room changes nothing.  `Coap` is `coap-server.c`, `rest.c` with
`list.c` and `memb.c`, and `coap_app.c`.  A request, an event from the queue and a
tick of the timer are one action each.  `sent` holds the datagrams of one step
until `Leave` takes them to the radio; `told` is history, what clients were last
told in an answer; so is `late`: the timer ran out again while the event of a
change waited.  `option_delta` is modelled as it is (`coap-common.c:104`): the
sum of the numbers written, where the standard has the difference to the last
one, in four bits.  The text `get_rfid_data()` has is handed out once; then the
pointer is null, and what is copied for each further observer of the change is
what lies at address 0, any of the set `Junk`.  The other resources of
`coap_app.c` and the message ids the server counts itself are data.

`MessagesAssumption` bounds what comes in by what the format and the code have room
for: fifteen options, which is what the four bits of the header can count, a text of
49 bytes, and tokens of up to eight bytes, as `observer_t` holds.  A longer token
`rest.c:365` copies all the same, over what lies behind it (`rest.h:61`); of that
nothing is said.

## 4. What is checked

Every run finishes, with the bounds named in its `.cfg`.

| run | instance | states | what it shows |
|---|---|---|---|
| `kernel` | 3 processes that may do everything to one another, ring of 2, counts mod 4, 2 kernel calls a dispatch, an interrupt that polls | 171036 | the ring is a bounded FIFO (`QueueSpec`), polls are not lost and are served, no thread is re-entered, posted events arrive |
| `kernel_isr_posts` | the gateway's own wiring with a handler that posts twice | 128980 | `process_current` is right whatever that does to the ring |
| `kernel_isr_race` | the same | violation | `QueueSafe` does not hold: an accepted event is overwritten |
| `etimer` | 3 timers of 2 processes, clock mod 5, ring of 1 | 388568 | the list and `et->p` agree, the wrapped clock tells true time, nothing is forgotten, timers fire |
| `radio` | 3 frames of 2 lengths, chip of 2 frames, ring of 6 bytes, 2 attempts to send | 243720 | the ring holds whole packets, the driver is a lossy in-order channel, the ring is drained unless the main loop is stuck in a transfer, what the chip sends is the frame of this call and one more for each flush cut off |
| `radio_deaf` | the same | violation | after a frame completes during the handler the pin stays high with no interrupt to come |
| `rfid` | ring of 2, 2 slots, 2 foreign events | 699541 | the threads never wait for each other; a thread waits for a chip that is done, and an inventory does not end, only after a report the code does not provide for; requests are served unless one comes then or before its thread waits |
| `ds6` | 2 routers, a prefix, 2 registrations, a cache of one neighbor, 3 messages besides answers | 2940258 | no duplicates in a table, one packet a pass, no address before it is granted, an eviction loses no granted registration and spares the neighbor of one whose router is listed |
| `solicit` | 2 routers, lifetimes of 2 minutes, the code's intervals and counts | 251048 | a host without a router is never silent for more than a minute; no router expires unasked that had its last minute for itself; no router is insisted on |
| `usb` | 3 bytes typed, packets of 2 in and 1 out, a line of 2, one suspension or reset, one text of another thread | 430397 | both streams keep every byte in order over their two buffers, receive operations are completed at once, the printed command survives the clearing of the line, printing ends |
| `stack` | two contexts, one of which changes its prefix; packets of every form of address, port, hop limit, traffic class and header chain, with a checksum and without | 356400 | the round trip of headers, no packet with a checksum is taken for another one and one without only in its addresses, what is handed up is the data just when there are no extension headers, the device speaks in its own name, a frame fits, a problem is located |
| `coap` | 3 clients on 2 hosts, a table of 2, 16 requests of up to 15 options, a queue of 3 | 225878 | the table is what clients were told, the resource is checked while it is observed, answers carry the id and token of the request and, up to ten options, the whole text; a change is announced to each observer, and its tag reaches the first |

The two violations are findings (`PROJECT.json`): each compares what the code
does with a comment of the code.

### Why the bounds are enough

- Kernel: a ring of 2 makes it wrap, fill and reject; two calls a dispatch let a
  thread post and poll, or call another that does; the third process is
  started by another thread, so that walks meet a list that grows.  Counts
  modulo 4 are twice the ring, the ratio below which `fevent + nevents` could
  wrap (256 to 32 in the firmware).
- Etimer: three ticks of age with an interval of 2 on a clock of 5 wraps every
  few steps; a ring of one entry is full after each post.
- Radio: a ring of 6 holds two short frames but not two long ones, so it wraps
  and rejects; two frames in the chip are what stranding and flushing need;
  a third shows that reception goes on.  Two attempts are one that fails
  and is repeated; giving up after two is giving up after 2499.
- Rfid: two slots have a first, a last and a step between; a ring of two is
  filled by the two foreign events.
- Ds6: two routers and one neighbor entry force eviction; two registrations
  (one prefix with two routers) force reuse of slots; three messages are the
  fewest that evict and come back.  With one prefix the address table is never
  full, so the null address of `RaPrefix` is not reached.
- Solicit: two routers, so that one may expire while the other is
  renewed, evicted or given up.  Intervals and counts are those of the code, in
  units of 2.5 seconds; lifetimes of 48 units are two minutes, one to forget
  and one to renew.  Nothing else bounds it: time is folded into what is left
  of lifetimes.
- Stack: one packet is on the air at a time, as the two buffers hold one.  The
  packets of `MCStack` have each form at least once, in both directions; two
  contexts are one that changes under way and one that is a whole address.
  Payloads of 8, 80 and 90 bytes fit, fit only with a short header, and do not fit.
- Coap: three clients for a table of two make the last one wait, on two hosts
  so that the port alone may tell two of them apart; a queue of three holds the
  event of a change, that of a timer stopped since and that of the timer that
  runs, which is what `TagDelivered` needs `late` for: with two it would hold
  without.  Requests have 7, 9, 12 and 13 options that the server does not look at,
  beside those it does: with 7 and a token a request has ten options in all, with 13
  there are as many as can be counted and text or type finds no room.
- USB: a packet can be followed by another in the second buffer and by a third
  after it, so that each buffer is filled first and second; three bytes in the
  two buffers are more than the line takes (as 128 is more than 96), and two are
  not, so that the loop of `receiveDataInBuffer()` goes round, ends and breaks
  off; an echo of two bytes fills both buffers at once.  The bounds stop the
  system in the end, so deadlock is not checked.

### Fairness

- Kernel: weak fairness of the CPU (`Loop \/ Thread`): `main()` loops for ever
  and threads return.  No fairness of interrupts, nor for what threads do.
- Etimer: weak fairness of the main loop and of the clock.
- Radio: weak fairness of the handler and of a transmission in progress, which
  includes that the chip ends a transmission it has begun: `transmit()` waits for
  that without a limit (line 403).
  Strong fairness of the two steps of the poll handler: a handler may interrupt
  before each, again and again, but `cc2520_process` polls itself and main()
  comes round.  A main loop that is `Stuck` goes on polling the register and does
  not get further; no fairness helps it.
- Rfid: weak fairness of the main loop, the handler, the timers and the chip,
  which ends what it was told to do.
- Ds6, Solicit, Stack: none; only safety is stated.  That a silent host
  solicits again within a minute is a safety property of Solicit, whose clock
  does not go on until a pass was there.
- Coap: a datagram leaves; strong fairness of taking an event and of the timer,
  each of which waits for the datagrams of the step before: the main loop comes
  round, whatever comes in between.  None of clients, readers or other threads.
- UsbConsole: weak fairness of the main loop, of the interrupt and of the host
  collecting what is ready.  That last one is an assumption on the host: the
  calls have no timeout (`ulTimeout` is 0 in all of them), so a host that stays
  attached and does not read stops the main loop, and nothing in the code
  prevents that.  None of the host typing, nor of the bus.

## 5. What is proved

With TLAPS, for every value of the constants that satisfies the assumptions in
the module that declares them.

**ProcessProofs** (`ConstAssumption`: counts wrap at twice the ring or later).
`TypeCorrect`, `NoPollLost`, `NeverReentered`, `CurrentIsRestored`, and
`RingNeverOverruns` and `RingIsQueue`, which assume that no interrupt handler posts.
`PollNotLost` and `NoReentry` are not
inductive alone: the invariant `IInv` adds that `process_list` names each process
once and exactly those whose state is not NONE (`ListInv`), that only processes
on the list are asked to be polled (`FlagInv`), that every thread but the outermost was
called synchronously by the one below it (`StackInv`), and where main() can be
(`LoopInv`).  The proof abstracts every step into what it does to the process
table (`ProcStep`), so that each conjunct looks at three cases and not at thirty
actions.  `RingNeverOverruns` adds that a `process_post()` under way has found room.
`RingIsQueue` is the refinement of `EventQueue` but for its fairness: `WriteInv` says
which parts of its slot a `process_post()` under way has written, and that the slot
is the one behind the events that count, so that the count alone makes the event
appear in the queue.  With a handler that posts it is false, as `kernel_isr_race`
shows.

**EtimerProofs** (`EtimerAssumption`: `MaxAge + 1 < W`).  `ListIsExact`,
`ClockIsExact`, `NoneIsForgotten`.  The invariant adds that the clock is a
timer's start plus its age, modulo W (`AgeInv`), that a listed timer has an
interval that was set, and that a walk stands at a positive index.

**RadioProofs** (`RadioAssumption`: sizes are positive, and the ring has room for what
an acknowledgment leaves behind).  `RadioTypeInvariant`, `RingHoldsPackets`, `SendsOwnFrame` and the refinement
`DriverIsLossyChannel`, for any lengths of frames and any size of ring and FIFO.
The invariant says of the ring that its tail is as far behind its head as it
counts bytes (`RingInv`), that the frame whose payload the handler reads is still
in the chip (`InHand`), that the main loop reads only a ring with something in it
(`Pending`), and that the transmit buffer has a frame for each flush that was cut
off, and from `prepareEnable` to the end of the transmission, or to the byte of a
flush, one more (`Loaded`).  The bytes of the ring are compared
with the packets that were accepted put one behind another (`FlattenSeq`), a fold,
for which the lemmas find the row of partial results by a least counterexample.
The refinement mapping is the packets of the ring followed by the frames of the
chip: each step of the handler maps to a frame's arrival, its loss, or nothing,
and reading a packet to its being handed up.

**RfidProofs** (`RfidAssumption`: sizes are positive).  `TypeCorrect` and
`NeverStranded` and `AlwaysAwaited`, for every number of slots and queue length, with
no assumption on the chip's speed.  `NotStranded` is inductive with the types and one fact about
the loop: it goes round only while slots are left.  The lemmas say what a full
or a free queue does to a CONTINUE that is already in it, and the proof follows
the one event that keeps the round alive through each step.  For `Awaited` the
invariant `AInv` relates, as long as no report was missed, where the thread is to
what the chip does and what the handler has still to read: the chip has been given
work before `i_reg` is set busy for it, and what was raised and read of a reply
that has ended makes the handler take `i_reg` off busy (`Settles`).

**Ds6Proofs** (the sizes of the tables are numbers).  `TypeCorrect`,
`NoneListedTwice`, `OnePacketAPass`, `PreferredIsGranted`, and `EvictionSparesGranted`, an
action property.  The invariant adds to the types and the three properties that
the cache is finite (an eviction chooses from it) and `BufferFree`: in a pass
that may still send nothing was written yet, and outside a pass the buffer is
free.  Uniqueness rests on lookups that go through the whole table
(`LookupFinds`).

**Ipv6Proofs** has the proofs about `Solicit` and those about `Stack`.

*Solicit* (`TimesAssumption`, `SizesAssumption`).  `SolicitsAgain` and
`InsistsNever`, for any intervals, counts and lifetimes, and also with
`FinitePrefix`; `RenewsInTime`, for intervals that are `Timely`.  `Pacing` says that the silence so far and what is left of the timer are
together within the greatest interval, and that a pass with the timer run out
ends the silence; `CountsAll`, that the count of a router is at least what was sent
to it alone.  `Timely` is what renewal in time needs of the intervals: the timer is
drawn below the threshold at which a lifetime counts as short, no lifetime is
short from the start, and prefixes outlive their routers.  The code draws 30
seconds at most while there is a router, against a threshold of 60.  `InTime` then
says that what is left of a router's lifetime is more than what is left of the
timer, unless it was asked already or was not alone.

*Stack* (`NodesAssumption`, `OffersAssumption`, `PeerAssumption`).  `StackTyped`,
`StackRoundTrip`, `StackNeverMistaken`, `StackOwnSource`, `StackWholeFrame` and
`StackProblemLocated`, for any packets of the peer, chains of headers, options,
contexts and payloads, where the run has a dozen of each.  None of the five
properties is inductive, for a frame is looked at when it arrives, and the
sender's tables have changed since.  `StackIInv` therefore says where a frame
comes from: the tables hold contexts (`Tables`), and what is on the air is `Good`
(`OnAir`).  A good frame is `WellMade`: `output()` made it, from some header and
with some table of contexts (that of its sender at the time).  The peer's
has its checksum in place and a body that fits its header (`FromPeer`); the device's has
an own address as source, another than the unspecified one as destination, and
an error in it points at what is wrong (`FromDev`).  `DevGood`, `PeerGood` and
`AnswerGoes` show that whatever is sent is good, `StepKeeps` goes through the actions.

- `RoundTrip`.  A compressed header is a list of fields, of which each part is
  there or not.  `PlacesInSeven` says that the receiver finds each part past the
  lengths of those before it; `FlowAndClass`, `HopLimit`, `PortsForm`,
  `AddrRestored` and `GroupPart` that each comes back from its form;
  `FieldsRestored` puts them together for a receiver with any table,
  `HeaderRestored` for one that has the contexts, and `FrameRestored` adds the
  link-layer addresses, by way of the frame header (`FrameSent`,
  `FrameTaken`).  `Lossy` is used where an address has an
  identifier of 16 bits or a group another scope, and nowhere else.
- `NeverMistaken` has no hypothesis about contexts.  All fields but the addresses
  come back in any case; a checksum in the body was computed over the addresses that
  were sent and holds of those that were read; so they are the same.  That
  rests on a checksum being what it covers, and leaves out the UDP packet that has
  none.  Place and length of the data follow from the lengths of the headers.
- `ProblemLocated`.  The loops over headers and options are folds.  `FoldExists`
  shows that the function a fold names exists, `HeadersRow` and `OptionsRow` that its
  values at the prefixes of the list are the states of the loop, and
  `HeadersWalked` and `OptionLocated` follow them: `next_hdr` and `ext_len` are what
  the headers before come to, so that the pointer of a problem is at the header
  or option in fault.  `SumsOfFold` does the same for the lengths `Culprits` counts.
- `WholeFrame` and `OwnSource` follow from what `output()` and
  `uip_ds6_select_src()` do, and for an answer from `ToMe`: it leaves by the address it came
  for, if that was no group's.

TLC cannot enumerate the tables and headers `StackIInv` speaks of; it checks the
five properties that follow from it.

**UsbProofs** (`SizesAssumption`, `ConsoleAssumption`).  `InputIsWhole`, `NoneIsOpen`,
`OutputIsWhole` and `ReportIsWhole`.  `InInv` says which of the two buffers comes first, and that
what they hold continues what was read; `OutInv` does so for the other
direction with the caller's memory at the end; `SayInv` relates what a thread has still to print
to the memory it lives in, which is what lets a pointer into it be sent later.
`LineInv` follows the part of the command line that is still to be copied: it is
there only while the handler has another text to send, which waits for it.

**CoapProofs** (`CoapAssumption`: there is a block and a place in the queue).
`TypeCorrect`, `TableIsExact`, `ObservedIsChecked`, `AnsweredRight`,
`TableIsWhatWasTold` and `ChangesAreDelivered`, for any clients and requests that satisfy
`MessagesAssumption`.
Types, table and timer are inductive together: taking an observer off the list
needs a list that has it once, adding one needs a block that is not on it, and
the timer is right only if the list is empty when it seems so.

The last three rest on what is left of the buffer.  Sizes are even (`EvenSizes`),
and none of them wraps in eight bits.  A request takes at most 190 bytes of the 255, and 150
with ten options (`RequestTakes`): the answer's packet, its token and its Observe option always fit
behind that, its text and type as long as the request had ten options.

`AnsweredRight` goes from the setters to the parser: an answer has no option, one
or two, for those `option_delta` is right (`WrittenIsRead`), so that what is parsed
is what was set.  A notification to an observer with a token has three, and there it
is not: `AnnouncedIsMisread` shows what its reader finds, a second Observe option in
place of the token.  `TableIsWhatWasTold` adds to the invariant that `told` is the set of
the endpoints of allocated blocks, and shows that each way through
`rest_invoke_restful_service()` changes both alike (`RegisterTells`, `MessageTells`).
`ChangesAreDelivered` adds `ChangeTold`: as long as the timer has not run out since,
there is one event of a change at most, the text is still there, and the timer
runs, so that no check finds it run out and posts a second one; and that different
observers have different endpoints (`EndpointsDiffer`), so that each is told once.

### Only model-checked

- Liveness: `PollServed`, `EventDelivered`, `Fires`, `Drained`, `RoundEnds`, `Served`,
  `Prints`, `Notified`, and the fairness in `QueueSpec` (its safety part is
  `RingIsQueue`); it needs fairness, out of the prover's reach.
- That the properties of Stack speak of something: the proofs are of safety,
  and it is the run that sends frames of each form, which arrive and are answered.

## 6. What is not modelled, and why

- TCP, fragmentation, reassembly, router code, HC1: compiled out.
- The USB control endpoint, enumeration and descriptors; radio registers; bus
  signals of the reader; pins, LEDs, buttons: vendor code and wiring.  What the
  layers above rely on of them is in the modules that use them.
- `exit_process()`, `etimer_adjust()`, `rtimer.c`, `queuebuf.c`, and calls of `list.c`, `usb_cdc.c`
  and `rest.c` without a caller in this build.
- Code of the tree that this build does not compile: it is the larger part of
  the tree.

### Seen while modelling

Neither stated as a property nor counted among the findings, since no comment or
document says otherwise, or the model takes it as it is.

Kernel and readers:
- `RXErrorFlag` is never reset (`trf_hardware.c:227`): after one CRC error each
  complete reply counts as a collision.
- An inventory is begun by any CONTINUE, the interrupt handler's included.
- A command typed while the event queue is full is cleared and never carried out
  (`usb-processes.c:47`).

Radio:
- `cc2520ll_disableRxInterrupt()` talks to the chip over SPI before it masks the
  interrupt whose handler does too (`cc2520ll.c:594`), and so does the flush of
  a transmission given up (`:399`).  A flush may be cut off, so that the next
  transmission sends the frame that was given up first (`OwnFrame` counts it), and
  the main loop may wait for ever for a byte the handler has read (`Stuck`).
- The driver reports success with the value that stands for an error in
  `core/dev/radio.h`; nobody looks at it.

Serial line:
- What does not fit the line stays in the two buffers, with the flag cleared
  that would announce it (`usb-processes.c:51`): the console is deaf until the
  bus is reset.
- A suspended bus lets the console clear a line that is still being copied
  (why `ReportWhole` speaks of an undisturbed bus).

Neighbor discovery:
- `registration_in_progress` dangles after a registration ends by its lifetime
  (`uip-ds6.c:180`); `uip_ds6_defrt_choose_min_reg()` may return null and is
  used unchecked (`uip-nd6.c:1040`).
- A router that withdraws or expires leaves its registrations behind
  (`uip-ds6.c:264`; the comment at `uip-nd6.c:430` has them go with it).
- `min_defrt` is null, or read behind the list, when a prefix or a context has
  the least lifetime (`uip-ds6.c:298`, `:320`), against the comment at line 264.
- `beb_next()` may draw 0, so that a solicitation follows at once, where the
  comment at `uip-ds6.c:1473` says that they are not sent more frequently than
  the interval.  An RA clears the count, not the timer.
- The wrap of the 16 Hz clock makes an old solicitation timer look set again.
- Contexts are never deleted.

IPv6 and 6LoWPAN:
- The next hop's link-layer address is read through a null pointer
  (`tcpip.c:597`): the lookup at `:586` is commented out, since there is no
  address resolution to do, but the entry it found is still used.  The comment
  at `core/net/tcpip.h:352` says that addresses are resolved.
- Groups of another scope than the link's lose it, identifiers of sixteen bits
  one byte (see Stack).
- A UDP checksum of 0 is accepted over IPv6, unchecked (`uip6.c:1373`), and the
  data of a UDP packet with extension headers are handed up at the wrong place and
  length (`uip6.c:1371`, `:1425`).

CoAP:
- From the third option on the numbers are wrong (`coap-common.c:104`, where a
  reader takes differences to the option before, `coap-server.c:117`): a notification
  with a token has three, so no observer finds its token in one.
- All observers of a change but the first get what is at address 0
  (`coap_app.c:73`), where `coap-server.c:618` has the response the same for each.
- After a request of more than ten options the answer may lack its text or its
  content type, and is sent as a success all the same (`buffer.c:62`).
- A token of more than eight bytes is copied over what follows it (`rest.c:365`).
- So may the first: when the timer runs out while the event of a change waits
  (the period is one tick, `coap_app.c:51`) and the event of a timer stopped
  earlier comes before, the check finds the timer run out and the text still
  there (`rest.c:445`) and announces the change again; the second notification finds no
  text.  The proof of `TagDelivered` ran into it, and TLC shows it with a
  queue of three.
- A reset message is answered with a confirmable 404.

The hazards of `PROJECT.json` list the places that matter most with their lines.
