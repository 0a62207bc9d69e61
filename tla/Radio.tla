------------------------------- MODULE Radio -------------------------------
(***************************************************************************)
(* Frames in and out of the CC2520: dev/cc2520ll.c, the ring buffer of       *)
(* utils/sense_utils.c and the poll handler of dev/cc2520_process.c.       *)
(*                                                                         *)
(* Three parties interleave: the chip, which completes frames at any time; *)
(* the interrupt handler of port 2, which moves one frame from the chip to *)
(* the ring; and the main loop, which takes packets out of the ring, masks *)
(* the interrupt while it fills the transmit buffer, and sends.  The handler    *)
(* runs with interrupts off and is taken before the next instruction of    *)
(* the main loop.                                                          *)
(*                                                                         *)
(* Main loop and handler share the SPI bus.  The main loop masks the       *)
(* handler around its transfers, save two: the clearing of RX_FRM_DONE     *)
(* with which cc2520ll_prepare() begins, and the flush with which          *)
(* cc2520ll_transmit() gives up.  These are modelled access by access; the *)
(* others are whole.                                                       *)
(*                                                                         *)
(* A byte is <<f, k>>, the k-th of frame f; byte 0 is the length.  The     *)
(* chip is not in the repository: its FIFO, its RX_FRM_DONE flag (`exc',   *)
(* also the level of the interrupt pin) and the strobes that act on them   *)
(* are modelled from how the driver uses them.                             *)
(***************************************************************************)
EXTENDS Integers, SequencesExt

CONSTANTS
  Lens,       \* lengths of data frames
  RingLen,    \* rxBuffer.len
  MaxLen,     \* PACKETBUF_SIZE, the room cc2520_read() has
  FifoSize,   \* frames the chip holds
  Tries,      \* the first value of cc2520ll_transmit()'s timeout, 2500
  MaxFrames   \* bound: frames on the air

AckLen     == 5   \* CC2520_ACK_PACKET_SIZE
ResidueLen == 2   \* what the second byte of an acknowledgment reads as

Frame ==
  [id : 1 .. MaxFrames, kind : {"good", "bad"}, len : Lens] \cup
  [id : 1 .. MaxFrames, kind : {"ack"}, len : {AckLen}] \cup
  [id : 1 .. MaxFrames, kind : {"residue"}, len : {ResidueLen}]

Byte == Frame \X (0 .. MaxLen)

ASSUME RadioAssumption ==
  /\ RingLen \in Nat /\ MaxLen \in Nat /\ FifoSize \in Nat \ {0} /\ MaxFrames \in Nat
  /\ Tries \in Nat \ {0}
  /\ Lens \subseteq (1 .. MaxLen) \ {AckLen}
  /\ RingLen > ResidueLen + 1 /\ MaxLen >= ResidueLen

VARIABLES
  sent,       \* frames completed on the air so far
  fifo, exc,  \* the chip
  ifg, ie,    \* bit 0 of P2IFG and P2IE
  isr,        \* where cc2520ll_packetReceivedISR() is
  rxBuffer,   \* the ring
  cs,         \* chip select: "high", "low", or "begun" once a byte went in
  rxReady,    \* UCRXIFG: the byte that came back has not been read
  pc,         \* where the main loop is
  packet,     \* what cc2520_read() returned last
  timeout,    \* of cc2520ll_transmit()
  txFifo,     \* frames in the chip's transmit buffer
  cut,        \* history: flushes cut off since the last that was carried out
  accepted    \* history: frames put and not yet read

chipVars == <<sent, fifo, exc>>
ringVars == <<rxBuffer, accepted>>
spiVars  == <<cs, rxReady>>
sendVars == <<timeout, txFifo, cut>>
mainVars == <<pc, packet, sendVars>>
vars == <<chipVars, ifg, ie, isr, ringVars, spiVars, mainVars>>

Init ==
  /\ sent = 0 /\ fifo = <<>> /\ exc = FALSE
  /\ ifg = FALSE /\ ie = TRUE
  /\ isr = "idle" /\ pc = "loop"
  /\ rxBuffer = [nBytes |-> 0, iHead |-> 0, iTail |-> 0, pData |-> [i \in 0 .. RingLen - 1 |-> <<>>]]
  /\ packet = <<>> /\ accepted = <<>>
  /\ cs = "high" /\ rxReady = FALSE
  /\ timeout = 0 /\ txFifo = 0 /\ cut = 0

-----------------------------------------------------------------------------
(* The ring buffer. *)
bufNumBytes(b) == b.nBytes

(* How far index i lies behind the tail. *)
Ahead(b, i) == (i - b.iTail) % RingLen

(* Operators named Bad... are seeded faults, each a plausible slip in the   *)
(* definition that follows: the properties below can fail.                 *)
BadPutOverwrites(b, data) ==
  [b EXCEPT !.nBytes = @ + Len(data), !.iTail = (@ + Len(data)) % RingLen,
            !.pData = [i \in 0 .. RingLen - 1 |->
                         IF Ahead(b, i) < Len(data) THEN data[Ahead(b, i) + 1] ELSE @[i]]]

bufPut(b, data) ==
  IF b.nBytes + Len(data) < RingLen
  THEN [b EXCEPT !.nBytes = @ + Len(data), !.iTail = (@ + Len(data)) % RingLen,
                 !.pData = [i \in 0 .. RingLen - 1 |->
                              IF Ahead(b, i) < Len(data) THEN data[Ahead(b, i) + 1] ELSE @[i]]]
  ELSE b

(* bufGet() returns the bytes and leaves the ring. *)
Got(b, n) == IF n < b.nBytes THEN n ELSE b.nBytes
bufBytes(b, n) == [i \in 1 .. Got(b, n) |-> b.pData[(b.iHead + i - 1) % RingLen]]

BadGetShort(b, n) == [b EXCEPT !.nBytes = @ - Got(b, n)]

bufGet(b, n) == [b EXCEPT !.nBytes = @ - Got(b, n), !.iHead = (@ + Got(b, n)) % RingLen]

bufFlush(b) == [b EXCEPT !.nBytes = 0, !.iHead = 0, !.iTail = 0]

-----------------------------------------------------------------------------
(* The chip completes a frame.  The pin rises, and P2IFG with it, only if   *)
(* the flag was low; a chip whose FIFO is full receives nothing.           *)
FrameDone(f) ==
  /\ sent < MaxFrames /\ f.id = sent + 1 /\ f.kind # "residue"
  /\ sent' = sent + 1
  /\ IF Len(fifo) < FifoSize
     THEN /\ fifo' = Append(fifo, f)
          /\ exc' = TRUE
          /\ ifg' = (ifg \/ ~exc)
     ELSE UNCHANGED <<fifo, exc, ifg>>
  /\ UNCHANGED <<ie, isr, ringVars, spiVars, mainVars>>

-----------------------------------------------------------------------------
(* cc2520ll_packetReceivedISR(). *)
Irq == ifg /\ ie

(* CLEAR_EXC_RX_FRM_DONE().  Its CS low does nothing when the main loop    *)
(* holds CS low already: into a command begun the chip may take the bytes  *)
(* as a continuation.  The last byte read and CS high leave the main       *)
(* loop's transfer without its byte and without its chip.                  *)
IsrClear ==
  /\ isr = "idle" /\ Irq
  /\ isr' = "mask" /\ exc' \in {FALSE, exc /\ cs = "begun"}
  /\ cs' = "high" /\ rxReady' = FALSE
  /\ cut' = IF pc = "flush" /\ cs = "low" THEN cut + 1 ELSE cut
  /\ UNCHANGED <<sent, fifo, ifg, ie, ringVars, pc, packet, timeout, txFifo>>

IsrMask ==
  /\ isr = "mask"
  /\ isr' = "length" /\ ifg' = FALSE /\ ie' = FALSE
  /\ UNCHANGED <<chipVars, ringVars, spiVars, mainVars>>

(* Of an acknowledgment only the length is read, and nothing is flushed.   *)
IsrLength ==
  /\ isr = "length" /\ fifo # <<>>
  /\ IF fifo[1].len = AckLen
     THEN /\ isr' = "enable"
          /\ fifo' = [fifo EXCEPT ![1] = [@ EXCEPT !.kind = "residue", !.len = ResidueLen]]
     ELSE isr' = "payload" /\ UNCHANGED fifo
  /\ UNCHANGED <<sent, exc, ifg, ie, ringVars, spiVars, mainVars>>

Mpdu(f) == [k \in 1 .. f.len + 1 |-> <<f, k - 1>>]

(* A data frame tells by its status word whether the CRC is right; where   *)
(* the driver looks for it, the residue of an acknowledgment may have any  *)
(* bit.                                                                    *)
IsrPayload ==
  /\ isr = "payload"
  /\ isr' = "flush"
  /\ fifo' = Tail(fifo)
  /\ LET f == fifo[1] IN
       \/ /\ f.kind \in {"good", "residue"}
          /\ rxBuffer' = bufPut(rxBuffer, Mpdu(f))
          /\ accepted' = IF rxBuffer' = rxBuffer THEN accepted ELSE Append(accepted, f)
       \/ f.kind \in {"bad", "residue"} /\ UNCHANGED ringVars
  /\ UNCHANGED <<sent, exc, ifg, ie, spiVars, mainVars>>

IsrFlush ==
  /\ isr = "flush"
  /\ isr' = "enable" /\ fifo' = <<>>
  /\ UNCHANGED <<sent, exc, ifg, ie, ringVars, spiVars, mainVars>>

IsrEnable ==
  /\ isr = "enable"
  /\ isr' = "exit" /\ ie' = TRUE
  /\ UNCHANGED <<chipVars, ifg, ringVars, spiVars, mainVars>>

IsrExit ==
  /\ isr = "exit"
  /\ isr' = "idle" /\ ifg' = FALSE
  /\ UNCHANGED <<chipVars, ie, ringVars, spiVars, mainVars>>

Isr == IsrClear \/ IsrMask \/ IsrLength \/ IsrPayload \/ IsrFlush \/ IsrEnable \/ IsrExit

-----------------------------------------------------------------------------
(* The main loop: pollhandler() and cc2520ll_prepare(). *)
MainAt(l) == pc = l /\ isr = "idle" /\ ~Irq

BadPending ==
  /\ MainAt("loop") /\ exc
  /\ pc' = "read"
  /\ UNCHANGED <<chipVars, ifg, ie, isr, ringVars, spiVars, packet, sendVars>>

pending_packet ==
  /\ MainAt("loop") /\ bufNumBytes(rxBuffer) # 0
  /\ pc' = "read"
  /\ UNCHANGED <<chipVars, ifg, ie, isr, ringVars, spiVars, packet, sendVars>>

(* Interrupts are off while the packet is copied. *)
packetReceive ==
  /\ MainAt("read")
  /\ pc' = "loop"
  /\ LET len == IF rxBuffer.nBytes = 0 THEN 0 ELSE bufBytes(rxBuffer, 1)[1][1].len
         rest == bufGet(rxBuffer, 1)
     IN IF len > MaxLen
        THEN rxBuffer' = bufFlush(rest) /\ packet' = <<>> /\ accepted' = <<>>
        ELSE /\ rxBuffer' = bufGet(rest, len)
             /\ packet' = bufBytes(rest, len)
             /\ accepted' = IF accepted = <<>> THEN <<>> ELSE Tail(accepted)
  /\ UNCHANGED <<chipVars, ifg, ie, isr, spiVars, sendVars>>

(* An SPI transfer: CS low; for each byte, write it and wait until one has *)
(* come back; CS high.  The byte is on the wire for less than it takes to  *)
(* enter a handler.  One sent with CS high goes nowhere, and the wait for  *)
(* one that a handler has read does not end.                               *)
Begin(l) == pc' = l /\ cs' = "low" /\ UNCHANGED rxReady

Write(l) == pc' = l /\ cs' = (IF cs = "high" THEN "high" ELSE "begun") /\ rxReady' = TRUE

Waits == [clearWait |-> "bit", bitWait |-> "clearEnd", flushWait |-> "flushEnd"]
Ends  == [clearEnd |-> "flag", flushEnd |-> "loop"]

SpiWait == \E l \in DOMAIN Waits :
  /\ MainAt(l)
  /\ IF rxReady THEN pc' = Waits[l] /\ rxReady' = FALSE ELSE UNCHANGED <<pc, rxReady>>
  /\ UNCHANGED <<chipVars, ifg, ie, isr, ringVars, cs, packet, sendVars>>

SpiEnd == \E l \in DOMAIN Ends :
  /\ MainAt(l)
  /\ pc' = Ends[l] /\ cs' = "high"
  /\ UNCHANGED <<chipVars, ifg, ie, isr, ringVars, rxReady, packet, sendVars>>

(* cc2520ll_prepare() of a frame that is not too long begins to clear      *)
(* RX_FRM_DONE: an instruction of two bytes.                               *)
prepare ==
  /\ MainAt("loop") /\ Begin("clear")
  /\ UNCHANGED <<chipVars, ifg, ie, isr, ringVars, packet, sendVars>>

prepareClear ==
  /\ MainAt("clear") /\ Write("clearWait")
  /\ UNCHANGED <<chipVars, ifg, ie, isr, ringVars, packet, sendVars>>

prepareBit ==
  /\ MainAt("bit") /\ Write("bitWait")
  /\ exc' = (exc /\ cs = "high")
  /\ UNCHANGED <<sent, fifo, ifg, ie, isr, ringVars, packet, sendVars>>

prepareFlag ==
  /\ MainAt("flag")
  /\ pc' = "mask" /\ ifg' = FALSE
  /\ UNCHANGED <<chipVars, ie, isr, ringVars, spiVars, packet, sendVars>>

prepareMask ==
  /\ MainAt("mask")
  /\ pc' = "write" /\ ie' = FALSE
  /\ UNCHANGED <<chipVars, ifg, isr, ringVars, spiVars, packet, sendVars>>

prepareEnable ==
  /\ MainAt("write")
  /\ txFifo' = txFifo + 1
  /\ pc' = "strobe" /\ timeout' = Tries /\ ie' = TRUE
  /\ UNCHANGED <<chipVars, ifg, isr, ringVars, spiVars, packet, cut>>

(* cc2520ll_transmit(): STXONCCA is strobed until the chip has found the   *)
(* channel clear and begun to send, or the time is over.                   *)
strobe ==
  /\ MainAt("strobe") /\ timeout > 1
  /\ timeout' = timeout - 1
  /\ pc' \in {"strobe", "sending"}
  /\ UNCHANGED <<chipVars, ifg, ie, isr, ringVars, spiVars, packet, txFifo, cut>>

BadTimeOut ==
  /\ MainAt("strobe") /\ timeout = 1
  /\ timeout' = 0 /\ pc' = "loop"
  /\ UNCHANGED <<chipVars, ifg, ie, isr, ringVars, spiVars, packet, txFifo, cut>>

(* The frame is given up: SFLUSHTX, with interrupts enabled. *)
timeOut ==
  /\ MainAt("strobe") /\ timeout = 1
  /\ timeout' = 0 /\ Begin("flush")
  /\ UNCHANGED <<chipVars, ifg, ie, isr, ringVars, packet, txFifo, cut>>

flushTx ==
  /\ MainAt("flush") /\ Write("flushWait")
  /\ IF cs = "low" THEN txFifo' = 0 /\ cut' = 0 ELSE UNCHANGED <<txFifo, cut>>
  /\ UNCHANGED <<chipVars, ifg, ie, isr, ringVars, packet, timeout>>

(* TX_FRM_DONE: one frame has left the buffer. *)
frameSent ==
  /\ MainAt("sending")
  /\ txFifo' = txFifo - 1 /\ pc' = "loop"
  /\ UNCHANGED <<chipVars, ifg, ie, isr, ringVars, spiVars, packet, timeout, cut>>

Receive == pending_packet \/ packetReceive
Sending ==
  \/ prepareClear \/ prepareBit \/ prepareFlag \/ prepareMask \/ prepareEnable
  \/ strobe \/ timeOut \/ flushTx \/ frameSent \/ SpiWait \/ SpiEnd
Transmit == prepare \/ Sending

Next == (\E f \in Frame : FrameDone(f)) \/ Isr \/ Receive \/ Transmit

(* The handler and a transmission in progress go on; cc2520_process polls  *)
(* itself, so that its poll handler comes up in every pass of the loop.    *)
Spec ==
  /\ Init /\ [][Next]_vars
  /\ WF_vars(Isr) /\ WF_vars(Sending)
  /\ SF_vars(pending_packet) /\ SF_vars(packetReceive)

-----------------------------------------------------------------------------
(* Type invariant. *)
TypeOK ==
  /\ sent \in 0 .. MaxFrames
  /\ fifo \in Seq(Frame) /\ Len(fifo) <= FifoSize
  /\ {exc, ifg, ie} \subseteq BOOLEAN
  /\ isr \in {"idle", "mask", "length", "payload", "flush", "enable", "exit"}
  /\ pc \in {"loop", "read", "clear", "bit", "flag", "mask", "write", "strobe", "sending",
            "flush"} \cup DOMAIN Waits \cup DOMAIN Ends
  /\ cs \in {"high", "low", "begun"} /\ rxReady \in BOOLEAN
  /\ timeout \in 0 .. Tries /\ txFifo \in Nat /\ cut \in Nat
  /\ rxBuffer.nBytes \in 0 .. RingLen - 1
  /\ rxBuffer.iHead \in 0 .. RingLen - 1 /\ rxBuffer.iTail \in 0 .. RingLen - 1
  /\ rxBuffer.pData \in [0 .. RingLen - 1 -> Byte \cup {<<>>}]
  /\ packet \in Seq(Byte)
  /\ accepted \in Seq(Frame)

(* The ring holds whole packets, length byte first, in the order in which  *)
(* they were put, also across its end and after a packet did not fit: a    *)
(* reader that trusts the byte at iHead as a length never reads astray.    *)
RingWhole ==
  bufBytes(rxBuffer, rxBuffer.nBytes) = FlattenSeq([i \in DOMAIN accepted |-> Mpdu(accepted[i])])

(* Every frame in the ring is handed up, unless the handler has fallen     *)
(* into one of the two transfers and read the byte the main loop waits     *)
(* for: nothing else keeps the poll handler from it.                       *)
Stuck == pc \in DOMAIN Waits /\ ~rxReady
Drained == \A n \in 1 .. MaxFrames :
  (\E i \in DOMAIN accepted : accepted[i].id = n) ~>
    ((\A i \in DOMAIN accepted : accepted[i].id # n) \/ Stuck)

(* What the chip sends is the frame of this call and no other, also when   *)
(* the channel was busy all the time: a frame stays behind in its buffer   *)
(* for each flush that a handler has cut off between CS low and its byte,  *)
(* until the next flush that is carried out, and for no other reason.      *)
OwnFrame == pc \in {"strobe", "sending"} => txFifo = 1 + cut

(* The driver is a lossy channel: frames are handed up in the order of     *)
(* their arrival and at most once, whatever is stranded in the chip while  *)
(* the interrupt is masked and flushed later.                              *)
Id(f) == f.id
InChannel == accepted \o fifo
Channel == INSTANCE LossyChannel WITH
  Message  <- 1 .. MaxFrames,
  inflight <- [i \in DOMAIN InChannel |-> InChannel[i].id],
  got      <- IF packet = <<>> THEN <<>> ELSE <<packet[1][1].id>>
ChannelSpec == Channel!CSpec

(* Outside its handler, a completed frame the chip signals has raised the  *)
(* interrupt: the flag is never left high without a rising edge to come.   *)
Listening == exc /\ isr = "idle" => ifg
=============================================================================
