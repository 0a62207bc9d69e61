------------------------------- MODULE UsbCdc -------------------------------
(***************************************************************************)
(* The serial line over USB (usb_cdc.c, usb_hardware.c, usb.c): two        *)
(* endpoint buffers for each direction, filled and emptied in turn by the  *)
(* host, by the USB interrupt and by calls of the main loop.  Calls and    *)
(* the interrupt exclude each other: every call disables interrupts.       *)
(*                                                                         *)
(* The host is not in the repository.  It fills or empties a buffer when   *)
(* the buffer's NAK bit allows, X and Y in turn, and raises the endpoint's *)
(* interrupt; a buffer's NAK bit is whether it holds bytes.                *)
(*                                                                         *)
(* A byte to the host is named by the memory it is read from when the      *)
(* interrupt copies it, and becomes Junk when that memory is given up or   *)
(* written anew before.                                                    *)
(***************************************************************************)
EXTENDS Integers, Sequences

CONSTANTS
  InMax,     \* EP_MAX_PACKET_SIZE_CDC, 63: most bytes of a packet to the host
  OutMax,    \* MAX_PACKET_SIZE, 64: most bytes of a packet from the host
  MaxTyped,  \* bound: bytes the host sends
  MaxBus     \* bound: times the bus is suspended or reset

ASSUME SizesAssumption ==
  InMax \in Nat \ {0} /\ OutMax \in Nat \ {0} /\ MaxTyped \in Nat /\ MaxBus \in Nat

VARIABLES
  bus,       \* up, suspended, or down: not enumerated
  troubles,  \* suspensions and resets so far
  outbuf, outHost, outIrq,   \* OUT: buffers X and Y, which is filled next, OEPIFG
  outCur,    \* CdcReadCtrl.bCurrentBufferXY
  inbuf, inHost, inIrq,      \* IN: buffers X and Y, which is emptied next, IEPIFG
  inCur,     \* CdcWriteCtrl.bCurrentBufferXY
  left,      \* what pBufferToSend points to, nCdcBytesToSendLeft bytes of it
  bDataReceived_event,
  typed,     \* bytes the host has sent
  seen,      \* history: how many of them were received
  owed       \* history: bytes given to USBCDC_sendData() and not collected

outVars == <<outbuf, outHost, outCur, typed, seen>>
inVars  == <<inbuf, inHost, inCur, left, owed>>
cdcVars == <<bus, troubles, outVars, inVars, outIrq, inIrq, bDataReceived_event>>

Buffers == {0, 1}
Byte == [id : 1 .. MaxTyped, cr : BOOLEAN]
Memory == {"stack", "line", "text", "const"}
Junk == <<"junk", 0>>
Item == (Memory \X (0 .. MaxTyped)) \cup {Junk}

Empty == [x \in Buffers |-> <<>>]
CdcInit ==
  /\ bus = "up" /\ troubles = 0
  /\ outbuf = Empty /\ outHost = 0 /\ outIrq = FALSE /\ outCur = 0
  /\ inbuf = Empty /\ inHost = 0 /\ inIrq = FALSE /\ inCur = 0
  /\ left = <<>> /\ bDataReceived_event = FALSE
  /\ typed = 0 /\ seen = 0 /\ owed = <<>>

Least(m, n) == IF m < n THEN m ELSE n
First(s, n) == SubSeq(s, 1, Least(Len(s), n))
After(s, n) == SubSeq(s, n + 1, Len(s))

-----------------------------------------------------------------------------
(* The host and the bus.                                                   *)

HostSends ==
  /\ bus = "up" /\ outbuf[outHost] = <<>>
  /\ \E n \in 1 .. Least(OutMax, MaxTyped - typed) : \E cr \in BOOLEAN :
       /\ outbuf' = [outbuf EXCEPT ![outHost] =
                       [i \in 1 .. n |-> [id |-> typed + i, cr |-> cr /\ i = n]]]
       /\ typed' = typed + n
  /\ outHost' = 1 - outHost /\ outIrq' = TRUE
  /\ UNCHANGED <<bus, troubles, outCur, seen, inVars, inIrq, bDataReceived_event>>

HostCollects ==
  /\ bus = "up" /\ inbuf[inHost] # <<>>
  /\ inbuf' = [inbuf EXCEPT ![inHost] = <<>>]
  /\ inHost' = 1 - inHost /\ inIrq' = TRUE
  /\ owed' = After(owed, Len(inbuf[inHost]))
  /\ UNCHANGED <<bus, troubles, outVars, outIrq, inCur, left, bDataReceived_event>>

USB_suspend ==
  /\ bus = "up" /\ troubles < MaxBus
  /\ bus' = "suspended" /\ troubles' = troubles + 1
  /\ UNCHANGED <<outVars, inVars, outIrq, inIrq, bDataReceived_event>>

\* Both buffers of both endpoints are emptied and CdcResetData() follows.
USB_reset ==
  /\ troubles < MaxBus
  /\ bus' = "down" /\ troubles' = troubles + 1
  /\ outbuf' = Empty /\ outHost' = 0 /\ outCur' = 0 /\ seen' = typed
  /\ inbuf' = Empty /\ inHost' = 0 /\ inCur' = 0 /\ left' = <<>> /\ owed' = <<>>
  /\ UNCHANGED <<typed, outIrq, inIrq, bDataReceived_event>>

\* USB_resume, and usbSetConfiguration after a reset.
BusUp ==
  /\ bus # "up" /\ bus' = "up"
  /\ UNCHANGED <<troubles, outVars, inVars, outIrq, inIrq, bDataReceived_event>>

Host == HostSends \/ HostCollects \/ USB_suspend \/ USB_reset

-----------------------------------------------------------------------------
(* The USB interrupt.                                                      *)

\* No receive operation is ever under way when data come in: see NoneOpen.
IsrOut ==
  /\ outIrq /\ outIrq' = FALSE
  /\ bDataReceived_event' = TRUE
  /\ UNCHANGED <<bus, troubles, outVars, inVars, inIrq>>

BadToHost ==                \* the second buffer is taken for free
  IF left = <<>> \/ inbuf[inCur] # <<>> THEN UNCHANGED <<inbuf, inCur, left>>
  ELSE LET rest == After(left, InMax)
       IN IF rest = <<>>
          THEN /\ inbuf' = [inbuf EXCEPT ![inCur] = left]
               /\ inCur' = 1 - inCur /\ left' = <<>>
          ELSE /\ inbuf' = [x \in Buffers |-> IF x = inCur THEN First(left, InMax) ELSE First(rest, InMax)]
               /\ left' = After(rest, InMax) /\ UNCHANGED inCur
\* CdcToHostFromBuffer(): one packet, and a second if its buffer is free too.
ToHost ==
  IF left = <<>> \/ inbuf[inCur] # <<>> THEN UNCHANGED <<inbuf, inCur, left>>
  ELSE LET rest == After(left, InMax)
       IN IF rest = <<>> \/ inbuf[1 - inCur] # <<>>
          THEN /\ inbuf' = [inbuf EXCEPT ![inCur] = First(left, InMax)]
               /\ inCur' = 1 - inCur /\ left' = rest
          ELSE /\ inbuf' = [x \in Buffers |-> IF x = inCur THEN First(left, InMax) ELSE First(rest, InMax)]
               /\ left' = After(rest, InMax) /\ UNCHANGED inCur

IsrIn ==
  /\ inIrq /\ inIrq' = FALSE
  /\ ToHost
  /\ UNCHANGED <<bus, troubles, outVars, outIrq, inHost, owed, bDataReceived_event>>

Isr == IsrOut \/ IsrIn

-----------------------------------------------------------------------------
(* Calls of the main loop.                                                 *)

BadBytesInUSBBuffer ==      \* adds the count of the X buffer for both
  IF bus # "up" THEN 0 ELSE Len(outbuf[0]) + Len(outbuf[0])
USBCDC_bytesInUSBBuffer ==
  IF bus # "up" THEN 0 ELSE Len(outbuf[0]) + Len(outbuf[1])

\* USBCDC_receiveData(): the current buffer, and when it is used up the other.
FromCurrent(n) == Least(n, Len(outbuf[outCur]))
UsedUp(n) == FromCurrent(n) > 0 /\ FromCurrent(n) = Len(outbuf[outCur])
FromOther(n) == IF UsedUp(n) THEN Least(n - FromCurrent(n), Len(outbuf[1 - outCur])) ELSE 0
Received(n) == SubSeq(outbuf[outCur], 1, FromCurrent(n)) \o SubSeq(outbuf[1 - outCur], 1, FromOther(n))

BadReceiveData(n) ==        \* the current buffer changes once, not twice
  /\ outbuf' = [x \in Buffers |-> IF x = outCur THEN After(outbuf[x], FromCurrent(n))
                                               ELSE After(outbuf[x], FromOther(n))]
  /\ outCur' = IF UsedUp(n) THEN 1 - outCur ELSE outCur
  /\ seen' = seen + FromCurrent(n) + FromOther(n)
USBCDC_receiveData(n) ==
  /\ outbuf' = [x \in Buffers |-> IF x = outCur THEN After(outbuf[x], FromCurrent(n))
                                               ELSE After(outbuf[x], FromOther(n))]
  /\ outCur' = IF UsedUp(n) /\ (FromOther(n) = 0 \/ FromOther(n) < Len(outbuf[1 - outCur]))
               THEN 1 - outCur ELSE outCur
  /\ seen' = seen + FromCurrent(n) + FromOther(n)

Waiting == bus = "up" /\ left # <<>>   \* kUSBCDC_waitingForSend

BadSendData(s) ==           \* does not start the transfer
  IF bus # "up" \/ s = <<>> \/ left # <<>> THEN UNCHANGED <<left, owed, inIrq>>
  ELSE left' = s /\ owed' = owed \o s /\ UNCHANGED inIrq
\* USBCDC_sendData(): refused without a bus, without a byte, or when busy.
USBCDC_sendData(s) ==
  IF bus # "up" \/ s = <<>> \/ left # <<>> THEN UNCHANGED <<left, owed, inIrq>>
  ELSE left' = s /\ owed' = owed \o s /\ inIrq' = TRUE

\* What is still to be copied from memory M, once M holds something else.
Lost(M) == [i \in DOMAIN left |-> IF left[i][1] \in M THEN Junk ELSE left[i]]

-----------------------------------------------------------------------------
CdcTypeOK ==
  /\ bus \in {"up", "suspended", "down"} /\ troubles \in 0 .. MaxBus
  /\ outbuf \in [Buffers -> Seq(Byte)] /\ \A x \in Buffers : Len(outbuf[x]) <= OutMax
  /\ inbuf \in [Buffers -> Seq(Item)] /\ \A x \in Buffers : Len(inbuf[x]) <= InMax
  /\ {outHost, outCur, inHost, inCur} \subseteq Buffers
  /\ {outIrq, inIrq, bDataReceived_event} \subseteq BOOLEAN
  /\ left \in Seq(Item) /\ owed \in Seq(Item)
  /\ typed \in 0 .. MaxTyped /\ seen \in 0 .. typed

\* Nothing the host sent is lost, repeated or put out of order on its way to
\* the reader, whichever of the two buffers each packet is in: read in turn
\* from the current one, where reading starts, they hold just the bytes not
\* received yet.
Unread == outbuf[outCur] \o outbuf[1 - outCur]
InputWhole ==
  /\ Len(Unread) = typed - seen
  /\ \A i \in 1 .. Len(Unread) : Unread[i].id = seen + i
  /\ Unread # <<>> => outbuf[outCur] # <<>>

\* Nothing given to USBCDC_sendData() is lost, repeated or put out of order on
\* its way to the host, although packets leave from two buffers and the rest
\* is read from the caller's memory later; only what that memory no longer
\* holds may be wrong, byte for byte.  The host finds it where it looks next.
InFlight == inbuf[inHost] \o inbuf[1 - inHost]
Unsent == InFlight \o left
OutputWhole ==
  /\ Len(Unsent) = Len(owed)
  /\ \A i \in 1 .. Len(owed) : Unsent[i] \in {owed[i], Junk}
  /\ InFlight # <<>> => inbuf[inHost] # <<>>
=============================================================================
