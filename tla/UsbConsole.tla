----------------------------- MODULE UsbConsole -----------------------------
(***************************************************************************)
(* The console on the serial line: the poll handler of usb_input_process   *)
(* (usb-processes.c), which collects a command line, echoes it and posts   *)
(* it to coap_app_client, and the two other threads that print, the client *)
(* itself (coap_app_client.c) and the tag reader (rfid-processes.c).       *)
(*                                                                         *)
(* Threads are not preempted, but sendData_inBackground() waits for the    *)
(* previous text to leave and returns with its own still to be copied by   *)
(* the interrupt.  It has no timeout in any of its calls.                  *)
(*                                                                         *)
(* `line' may grow beyond MAX_STR_LENGTH, as strcat() lets it; what it     *)
(* then overwrites is not modelled.                                        *)
(***************************************************************************)
EXTENDS UsbCdc

CONSTANTS
  MaxStr,     \* MAX_STR_LENGTH, 96
  NumEvents,  \* PROCESS_CONF_NUMEVENTS
  MaxTexts    \* bound: texts the client and the tag reader print

ASSUME ConsoleAssumption == MaxStr \in Nat /\ NumEvents \in Nat /\ MaxTexts \in Nat

VARIABLES
  pc,         \* what the main loop is doing
  piece,      \* pieceOfString
  want,       \* bytesInBuf of receiveDataInBuffer()
  wholeString,
  todo,       \* what the running thread has still to send
  command,    \* whether the line was complete
  requests,   \* PROCESS_EVENT_CONTINUE queued for coap_app_client
  texts       \* texts the other threads have printed

conVars == <<pc, piece, want, wholeString, todo, command, requests, texts>>
vars == <<cdcVars, conVars>>

Init ==
  /\ CdcInit
  /\ pc = "idle" /\ piece = <<>> /\ want = 0 /\ wholeString = <<>>
  /\ todo = <<>> /\ command = FALSE /\ requests = 0 /\ texts = 0

HasReturn(s) == \E i \in DOMAIN s : s[i].cr

BadReport == <<<<"const", 0>>, <<"line", 0>>>>
\* parse_line(): seven texts, every other one a part of wholeString.
Report == <<<<"const", 0>>, <<"line", 0>>, <<"const", 0>>, <<"line", 0>>,
            <<"const", 0>>, <<"line", 0>>, <<"const", 0>>>>

Echo(s) == [i \in DOMAIN s |-> <<"stack", s[i].id>>]
Texts(s) == [i \in DOMAIN s |-> <<s[i]>>]

-----------------------------------------------------------------------------
(* The poll handler.                                                       *)

PollStart ==
  /\ pc = "idle" /\ bDataReceived_event
  /\ pc' = "count" /\ piece' = <<>>
  /\ UNCHANGED <<cdcVars, want, wholeString, todo, command, requests, texts>>

\* The loop of receiveDataInBuffer() goes on while the bytes that wait fit.
More == USBCDC_bytesInUSBBuffer > 0 /\ Len(piece) + USBCDC_bytesInUSBBuffer <= MaxStr

Count ==
  /\ pc = "count" /\ More
  /\ want' = USBCDC_bytesInUSBBuffer
  /\ pc' = "receive"
  /\ UNCHANGED <<cdcVars, piece, wholeString, todo, command, requests, texts>>

Receive ==
  /\ pc = "receive"
  /\ pc' = "count" /\ want' = 0
  /\ IF bus = "up"
     THEN USBCDC_receiveData(want) /\ piece' = piece \o Received(want)
     ELSE UNCHANGED <<outbuf, outCur, seen, piece>>
  /\ UNCHANGED <<bus, troubles, outHost, typed, inVars, outIrq, inIrq, bDataReceived_event,
                 wholeString, todo, command, requests, texts>>

\* strcat; the echo and, with a return in the line, parse_line() are to follow.
CountDone ==
  /\ pc = "count" /\ ~More
  /\ wholeString' = wholeString \o piece
  /\ command' = HasReturn(wholeString')
  /\ todo' = <<Echo(piece)>> \o (IF command' THEN Texts(Report) ELSE <<>>)
  /\ pc' = "send"
  /\ UNCHANGED <<cdcVars, piece, want, requests, texts>>

\* sendData_inBackground().
Send ==
  /\ pc = "send" /\ todo # <<>> /\ ~Waiting
  /\ USBCDC_sendData(Head(todo))
  /\ todo' = Tail(todo)
  /\ UNCHANGED <<bus, troubles, outVars, inbuf, inHost, inCur, outIrq, bDataReceived_event,
                 pc, piece, want, wholeString, command, requests, texts>>

\* A complete line is posted, if the queue has room, and cleared in any case.
\* With the return the frame that holds `piece' is given up.
PollDone ==
  /\ pc = "send" /\ todo = <<>>
  /\ pc' = "idle"
  /\ left' = Lost(IF command THEN {"stack", "line"} ELSE {"stack"})
  /\ wholeString' = IF command THEN <<>> ELSE wholeString
  /\ requests' \in IF command /\ requests < NumEvents THEN {requests, requests + 1} ELSE {requests}
  /\ command' = FALSE /\ piece' = <<>>
  /\ bDataReceived_event' = FALSE
  /\ UNCHANGED <<bus, troubles, outVars, inbuf, inHost, inCur, owed, outIrq, inIrq,
                 want, todo, texts>>

-----------------------------------------------------------------------------
(* The other threads.                                                      *)

\* send_data() puts a request on the network.
ClientContinue ==
  /\ pc = "idle" /\ requests > 0
  /\ requests' = requests - 1
  /\ UNCHANGED <<cdcVars, pc, piece, want, wholeString, todo, command, texts>>

Put(item) ==
  /\ pc = "idle" /\ texts < MaxTexts
  /\ texts' = texts + 1
  /\ todo' = <<<<item>>>> /\ pc' = "print"
  /\ UNCHANGED <<bus, troubles, outVars, inbuf, inHost, inCur, owed, outIrq, inIrq,
                 bDataReceived_event, piece, want, wholeString, command, requests>>

\* The client's text is always the same, the tag reader writes a new one.
ClientPrint == Put(<<"const", 0>>) /\ UNCHANGED left
TagPrint == Put(<<"text", 0>>) /\ left' = Lost({"text"})

PrintSend ==
  /\ pc = "print" /\ ~Waiting
  /\ USBCDC_sendData(Head(todo))
  /\ todo' = <<>> /\ pc' = "idle"
  /\ UNCHANGED <<bus, troubles, outVars, inbuf, inHost, inCur, outIrq, bDataReceived_event,
                 piece, want, wholeString, command, requests, texts>>

Main ==
  \/ PollStart \/ Count \/ Receive \/ CountDone \/ Send \/ PollDone
  \/ ClientContinue \/ ClientPrint \/ TagPrint \/ PrintSend

\* Resuming or enumerating takes far longer than the few instructions of the
\* loop that counts and reads what waits.
BusBack == pc \notin {"count", "receive"} /\ BusUp

Next ==
  \/ Main
  \/ (Host \/ Isr \/ BusBack) /\ UNCHANGED conVars

\* The main loop and the interrupt go on, and the host takes what is ready.
Spec ==
  /\ Init /\ [][Next]_vars
  /\ WF_vars(Main) /\ WF_vars(Isr /\ UNCHANGED conVars)
  /\ WF_vars(HostCollects /\ UNCHANGED conVars)

-----------------------------------------------------------------------------
TypeOK ==
  /\ CdcTypeOK
  /\ pc \in {"idle", "count", "receive", "send", "print"}
  /\ piece \in Seq(Byte) /\ Len(piece) <= MaxStr /\ wholeString \in Seq(Byte)
  /\ want \in 0 .. MaxStr
  /\ todo \in Seq(Seq(Item)) /\ command \in BOOLEAN
  /\ requests \in 0 .. NumEvents /\ texts \in 0 .. MaxTexts

\* receiveDataInBuffer() asks for bytes it has counted a moment before, and
\* gets them all, so no receive operation stays open: the interrupt would
\* complete it later, into a stack frame that is gone.
NoneOpen == pc = "receive" /\ bus = "up" => want = Len(Received(want))

\* As long as the bus is there, the parts of the command line that are printed
\* are copied before the line is cleared, although the last text may still be
\* under way by then.  (A suspended bus refuses the texts that follow, and with
\* them the wait for the part before.)
ReportWhole ==
  troubles = 0 => \A i \in DOMAIN owed : owed[i][1] = "line" => Unsent[i] = owed[i]

\* A thread that prints goes on, as long as the host takes what is ready or
\* the bus is gone.
Prints == pc \in {"send", "print"} ~> pc = "idle"
=============================================================================
