-------------------------------- MODULE Rfid --------------------------------
(***************************************************************************)
(* The tag reader: the threads rfid_find_tags and tagit_inventory_request  *)
(* of rfid-processes.c, the interrupt handler of the reader chip           *)
(* (trf_hardware.c), the chip itself and the two timers.                   *)
(*                                                                         *)
(* rfid_find_tags switches the field on once a second and posts CONTINUE   *)
(* to tagit_inventory_request.  That thread sends a request, looks at      *)
(* MaxSlot reply slots and posts CONTINUE back.  It learns of every        *)
(* transmission and reply from i_reg, which the interrupt handler writes;  *)
(* the handler posts CONTINUE to it as well, and drops the event when the  *)
(* queue is full.                                                          *)
(*                                                                         *)
(* Both threads run to their next wait before the main loop takes another  *)
(* event, but the interrupt may fall between any two steps of              *)
(* tagit_inventory_request.  A transaction on the parallel bus is one      *)
(* step, and the inventory mask (NewMask, Newlength) is left out: it only  *)
(* decides which tags reply.                                               *)
(***************************************************************************)
EXTENDS Integers, Sequences

CONSTANTS
  NumEvents, \* PROCESS_CONF_NUMEVENTS
  MaxSlot,   \* reply slots of one inventory: 16 in the firmware
  MaxOther   \* bound: events other parts of the firmware post

ASSUME RfidAssumption ==
  /\ NumEvents \in Nat \ {0}
  /\ MaxSlot \in Nat \ {0}
  /\ MaxOther \in Nat

Timers == {"find", "i_r"}
Flags  == {"tx", "rx", "fifo", "crc", "col", "nores"}
  \* of IRQStatus: BIT7, BIT6, BIT5, BIT4 (BIT2 is handled alike), BIT1, BIT0

(* `by' is who posted the event; the code cannot see it. *)
Event == [p : {"find", "tagit", "other"}, ev : {"continue", "timer"},
          by : {"find", "tagit", "isr", "etimer", "other"}]
Continue(p, by) == [p |-> p, ev |-> "continue", by |-> by]
Owner == [t \in Timers |-> IF t = "find" THEN "find" ELSE "tagit"]

VARIABLES
  queue,   \* the kernel's events, oldest first
  timer,   \* each etimer: unset, running, or expired with its event posted
  fpc,     \* the wait rfid_find_tags is in
  tpc,     \* where tagit_inventory_request is
  slot,    \* its i
  found,
  i_reg,   \* busy (1), none (0), collision (2) or sid (0xFF)
  RXErrorFlag,
  job,     \* what the chip is doing
  status,  \* its IRQStatus; the interrupt pin is high while it is not 0
  flag, ie, \* P1IFG and P1IE, bit 5
  isr,     \* whether trf_interrupt() is running
  Register, \* the status it read
  lost,    \* whether a thread's CONTINUE was dropped
  others,  \* events other parts of the firmware may still post
  missed,  \* history: whether a report has come that the code cannot make use of
  hurried  \* history: whether a report has come before its thread waited

findVars  == <<fpc>>
tagitVars == <<tpc, slot, found>>
chipVars  == <<job, status>>
irqVars   == <<flag, ie, isr, Register>>
historyVars == <<missed, hurried>>
vars == <<queue, timer, findVars, tagitVars, i_reg, RXErrorFlag, chipVars,
          irqVars, lost, others, historyVars>>

Init ==
  /\ queue = <<>>
  /\ timer = [t \in Timers |-> IF t = "find" THEN "running" ELSE "unset"]
  /\ fpc = "first"
  /\ tpc = "idle"
  /\ slot = 1
  /\ found = FALSE
  /\ i_reg = "none"
  /\ RXErrorFlag = FALSE
  /\ job = "none"
  /\ status = {}
  /\ flag = FALSE
  /\ ie = FALSE
  /\ isr = FALSE
  /\ Register = {}
  /\ lost = FALSE
  /\ others = MaxOther
  /\ missed = FALSE
  /\ hurried = FALSE

Full == Len(queue) = NumEvents

(* An enabled interrupt is taken before the program goes on. *)
CpuFree == ~isr /\ ~(flag /\ ie)

(* The main loop runs when tagit_inventory_request is waiting. *)
MainLoop == CpuFree /\ tpc \in {"idle", "txwait", "slotwait"}

(* A thread's process_post(), on the queue q its own event left behind. *)
Post(q, e) == IF Len(q) = NumEvents THEN q ELSE Append(q, e)

-----------------------------------------------------------------------------
(* etimer: an expired timer stays running while its event cannot be posted. *)
Expire(t) ==
  /\ MainLoop
  /\ timer[t] = "running"
  /\ ~Full
  /\ timer' = [timer EXCEPT ![t] = "expired"]
  /\ queue' = Append(queue, [p |-> Owner[t], ev |-> "timer", by |-> "etimer"])
  /\ UNCHANGED <<findVars, tagitVars, i_reg, RXErrorFlag, chipVars, irqVars,
                 lost, others, historyVars>>

OtherPost ==
  /\ MainLoop
  /\ others > 0
  /\ ~Full
  /\ others' = others - 1
  /\ queue' = Append(queue, Continue("other", "other"))
  /\ UNCHANGED <<timer, findVars, tagitVars, i_reg, RXErrorFlag, chipVars,
                 irqVars, lost, historyVars>>

OtherTake ==
  /\ MainLoop
  /\ queue # <<>>
  /\ Head(queue).p = "other"
  /\ queue' = Tail(queue)
  /\ UNCHANGED <<timer, findVars, tagitVars, i_reg, RXErrorFlag, chipVars,
                 irqVars, lost, others, historyVars>>

-----------------------------------------------------------------------------
(* rfid_find_tags takes an event. *)

FindEvent ==
  /\ MainLoop
  /\ queue # <<>>
  /\ Head(queue).p = "find"

(* The condition it waits for does not hold. *)
FindIgnore ==
  /\ FindEvent
  /\ IF fpc = "done" THEN Head(queue).ev # "continue"
                     ELSE timer["find"] # "expired"
  /\ queue' = Tail(queue)
  /\ UNCHANGED <<timer, findVars, tagitVars, i_reg, RXErrorFlag, chipVars,
                 irqVars, lost, others, historyVars>>

FindHalf ==
  /\ FindEvent
  /\ fpc = "first"
  /\ timer["find"] = "expired"
  /\ queue' = Tail(queue)
  /\ timer' = [timer EXCEPT !["find"] = "running"]
  /\ fpc' = "second"
  /\ UNCHANGED <<tagitVars, i_reg, RXErrorFlag, chipVars, irqVars, lost, others, historyVars>>

(* start_find_tagit() and the request. *)
BadFindAsk ==
  /\ FindEvent
  /\ fpc = "second"
  /\ timer["find"] = "expired"
  /\ queue' = Tail(queue)
  /\ fpc' = "done"
  /\ UNCHANGED <<timer, tagitVars, i_reg, RXErrorFlag, chipVars, irqVars, lost,
                 others, historyVars>>

FindAsk ==
  /\ FindEvent
  /\ fpc = "second"
  /\ timer["find"] = "expired"
  /\ queue' = Post(Tail(queue), Continue("tagit", "find"))
  /\ fpc' = "done"
  /\ UNCHANGED <<timer, tagitVars, i_reg, RXErrorFlag, chipVars, irqVars, lost,
                 others, historyVars>>

(* end_find_tagit() reads, and so clears, IRQStatus. *)
FindDone ==
  /\ FindEvent
  /\ fpc = "done"
  /\ Head(queue).ev = "continue"
  /\ queue' = Tail(queue)
  /\ status' = {}
  /\ timer' = [timer EXCEPT !["find"] = "running"]
  /\ fpc' = "first"
  /\ UNCHANGED <<tagitVars, i_reg, RXErrorFlag, job, irqVars, lost, others, historyVars>>

-----------------------------------------------------------------------------
(* tagit_inventory_request takes an event. *)

TagitEvent(at) ==
  /\ MainLoop
  /\ tpc = at
  /\ queue # <<>>
  /\ Head(queue).p = "tagit"
  /\ queue' = Tail(queue)

TagitIgnore ==
  /\ TagitEvent("idle")
  /\ Head(queue).ev # "continue"
  /\ UNCHANGED <<timer, findVars, tagitVars, i_reg, RXErrorFlag, chipVars,
                 irqVars, lost, others, historyVars>>

(* Up to TRF_IRQ_ON(): the request is in the chip's FIFO. *)
Begin ==
  /\ TagitEvent("idle")
  /\ Head(queue).ev = "continue"
  /\ found' = FALSE
  /\ i_reg' = "busy"
  /\ job' = "tx"
  /\ flag' = FALSE
  /\ ie' = TRUE
  /\ tpc' = "txtest"
  /\ UNCHANGED <<timer, findVars, slot, RXErrorFlag, status, isr, Register,
                 lost, others, historyVars>>

(* while (i_reg == 0x01): set the timer and wait, for either event. *)
BadTest(at, wait, next) ==
  /\ CpuFree
  /\ tpc = at
  /\ tpc' = IF i_reg = "busy" THEN wait ELSE next
  /\ UNCHANGED <<queue, timer, findVars, slot, found, i_reg, RXErrorFlag,
                 chipVars, irqVars, lost, others, historyVars>>

Test(at, wait, next) ==
  /\ CpuFree
  /\ tpc = at
  /\ IF i_reg = "busy"
     THEN tpc' = wait /\ timer' = [timer EXCEPT !["i_r"] = "running"]
     ELSE tpc' = next /\ UNCHANGED timer
  /\ UNCHANGED <<queue, findVars, slot, found, i_reg, RXErrorFlag, chipVars,
                 irqVars, lost, others, historyVars>>

Wake(at, test) ==
  /\ TagitEvent(at)
  /\ tpc' = test
  /\ UNCHANGED <<timer, findVars, slot, found, i_reg, RXErrorFlag, chipVars,
                 irqVars, lost, others, historyVars>>

TxTest   == Test("txtest", "txwait", "first")
TxWake   == Wake("txwait", "txtest")
SlotTest == Test("slottest", "slotwait", "slotdone")
SlotWake == Wake("slotwait", "slottest")

(* The head of the for loop. *)
Arm(at, i) ==
  /\ CpuFree
  /\ tpc = at
  /\ slot' = i
  /\ i_reg' = "busy"
  /\ tpc' = "slottest"
  /\ UNCHANGED <<queue, timer, findVars, found, RXErrorFlag, chipVars, irqVars,
                 lost, others, historyVars>>

FirstSlot == Arm("first", 1)
NextSlot  == Arm("next", slot + 1)

BadSlotDoneSilent ==
  /\ CpuFree
  /\ tpc = "slotdone"
  /\ found' = (found \/ i_reg = "sid")
  /\ IF slot < MaxSlot
     THEN /\ job' = (IF slot < MaxSlot - 1 THEN "slot" ELSE job)
          /\ tpc' = "next"
     ELSE tpc' = "finish" /\ UNCHANGED job
  /\ UNCHANGED <<queue, timer, findVars, slot, i_reg, RXErrorFlag, status,
                 irqVars, lost, others, historyVars>>

(* The reply is read, then Reset and, but for the last slot,               *)
(* TransmitNextSlot.                                                       *)
SlotDone ==
  /\ CpuFree
  /\ tpc = "slotdone"
  /\ found' = (found \/ i_reg = "sid")
  /\ IF slot < MaxSlot
     THEN job' = "slot" /\ tpc' = "next"
     ELSE tpc' = "finish" /\ UNCHANGED job
  /\ UNCHANGED <<queue, timer, findVars, slot, i_reg, RXErrorFlag, status,
                 irqVars, lost, others, historyVars>>

(* After the loop.  With a tag found the interrupt flag is cleared too. *)
BadFinish ==
  /\ CpuFree
  /\ tpc = "finish"
  /\ flag' = (flag /\ ~found)
  /\ ie' = FALSE
  /\ tpc' = "idle"
  /\ queue' = IF found THEN Post(queue, Continue("find", "tagit")) ELSE queue
  /\ lost' = (lost \/ Full)
  /\ UNCHANGED <<timer, findVars, slot, found, i_reg, RXErrorFlag, chipVars,
                 isr, Register, others, historyVars>>

Finish ==
  /\ CpuFree
  /\ tpc = "finish"
  /\ flag' = (flag /\ ~found)
  /\ ie' = FALSE
  /\ tpc' = "idle"
  /\ queue' = Post(queue, Continue("find", "tagit"))
  /\ lost' = (lost \/ Full)
  /\ UNCHANGED <<timer, findVars, slot, found, i_reg, RXErrorFlag, chipVars,
                 isr, Register, others, historyVars>>

-----------------------------------------------------------------------------
(* trf_interrupt() and InterruptHandlerReader().  The chip may raise a     *)
(* status between the two steps.                                           *)

IsrRead ==
  /\ ~isr
  /\ flag
  /\ ie
  /\ isr' = TRUE
  /\ flag' = FALSE
  /\ Register' = status
  /\ status' = {}
  /\ UNCHANGED <<queue, timer, findVars, tagitVars, i_reg, RXErrorFlag, job, ie,
                 lost, others, historyVars>>

(* The status is read again, and with `clear' the flag cleared. *)
Reread(clear) ==
  /\ status' = {}
  /\ flag' = (flag /\ ~clear)

Verdict(reg) ==
  CASE reg = {"tx"}                      -> "none"
    [] "col" \in reg                     -> "collision"
    [] reg = {"rx"}                      -> IF RXErrorFlag THEN "collision" ELSE "sid"
    [] reg = {"nores"}                   -> "none"
    [] OTHER                             -> "collision"

(* 0x60: nine bytes are in the FIFO.  With the pin high the status is read *)
(* again: the reception has ended, ended in error, or goes on; with the    *)
(* pin low it is taken to have ended.                                      *)
NineBytes ==
  /\ Reread(status # {})
  /\ i_reg' = CASE status \in {{}, {"rx"}} -> "sid"
                [] status = {"rx", "crc"}  -> "collision"
                [] OTHER                   -> "busy"
  /\ UNCHANGED RXErrorFlag

(* What becomes of i_reg. *)
Handle ==
  CASE Register = {"tx", "fifo"} -> UNCHANGED <<i_reg, RXErrorFlag, status, flag>>
    [] Register = {"rx", "fifo"} -> NineBytes
    [] /\ "col" \notin Register
       /\ {"crc", "fifo"} \subseteq Register
         -> /\ i_reg' = "busy"
            /\ RXErrorFlag' = TRUE
            /\ UNCHANGED <<status, flag>>
    [] OTHER
         -> /\ i_reg' = Verdict(Register)
            /\ IF \/ "col" \in Register
                  \/ Register \notin {{"tx"}, {"rx"}, {"nores"}} /\ "crc" \notin Register
               THEN Reread(TRUE)
               ELSE UNCHANGED <<status, flag>>
            /\ UNCHANGED RXErrorFlag

IsrHandle ==
  /\ isr
  /\ isr' = FALSE
  /\ Register' = {}
  /\ Handle
  /\ queue' = Post(queue, Continue("tagit", "isr"))
  /\ UNCHANGED <<timer, findVars, tagitVars, job, ie, lost, others, historyVars>>

-----------------------------------------------------------------------------
(* The chip raises bits of IRQStatus; the pin rises, and sets the          *)
(* interrupt flag, when it was low.  It does not wait for the program.     *)

(* Three reports that the code does not provide for: the reply to a slot   *)
(* comes before i_reg is set busy for it, and is overwritten; a CRC error  *)
(* is read together with the nine bytes, and the reply taken to go on; a   *)
(* collision is found when the status is read again, and dropped.          *)
Missed(bits) ==
  \/ job # "tx" /\ tpc \notin {"slottest", "slotwait"}
  \/ {"crc", "fifo"} \subseteq status \cup bits /\ status # {} /\ "col" \notin bits
  \/ isr /\ Register = {"rx", "fifo"} /\ bits = {"col"}

Raise(bits, next) ==
  /\ status' = status \cup bits
  /\ flag' = (flag \/ status = {})
  /\ job' = next
  /\ missed' = (missed \/ Missed(bits))
  /\ hurried' = (hurried \/ tpc \notin {"txwait", "slotwait"})
  /\ UNCHANGED <<queue, timer, findVars, tagitVars, i_reg, RXErrorFlag, ie, isr,
                 Register, lost, others>>

(* The request is out, and the first slot begins. *)
TxEnd == job = "tx" /\ Raise({"tx"}, "slot")

Replying == job \in {"slot", "receiving"}

Silence == job = "slot" /\ Replying /\ Raise({"nores"}, "none")
Collide == Replying /\ Raise({"col"}, "none")
NineIn  == job = "slot" /\ Replying /\ Raise({"rx", "fifo"}, "receiving")
BadBits == job = "slot" /\ Replying /\ Raise({"crc", "fifo"}, "receiving")
ReplyEnd == Replying /\ \E bits \in {{"rx"}, {"rx", "crc"}} : Raise(bits, "none")

-----------------------------------------------------------------------------
Tagit == \/ TagitIgnore \/ Begin \/ TxTest \/ TxWake \/ FirstSlot \/ SlotTest
         \/ SlotWake \/ SlotDone \/ NextSlot \/ Finish
Find  == FindIgnore \/ FindHalf \/ FindAsk \/ FindDone
Isr   == IsrRead \/ IsrHandle
Chip  == TxEnd \/ Silence \/ Collide \/ NineIn \/ BadBits \/ ReplyEnd

Next == \/ \E t \in Timers : Expire(t)
        \/ OtherPost \/ OtherTake
        \/ Find \/ Tagit \/ Isr \/ Chip

(* The main loop comes round, interrupts are taken, clocks go on and the   *)
(* chip completes what it was told to do.                                  *)
Fairness == /\ WF_vars(OtherTake \/ Find \/ Tagit)
            /\ WF_vars(Isr)
            /\ WF_vars(Chip)
            /\ \A t \in Timers : WF_vars(Expire(t))

Spec == Init /\ [][Next]_vars /\ Fairness

-----------------------------------------------------------------------------
TypeOK ==
  /\ queue \in Seq(Event)
  /\ Len(queue) <= NumEvents
  /\ timer \in [Timers -> {"unset", "running", "expired"}]
  /\ fpc \in {"first", "second", "done"}
  /\ tpc \in {"idle", "txtest", "txwait", "first", "slottest", "slotwait",
              "slotdone", "next", "finish"}
  /\ slot \in 1 .. MaxSlot
  /\ found \in BOOLEAN
  /\ i_reg \in {"busy", "none", "collision", "sid"}
  /\ RXErrorFlag \in BOOLEAN
  /\ job \in {"none", "tx", "slot", "receiving"}
  /\ status \subseteq Flags
  /\ flag \in BOOLEAN /\ ie \in BOOLEAN /\ isr \in BOOLEAN
  /\ lost \in BOOLEAN /\ missed \in BOOLEAN /\ hurried \in BOOLEAN
  /\ Register \subseteq Flags
  /\ others \in 0 .. MaxOther

(* A CONTINUE for thread p is in q. *)
Has(q, p) == \E k \in 1 .. Len(q) : q[k].p = p /\ q[k].ev = "continue"

(* The two threads never wait for each other: while rfid_find_tags waits   *)
(* for the end of an inventory, one is running or a CONTINUE for one of    *)
(* the two is queued, whatever the interrupt handler posts.                *)
NotStranded ==
  fpc = "done" /\ ~lost => tpc # "idle" \/ Has(queue, "find") \/ Has(queue, "tagit")

(* A thread waiting for i_reg to change waits for something: the chip is   *)
(* at work, or its interrupt is still to be taken.  It holds with chip and *)
(* interrupt falling anywhere, between the test of i_reg and the wait      *)
(* included, until a report comes that the code does not provide for:      *)
(* from then on the thread may wait for ever, as no timeout changes i_reg. *)
Awaited ==
  tpc \in {"txwait", "slotwait"} /\ i_reg = "busy" =>
    job # "none" \/ (flag /\ ie) \/ isr \/ missed

(* Every inventory ends, although its events may be dropped: the timer is  *)
(* set again before every wait.  Nothing but a missed report prevents it.  *)
RoundEnds == (tpc # "idle") ~> (tpc = "idle" \/ missed)

(* rfid_find_tags gets back to its loop, unless a report was missed or     *)
(* came before its thread waited: then the CONTINUEs the handler posts may *)
(* pile up, begin one inventory after another and leave no room for the    *)
(* one to rfid_find_tags.                                                  *)
Served == (fpc = "done") ~> (fpc # "done" \/ missed \/ hurried)
=============================================================================
