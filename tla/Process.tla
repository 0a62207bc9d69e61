------------------------------ MODULE Process ------------------------------
(***************************************************************************)
(* The kernel of the gateway: core/sys/process.c driven by main() of       *)
(* contiki-torrija-host-main.c.  The CPU runs main(): it starts the        *)
(* processes and then calls process_run() for ever.  A process' thread is  *)
(* the environment: while it runs it makes kernel calls, at most MaxOps of *)
(* them per dispatch of the main loop, and returns.  Interrupt handlers    *)
(* run between any two steps of the CPU, to completion.                    *)
(*                                                                         *)
(* One step of the CPU is one access to the data an interrupt handler      *)
(* shares with it (nevents, fevent, events[], poll_requested, needspoll).  *)
(*                                                                         *)
(* process_list is kept as the sequence `started' in starting order: the   *)
(* list inserts at its head, so walking the list is walking `started'      *)
(* downwards, and a process started during a walk is not visited by it.    *)
(* exit_process() is left out: no thread of this firmware reaches          *)
(* PROCESS_END and nothing calls process_exit().                           *)
(***************************************************************************)
EXTENDS Integers, Sequences

CONSTANTS
  Procs,      \* the processes of the firmware
  Kinds,      \* event identifiers (ev together with its data)
  NumEvents,  \* PROCESS_CONF_NUMEVENTS, the length of events[]
  CountWidth, \* process_num_events_t wraps here: 256 in the firmware
  Broadcast,  \* PROCESS_BROADCAST, the NULL receiver
  Nil,        \* a NULL process pointer; the zero event identifier
  Boot,       \* the processes main() starts, in order
  Starts,     \* pairs <<p, q>>: thread p may call process_start(q)
  Calls,      \* pairs <<p, q>>: thread p may call process_post_synch(q)
  Polls,      \* pairs <<p, q>>: thread p may call process_poll(q)
  Posts,      \* the events threads may post
  IsrPolls,   \* the processes interrupt handlers poll
  IsrPosts,   \* the events interrupt handlers post
  MaxOps,     \* bound: kernel calls per dispatch of the main loop
  MaxIsrPosts \* bound: events the interrupt handlers post

Slots  == 0 .. NumEvents - 1
Event  == [p : Procs \cup {Broadcast}, ev : Kinds \cup {Nil}]
Zeroed == [p |-> Broadcast, ev |-> Nil]

ASSUME ConstAssumption ==
  /\ NumEvents \in Nat \ {0}
  /\ CountWidth \in Nat
  /\ 2 * NumEvents <= CountWidth
  /\ MaxOps \in Nat
  /\ MaxIsrPosts \in Nat
  /\ Boot \in Seq(Procs)
  /\ Starts \subseteq Procs \X Procs
  /\ Calls \subseteq Procs \X Procs
  /\ Polls \subseteq Procs \X Procs
  /\ IsrPolls \subseteq Procs
  /\ Posts \subseteq Event
  /\ IsrPosts \subseteq Event
  /\ Broadcast \notin Procs
  /\ Nil \notin Procs \cup {Broadcast}

VARIABLES
  started,        \* process_list, oldest first
  state,          \* p->state
  needspoll,      \* p->needspoll
  poll_requested,
  events, nevents, fevent,
  dispatched,     \* do_event()'s static ev, data and receiver
  pc,             \* where main() is
  toboot,         \* the processes main() has not started yet
  pcur,           \* do_poll()'s p, as an index of started; 0 is NULL
  bcur,           \* do_event()'s p, likewise
  current,        \* process_current
  stack,          \* the threads being executed, innermost last
  posting,        \* the process_post() a thread is in the middle of
  ops,            \* kernel calls the running threads may still make
  isrposts        \* events the interrupt handlers may still post

queueVars == <<events, nevents, fevent, dispatched>>
pollVars  == <<needspoll, poll_requested>>
loopVars  == <<pc, toboot, pcur, bcur>>
procVars  == <<started, state, current, stack>>
vars == <<queueVars, pollVars, loopVars, procVars, posting, ops, isrposts>>

NoPost == [step |-> "none", e |-> Zeroed, snum |-> 0]

Init ==
  /\ started = <<>>
  /\ state = [p \in Procs |-> "none"]
  /\ needspoll = [p \in Procs |-> FALSE]
  /\ poll_requested = FALSE
  /\ events = [s \in Slots |-> Zeroed]
  /\ nevents = 0
  /\ fevent = 0
  /\ dispatched = Zeroed
  /\ pc = "boot"
  /\ toboot = Boot
  /\ pcur = 0
  /\ bcur = 0
  /\ current = Nil
  /\ stack = <<>>
  /\ posting = NoPost
  /\ ops = 0
  /\ isrposts = MaxIsrPosts

(* Faults seeded to show that the properties below can fail are the        *)
(* operators named Bad...: each is a plausible slip in the definition that *)
(* follows it.                                                             *)
BadFreeSlotSkips     == ((fevent + nevents + 1) % CountWidth) % NumEvents

(* The slot process_post() fills, and the count it leaves. *)
FreeSlot == ((fevent + nevents) % CountWidth) % NumEvents
OneMore  == (nevents + 1) % CountWidth

IsStarted(p) == \E i \in DOMAIN started : started[i] = p

-----------------------------------------------------------------------------
(* call_process(): the thread runs unless it is being executed already     *)
(* (PROCESS_STATE_CALLED lacks the RUNNING bit) or was never started.      *)
(* `synch' calls give process_current back to the caller.                  *)

BadCallIgnoresState(st, p, synch) ==
  /\ state' = [st EXCEPT ![p] = "called"]
  /\ current' = p
  /\ stack' = Append(stack, [p |-> p, synch |-> synch, caller |-> current])

call_process(st, p, synch) ==
  IF st[p] = "running"
  THEN /\ state' = [st EXCEPT ![p] = "called"]
       /\ current' = p
       /\ stack' = Append(stack, [p |-> p, synch |-> synch, caller |-> current])
  ELSE /\ state' = st
       /\ UNCHANGED <<current, stack>>

process_start(p) ==
  IF IsStarted(p)
  THEN UNCHANGED procVars
  ELSE /\ started' = Append(started, p)
       /\ call_process([state EXCEPT ![p] = "running"], p, TRUE)

(* The flags process_poll() leaves behind. *)
process_poll(p) ==
  IF state[p] \in {"running", "called"}
  THEN /\ needspoll' = [needspoll EXCEPT ![p] = TRUE]
       /\ poll_requested' = TRUE
  ELSE UNCHANGED pollVars

-----------------------------------------------------------------------------
(* main() and process_run(): the CPU outside every thread. *)

Idle == stack = <<>>

BootStart ==
  /\ Idle /\ pc = "boot" /\ toboot # <<>>
  /\ process_start(Head(toboot))
  /\ toboot' = Tail(toboot)
  /\ ops' = MaxOps
  /\ UNCHANGED <<queueVars, pollVars, pc, pcur, bcur, posting, isrposts>>

BootDone ==
  /\ Idle /\ pc = "boot" /\ toboot = <<>>
  /\ pc' = "run"
  /\ UNCHANGED <<queueVars, pollVars, toboot, pcur, bcur, procVars, posting, ops, isrposts>>

BadPollSkipsHead(walk) ==
  /\ poll_requested' = FALSE
  /\ pcur' = Len(started) - 1
  /\ pc' = walk

(* do_poll() begins; its caller is process_run() or a broadcast. *)
do_poll(walk) ==
  /\ poll_requested' = FALSE
  /\ pcur' = Len(started)
  /\ pc' = walk

RunPoll ==
  /\ Idle /\ pc = "run" /\ poll_requested
  /\ do_poll("poll")
  /\ UNCHANGED <<queueVars, needspoll, toboot, bcur, procVars, posting, ops, isrposts>>

RunNoPoll ==
  /\ Idle /\ pc = "run" /\ ~poll_requested
  /\ pc' = "event"
  /\ UNCHANGED <<queueVars, pollVars, toboot, pcur, bcur, procVars, posting, ops, isrposts>>

PollVisit ==
  /\ Idle /\ pc \in {"poll", "bpoll"} /\ pcur > 0
  /\ LET p == started[pcur] IN
       IF needspoll[p]
       THEN /\ needspoll' = [needspoll EXCEPT ![p] = FALSE]
            /\ call_process([state EXCEPT ![p] = "running"], p, FALSE)
       ELSE UNCHANGED <<needspoll, state, current, stack>>
  /\ pcur' = pcur - 1
  /\ ops' = MaxOps
  /\ UNCHANGED <<queueVars, poll_requested, pc, toboot, bcur, started, posting, isrposts>>

BadPollLowersLate ==
  /\ Idle /\ pc \in {"poll", "bpoll"} /\ pcur = 0
  /\ pc' = IF pc = "poll" THEN "event" ELSE "bcall"
  /\ poll_requested' = FALSE
  /\ UNCHANGED <<queueVars, needspoll, toboot, pcur, bcur, procVars, posting, ops, isrposts>>

BadPollDrains ==
  /\ Idle /\ pc \in {"poll", "bpoll"} /\ pcur = 0
  /\ pc' = IF pc = "bpoll" THEN "bcall" ELSE IF poll_requested THEN "run" ELSE "event"
  /\ UNCHANGED <<queueVars, pollVars, toboot, pcur, bcur, procVars, posting, ops, isrposts>>

PollDone ==
  /\ Idle /\ pc \in {"poll", "bpoll"} /\ pcur = 0
  /\ pc' = IF pc = "poll" THEN "event" ELSE "bcall"
  /\ UNCHANGED <<queueVars, pollVars, toboot, pcur, bcur, procVars, posting, ops, isrposts>>

NoEvent ==
  /\ Idle /\ pc = "event" /\ nevents = 0
  /\ pc' = "run"
  /\ UNCHANGED <<queueVars, pollVars, toboot, pcur, bcur, procVars, posting, ops, isrposts>>

(* do_event() reads the oldest event and moves fevent, ... *)
TakeEvent ==
  /\ Idle /\ pc = "event" /\ nevents > 0
  /\ dispatched' = events[fevent]
  /\ fevent' = (fevent + 1) % NumEvents
  /\ pc' = "taken"
  /\ UNCHANGED <<events, nevents, pollVars, toboot, pcur, bcur, procVars, posting,
                 ops, isrposts>>

(* ... then decrements nevents, one instruction later. *)
CountEvent ==
  /\ Idle /\ pc = "taken"
  /\ nevents' = (nevents - 1) % CountWidth
  /\ pc' = "deliver"
  /\ UNCHANGED <<events, fevent, dispatched, pollVars, toboot, pcur, bcur,
                 procVars, posting, ops, isrposts>>

Deliver ==
  /\ Idle /\ pc = "deliver" /\ dispatched.p # Broadcast
  /\ call_process(state, dispatched.p, FALSE)
  /\ pc' = "run"
  /\ ops' = MaxOps
  /\ UNCHANGED <<queueVars, pollVars, toboot, pcur, bcur, started, posting, isrposts>>

DeliverBroadcast ==
  /\ Idle /\ pc = "deliver" /\ dispatched.p = Broadcast
  /\ bcur' = Len(started)
  /\ pc' = "bcast"
  /\ UNCHANGED <<queueVars, pollVars, toboot, pcur, procVars, posting, ops, isrposts>>

BroadcastPoll ==
  /\ Idle /\ pc = "bcast" /\ bcur > 0 /\ poll_requested
  /\ do_poll("bpoll")
  /\ UNCHANGED <<queueVars, needspoll, toboot, bcur, procVars, posting, ops, isrposts>>

BroadcastCall ==
  /\ Idle
  /\ \/ pc = "bcast" /\ bcur > 0 /\ ~poll_requested
     \/ pc = "bcall"
  /\ call_process(state, started[bcur], FALSE)
  /\ bcur' = bcur - 1
  /\ pc' = "bcast"
  /\ ops' = MaxOps
  /\ UNCHANGED <<queueVars, pollVars, toboot, pcur, started, posting, isrposts>>

BroadcastDone ==
  /\ Idle /\ pc = "bcast" /\ bcur = 0
  /\ pc' = "run"
  /\ UNCHANGED <<queueVars, pollVars, toboot, pcur, bcur, procVars, posting, ops, isrposts>>

Loop ==
  \/ BootStart \/ BootDone \/ RunPoll \/ RunNoPoll \/ PollVisit \/ PollDone
  \/ NoEvent \/ TakeEvent \/ CountEvent \/ Deliver \/ DeliverBroadcast
  \/ BroadcastPoll \/ BroadcastCall \/ BroadcastDone

-----------------------------------------------------------------------------
(* The running thread, the last of `stack'. *)

Running  == IF Idle THEN Nil ELSE stack[Len(stack)].p
MayCall  == ~Idle /\ posting = NoPost /\ ops > 0

ThreadPoll(q) ==
  /\ MayCall /\ <<Running, q>> \in Polls
  /\ process_poll(q)
  /\ ops' = ops - 1
  /\ UNCHANGED <<queueVars, loopVars, procVars, posting, isrposts>>

ThreadStart(q) ==
  /\ MayCall /\ <<Running, q>> \in Starts
  /\ process_start(q)
  /\ ops' = ops - 1
  /\ UNCHANGED <<queueVars, pollVars, loopVars, posting, isrposts>>

ThreadPostSynch(q) ==
  /\ MayCall /\ <<Running, q>> \in Calls
  /\ call_process(state, q, TRUE)
  /\ ops' = ops - 1
  /\ UNCHANGED <<queueVars, pollVars, loopVars, started, posting, isrposts>>

(* process_post(): PROCESS_ERR_FULL, or the five assignments in order. *)
PostFull(e) ==
  /\ MayCall /\ nevents = NumEvents
  /\ ops' = ops - 1
  /\ UNCHANGED <<queueVars, pollVars, loopVars, procVars, posting, isrposts>>

PostBegin(e) ==
  /\ MayCall /\ nevents # NumEvents
  /\ posting' = [step |-> "snum", e |-> e, snum |-> 0]
  /\ ops' = ops - 1
  /\ UNCHANGED <<queueVars, pollVars, loopVars, procVars, isrposts>>

PostSlot ==
  /\ posting.step = "snum"
  /\ posting' = [posting EXCEPT !.snum = FreeSlot, !.step = "ev"]
  /\ UNCHANGED <<queueVars, pollVars, loopVars, procVars, ops, isrposts>>

PostWriteEv ==
  /\ posting.step = "ev"
  /\ events' = [events EXCEPT ![posting.snum].ev = posting.e.ev]
  /\ posting' = [posting EXCEPT !.step = "p"]
  /\ UNCHANGED <<nevents, fevent, dispatched, pollVars, loopVars, procVars, ops, isrposts>>

PostWriteP ==
  /\ posting.step = "p"
  /\ events' = [events EXCEPT ![posting.snum].p = posting.e.p]
  /\ posting' = [posting EXCEPT !.step = "inc"]
  /\ UNCHANGED <<nevents, fevent, dispatched, pollVars, loopVars, procVars, ops, isrposts>>

PostCount ==
  /\ posting.step = "inc"
  /\ nevents' = OneMore
  /\ posting' = NoPost
  /\ UNCHANGED <<events, fevent, dispatched, pollVars, loopVars, procVars, ops, isrposts>>

BadReturnKeepsCurrent ==
  /\ ~Idle /\ posting = NoPost
  /\ state' = [state EXCEPT ![stack[Len(stack)].p] = "running"]
  /\ stack' = SubSeq(stack, 1, Len(stack) - 1)
  /\ UNCHANGED <<queueVars, pollVars, loopVars, started, current, posting, ops, isrposts>>

Return ==
  /\ ~Idle /\ posting = NoPost
  /\ LET f == stack[Len(stack)] IN
       /\ state' = [state EXCEPT ![f.p] = "running"]
       /\ current' = IF f.synch THEN f.caller ELSE current
  /\ stack' = SubSeq(stack, 1, Len(stack) - 1)
  /\ UNCHANGED <<queueVars, pollVars, loopVars, started, posting, ops, isrposts>>

Thread ==
  \/ \E q \in Procs : ThreadPoll(q) \/ ThreadStart(q) \/ ThreadPostSynch(q)
  \/ \E e \in Posts : PostFull(e) \/ PostBegin(e)
  \/ PostSlot \/ PostWriteEv \/ PostWriteP \/ PostCount
  \/ Return

-----------------------------------------------------------------------------
(* Interrupt handlers: a whole process_poll() or process_post() each.  The *)
(* reader's handler posts to the process it has registered.                *)

IsrPoll(p) ==
  /\ process_poll(p)
  /\ UNCHANGED <<queueVars, loopVars, procVars, posting, ops, isrposts>>

IsrPost(e) ==
  /\ isrposts > 0 /\ IsStarted(e.p) /\ nevents # NumEvents
  /\ events' = [events EXCEPT ![FreeSlot] = e]
  /\ nevents' = OneMore
  /\ isrposts' = isrposts - 1
  /\ UNCHANGED <<fevent, dispatched, pollVars, loopVars, procVars, posting, ops>>

Interrupt ==
  \/ \E p \in IsrPolls : IsrPoll(p)
  \/ \E e \in IsrPosts : IsrPost(e)

Next == Loop \/ Thread \/ Interrupt

(* The CPU never stops: main() loops and every thread returns. *)
Spec == Init /\ [][Next]_vars /\ WF_vars(Loop \/ Thread)

-----------------------------------------------------------------------------
(* Type invariant. *)
Frame == [p : Procs, synch : BOOLEAN, caller : Procs \cup {Nil}]

QueueType ==
  /\ events \in [Slots -> Event]
  /\ nevents \in 0 .. CountWidth - 1
  /\ fevent \in Slots
  /\ dispatched \in Event

PollType ==
  /\ needspoll \in [Procs -> BOOLEAN]
  /\ poll_requested \in BOOLEAN

ProcType ==
  /\ started \in Seq(Procs)
  /\ state \in [Procs -> {"none", "running", "called"}]
  /\ current \in Procs \cup {Nil}
  /\ stack \in Seq(Frame)

LoopType ==
  /\ pc \in {"boot", "run", "poll", "event", "taken", "deliver", "bcast", "bpoll", "bcall"}
  /\ toboot \in Seq(Procs)
  /\ pcur \in 0 .. Len(started)
  /\ bcur \in 0 .. Len(started)

PostType ==
  /\ posting \in [step : {"none", "snum", "ev", "p", "inc"}, e : Event, snum : Slots]
  /\ ops \in 0 .. MaxOps
  /\ isrposts \in 0 .. MaxIsrPosts

TypeOK == QueueType /\ PollType /\ ProcType /\ LoopType /\ PostType

(* The ring never counts more events than it has slots: the test for       *)
(* equality in process_post() would never be true again.                   *)
RingBounded == nevents <= NumEvents

(* No poll request is lost: whenever an interrupt or a thread asked for a  *)
(* process to be polled, the main loop still knows (poll_requested), or    *)
(* the walk of do_poll() under way has that process still ahead of it.     *)
PollNotLost ==
  \A i \in DOMAIN started :
    needspoll[started[i]] =>
      poll_requested \/ (pc \in {"poll", "bpoll"} /\ i <= pcur)

(* A protothread is never entered while it is being executed: each process *)
(* is on the C stack at most once, and is in PROCESS_STATE_CALLED exactly  *)
(* as long, although do_poll() sets the state without looking at it.       *)
NoReentry ==
  /\ \A i, j \in DOMAIN stack : stack[i].p = stack[j].p => i = j
  /\ \A p \in Procs : state[p] = "called" <=> \E i \in DOMAIN stack : stack[i].p = p

(* PROCESS_CURRENT() names the process whose thread executes, also after a *)
(* nested synchronous call came back: etimer_set() files the timer under   *)
(* it.                                                                     *)
CurrentIsRunning == ~Idle => current = Running

(* The ring of events, with fevent, nevents and the window between the two *)
(* assignments of do_event(), is the FIFO queue of module EventQueue.      *)
Pending == IF pc = "taken" THEN nevents - 1 ELSE nevents
RingContents == [i \in 1 .. Pending |-> events[(fevent + i - 1) % NumEvents]]

Q == INSTANCE EventQueue WITH
       Events <- Event, Nil <- Zeroed, queue <- RingContents, taken <- dispatched

(* Accepted events are neither lost, overwritten, duplicated nor reordered *)
(* (safety), and the main loop keeps taking them although cc2520_process   *)
(* asks to be polled again each time it is polled (liveness).              *)
QueueSafe == Q!QSafe
QueueSpec == Q!QSpec

(* Every poll request is eventually served, broadcasts included. *)
PollServed == \A p \in Procs : needspoll[p] ~> ~needspoll[p]

(* An accepted event eventually reaches the thread it was posted to. *)
Waiting(e)   == \E i \in DOMAIN RingContents : RingContents[i] = e
Receiving(e) == ~Idle /\ stack[1].p = e.p /\ dispatched = e /\ pc = "run"
EventDelivered ==
  \A e \in Posts : e.p # Broadcast => (Waiting(e) /\ IsStarted(e.p) ~> Receiving(e))
=============================================================================
