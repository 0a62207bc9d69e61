---------------------------- MODULE ProcessProofs ----------------------------
(***************************************************************************)
(* Theorems about the kernel (module Process) for every set of processes,  *)
(* every wiring of clients and every ring size.                            *)
(***************************************************************************)
EXTENDS Process, SequenceTheorems, TLAPS

(* A process is in state NONE exactly while it is not on process_list, on  *)
(* which it is at most once.                                               *)
ListInv ==
  /\ \A i, j \in DOMAIN started : started[i] = started[j] => i = j
  /\ \A p \in Procs : state[p] = "none" <=> ~IsStarted(p)

(* Only a process on the list is asked to be polled: process_start() does  *)
(* not reset needspoll.                                                    *)
FlagInv == \A p \in Procs : needspoll[p] => IsStarted(p)

(* Every thread but the outermost was called synchronously by the thread   *)
(* below it on the C stack.                                                *)
StackInv ==
  \A i \in DOMAIN stack :
    i > 1 => stack[i].synch /\ stack[i].caller = stack[i - 1].p

(* Where main() can be, and a process_post() is under way only in a thread. *)
LoopInv ==
  /\ pc \in {"bcall", "bpoll"} => bcur > 0
  /\ posting.step # "none" => ~Idle
  /\ posting.step = "none" => posting = NoPost

IInv ==
  /\ TypeOK /\ ListInv /\ FlagInv /\ StackInv /\ LoopInv
  /\ PollNotLost /\ NoReentry /\ CurrentIsRunning

-----------------------------------------------------------------------------
LEMMA InitIInv == Init => IInv
<1> SUFFICES ASSUME Init PROVE IInv
  OBVIOUS
<1> USE ConstAssumption DEF Init
<1>1. TypeOK
  <2>1. Zeroed \in Event
    BY DEF Zeroed, Event
  <2>2. QueueType
    BY <2>1 DEF QueueType, Slots
  <2>3. PostType
    BY <2>1 DEF PostType, NoPost, Slots
  <2>4. PollType
    BY DEF PollType
  <2>5. ProcType
    BY DEF ProcType
  <2>6. LoopType
    BY DEF LoopType
  <2> QED
    BY <2>2, <2>3, <2>4, <2>5, <2>6 DEF TypeOK
<1>2. ListInv /\ FlagInv /\ StackInv /\ LoopInv
  BY DEF ListInv, FlagInv, StackInv, LoopInv, IsStarted, NoPost
<1>3. PollNotLost /\ NoReentry /\ CurrentIsRunning
  BY DEF PollNotLost, NoReentry, CurrentIsRunning, Idle
<1> QED
  BY <1>1, <1>2, <1>3 DEF IInv

(* What call_process() leaves behind, whether or not the thread runs. *)
LEMMA CallProcessEffect ==
  ASSUME ProcType,
         NEW st \in [Procs -> {"none", "running", "called"}],
         NEW p \in Procs, NEW synch \in BOOLEAN,
         call_process(st, p, synch)
  PROVE  /\ state' \in [Procs -> {"none", "running", "called"}]
         /\ current' \in Procs \cup {Nil}
         /\ stack' \in Seq(Frame)
         /\ \/ UNCHANGED <<current, stack>> /\ state' = st
            \/ /\ st[p] = "running"
               /\ state' = [st EXCEPT ![p] = "called"]
               /\ current' = p
               /\ Len(stack') = Len(stack) + 1
               /\ \A i \in 1 .. Len(stack) : stack'[i] = stack[i]
               /\ stack'[Len(stack) + 1] = [p |-> p, synch |-> synch, caller |-> current]
<1> DEFINE f == [p |-> p, synch |-> synch, caller |-> current]
<1>1. f \in Frame
  BY DEF ProcType, Frame
<1>2. CASE st[p] = "running"
  <2>1. stack' = Append(stack, f)
    BY <1>2 DEF call_process
  <2> HIDE DEF f
  <2>2. /\ stack' \in Seq(Frame) /\ Len(stack') = Len(stack) + 1
        /\ \A i \in 1 .. Len(stack) : stack'[i] = stack[i]
        /\ stack'[Len(stack) + 1] = f
    BY <1>1, <2>1 DEF ProcType
  <2> QED
    BY <1>2, <2>2 DEF call_process, f
<1>3. CASE st[p] # "running"
  BY <1>3 DEF call_process, ProcType
<1> QED
  BY <1>2, <1>3

-----------------------------------------------------------------------------
(* The four ways a step changes the processes: not at all, a thread is     *)
(* entered, a process is started and its thread entered, a thread returns. *)
Push(p, synch) ==
  /\ current' = p
  /\ stack' \in Seq(Frame)
  /\ Len(stack') = Len(stack) + 1
  /\ \A i \in 1 .. Len(stack) : stack'[i] = stack[i]
  /\ stack'[Len(stack) + 1] = [p |-> p, synch |-> synch, caller |-> current]

CallStep ==
  \E p \in Procs, synch \in BOOLEAN :
    /\ state[p] = "running"
    /\ state' = [state EXCEPT ![p] = "called"]
    /\ started' = started
    /\ synch \/ Idle
    /\ Push(p, synch)

StartStep ==
  \E p \in Procs :
    /\ ~IsStarted(p)
    /\ started' = Append(started, p)
    /\ state' = [state EXCEPT ![p] = "called"]
    /\ Push(p, TRUE)

ReturnStep ==
  /\ ~Idle
  /\ LET f == stack[Len(stack)] IN
       /\ state' = [state EXCEPT ![f.p] = "running"]
       /\ current' = IF f.synch THEN f.caller ELSE current
  /\ stack' = SubSeq(stack, 1, Len(stack) - 1)
  /\ started' = started

ProcStep == UNCHANGED procVars \/ CallStep \/ StartStep \/ ReturnStep

LEMMA CallIsStep ==
  ASSUME ProcType, NEW p \in Procs, NEW synch \in BOOLEAN,
         synch \/ Idle, started' = started,
         call_process(state, p, synch)
  PROVE  UNCHANGED procVars \/ CallStep
BY CallProcessEffect DEF ProcType, CallStep, Push, procVars

LEMMA StartIsStep ==
  ASSUME ProcType, NEW p \in Procs, process_start(p)
  PROVE  UNCHANGED procVars \/ StartStep
<1>1. CASE IsStarted(p)
  BY <1>1 DEF process_start
<1>2. CASE ~IsStarted(p)
  <2> DEFINE st == [state EXCEPT ![p] = "running"]
  <2>1. st \in [Procs -> {"none", "running", "called"}] /\ st[p] = "running"
    BY DEF ProcType
  <2>2. started' = Append(started, p) /\ call_process(st, p, TRUE)
    BY <1>2 DEF process_start
  <2>3. [st EXCEPT ![p] = "called"] = [state EXCEPT ![p] = "called"]
    BY DEF ProcType
  <2>4. st # [st EXCEPT ![p] = "called"]
    BY <2>1
  <2> HIDE DEF st
  <2>5. call_process(st, p, TRUE) => /\ state' = [st EXCEPT ![p] = "called"]
    BY <2>1 DEF call_process
  <2>6. Push(p, TRUE)
    BY <2>1, <2>2, <2>4, <2>5, CallProcessEffect DEF Push
  <2> QED
    BY <1>2, <2>2, <2>3, <2>5, <2>6 DEF StartStep
<1> QED
  BY <1>1, <1>2

LEMMA NextIsProcStep ==
  ASSUME IInv, [Next]_vars
  PROVE  ProcStep
<1> USE DEF IInv, TypeOK
<1> USE ConstAssumption
<1>1. ASSUME BootStart PROVE ProcStep
  <2>1. Head(toboot) \in Procs /\ process_start(Head(toboot))
    BY <1>1 DEF BootStart, LoopType
  <2> QED
    BY <2>1, StartIsStep DEF ProcStep
<1>2. ASSUME PollVisit PROVE ProcStep
  <2> DEFINE p == started[pcur]
             st == [state EXCEPT ![p] = "running"]
  <2>1. p \in Procs /\ IsStarted(p) /\ started' = started /\ Idle
    BY <1>2 DEF PollVisit, LoopType, ProcType, IsStarted
  <2>2. state[p] = "running"
    <3>1. state[p] # "none"
      BY <2>1 DEF ListInv
    <3>2. state[p] # "called"
      BY <2>1 DEF NoReentry, Idle
    <3> QED
      BY <2>1, <3>1, <3>2 DEF ProcType
  <2>3. st = state
    BY <2>1, <2>2 DEF ProcType
  <2>4. UNCHANGED <<state, current, stack>> \/ call_process(st, p, FALSE)
    BY <1>2 DEF PollVisit
  <2> HIDE DEF p, st
  <2> QED
    BY <2>1, <2>3, <2>4, CallIsStep DEF ProcStep, procVars
<1>3. ASSUME Deliver PROVE ProcStep
  <2>1. dispatched.p \in Procs /\ call_process(state, dispatched.p, FALSE) /\ Idle
        /\ started' = started
    BY <1>3 DEF Deliver, QueueType, Event
  <2> QED
    BY <2>1, CallIsStep DEF ProcStep
<1>4. ASSUME BroadcastCall PROVE ProcStep
  <2>1. bcur > 0
    BY <1>4 DEF BroadcastCall, LoopInv
  <2>2. started[bcur] \in Procs
    BY <2>1 DEF LoopType, ProcType
  <2>3. call_process(state, started[bcur], FALSE) /\ Idle /\ started' = started
    BY <1>4 DEF BroadcastCall
  <2> QED
    BY <2>2, <2>3, CallIsStep DEF ProcStep
<1>5. ASSUME NEW q \in Procs, ThreadStart(q) PROVE ProcStep
  BY <1>5, StartIsStep DEF ThreadStart, ProcStep
<1>6. ASSUME NEW q \in Procs, ThreadPostSynch(q) PROVE ProcStep
  BY <1>6, CallIsStep DEF ThreadPostSynch, ProcStep
<1>7. ASSUME Return PROVE ProcStep
  BY <1>7 DEF Return, ReturnStep, ProcStep
<1>8. ASSUME \/ BootDone \/ RunPoll \/ RunNoPoll \/ PollDone \/ NoEvent
             \/ TakeEvent \/ CountEvent \/ DeliverBroadcast \/ BroadcastPoll
             \/ BroadcastDone
      PROVE  ProcStep
  BY <1>8 DEF ProcStep, procVars, BootDone, RunPoll, RunNoPoll, PollDone, NoEvent,
     TakeEvent, CountEvent, DeliverBroadcast, BroadcastPoll, BroadcastDone
<1>9. ASSUME \/ \E q \in Procs : ThreadPoll(q)
             \/ \E e \in Posts : PostFull(e) \/ PostBegin(e)
             \/ PostSlot \/ PostWriteEv \/ PostWriteP \/ PostCount
             \/ Interrupt
      PROVE  ProcStep
  BY <1>9 DEF ProcStep, procVars, ThreadPoll, PostFull, PostBegin, PostSlot,
     PostWriteEv, PostWriteP, PostCount, Interrupt, IsrPoll, IsrPost
<1>10. CASE UNCHANGED vars
  BY <1>10 DEF vars, procVars, ProcStep
<1> QED
  BY <1>1, <1>2, <1>3, <1>4, <1>5, <1>6, <1>7, <1>8, <1>9, <1>10
     DEF Next, Loop, Thread

-----------------------------------------------------------------------------
(* The invariants about processes and the C stack. *)

LEMMA TopFrame ==
  ASSUME ProcType, ~Idle
  PROVE  /\ Len(stack) \in DOMAIN stack
         /\ stack[Len(stack)].p \in Procs
         /\ stack[Len(stack)].caller \in Procs \cup {Nil}
<1>1. Len(stack) \in DOMAIN stack /\ stack[Len(stack)] \in Frame
  BY DEF ProcType, Idle
<1> QED
  BY <1>1 DEF Frame

LEMMA ProcTypeStep == ASSUME ProcType, ProcStep PROVE ProcType'
<1>1. CASE UNCHANGED procVars
  BY <1>1 DEF procVars, ProcType
<1>2. CASE CallStep
  BY <1>2 DEF CallStep, Push, ProcType
<1>3. CASE StartStep
  BY <1>3 DEF StartStep, Push, ProcType
<1>4. CASE ReturnStep
  <2> DEFINE f == stack[Len(stack)]
  <2>2. f.p \in Procs /\ f.caller \in Procs \cup {Nil}
    BY <1>4, TopFrame DEF ReturnStep
  <2>3. stack' \in Seq(Frame)
    BY <1>4 DEF ReturnStep, ProcType, Idle
  <2>4. /\ state' = [state EXCEPT ![f.p] = "running"]
        /\ current' = IF f.synch THEN f.caller ELSE current
        /\ started' = started
    BY <1>4 DEF ReturnStep
  <2> HIDE DEF f
  <2> QED
    BY <2>2, <2>3, <2>4 DEF ProcType
<1> QED
  BY <1>1, <1>2, <1>3, <1>4 DEF ProcStep

LEMMA ListInvStep == ASSUME ProcType, ListInv, NoReentry, ProcStep PROVE ListInv'
<1>1. CASE UNCHANGED procVars
  BY <1>1 DEF procVars, ListInv, IsStarted
<1>2. CASE CallStep
  BY <1>2 DEF CallStep, ListInv, IsStarted, ProcType
<1>3. CASE StartStep
  <2> PICK p \in Procs : /\ ~IsStarted(p)
                         /\ started' = Append(started, p)
                         /\ state' = [state EXCEPT ![p] = "called"]
    BY <1>3 DEF StartStep
  <2>1. /\ Len(started') = Len(started) + 1
        /\ \A i \in 1 .. Len(started) : started'[i] = started[i]
        /\ started'[Len(started) + 1] = p
        /\ DOMAIN started = 1 .. Len(started)
        /\ DOMAIN started' = 1 .. Len(started) + 1
        /\ Len(started) \in Nat
    BY DEF ProcType
  <2>2. \A i, j \in DOMAIN started' : started'[i] = started'[j] => i = j
    BY <2>1 DEF ListInv, IsStarted
  <2>3. \A q \in Procs : IsStarted(q)' <=> IsStarted(q) \/ q = p
    BY <2>1 DEF IsStarted
  <2>4. \A q \in Procs : state'[q] = "none" <=> ~IsStarted(q)'
    BY <2>3 DEF ListInv, ProcType
  <2> QED
    BY <2>2, <2>4 DEF ListInv
<1>4. CASE ReturnStep
  <2>1. stack[Len(stack)].p \in Procs /\ Len(stack) \in DOMAIN stack
    BY <1>4, TopFrame DEF ReturnStep
  <2>2. state[stack[Len(stack)].p] = "called"
    BY <2>1 DEF NoReentry
  <2> QED
    BY <1>4, <2>1, <2>2 DEF ReturnStep, ListInv, IsStarted, ProcType
<1> QED
  BY <1>1, <1>2, <1>3, <1>4 DEF ProcStep

LEMMA StackStep ==
  ASSUME ProcType, ListInv, StackInv, NoReentry, CurrentIsRunning, ProcStep
  PROVE  StackInv' /\ NoReentry' /\ CurrentIsRunning'
<1> USE DEF StackInv, NoReentry, CurrentIsRunning, Running, Idle
<1>1. CASE UNCHANGED procVars
  BY <1>1 DEF procVars
<1>2. ASSUME NEW p \in Procs, NEW synch \in BOOLEAN,
             state[p] # "called",
             state' = [state EXCEPT ![p] = "called"],
             synch \/ Idle, Push(p, synch)
      PROVE  StackInv' /\ NoReentry' /\ CurrentIsRunning'
  <2>1. /\ Len(stack) \in Nat /\ DOMAIN stack = 1 .. Len(stack)
        /\ DOMAIN stack' = 1 .. Len(stack) + 1
        /\ Len(stack') = Len(stack) + 1
        /\ stack' # <<>>
    BY <1>2 DEF Push, ProcType
  <2>2. /\ \A i \in 1 .. Len(stack) : stack'[i] = stack[i]
        /\ stack'[Len(stack) + 1].p = p
        /\ stack'[Len(stack) + 1].synch = synch
        /\ stack'[Len(stack) + 1].caller = current
        /\ current' = p
    BY <1>2 DEF Push
  <2>3. \A i \in DOMAIN stack : stack[i].p # p
    BY <1>2
  <2>4. StackInv'
    <3>1. ASSUME NEW i \in 1 .. Len(stack) + 1, i > 1
          PROVE  stack'[i].synch /\ stack'[i].caller = stack'[i - 1].p
      <4>1. CASE i \in 1 .. Len(stack)
        BY <2>1, <2>2, <3>1, <4>1
      <4>2. CASE i = Len(stack) + 1
        <5>1. Len(stack) > 0 /\ stack # <<>>
          BY <2>1, <3>1, <4>2
        <5>2. current = stack[Len(stack)].p /\ synch
          BY <5>1, <1>2
        <5>3. i - 1 = Len(stack) /\ stack'[i - 1] = stack[Len(stack)]
          BY <2>1, <2>2, <4>2, <5>1
        <5>4. stack'[i].synch
          BY <2>2, <4>2, <5>2
        <5>5. stack'[i].caller = stack[Len(stack)].p
          BY <2>2, <4>2, <5>2
        <5> QED
          BY <5>3, <5>4, <5>5
      <4> QED
        BY <2>1, <3>1, <4>1, <4>2
    <3> QED
      BY <2>1, <3>1
  <2>5. \A i, j \in DOMAIN stack' : stack'[i].p = stack'[j].p => i = j
    BY <2>1, <2>2, <2>3
  <2>6. \A q \in Procs : state'[q] = "called" <=> \E i \in DOMAIN stack' : stack'[i].p = q
    <3>1. \A q \in Procs : (\E i \in DOMAIN stack' : stack'[i].p = q)
                           <=> (\E i \in DOMAIN stack : stack[i].p = q) \/ q = p
      BY <2>1, <2>2
    <3> QED
      BY <1>2, <3>1 DEF ProcType
  <2>7. CurrentIsRunning'
    BY <2>1, <2>2
  <2> QED
    BY <2>4, <2>5, <2>6, <2>7
<1>3. CASE CallStep
  <2> PICK p \in Procs, synch \in BOOLEAN :
        /\ state[p] = "running"
        /\ state' = [state EXCEPT ![p] = "called"]
        /\ started' = started
        /\ synch \/ Idle
        /\ Push(p, synch)
    BY <1>3, Zenon DEF CallStep
  <2> HIDE DEF Idle
  <2>1. state[p] # "called"
    OBVIOUS
  <2> QED
    BY ONLY <1>2, <2>1, state' = [state EXCEPT ![p] = "called"], synch \/ Idle, Push(p, synch)
<1>4. CASE StartStep
  <2>1. PICK p \in Procs : ~IsStarted(p) /\ state' = [state EXCEPT ![p] = "called"]
                           /\ Push(p, TRUE)
    BY <1>4 DEF StartStep
  <2>2. state[p] # "called"
    BY <2>1 DEF ListInv
  <2> QED
    BY <1>2, <2>1, <2>2
<1>5. CASE ReturnStep
  <2> DEFINE n == Len(stack)
             f == stack[n]
  <2>1. n \in DOMAIN stack /\ f.p \in Procs
    BY <1>5, TopFrame DEF ReturnStep
  <2>2. /\ n \in Nat /\ n > 0 /\ DOMAIN stack = 1 .. n
        /\ DOMAIN stack' = 1 .. n - 1 /\ Len(stack') = n - 1
        /\ \A i \in 1 .. n - 1 : stack'[i] = stack[i]
    <3>1. stack \in Seq(Frame) /\ stack' = SubSeq(stack, 1, n - 1)
      BY <1>5 DEF ReturnStep, ProcType
    <3>2. n \in Nat /\ n > 0 /\ DOMAIN stack = 1 .. n
      BY <2>1, <3>1
    <3> HIDE DEF n
    <3>3. Len(stack') = n - 1 /\ \A i \in 1 .. n - 1 : stack'[i] = stack[i]
      BY <3>1, <3>2, SubSeqProperties DEF n
    <3> QED
      BY <3>1, <3>2, <3>3, SubSeqProperties DEF n
  <2>3. /\ state' = [state EXCEPT ![f.p] = "running"]
        /\ current' = IF f.synch THEN f.caller ELSE current
    BY <1>5 DEF ReturnStep
  <2> HIDE DEF f
  <2>4. StackInv'
    BY <2>2
  <2>5. \A i, j \in DOMAIN stack' : stack'[i].p = stack'[j].p => i = j
    BY <2>2
  <2>6. \A q \in Procs : state'[q] = "called" <=> \E i \in DOMAIN stack' : stack'[i].p = q
    <3>1. \A q \in Procs : (\E i \in DOMAIN stack' : stack'[i].p = q)
                           <=> (\E i \in DOMAIN stack : stack[i].p = q) /\ q # f.p
      <4>1. \A i \in DOMAIN stack : stack[i].p = f.p <=> i = n
        BY <2>1 DEF f
      <4>2. \A i \in DOMAIN stack : i \in DOMAIN stack' <=> i # n
        BY <2>2
      <4>3. \A i \in DOMAIN stack' : i \in DOMAIN stack /\ stack'[i] = stack[i]
        BY <2>2
      <4> HIDE DEF n
      <4> QED
        BY ONLY <2>1, <4>1, <4>2, <4>3
    <3> QED
      BY <2>1, <2>3, <3>1 DEF ProcType
  <2>7. CurrentIsRunning'
    <3>1. CASE n = 1
      BY <2>2, <3>1
    <3>2. CASE n > 1
      <4>1. f.synch /\ f.caller = stack[n - 1].p
        BY <2>1, <3>2 DEF f
      <4> QED
        BY <2>2, <2>3, <3>2, <4>1
    <3> QED
      BY <2>2, <3>1, <3>2
  <2> QED
    BY <2>4, <2>5, <2>6, <2>7
<1> QED
  BY <1>1, <1>3, <1>4, <1>5 DEF ProcStep

-----------------------------------------------------------------------------
(* The types of the other variables. *)

LEMMA StartedGrows ==
  ASSUME ProcType, ProcStep
  PROVE  Len(started') >= Len(started) /\ Len(started) \in Nat
<1>1. CASE started' = started
  BY <1>1 DEF ProcType
<1>2. CASE StartStep
  BY <1>2 DEF StartStep, ProcType
<1> QED
  BY <1>1, <1>2 DEF ProcStep, CallStep, ReturnStep, procVars

LEMMA FreeSlotType == ASSUME QueueType PROVE FreeSlot \in Slots
BY ConstAssumption DEF QueueType, FreeSlot, Slots

LEMMA CountType ==
  ASSUME QueueType
  PROVE  /\ OneMore \in 0 .. CountWidth - 1
         /\ (nevents - 1) % CountWidth \in 0 .. CountWidth - 1
         /\ (fevent + 1) % NumEvents \in Slots
BY ConstAssumption DEF QueueType, OneMore, Slots

LEMMA QueueTypeStep == ASSUME TypeOK, [Next]_vars PROVE QueueType'
<1> USE DEF TypeOK
<1>1. CASE UNCHANGED queueVars
  BY <1>1 DEF queueVars, QueueType
<1>2. CASE TakeEvent
  <2>1. events[fevent] \in Event
    BY DEF QueueType
  <2> QED
    BY <1>2, <2>1, CountType DEF TakeEvent, QueueType
<1>3. CASE CountEvent
  BY <1>3, CountType DEF CountEvent, QueueType
<1>4. CASE PostWriteEv
  <2>1. posting.snum \in Slots /\ posting.e.ev \in Kinds \cup {Nil}
    BY DEF PostType, Event
  <2>2. [events[posting.snum] EXCEPT !.ev = posting.e.ev] \in Event
    BY <2>1 DEF QueueType, Event
  <2>3. events' = [events EXCEPT ![posting.snum] =
                     [events[posting.snum] EXCEPT !.ev = posting.e.ev]]
        /\ UNCHANGED <<nevents, fevent, dispatched>>
    BY <1>4 DEF PostWriteEv
  <2> QED
    BY <2>1, <2>2, <2>3 DEF QueueType
<1>5. CASE PostWriteP
  <2>1. posting.snum \in Slots /\ posting.e.p \in Procs \cup {Broadcast}
    BY DEF PostType, Event
  <2>2. [events[posting.snum] EXCEPT !.p = posting.e.p] \in Event
    BY <2>1 DEF QueueType, Event
  <2>3. events' = [events EXCEPT ![posting.snum] =
                     [events[posting.snum] EXCEPT !.p = posting.e.p]]
        /\ UNCHANGED <<nevents, fevent, dispatched>>
    BY <1>5 DEF PostWriteP
  <2> QED
    BY <2>1, <2>2, <2>3 DEF QueueType
<1>6. CASE PostCount
  BY <1>6, CountType DEF PostCount, QueueType
<1>7. ASSUME NEW e \in IsrPosts, IsrPost(e) PROVE QueueType'
  BY <1>7, CountType, FreeSlotType, ConstAssumption DEF IsrPost, QueueType
<1> QED
  BY <1>1, <1>2, <1>3, <1>4, <1>5, <1>6, <1>7
     DEF Next, Loop, Thread, Interrupt, BootStart, BootDone, RunPoll, RunNoPoll,
         PollVisit, PollDone, NoEvent, Deliver, DeliverBroadcast, BroadcastPoll,
         BroadcastCall, BroadcastDone, ThreadPoll, ThreadStart, ThreadPostSynch,
         PostFull, PostBegin, PostSlot, Return, IsrPoll, vars, queueVars

LEMMA PollTypeStep == ASSUME TypeOK, [Next]_vars PROVE PollType'
<1> USE DEF TypeOK, PollType
<1>1. CASE UNCHANGED pollVars
  BY <1>1 DEF pollVars
<1>2. CASE RunPoll \/ BroadcastPoll
  BY <1>2 DEF RunPoll, BroadcastPoll, do_poll
<1>3. CASE PollVisit
  BY <1>3 DEF PollVisit
<1>4. ASSUME NEW q \in Procs, process_poll(q) PROVE PollType'
  BY <1>4 DEF process_poll, pollVars
<1>5. ASSUME NEW q \in Procs, ThreadPoll(q) \/ IsrPoll(q) PROVE PollType'
  BY <1>4, <1>5 DEF ThreadPoll, IsrPoll
<1> QED
  BY <1>1, <1>2, <1>3, <1>5, ConstAssumption
     DEF Next, Loop, Thread, Interrupt, BootStart, BootDone, RunNoPoll,
         PollDone, NoEvent, TakeEvent, CountEvent, Deliver, DeliverBroadcast,
         BroadcastCall, BroadcastDone, ThreadStart, ThreadPostSynch,
         PostFull, PostBegin, PostSlot, PostWriteEv, PostWriteP, PostCount,
         Return, IsrPost, vars, pollVars

LEMMA LoopTypeStep == ASSUME IInv, [Next]_vars PROVE LoopType'
<1> USE DEF IInv, TypeOK
<1>0. Len(started') >= Len(started) /\ Len(started) \in Nat /\ Len(started') \in Nat
  BY StartedGrows, NextIsProcStep, ProcTypeStep DEF ProcType
<1>1. CASE UNCHANGED loopVars
  BY <1>0, <1>1 DEF loopVars, LoopType
<1>2. CASE BootStart
  <2>1. Tail(toboot) \in Seq(Procs)
    BY <1>2 DEF BootStart, LoopType
  <2> QED
    BY <1>0, <1>2, <2>1 DEF BootStart, LoopType
<1>3. CASE RunPoll \/ BroadcastPoll
  <2>1. /\ pcur' = Len(started) /\ started' = started
        /\ pc' \in {"poll", "bpoll"}
        /\ UNCHANGED <<toboot, bcur>>
    BY <1>3 DEF RunPoll, BroadcastPoll, do_poll, procVars
  <2> QED
    BY <1>0, <2>1 DEF LoopType
<1>4. CASE PollVisit
  BY <1>0, <1>4 DEF PollVisit, LoopType
<1>5. CASE DeliverBroadcast
  BY <1>0, <1>5 DEF DeliverBroadcast, LoopType, procVars
<1>6. CASE BroadcastCall
  BY <1>0, <1>6 DEF BroadcastCall, LoopType, LoopInv
<1>7. CASE \/ BootDone \/ RunNoPoll \/ PollDone \/ NoEvent \/ TakeEvent
           \/ CountEvent \/ Deliver \/ BroadcastDone
  <2>1. /\ UNCHANGED <<toboot, pcur, bcur>>
        /\ pc' \in {"run", "event", "bcall", "taken", "deliver"}
    BY <1>7 DEF BootDone, RunNoPoll, PollDone, NoEvent, TakeEvent, CountEvent,
       Deliver, BroadcastDone
  <2> QED
    BY <1>0, <2>1 DEF LoopType
<1> QED
  BY <1>1, <1>2, <1>3, <1>4, <1>5, <1>6, <1>7
     DEF Next, Loop, Thread, Interrupt, ThreadPoll, ThreadStart, ThreadPostSynch,
         PostFull, PostBegin, PostSlot, PostWriteEv, PostWriteP, PostCount,
         Return, IsrPoll, IsrPost, vars

LEMMA PostTypeStep == ASSUME TypeOK, [Next]_vars PROVE PostType'
<1> USE ConstAssumption DEF TypeOK, PostType
<1>0. NoPost \in [step : {"none", "snum", "ev", "p", "inc"}, e : Event, snum : Slots]
  BY DEF NoPost, Zeroed, Event, Slots
<1>1. CASE posting' = posting /\ ops' \in {ops, MaxOps} /\ isrposts' = isrposts
  BY <1>1
<1>2. CASE MayCall /\ ops' = ops - 1 /\ posting' = posting /\ isrposts' = isrposts
  BY <1>2 DEF MayCall
<1>3. ASSUME NEW e \in Posts, PostBegin(e) PROVE PostType'
  <2>1. [step |-> "snum", e |-> e, snum |-> 0]
          \in [step : {"none", "snum", "ev", "p", "inc"}, e : Event, snum : Slots]
    BY DEF Slots
  <2> QED
    BY <1>3, <2>1 DEF PostBegin, MayCall
<1>4. CASE PostSlot
  BY <1>4, FreeSlotType DEF PostSlot
<1>5. CASE PostWriteEv \/ PostWriteP
  BY <1>5 DEF PostWriteEv, PostWriteP
<1>6. CASE PostCount
  BY <1>0, <1>6 DEF PostCount
<1>7. ASSUME NEW e \in IsrPosts, IsrPost(e) PROVE PostType'
  BY <1>7 DEF IsrPost
<1> QED
  BY <1>1, <1>2, <1>3, <1>4, <1>5, <1>6, <1>7
     DEF Next, Loop, Thread, Interrupt, BootStart, BootDone, RunPoll, RunNoPoll,
         PollVisit, PollDone, NoEvent, TakeEvent, CountEvent, Deliver,
         DeliverBroadcast, BroadcastPoll, BroadcastCall, BroadcastDone,
         ThreadPoll, ThreadStart, ThreadPostSynch, PostFull, Return, IsrPoll, vars

LEMMA LoopInvStep == ASSUME IInv, [Next]_vars PROVE LoopInv'
<1> USE DEF IInv, LoopInv
<1>1. CASE UNCHANGED vars
  BY <1>1 DEF vars, loopVars, procVars, Idle
<1>2. CASE Loop
  <2>1. posting' = posting /\ posting.step = "none"
    BY <1>2 DEF Loop, BootStart, BootDone, RunPoll, RunNoPoll, PollVisit, PollDone,
       NoEvent, TakeEvent, CountEvent, Deliver, DeliverBroadcast, BroadcastPoll,
       BroadcastCall, BroadcastDone
  <2>2. pc' \in {"bcall", "bpoll"} => bcur' > 0
    BY <1>2 DEF Loop, BootStart, BootDone, RunPoll, RunNoPoll, PollVisit, PollDone,
       NoEvent, TakeEvent, CountEvent, Deliver, DeliverBroadcast, BroadcastPoll,
       BroadcastCall, BroadcastDone, do_poll
  <2> QED
    BY <2>1, <2>2
<1>3. CASE Interrupt
  BY <1>3 DEF Interrupt, IsrPoll, IsrPost, loopVars, procVars, Idle
<1>4. CASE Thread
  <2>1. UNCHANGED loopVars
    BY <1>4 DEF Thread, ThreadPoll, ThreadStart, ThreadPostSynch, PostFull, PostBegin,
       PostSlot, PostWriteEv, PostWriteP, PostCount, Return
  <2>2. CASE posting = NoPost /\ posting' = posting
    BY <2>1, <2>2 DEF loopVars, NoPost
  <2>3. ASSUME NEW e \in Posts, PostBegin(e) PROVE LoopInv'
    BY <2>1, <2>3 DEF PostBegin, MayCall, loopVars, procVars, Idle
  <2>4. CASE PostSlot \/ PostWriteEv \/ PostWriteP
    <3>1. posting'.step \in {"ev", "p", "inc"} /\ stack' = stack /\ ~Idle
      BY <2>4 DEF PostSlot, PostWriteEv, PostWriteP, procVars, TypeOK, PostType
    <3> QED
      BY <2>1, <3>1 DEF loopVars, Idle
  <2>5. CASE PostCount
    BY <2>1, <2>5 DEF PostCount, loopVars, NoPost
  <2> QED
    BY <1>4, <2>2, <2>3, <2>4, <2>5
       DEF Thread, ThreadPoll, ThreadStart, ThreadPostSynch, PostFull, Return, MayCall
<1> QED
  BY <1>1, <1>2, <1>3, <1>4 DEF Next

-----------------------------------------------------------------------------
(* PollNotLost: a new request raises poll_requested; do_poll() lowers it   *)
(* only when its walk starts from the head of the list, and the walk       *)
(* leaves a process behind only after clearing its flag.                   *)

LEMMA PollNotLostStep == ASSUME IInv, [Next]_vars PROVE PollNotLost'
<1> USE DEF IInv, TypeOK, PollNotLost
<1>0. /\ DOMAIN started = 1 .. Len(started) /\ Len(started) \in Nat
      /\ DOMAIN started' = 1 .. Len(started')
      /\ started \in Seq(Procs) /\ started' \in Seq(Procs)
  BY NextIsProcStep, ProcTypeStep DEF ProcType
<1>1. CASE UNCHANGED <<started, needspoll, poll_requested, pc, pcur>>
  BY <1>0, <1>1
<1>2. CASE UNCHANGED <<started, needspoll, poll_requested>> /\ pc \notin {"poll", "bpoll"}
  BY <1>0, <1>2
<1>3. CASE RunPoll \/ BroadcastPoll
  <2>1. /\ pcur' = Len(started) /\ started' = started
        /\ pc' \in {"poll", "bpoll"}
    BY <1>3 DEF RunPoll, BroadcastPoll, do_poll, procVars
  <2> QED
    BY <1>0, <2>1
<1>4. CASE PollVisit
  <2>1. /\ started' = started /\ pc' = pc /\ pc \in {"poll", "bpoll"}
        /\ pcur > 0 /\ pcur' = pcur - 1 /\ poll_requested' = poll_requested
        /\ pcur \in DOMAIN started
    BY <1>0, <1>4 DEF PollVisit, LoopType
  <2>2. \A i \in DOMAIN started : needspoll'[started[i]] => needspoll[started[i]] /\ i # pcur
    <3> DEFINE p == started[pcur]
    <3>1. p \in Procs
      BY <1>0, <2>1
    <3>2. \/ needspoll' = [needspoll EXCEPT ![p] = FALSE]
          \/ needspoll' = needspoll /\ ~needspoll[p]
      BY <1>4 DEF PollVisit
    <3> HIDE DEF p
    <3>3. \A q \in Procs : needspoll'[q] => needspoll[q] /\ q # p
      BY <3>1, <3>2 DEF PollType
    <3> QED
      BY <1>0, <3>3 DEF p
  <2> QED
    BY <1>0, <2>1, <2>2 DEF LoopType
<1>5. CASE PollDone
  <2>1. UNCHANGED <<started, needspoll, poll_requested>> /\ pcur = 0
    BY <1>5 DEF PollDone, pollVars, procVars
  <2> QED
    BY <1>0, <2>1
<1>6. ASSUME NEW q \in Procs, ThreadPoll(q) \/ IsrPoll(q) PROVE PollNotLost'
  <2>1. started' = started /\ pc' = pc /\ pcur' = pcur
    BY <1>6 DEF ThreadPoll, IsrPoll, loopVars, procVars
  <2>2. poll_requested' \/ UNCHANGED pollVars
    BY <1>6 DEF ThreadPoll, IsrPoll, process_poll
  <2> QED
    BY <1>0, <2>1, <2>2 DEF pollVars
<1>7. CASE StartStep /\ UNCHANGED <<needspoll, poll_requested, pc, pcur>>
  <2> PICK p \in Procs : ~IsStarted(p) /\ started' = Append(started, p)
    BY <1>7 DEF StartStep
  <2>1. /\ \A i \in DOMAIN started : started'[i] = started[i]
        /\ \A i \in DOMAIN started' : i \in DOMAIN started \/ started'[i] = p
    BY <1>0
  <2>2. ~needspoll[p]
    BY DEF FlagInv
  <2> QED
    BY <1>0, <1>7, <2>1, <2>2
<1>8. ASSUME NEW q \in Procs, process_start(q),
             UNCHANGED <<needspoll, poll_requested, pc, pcur>>
      PROVE  PollNotLost'
  <2>1. UNCHANGED procVars \/ StartStep
    BY <1>8, StartIsStep
  <2> QED
    BY <1>1, <1>7, <1>8, <2>1 DEF procVars
<1>9. CASE BootStart
  <2>1. Head(toboot) \in Procs
    BY <1>9 DEF BootStart, LoopType
  <2> QED
    BY <1>8, <1>9, <2>1 DEF BootStart, pollVars
<1>10. ASSUME NEW q \in Procs, ThreadStart(q) PROVE PollNotLost'
  BY <1>8, <1>10 DEF ThreadStart, pollVars, loopVars
<1>11. CASE \/ BootDone \/ RunNoPoll \/ NoEvent \/ TakeEvent \/ CountEvent
            \/ Deliver \/ DeliverBroadcast \/ BroadcastCall \/ BroadcastDone
  <2>1. UNCHANGED <<started, needspoll, poll_requested>> /\ pc \notin {"poll", "bpoll"}
    BY <1>11 DEF BootDone, RunNoPoll, NoEvent, TakeEvent, CountEvent, Deliver,
       DeliverBroadcast, BroadcastCall, BroadcastDone, pollVars, procVars
  <2> QED
    BY <1>2, <2>1
<1>12. ASSUME \/ \E q \in Procs : ThreadPostSynch(q)
              \/ \E e \in Posts : PostFull(e) \/ PostBegin(e)
              \/ PostSlot \/ PostWriteEv \/ PostWriteP \/ PostCount \/ Return
              \/ \E e \in IsrPosts : IsrPost(e)
              \/ UNCHANGED vars
       PROVE  PollNotLost'
  <2>1. UNCHANGED <<started, needspoll, poll_requested, pc, pcur>>
    BY <1>12 DEF ThreadPostSynch, PostFull, PostBegin, PostSlot, PostWriteEv,
       PostWriteP, PostCount, Return, IsrPost, pollVars, loopVars, procVars, vars
  <2> QED
    BY <1>1, <2>1
<1> QED
  BY <1>3, <1>4, <1>5, <1>6, <1>9, <1>10, <1>11, <1>12, ConstAssumption
     DEF Next, Loop, Thread, Interrupt

LEMMA FlagInvStep == ASSUME IInv, [Next]_vars PROVE FlagInv'
<1> USE DEF IInv, TypeOK, FlagInv
<1>1. \A p \in Procs : IsStarted(p) => IsStarted(p)'
  <2>1. \A i \in DOMAIN started : i \in DOMAIN started' /\ started'[i] = started[i]
    <3>1. CASE started' = started
      BY <3>1
    <3>2. CASE StartStep
      BY <3>2 DEF StartStep, ProcType
    <3> QED
      BY <3>1, <3>2, NextIsProcStep DEF ProcStep, CallStep, ReturnStep, procVars
  <2> QED
    BY <2>1 DEF IsStarted
<1>2. CASE \A p \in Procs : needspoll'[p] => needspoll[p]
  BY <1>1, <1>2
<1>3. ASSUME NEW q \in Procs, process_poll(q) PROVE FlagInv'
  <2>1. CASE needspoll' = needspoll
    BY <1>1, <2>1
  <2>2. CASE needspoll' = [needspoll EXCEPT ![q] = TRUE] /\ state[q] # "none"
    <3>1. IsStarted(q)
      BY <2>2 DEF ListInv
    <3> QED
      BY <1>1, <2>2, <3>1 DEF PollType
  <2> QED
    BY <1>3, <2>1, <2>2 DEF process_poll, pollVars
<1>4. CASE PollVisit
  <2> DEFINE p == started[pcur]
  <2>1. p \in Procs
    BY <1>4 DEF PollVisit, LoopType, ProcType
  <2>2. needspoll' = [needspoll EXCEPT ![p] = FALSE] \/ needspoll' = needspoll
    BY <1>4 DEF PollVisit
  <2> HIDE DEF p
  <2> QED
    BY <1>2, <2>1, <2>2 DEF PollType
<1>5. ASSUME NEW q \in Procs, ThreadPoll(q) \/ IsrPoll(q) PROVE FlagInv'
  BY <1>3, <1>5 DEF ThreadPoll, IsrPoll
<1>6. CASE needspoll' = needspoll
  BY <1>2, <1>6
<1> QED
  BY <1>4, <1>5, <1>6, ConstAssumption
     DEF Next, Loop, Thread, Interrupt, BootStart, BootDone, RunPoll, RunNoPoll,
         PollDone, NoEvent, TakeEvent, CountEvent, Deliver, DeliverBroadcast,
         BroadcastPoll, BroadcastCall, BroadcastDone, ThreadStart, ThreadPostSynch,
         PostFull, PostBegin, PostSlot, PostWriteEv, PostWriteP, PostCount, Return,
         IsrPost, vars, pollVars

-----------------------------------------------------------------------------
(* The inductive invariant holds in every reachable state of the kernel.   *)
THEOREM IInvCorrect == Spec => []IInv
<1>1. ASSUME IInv, [Next]_vars PROVE IInv'
  <2>1. ProcStep
    BY <1>1, NextIsProcStep
  <2>2. TypeOK'
    BY <1>1, <2>1, QueueTypeStep, PollTypeStep, ProcTypeStep, LoopTypeStep, PostTypeStep
       DEF IInv, TypeOK
  <2>3. ListInv'
    BY <1>1, <2>1, ListInvStep DEF IInv, TypeOK
  <2>4. StackInv' /\ NoReentry' /\ CurrentIsRunning'
    BY <1>1, <2>1, StackStep DEF IInv, TypeOK
  <2>5. FlagInv' /\ LoopInv' /\ PollNotLost'
    BY <1>1, FlagInvStep, LoopInvStep, PollNotLostStep
  <2> QED
    BY <2>2, <2>3, <2>4, <2>5 DEF IInv
<1> QED
  BY InitIInv, <1>1, PTL DEF Spec

(* Every variable of the kernel keeps its type: in particular each index   *)
(* into events[] is one of its slots.                                      *)
THEOREM TypeCorrect == Spec => []TypeOK
<1>1. IInv => TypeOK
  BY DEF IInv
<1> QED
  BY IInvCorrect, <1>1, PTL

(* No request to be polled is lost, whatever threads and interrupt         *)
(* handlers do between two steps of do_poll() and do_event().              *)
THEOREM NoPollLost == Spec => []PollNotLost
<1>1. IInv => PollNotLost
  BY DEF IInv
<1> QED
  BY IInvCorrect, <1>1, PTL

(* call_process() never enters a protothread that is being executed,       *)
(* whatever posts to whom from within whose thread.                        *)
THEOREM NeverReentered == Spec => []NoReentry
<1>1. IInv => NoReentry
  BY DEF IInv
<1> QED
  BY IInvCorrect, <1>1, PTL

(* process_current names the running process, also after nested calls have *)
(* returned.                                                               *)
THEOREM CurrentIsRestored == Spec => []CurrentIsRunning
<1>1. IInv => CurrentIsRunning
  BY DEF IInv
<1> QED
  BY IInvCorrect, <1>1, PTL

-----------------------------------------------------------------------------
(* What the comment of process.h:345-366 takes for granted: only threads   *)
(* call process_post().                                                    *)
NoIsrPost == IsrPosts = {}

(* The free slot seen by process_post() stays free until nevents counts    *)
(* it, and do_event() has an event to take off.                            *)
RingInv ==
  /\ RingBounded
  /\ posting.step # "none" => nevents < NumEvents
  /\ pc = "taken" => Idle /\ nevents > 0

LEMMA ModSmall ==
  ASSUME NEW n \in Nat, NEW d \in Nat, n < d
  PROVE  n % d = n
OBVIOUS

LEMMA RingInvStep == ASSUME NoIsrPost, IInv, RingInv, [Next]_vars PROVE RingInv'
<1> USE ConstAssumption DEF IInv, TypeOK, RingInv, RingBounded
<1>0. nevents \in Nat /\ CountWidth \in Nat /\ NumEvents \in Nat
  BY DEF QueueType
<1>1. CASE UNCHANGED <<nevents, posting, pc, stack>>
  BY <1>1 DEF Idle
<1>2. CASE Loop
  <2>1. posting' = posting /\ posting.step = "none"
    BY <1>2 DEF LoopInv, Loop, BootStart, BootDone, RunPoll, RunNoPoll, PollVisit,
       PollDone, NoEvent, TakeEvent, CountEvent, Deliver, DeliverBroadcast,
       BroadcastPoll, BroadcastCall, BroadcastDone
  <2>2. CASE nevents' = nevents /\ pc' # "taken"
    BY <2>1, <2>2
  <2>3. CASE TakeEvent
    BY <2>1, <2>3 DEF TakeEvent, Idle, procVars
  <2>4. CASE CountEvent
    <3>1. (nevents - 1) % CountWidth = nevents - 1
      BY <1>0, <2>4, ModSmall DEF CountEvent, QueueType
    <3> QED
      BY <1>0, <2>1, <2>4, <3>1 DEF CountEvent
  <2> QED
    BY <1>2, <2>2, <2>3, <2>4
       DEF Loop, BootStart, BootDone, RunPoll, RunNoPoll, PollVisit, PollDone,
           NoEvent, Deliver, DeliverBroadcast, BroadcastPoll, BroadcastCall,
           BroadcastDone, do_poll, queueVars
<1>3. CASE Thread
  <2>1. ~Idle /\ pc # "taken" /\ pc' = pc
    BY <1>3 DEF LoopInv, Thread, ThreadPoll, ThreadStart, ThreadPostSynch, PostFull,
       PostBegin, PostSlot, PostWriteEv, PostWriteP, PostCount, Return, MayCall, loopVars
  <2>2. CASE nevents' = nevents /\ posting' = posting
    BY <2>1, <2>2
  <2>3. ASSUME NEW e \in Posts, PostBegin(e) PROVE RingInv'
    BY <1>0, <2>1, <2>3 DEF PostBegin, queueVars
  <2>4. CASE PostSlot \/ PostWriteEv \/ PostWriteP
    BY <2>1, <2>4 DEF PostSlot, PostWriteEv, PostWriteP, queueVars
  <2>5. CASE PostCount
    <3>1. nevents < NumEvents
      BY <2>5 DEF PostCount
    <3>2. OneMore = nevents + 1
      BY <1>0, <3>1, ModSmall DEF OneMore
    <3> QED
      BY <1>0, <2>1, <2>5, <3>1, <3>2 DEF PostCount, NoPost
  <2> QED
    BY <1>3, <2>2, <2>3, <2>4, <2>5
       DEF Thread, ThreadPoll, ThreadStart, ThreadPostSynch, PostFull, Return, queueVars
<1>4. CASE Interrupt \/ UNCHANGED vars
  BY <1>1, <1>4 DEF Interrupt, NoIsrPost, IsrPoll, queueVars, loopVars, procVars, vars
<1> QED
  BY <1>2, <1>3, <1>4 DEF Next

(* process_post()'s test for equality suffices as long as only threads     *)
(* post: the ring never counts more events than it has slots.              *)
THEOREM RingNeverOverruns == NoIsrPost => (Spec => []RingBounded)
<1>1. Init => RingInv
  BY ConstAssumption DEF Init, RingInv, RingBounded, NoPost
<1>2. RingInv => RingBounded
  BY DEF RingInv
<1> SUFFICES ASSUME NoIsrPost PROVE Spec => []RingBounded
  OBVIOUS
<1>3. IInv /\ RingInv /\ [Next]_vars => RingInv'
  BY RingInvStep
<1> QED
  BY IInvCorrect, <1>1, <1>2, <1>3, PTL DEF Spec

-----------------------------------------------------------------------------
(* The ring of events is the queue of module EventQueue: while a thread is *)
(* posting, what it has written so far is in the slot that comes after the *)
(* events that count.                                                      *)
WriteInv ==
  /\ posting.step \in {"ev", "p", "inc"} => posting.snum = FreeSlot
  /\ posting.step \in {"p", "inc"} => events[posting.snum].ev = posting.e.ev
  /\ posting.step = "inc" => events[posting.snum].p = posting.e.p

At(f, k) == (f + k) % NumEvents

(* How far round the ring a slot is.                                       *)
LEMMA SlotAt ==
  ASSUME NEW f \in Slots, NEW k \in 0 .. NumEvents
  PROVE  /\ At(f, k) = IF f + k < NumEvents THEN f + k ELSE f + k - NumEvents
         /\ At(f, k) \in Slots
<1>1. f \in Nat /\ k \in Nat /\ NumEvents \in Nat \ {0} /\ f < NumEvents /\ k <= NumEvents
  BY ConstAssumption DEF Slots
<1>2. CASE f + k < NumEvents
  BY <1>1, <1>2 DEF At, Slots
<1>3. CASE ~(f + k < NumEvents)
  <2> DEFINE n == f + k
  <2>1. n \in Nat /\ NumEvents <= n /\ n < 2 * NumEvents
    BY <1>1, <1>3
  <2> HIDE DEF n
  <2>2. n % NumEvents = n - NumEvents
    BY <1>1, <2>1
  <2> QED
    BY <1>1, <1>3, <2>1, <2>2 DEF At, Slots, n
<1> QED
  BY <1>2, <1>3

(* The free slot is the first one after the events that count.             *)
LEMMA FreeSlotAt ==
  ASSUME TypeOK, nevents <= NumEvents
  PROVE  FreeSlot = At(fevent, nevents)
<1>1. /\ fevent \in Nat /\ nevents \in Nat /\ fevent < NumEvents /\ nevents <= NumEvents
      /\ NumEvents \in Nat /\ CountWidth \in Nat /\ 2 * NumEvents <= CountWidth
  BY ConstAssumption DEF TypeOK, QueueType, Slots
<1>2. fevent + nevents \in Nat /\ fevent + nevents < CountWidth
  BY <1>1
<1>3. (fevent + nevents) % CountWidth = fevent + nevents
  BY <1>1, <1>2, ModSmall
<1> QED
  BY <1>3 DEF FreeSlot, At

(* What the ring contains, n events from slot f on.                        *)
Ring(ev, f, n) == [i \in 1 .. n |-> ev[(f + i - 1) % NumEvents]]

LEMMA Contents ==
  ASSUME NEW f \in Slots, NEW n \in 0 .. NumEvents, NEW ev \in [Slots -> Event],
         NEW c, c = Ring(ev, f, n)
  PROVE  /\ c \in Seq(Event) /\ Len(c) = n
         /\ \A i \in 1 .. n : c[i] = ev[At(f, i - 1)]
<1>1. f \in Nat /\ n \in Nat /\ NumEvents \in Nat /\ n <= NumEvents
  BY ConstAssumption DEF Slots
<1>2. \A i \in 1 .. n : ev[At(f, i - 1)] \in Event
  <2> TAKE i \in 1 .. n
  <2>1. i - 1 \in 0 .. NumEvents
    BY <1>1
  <2> QED
    BY <2>1, SlotAt
<1>3. \A i \in 1 .. n : (f + i - 1) % NumEvents = At(f, i - 1)
  <2> TAKE i \in 1 .. n
  <2>1. f + i - 1 = f + (i - 1)
    BY <1>1
  <2> QED
    BY <2>1 DEF At
<1>4. c = [i \in 1 .. n |-> ev[At(f, i - 1)]]
  BY <1>3 DEF Ring
<1>5. c \in [1 .. n -> Event]
  BY <1>2, <1>4
<1>6. c \in Seq(Event) /\ Len(c) = n
  BY <1>1, <1>5
<1> QED
  BY <1>4, <1>6

(* A step that changes no slot the ring has, nor which slots these are.    *)
LEMMA ContentsKept ==
  ASSUME Pending' = Pending, fevent' = fevent,
         \A i \in 1 .. Pending : events'[(fevent + i - 1) % NumEvents]
                                   = events[(fevent + i - 1) % NumEvents]
  PROVE  RingContents' = RingContents
BY DEF RingContents

(* The slot a thread is filling is none of those that count.               *)
LEMMA FreeSlotFree ==
  ASSUME TypeOK, RingInv, nevents < NumEvents, NEW i \in 1 .. Pending
  PROVE  (fevent + i - 1) % NumEvents # FreeSlot
<1>1. /\ nevents \in Nat /\ NumEvents \in Nat /\ fevent \in Slots /\ fevent \in Nat
      /\ fevent < NumEvents
  BY ConstAssumption DEF TypeOK, QueueType, Slots
<1>2. i \in Nat /\ i - 1 \in Nat /\ i - 1 < nevents
  BY <1>1 DEF Pending
<1> DEFINE j == i - 1
<1>3. (fevent + i - 1) % NumEvents = At(fevent, j)
  <2>1. fevent + i - 1 = fevent + j
    BY <1>1, <1>2
  <2> QED
    BY <2>1 DEF At
<1>4. FreeSlot = At(fevent, nevents)
  BY <1>1, FreeSlotAt
<1>5. j \in Nat /\ j < nevents
  BY <1>2
<1> HIDE DEF j
<1>6. j \in 0 .. NumEvents /\ nevents \in 0 .. NumEvents
  BY <1>1, <1>5
<1>7. /\ At(fevent, j) = IF fevent + j < NumEvents THEN fevent + j ELSE fevent + j - NumEvents
      /\ At(fevent, nevents) = IF fevent + nevents < NumEvents THEN fevent + nevents
                               ELSE fevent + nevents - NumEvents
  BY <1>1, <1>6, SlotAt
<1>8. At(fevent, j) # At(fevent, nevents)
  BY <1>1, <1>5, <1>7
<1> QED
  BY <1>3, <1>4, <1>8

(* What a step may do to the events.                                       *)
LEMMA EventStep ==
  ASSUME NoIsrPost, IInv, RingInv, [Next]_vars
  PROVE  \/ /\ UNCHANGED <<events, nevents, fevent, dispatched>>
            /\ pc = "taken" <=> pc' = "taken"
            /\ \/ posting' = posting \/ posting'.step = "snum"
               \/ PostSlot /\ pc # "taken"
         \/ TakeEvent /\ posting.step = "none"
         \/ CountEvent /\ posting.step = "none"
         \/ (PostWriteEv \/ PostWriteP \/ PostCount) /\ pc # "taken" /\ pc' = pc
<1>1. CASE Loop
  <2>1. posting.step = "none"
    BY <1>1 DEF IInv, LoopInv, Loop, BootStart, BootDone, RunPoll, RunNoPoll, PollVisit,
       PollDone, NoEvent, TakeEvent, CountEvent, Deliver, DeliverBroadcast,
       BroadcastPoll, BroadcastCall, BroadcastDone
  <2> QED
    BY <1>1, <2>1 DEF Loop, BootStart, BootDone, RunPoll, RunNoPoll, PollVisit,
       PollDone, NoEvent, Deliver, DeliverBroadcast,
       BroadcastPoll, BroadcastCall, BroadcastDone, do_poll, queueVars
<1>2. CASE Thread
  <2>1. pc # "taken" /\ pc' = pc
    BY <1>2 DEF IInv, RingInv, LoopInv, Thread, ThreadPoll, ThreadStart, ThreadPostSynch, PostFull,
       PostBegin, PostSlot, PostWriteEv, PostWriteP, PostCount, Return, MayCall, loopVars
  <2>2. CASE PostSlot \/ \E e \in Posts : PostBegin(e)
    BY <2>1, <2>2 DEF PostSlot, PostBegin, queueVars
  <2>3. CASE \/ \E q \in Procs : ThreadPoll(q) \/ ThreadStart(q) \/ ThreadPostSynch(q)
             \/ \E e \in Posts : PostFull(e)
             \/ Return
    BY <2>1, <2>3 DEF ThreadPoll, ThreadStart, ThreadPostSynch, PostFull, Return, queueVars
  <2> QED
    BY <1>2, <2>1, <2>2, <2>3 DEF Thread
<1>3. CASE Interrupt \/ UNCHANGED vars
  BY <1>3 DEF Interrupt, NoIsrPost, IsrPoll, queueVars, loopVars, procVars, vars
<1> QED
  BY <1>1, <1>2, <1>3 DEF Next

(* The slot that is being filled stays the free one until it counts.       *)
LEMMA WriteInvStep ==
  ASSUME NoIsrPost, IInv, RingInv, WriteInv, [Next]_vars
  PROVE  WriteInv'
<1>1. CASE UNCHANGED <<events, nevents, fevent>> /\ (posting' = posting \/ posting'.step = "snum")
  BY <1>1 DEF WriteInv, FreeSlot
<1>2. CASE PostSlot
  <2>1. posting'.step = "ev" /\ posting'.snum = FreeSlot /\ UNCHANGED <<nevents, fevent>>
    BY <1>2 DEF PostSlot, queueVars, IInv, TypeOK, PostType
  <2> QED
    BY <2>1 DEF WriteInv, FreeSlot
<1>3. CASE (TakeEvent \/ CountEvent) /\ posting.step = "none"
  BY <1>3 DEF TakeEvent, CountEvent, WriteInv
<1>4. CASE PostWriteEv
  <2>1. /\ posting.snum \in Slots /\ posting.step = "ev"
        /\ posting'.step = "p" /\ posting'.snum = posting.snum /\ posting'.e = posting.e
        /\ UNCHANGED <<nevents, fevent>>
        /\ events' = [events EXCEPT ![posting.snum].ev = posting.e.ev]
    BY <1>4 DEF PostWriteEv, IInv, TypeOK, PostType
  <2>2. events'[posting.snum].ev = posting.e.ev
    BY <2>1 DEF IInv, TypeOK, QueueType, Event
  <2> QED
    BY <2>1, <2>2 DEF WriteInv, FreeSlot
<1>5. CASE PostWriteP
  <2>1. /\ posting.snum \in Slots /\ posting.step = "p"
        /\ posting'.step = "inc" /\ posting'.snum = posting.snum /\ posting'.e = posting.e
        /\ UNCHANGED <<nevents, fevent>>
        /\ events' = [events EXCEPT ![posting.snum].p = posting.e.p]
    BY <1>5 DEF PostWriteP, IInv, TypeOK, PostType
  <2>2. /\ events'[posting.snum].p = posting.e.p
        /\ events'[posting.snum].ev = events[posting.snum].ev
    BY <2>1 DEF IInv, TypeOK, QueueType, Event
  <2> QED
    BY <2>1, <2>2 DEF WriteInv, FreeSlot
<1>6. CASE PostCount
  BY <1>6 DEF PostCount, NoPost, WriteInv
<1> QED
  BY <1>1, <1>2, <1>3, <1>4, <1>5, <1>6, EventStep

(* Each step of the kernel accepts an event, hands over the oldest one or  *)
(* leaves the queue alone.                                                 *)
LEMMA QueueStep ==
  ASSUME NoIsrPost, IInv, IInv', RingInv, RingInv', WriteInv, [Next]_vars
  PROVE  \/ UNCHANGED <<RingContents, dispatched>>
         \/ /\ RingContents # <<>>
            /\ dispatched' = Head(RingContents) /\ RingContents' = Tail(RingContents)
         \/ \E e \in Event : /\ Len(RingContents) < NumEvents
                             /\ RingContents' = Append(RingContents, e)
                             /\ UNCHANGED dispatched
<1> USE DEF IInv
<1>0. /\ nevents \in Nat /\ NumEvents \in Nat \ {0} /\ nevents <= NumEvents
      /\ fevent \in Slots /\ fevent \in Nat /\ fevent < NumEvents
  BY ConstAssumption DEF TypeOK, QueueType, RingInv, RingBounded, Slots
<1>1. CASE UNCHANGED <<events, nevents, fevent, dispatched>> /\ (pc = "taken" <=> pc' = "taken")
  <2>1. Pending' = Pending
    BY <1>1 DEF Pending
  <2> QED
    BY <1>1, <2>1, ContentsKept
<1>2. CASE CountEvent
  <2>1. nevents > 0
    BY <1>2 DEF CountEvent, RingInv
  <2>2. (nevents - 1) % CountWidth = nevents - 1
    <3>1. nevents - 1 \in Nat /\ nevents - 1 < CountWidth /\ CountWidth \in Nat
      BY <1>0, <2>1, ConstAssumption DEF TypeOK, QueueType
    <3> QED
      BY <3>1, ModSmall
  <2>3. Pending' = Pending
    BY <1>2, <2>2 DEF CountEvent, Pending
  <2> QED
    BY <1>2, <2>3, ContentsKept DEF CountEvent
<1>3. CASE TakeEvent
  <2>1. /\ pc = "event" /\ pc' = "taken" /\ nevents > 0 /\ nevents' = nevents /\ events' = events
        /\ dispatched' = events[fevent] /\ fevent' = (fevent + 1) % NumEvents
    BY <1>3 DEF TakeEvent
  <2>2. Pending = nevents /\ Pending' = nevents - 1
    BY <2>1 DEF Pending
  <2> DEFINE c == RingContents
             d == RingContents'
  <2>3. c \in Seq(Event) /\ Len(c) = nevents
        /\ \A i \in 1 .. nevents : c[i] = events[At(fevent, i - 1)]
    <3>1. c = Ring(events, fevent, nevents)
      BY <2>2 DEF RingContents, Ring
    <3>2. nevents \in 0 .. NumEvents /\ events \in [Slots -> Event]
      BY <1>0 DEF TypeOK, QueueType
    <3> HIDE DEF c
    <3> QED
      BY <1>0, <3>1, <3>2, Contents
  <2>4. d \in Seq(Event) /\ Len(d) = nevents - 1
        /\ \A i \in 1 .. nevents - 1 : d[i] = events[At(fevent', i - 1)]
    <3>1. d = Ring(events, fevent', nevents - 1)
      BY <2>1, <2>2 DEF RingContents, Ring
    <3>2. fevent' \in Slots /\ nevents - 1 \in 0 .. NumEvents /\ events \in [Slots -> Event]
      BY <1>0, <2>1 DEF TypeOK, QueueType
    <3> HIDE DEF d
    <3> QED
      BY <3>1, <3>2, Contents
  <2>5. c # <<>> /\ c[1] = events[fevent]
    <3>1. At(fevent, 1 - 1) = fevent
      BY <1>0, SlotAt
    <3> QED
      BY <1>0, <2>1, <2>3, <3>1
  <2>6. \A i \in 1 .. nevents - 1 : At(fevent', i - 1) = At(fevent, i)
    <3> SUFFICES ASSUME NEW i \in 1 .. nevents - 1
                 PROVE  At(fevent', i - 1) = At(fevent, i)
      OBVIOUS
    <3>1. fevent' = At(fevent, 1) /\ 1 \in 0 .. NumEvents
      BY <1>0, <2>1 DEF At
    <3>2. fevent' = IF fevent + 1 < NumEvents THEN fevent + 1 ELSE fevent + 1 - NumEvents
      BY <1>0, <3>1, SlotAt
    <3>3. fevent' \in Slots /\ i - 1 \in 0 .. NumEvents /\ i \in 0 .. NumEvents
      BY <1>0, <3>1, SlotAt
    <3>4. /\ At(fevent', i - 1) = IF fevent' + (i - 1) < NumEvents THEN fevent' + (i - 1)
                                  ELSE fevent' + (i - 1) - NumEvents
          /\ At(fevent, i) = IF fevent + i < NumEvents THEN fevent + i ELSE fevent + i - NumEvents
      BY <1>0, <3>3, SlotAt
    <3> QED
      BY <1>0, <3>2, <3>4
  <2> HIDE DEF c, d
  <2>7. Tail(c) \in Seq(Event) /\ Len(Tail(c)) = nevents - 1
        /\ \A i \in 1 .. nevents - 1 : Tail(c)[i] = c[i + 1]
    BY <1>0, <2>1, <2>3, <2>5
  <2>8. \A i \in 1 .. nevents - 1 : d[i] = Tail(c)[i]
    <3> SUFFICES ASSUME NEW i \in 1 .. nevents - 1 PROVE d[i] = Tail(c)[i]
      OBVIOUS
    <3>1. i + 1 \in 1 .. nevents /\ i + 1 - 1 = i
      BY <1>0
    <3>2. c[i + 1] = events[At(fevent, i)]
      BY <2>3, <3>1
    <3> QED
      BY <2>4, <2>6, <2>7, <3>2
  <2>9. d = Tail(c)
    BY <2>4, <2>7, <2>8, SeqEqual
  <2> QED
    BY <2>1, <2>3, <2>5, <2>9 DEF c, d
<1>4. CASE (PostWriteEv \/ PostWriteP) /\ pc # "taken" /\ pc' = pc
  <2>1. /\ posting.snum = FreeSlot /\ posting.step # "none"
        /\ UNCHANGED <<nevents, fevent, dispatched>>
        /\ \A s \in Slots \ {posting.snum} : events'[s] = events[s]
    BY <1>4 DEF PostWriteEv, PostWriteP, WriteInv, TypeOK, QueueType
  <2>2. nevents < NumEvents
    BY <2>1 DEF RingInv
  <2>3. Pending' = Pending
    BY <1>4, <2>1 DEF Pending
  <2>4. \A i \in 1 .. Pending : (fevent + i - 1) % NumEvents \in Slots \ {FreeSlot}
    <3> TAKE i \in 1 .. Pending
    <3>1. fevent + i - 1 \in Int
      BY <1>0 DEF Pending
    <3>2. (fevent + i - 1) % NumEvents \in Slots
      BY <1>0, <3>1 DEF Slots
    <3> QED
      BY <2>2, <3>2, FreeSlotFree
  <2> QED
    BY <2>1, <2>3, <2>4, ContentsKept
<1>5. CASE PostCount /\ pc # "taken" /\ pc' = pc
  <2>1. /\ posting.step = "inc" /\ nevents' = OneMore
        /\ UNCHANGED <<events, fevent, dispatched>>
    BY <1>5 DEF PostCount
  <2>2. nevents < NumEvents /\ posting.snum = FreeSlot
    BY <2>1 DEF RingInv, WriteInv
  <2>3. OneMore = nevents + 1
    <3>1. nevents + 1 \in Nat /\ nevents + 1 < CountWidth /\ CountWidth \in Nat
      BY <1>0, <2>2, ConstAssumption
    <3> QED
      BY <3>1, ModSmall DEF OneMore
  <2>4. Pending = nevents /\ Pending' = nevents + 1
    BY <1>5, <2>1, <2>3 DEF Pending
  <2>5. FreeSlot = At(fevent, nevents)
    BY <1>0, FreeSlotAt
  <2> DEFINE c == RingContents
             d == RingContents'
             e == posting.e
  <2>6. c \in Seq(Event) /\ Len(c) = nevents
        /\ \A i \in 1 .. nevents : c[i] = events[At(fevent, i - 1)]
    <3>1. c = Ring(events, fevent, nevents)
      BY <2>4 DEF RingContents, Ring
    <3>2. nevents \in 0 .. NumEvents /\ events \in [Slots -> Event]
      BY <1>0 DEF TypeOK, QueueType
    <3> HIDE DEF c
    <3> QED
      BY <1>0, <3>1, <3>2, Contents
  <2>7. d \in Seq(Event) /\ Len(d) = nevents + 1
        /\ \A i \in 1 .. nevents + 1 : d[i] = events[At(fevent, i - 1)]
    <3>1. d = Ring(events, fevent, nevents + 1)
      BY <2>1, <2>4 DEF RingContents, Ring
    <3>2. nevents + 1 \in 0 .. NumEvents /\ events \in [Slots -> Event]
      BY <1>0, <2>2 DEF TypeOK, QueueType
    <3> HIDE DEF d
    <3> QED
      BY <1>0, <3>1, <3>2, Contents
  <2>8. e \in Event /\ events[FreeSlot] = e
    <3>1. e \in Event /\ events[FreeSlot] \in Event
      BY FreeSlotType DEF TypeOK, PostType, QueueType
    <3>2. events[FreeSlot].ev = e.ev /\ events[FreeSlot].p = e.p
      BY <2>1, <2>2 DEF WriteInv
    <3> QED
      BY <3>1, <3>2 DEF Event
  <2> HIDE DEF c, d, e
  <2>9. Append(c, e) \in Seq(Event) /\ Len(Append(c, e)) = nevents + 1
        /\ \A i \in 1 .. nevents : Append(c, e)[i] = c[i]
        /\ Append(c, e)[nevents + 1] = e
    BY <2>6, <2>8
  <2>10. \A i \in 1 .. nevents + 1 : d[i] = Append(c, e)[i]
    <3> SUFFICES ASSUME NEW i \in 1 .. nevents + 1 PROVE d[i] = Append(c, e)[i]
      OBVIOUS
    <3>1. CASE i \in 1 .. nevents
      BY <2>6, <2>7, <2>9, <3>1
    <3>2. CASE i = nevents + 1
      <4>1. i - 1 = nevents
        BY <1>0, <3>2
      <4> QED
        BY <2>5, <2>7, <2>8, <2>9, <3>2, <4>1
    <3>3. i \in 1 .. nevents \/ i = nevents + 1
      BY <1>0
    <3> QED
      BY <3>1, <3>2, <3>3
  <2>11. d = Append(c, e)
    BY <2>7, <2>9, <2>10, SeqEqual
  <2> QED
    BY <2>1, <2>2, <2>6, <2>8, <2>11 DEF c, d
<1> QED
  BY <1>1, <1>2, <1>3, <1>4, <1>5, EventStep

(* As long as only threads post, the ring buffer of process.c is the queue *)
(* of EventQueue: every event that was accepted is handed over once, whole *)
(* and in order, for any ring size and any wiring of the processes.        *)
THEOREM RingIsQueue == NoIsrPost => (Spec => QueueSafe)
<1> SUFFICES ASSUME NoIsrPost PROVE Spec => QueueSafe
  OBVIOUS
<1>1. Init => RingInv /\ WriteInv
  BY ConstAssumption DEF Init, RingInv, RingBounded, NoPost, WriteInv
<1>2. Init => Q!QInit
  BY DEF Init, Q!QInit, RingContents, Pending
<1>3. IInv /\ RingInv /\ WriteInv /\ [Next]_vars => RingInv' /\ WriteInv'
  BY RingInvStep, WriteInvStep
<1>4. IInv /\ IInv' /\ RingInv /\ RingInv' /\ WriteInv /\ [Next]_vars
        => [Q!QNext]_<<RingContents, dispatched>>
  BY QueueStep DEF Q!QNext, Q!Take, Q!Accept
<1> QED
  BY IInvCorrect, <1>1, <1>2, <1>3, <1>4, PTL DEF Spec, QueueSafe, Q!QSafe, Q!qvars
=============================================================================
