------------------------------- MODULE Etimer -------------------------------
(***************************************************************************)
(* Event timers: core/sys/etimer.c on core/sys/timer.c, with the clock     *)
(* interrupt of platform/torrija/clock_arch.c.                             *)
(*                                                                         *)
(* The kernel appears as what module Process shows of it: a bounded FIFO   *)
(* of events, a request to poll etimer_process that is not lost, and a     *)
(* main loop that alternates polls and events.  Threads run whole between  *)
(* two passes of the loop; the clock interrupt falls between any two steps *)
(* of etimer_process' walk.                                                *)
(*                                                                         *)
(* `age' is true time, which the program does not have: the ticks since a  *)
(* timer's start.  The program only has `ticks' and `start', W ticks wide. *)
(* etimer_adjust() is left out: nothing calls it.                          *)
(***************************************************************************)
EXTENDS Integers, SequencesExt

CONSTANTS
  Timers,      \* the event timers of the firmware
  Procs,       \* the processes that use them
  Uses,        \* pairs <<p, t>>: process p sets timer t
  Intervals,   \* the intervals they are set to; 0 is a timer never set
  W,           \* clock_time_t wraps here: 2^16 in the firmware
  NumEvents,   \* PROCESS_CONF_NUMEVENTS
  None,        \* PROCESS_NONE
  Other,       \* the data of an event that is not a timer's
  MaxAge,      \* bound: the main loop visits a timer before it is older
  MaxPosts     \* bound: events posted by others than etimer_process

Event == [p : Procs, t : Timers \cup {Other}]

(* The one assumption on the clock: a timer is looked at before its age    *)
(* wraps round to "not expired".                                           *)
ASSUME EtimerAssumption ==
  /\ W \in Nat /\ MaxAge \in Nat /\ NumEvents \in Nat \ {0} /\ MaxPosts \in Nat
  /\ MaxAge + 1 < W
  /\ Intervals \subseteq 1 .. MaxAge - 1
  /\ Uses \subseteq Procs \X Timers
  /\ None \notin Procs
  /\ Other \notin Timers

VARIABLES
  ticks,           \* the clock
  timerlist,       \* the timers on the list, head first
  start, interval, \* et->timer
  owner,           \* et->p
  next_expiration,
  polled,          \* etimer_process->needspoll
  pc,              \* "run", "scan" or "event": where process_run() is
  at,              \* the timer the walk of etimer_process is at
  queue,           \* the event queue
  posts,           \* events others may still post
  age

timerVars == <<timerlist, start, interval, owner, next_expiration>>
loopVars  == <<pc, at>>
queueVars == <<queue, posts>>
vars == <<ticks, timerVars, polled, loopVars, queueVars, age>>

Init ==
  /\ ticks = 0
  /\ timerlist = <<>>
  /\ start = [t \in Timers |-> 0]
  /\ interval = [t \in Timers |-> 0]
  /\ owner = [t \in Timers |-> None]
  /\ next_expiration = 0
  /\ polled = FALSE
  /\ pc = "run"
  /\ at = 0
  /\ queue = <<>>
  /\ posts = MaxPosts
  /\ age = [t \in Timers |-> 0]

Listed(t) == \E i \in DOMAIN timerlist : timerlist[i] = t

(* Operators named Bad... are seeded faults, each a plausible slip in the   *)
(* definition that follows: the properties below can fail.                 *)
BadExpired(t) == ticks >= (start[t] + interval[t]) % W

(* timer_expired(). *)
Expired(t) == interval[t] < ((ticks - start[t]) + 1) % W

(* The distance to a timer's expiration, as update_time() measures it. *)
Distance(st, iv, t) == (st[t] + iv[t] - ticks) % W

update_time(list, st, iv) ==
  \/ list = <<>> /\ next_expiration' = 0
  \/ \E i \in DOMAIN list :
       /\ \A j \in DOMAIN list : Distance(st, iv, list[i]) <= Distance(st, iv, list[j])
       /\ next_expiration' = (ticks + Distance(st, iv, list[i])) % W

-----------------------------------------------------------------------------
(* Threads. *)

BadAddTwice(p, t) ==
  /\ polled' = TRUE
  /\ timerlist' = Cons(t, timerlist)
  /\ owner' = [owner EXCEPT ![t] = p]

(* add_timer(): the list is searched only if the timer has an owner. *)
add_timer(p, t) ==
  /\ polled' = TRUE
  /\ IF owner[t] # None /\ Listed(t)
     THEN UNCHANGED <<timerlist, owner>>
     ELSE timerlist' = Cons(t, timerlist) /\ owner' = [owner EXCEPT ![t] = p]

MayUse(p, t) == pc = "run" /\ <<p, t>> \in Uses

etimer_set(p, t, i) ==
  /\ MayUse(p, t)
  /\ start' = [start EXCEPT ![t] = ticks]
  /\ interval' = [interval EXCEPT ![t] = i]
  /\ add_timer(p, t)
  /\ update_time(timerlist', start', interval')
  /\ age' = [age EXCEPT ![t] = 0]
  /\ UNCHANGED <<ticks, loopVars, queueVars>>

(* The callers, uip_ds6_periodic() and rest_manager_process, reset a timer *)
(* once it has expired; MaxAge bounds how late.                            *)
etimer_reset(p, t) ==
  /\ MayUse(p, t) /\ interval[t] # 0 /\ owner[t] = None /\ interval[t] <= age[t] /\ age[t] < MaxAge
  /\ start' = [start EXCEPT ![t] = (start[t] + interval[t]) % W]
  /\ add_timer(p, t)
  /\ update_time(timerlist', start', interval)
  /\ age' = [age EXCEPT ![t] = age[t] - interval[t]]
  /\ UNCHANGED <<ticks, interval, loopVars, queueVars>>

etimer_restart(p, t) ==
  /\ MayUse(p, t) /\ interval[t] # 0
  /\ start' = [start EXCEPT ![t] = ticks]
  /\ add_timer(p, t)
  /\ update_time(timerlist', start', interval)
  /\ age' = [age EXCEPT ![t] = 0]
  /\ UNCHANGED <<ticks, interval, loopVars, queueVars>>

unlink(t) ==
  \E i \in DOMAIN timerlist :
    timerlist[i] = t /\ timerlist' = RemoveAt(timerlist, i)

(* update_time() is called only if the timer was on the list. *)
etimer_stop(p, t) ==
  /\ MayUse(p, t)
  /\ \/ unlink(t) /\ update_time(timerlist', start, interval)
     \/ ~Listed(t) /\ UNCHANGED <<timerlist, next_expiration>>
  /\ owner' = [owner EXCEPT ![t] = None]
  /\ UNCHANGED <<ticks, start, interval, polled, loopVars, queueVars, age>>

(* Any other event, posted by a thread to a process. *)
PostOther(p) ==
  /\ pc = "run" /\ posts > 0 /\ Len(queue) < NumEvents
  /\ queue' = Append(queue, [p |-> p, t |-> Other])
  /\ posts' = posts - 1
  /\ UNCHANGED <<ticks, timerVars, polled, loopVars, age>>

Client ==
  \/ \E p \in Procs, t \in Timers :
       \/ \E i \in Intervals : etimer_set(p, t, i)
       \/ etimer_reset(p, t) \/ etimer_restart(p, t) \/ etimer_stop(p, t)
  \/ \E p \in Procs : PostOther(p)

-----------------------------------------------------------------------------
(* process_run() and the thread of etimer_process. *)

RunPoll ==
  /\ pc = "run" /\ polled
  /\ polled' = FALSE /\ pc' = "scan" /\ at' = 1
  /\ UNCHANGED <<ticks, timerVars, queueVars, age>>

RunNoPoll ==
  /\ pc = "run" /\ ~polled
  /\ pc' = "event"
  /\ UNCHANGED <<ticks, timerVars, polled, at, queueVars, age>>

Visiting == pc = "scan" /\ at \in DOMAIN timerlist

ScanSkip ==
  /\ Visiting /\ ~Expired(timerlist[at])
  /\ at' = at + 1
  /\ UNCHANGED <<ticks, timerVars, polled, pc, queueVars, age>>

(* PROCESS_EVENT_TIMER is posted and the walk starts again.                *)
ScanPost ==
  /\ Visiting /\ Expired(timerlist[at]) /\ Len(queue) < NumEvents
  /\ LET t == timerlist[at] IN
       /\ queue' = Append(queue, [p |-> owner[t], t |-> t])
       /\ owner' = [owner EXCEPT ![t] = None]
  /\ timerlist' = RemoveAt(timerlist, at)
  /\ update_time(timerlist', start, interval)
  /\ at' = 1
  /\ UNCHANGED <<ticks, start, interval, polled, pc, posts, age>>

BadScanFull ==
  /\ Visiting /\ Expired(timerlist[at]) /\ Len(queue) = NumEvents
  /\ at' = at + 1
  /\ UNCHANGED <<ticks, timerVars, polled, pc, queueVars, age>>

(* PROCESS_ERR_FULL: the timer stays listed, another poll is requested.    *)
ScanFull ==
  /\ Visiting /\ Expired(timerlist[at]) /\ Len(queue) = NumEvents
  /\ polled' = TRUE
  /\ at' = at + 1
  /\ UNCHANGED <<ticks, timerVars, pc, queueVars, age>>

ScanDone ==
  /\ pc = "scan" /\ at \notin DOMAIN timerlist
  /\ pc' = "event" /\ at' = 0
  /\ UNCHANGED <<ticks, timerVars, polled, queueVars, age>>

Take ==
  /\ pc = "event" /\ queue # <<>>
  /\ queue' = Tail(queue)
  /\ pc' = "run"
  /\ UNCHANGED <<ticks, timerVars, polled, at, posts, age>>

NoEvent ==
  /\ pc = "event" /\ queue = <<>>
  /\ pc' = "run"
  /\ UNCHANGED <<ticks, timerVars, polled, at, queueVars, age>>

Loop ==
  RunPoll \/ RunNoPoll \/ ScanSkip \/ ScanPost \/ ScanFull \/ ScanDone \/ Take \/ NoEvent

-----------------------------------------------------------------------------
BadTickSilent ==
  /\ \A i \in DOMAIN timerlist : age[timerlist[i]] < MaxAge
  /\ ticks' = (ticks + 1) % W
  /\ age' = [t \in Timers |-> IF age[t] < MaxAge THEN age[t] + 1 ELSE MaxAge]
  /\ UNCHANGED <<timerVars, polled, loopVars, queueVars>>

(* timer_interrupt(). *)
Tick ==
  /\ \A i \in DOMAIN timerlist : age[timerlist[i]] < MaxAge
  /\ ticks' = (ticks + 1) % W
  /\ polled' = (polled \/ timerlist # <<>>)
  /\ age' = [t \in Timers |-> IF age[t] < MaxAge THEN age[t] + 1 ELSE MaxAge]
  /\ UNCHANGED <<timerVars, loopVars, queueVars>>

Next == Client \/ Loop \/ Tick

(* The main loop never stops and the clock ticks.                          *)
Spec == Init /\ [][Next]_vars /\ WF_vars(Loop) /\ WF_vars(Tick)

-----------------------------------------------------------------------------
(* Type invariant. *)
TypeOK ==
  /\ ticks \in 0 .. W - 1
  /\ timerlist \in Seq(Timers)
  /\ start \in [Timers -> 0 .. W - 1]
  /\ interval \in [Timers -> Intervals \cup {0}]
  /\ owner \in [Timers -> Procs \cup {None}]
  /\ next_expiration \in 0 .. W - 1
  /\ polled \in BOOLEAN
  /\ pc \in {"run", "scan", "event"}
  /\ at \in Nat
  /\ queue \in Seq(Event)
  /\ posts \in 0 .. MaxPosts
  /\ age \in [Timers -> 0 .. MaxAge]

(* A timer is on the list exactly while et->p names a process, and at most *)
(* once: etimer_expired() looks at et->p alone, and add_timer() trusts it  *)
(* before it links the timer, which would close the list into a ring.      *)
ListExact ==
  /\ \A i, j \in DOMAIN timerlist : timerlist[i] = timerlist[j] => i = j
  /\ \A t \in Timers : owner[t] # None <=> Listed(t)

(* The program's arithmetic on a wrapping clock agrees with true time.     *)
ClockExact == \A t \in Timers : Listed(t) => (Expired(t) <=> age[t] >= interval[t])

(* No expired timer is forgotten, even if the queue was full when its turn *)
(* came or the clock ticked behind the walk: a poll is pending or the walk *)
(* has the timer still ahead.                                              *)
NoneForgotten ==
  \A i \in DOMAIN timerlist :
    age[timerlist[i]] >= interval[timerlist[i]] =>
      polled \/ (pc = "scan" /\ at <= i)

(* A listed timer is posted, unless its user sets it anew or stops it.     *)
Fires == \A t \in Timers : (Listed(t) /\ age[t] > 0) ~> (~Listed(t) \/ age[t] = 0)
=============================================================================
