----------------------------- MODULE EventQueue -----------------------------
(***************************************************************************)
(* What process_post() and process_run() promise about asynchronous        *)
(* events (core/sys/process.h): an event that was accepted is kept, events *)
(* are handed over in the order they were accepted, one at a time, and at  *)
(* most NumEvents of them wait.  The ring buffer of core/sys/process.c is  *)
(* shown to implement this in module Process.                              *)
(***************************************************************************)
EXTENDS Naturals, Sequences

CONSTANTS
  Events,     \* the events that can be posted
  NumEvents,  \* PROCESS_CONF_NUMEVENTS
  Nil         \* no event has been handed over yet

VARIABLES
  queue,      \* accepted events, oldest first
  taken       \* the event handed over last

qvars == <<queue, taken>>

QInit == queue = <<>> /\ taken = Nil

(* process_post() returns PROCESS_ERR_OK. *)
Accept(e) ==
  /\ Len(queue) < NumEvents
  /\ queue' = Append(queue, e)
  /\ UNCHANGED taken

(* process_run() takes the oldest event and delivers it. *)
Take ==
  /\ queue # <<>>
  /\ taken' = Head(queue)
  /\ queue' = Tail(queue)

QNext == Take \/ \E e \in Events : Accept(e)

QSafe == QInit /\ [][QNext]_qvars

QSpec == QSafe /\ WF_qvars(Take)
=============================================================================
