----------------------------- MODULE MCProcess -----------------------------
(* Instances of Process: the gateway's own wiring, and arbitrary clients. *)
EXTENDS Process

CONSTANTS etimer, radio, tcpip, app, timer, cont

(* Who calls whom in the gateway (a cut through its seven processes): the  *)
(* radio polls itself for ever and hands frames to tcpip, tcpip starts and *)
(* calls the application, both set timers, the clock polls etimer.         *)
GwBoot   == <<etimer, radio, tcpip>>
GwStarts == {<<tcpip, app>>}
GwCalls  == {<<radio, tcpip>>, <<tcpip, app>>}
GwPolls  == {<<radio, radio>>, <<app, etimer>>, <<tcpip, etimer>>}
GwIsrPolls == {etimer}

(* Any thread may call, poll and start any process and broadcast. *)
AnyBoot  == <<etimer, tcpip>>
AnyPairs == Procs \X Procs
AnyStarts == {<<tcpip, app>>, <<etimer, tcpip>>}
AnyPosts == {[p |-> app, ev |-> cont], [p |-> Broadcast, ev |-> timer]}
AnyIsrPolls == {app}

(* The reader's interrupt handler posts PROCESS_EVENT_CONTINUE. *)
TrfPosts    == {[p |-> tcpip, ev |-> timer]}
TrfIsrPosts == {[p |-> app, ev |-> cont]}
NoPairs     == {}
=============================================================================
