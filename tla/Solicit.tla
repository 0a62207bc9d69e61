------------------------------ MODULE Solicit ------------------------------
(***************************************************************************)
(* Router solicitation of the host (uip_ds6_send_rs and the passes of      *)
(* uip_ds6_periodic over routers, prefixes and contexts): when the         *)
(* solicitations for a router go out, to whom, and at what distance.       *)
(*                                                                         *)
(* Time is discrete.  The code's intervals are multiples of the interval   *)
(* between two solicitations, Interval units; the pass, ten times a second *)
(* in the code, runs at least once in each unit with its permission to     *)
(* send not yet used up by a registration.  The other tables are those of  *)
(* module Ds6.                                                             *)
(***************************************************************************)
EXTENDS Integers, FiniteSets

CONSTANTS
  Router,            \* link-local addresses of routers
  DefrtNb,           \* UIP_DS6_DEFRT_NB
  Interval,          \* UIP_ND6_RTR_SOLICITATION_INTERVAL
  MaxInterval,       \* UIP_ND6_MAX_RTR_SOLICITATION_INTERVAL
  MaxSolicitations,  \* UIP_ND6_MAX_RTR_SOLICITATIONS
  MaxCount,          \* the 10 after which rscount is not counted on
  Threshold,         \* UIP_DS6_LIFETIME_THRESHOLD
  Lifetimes,         \* router lifetimes that are advertised
  FinitePrefix,      \* a prefix may have less to live than every router
  NoRouter           \* no address

ASSUME TimesAssumption ==
  /\ Interval \in Nat \ {0} /\ MaxInterval \in Nat /\ Interval <= MaxInterval
  /\ Threshold \in Nat /\ Lifetimes \subseteq Nat \ {0}
ASSUME SizesAssumption ==
  /\ DefrtNb \in Nat \ {0} /\ MaxSolicitations \in Nat \ {0}
  /\ MaxCount \in Nat /\ MaxSolicitations <= MaxCount
ASSUME NoRouterAssumption == NoRouter \notin Router /\ FinitePrefix \in BOOLEAN

VARIABLES
  defrt,    \* uip_ds6_defrt_list, with what is left of each lifetime
  rscount,  \* solicitations to all routers, while there is none
  wait,     \* what is left of uip_ds6_timer_rs
  ran,      \* a pass that could send has run in this unit of time
  quiet,    \* time without a router since the last solicitation
  asked,    \* routers solicited since their lifetime got short
  shared,   \* routers that have not been alone since their lifetime got short
  row       \* solicitations to a router alone since all of them were asked

codeVars == <<defrt, rscount, wait>>
ghostVars == <<quiet, asked, shared, row>>
vars == <<codeVars, ran, ghostVars>>

Slot == 1 .. DefrtNb
Entry == [used : BOOLEAN, ip : Router \cup {NoRouter}, left : Nat,
          sending : BOOLEAN, count : 0 .. MaxSolicitations]
Free == [used |-> FALSE, ip |-> NoRouter, left |-> 0, sending |-> FALSE, count |-> 0]

Used(t) == {d \in Slot : t[d].used}
Sending(t) == {d \in Used(t) : t[d].sending}
First(S) == CHOOSE d \in S : \A e \in S : d <= e
Final(S) == CHOOSE d \in S : \A e \in S : e <= d
Release(t, S) == [d \in Slot |-> IF d \in S THEN Free ELSE t[d]]
Lookup(t, r) == {d \in Used(t) : t[d].ip = r}
Short(t) == {d \in Used(t) : t[d].left < Threshold}
Shared(t) == IF Cardinality(Used(t)) > 1 THEN Short(t) ELSE Short(t) \cap shared

Init ==
  /\ defrt = [d \in Slot |-> Free]
  /\ rscount = 0 /\ wait \in 0 .. 1
  /\ ran = FALSE
  /\ quiet = 0 /\ asked = {} /\ shared = {} /\ row = [d \in Slot |-> 0]

-----------------------------------------------------------------------------
(* The distance to the next solicitation.                                  *)

\* beb_next, the c-th backoff, c > 1: 2<<(c - 1) - 1 is 2 to the power c - 1.
beb_next(c) ==
  LET draw == 0 .. 2 ^ (c - 1) - 1
  IN  {IF k * Interval < MaxInterval THEN k * Interval ELSE MaxInterval : k \in draw}

rs_rtx_time(c) ==
  IF c < MaxSolicitations THEN {Interval}
  ELSE IF c > MaxCount THEN {MaxInterval} ELSE beb_next(c)

Counted(c) == IF c > MaxCount THEN c ELSE c + 1

-----------------------------------------------------------------------------
(* uip_ds6_send_rs: what it leaves behind, and whom it asked.              *)

Silence(t, c) == {[table |-> t, count |-> c, wait |-> wait, kind |-> "none", to |-> {}]}

Unicast(t, c, d) ==
  LET n == Counted(t[d].count)
  IN  {[table |-> [t EXCEPT ![d].count = n], count |-> c, wait |-> w,
        kind |-> "one", to |-> {d}] : w \in rs_rtx_time(n)}

\* The router that does not answer, if that is why, is given up.  While there
\* is a router, the count of these solicitations is reset.
Multicast(t, c) ==
  LET n == IF Used(t) = {} THEN Counted(c) ELSE 0
      up == IF Sending(t) = {} THEN {} ELSE {First(Sending(t))}
  IN  {[table |-> [d \in Slot |->
                     IF d \in up THEN [t[d] EXCEPT !.sending = FALSE, !.count = 0] ELSE t[d]],
        count |-> n, wait |-> w, kind |-> "all", to |-> Used(t)] : w \in rs_rtx_time(n)}

BadSendRs(t, c) ==          \* one solicitation to a router alone too many
  IF wait > 0 THEN Silence(t, c)
  ELSE IF Sending(t) # {} /\ t[First(Sending(t))].count <= MaxSolicitations
  THEN Unicast(t, c, First(Sending(t)))
  ELSE Multicast(t, c)
BadGivesUp(t, c) ==         \* a host that stops after some solicitations
  IF wait > 0 \/ (Used(t) = {} /\ c >= MaxSolicitations) THEN Silence(t, c)
  ELSE IF Sending(t) # {} /\ t[First(Sending(t))].count < MaxSolicitations
  THEN Unicast(t, c, First(Sending(t)))
  ELSE Multicast(t, c)
uip_ds6_send_rs(t, c) ==
  IF wait > 0 THEN Silence(t, c)
  ELSE IF Sending(t) # {} /\ t[First(Sending(t))].count < MaxSolicitations
  THEN Unicast(t, c, First(Sending(t)))
  ELSE Multicast(t, c)

\* The code goes on with outcome o and table t; what was written leaves or not.
Takes(o, t, leaves) ==
  /\ defrt' = t /\ rscount' = o.count /\ wait' = o.wait
  /\ quiet' = IF Used(t) # {} \/ (o.kind = "all" /\ leaves) THEN 0 ELSE quiet
  /\ asked' = {d \in Short(t) : d \in asked \/ (leaves /\ d \in o.to)}
  /\ shared' = Shared(t)
  /\ row' = [d \in Slot |-> IF d \notin Used(t) \/ o.kind = "all" THEN 0
                           ELSE IF d \in o.to THEN row[d] + 1 ELSE row[d]]
Keeps(t) == \E o \in Silence(t, rscount) : Takes(o, t, FALSE)

-----------------------------------------------------------------------------
(* uip_ds6_periodic, one pass.                                             *)

Expired(t) == {d \in Used(t) : t[d].left = 0}
Expire(t) == Release(t, Expired(t))
Least(t) == First({d \in Used(t) : \A e \in Used(t) : t[d].left <= t[e].left})

\* A registration has used up allow_output: lifetimes end, nothing is sent.
PassBusy ==
  /\ Keeps(Expire(defrt))
  /\ UNCHANGED ran

\* A registration is given up, and its router with it.
PassGiveUp(d) ==
  /\ \E o \in uip_ds6_send_rs(Release(defrt, {d}), rscount) :
       Takes(o, Expire(o.table), TRUE)
  /\ UNCHANGED ran

PassEmpty ==
  /\ Used(defrt) = {}
  /\ \E o \in uip_ds6_send_rs(defrt, rscount) : Takes(o, o.table, TRUE)
  /\ ran' = TRUE

\* The entry whose lifetime is the least to be left, if it is short.  For a
\* prefix or a context, and when the last router has just expired, min_defrt
\* is null: the mark goes astray and every router is asked.
Marked(t) ==
  IF Used(t) = {} THEN {t}
  ELSE IF t[Least(t)].left < Threshold THEN {t, [t EXCEPT ![Least(t)].sending = TRUE]}
  ELSE {t}

PassRenew ==
  LET t == Expire(defrt)
  IN  /\ Used(defrt) # {}
      /\ \E m \in Marked(t) : \E o \in uip_ds6_send_rs(m, rscount) : Takes(o, o.table, TRUE)
      /\ ran' = TRUE

\* Nothing is short-lived; or a prefix has the least, and what is read instead
\* of it lies behind the end of the list of routers.
BadPassQuiet ==             \* does not look at what is left of the lifetimes
  LET t == Expire(defrt)
  IN  Used(t) # {} /\ Keeps(t) /\ ran' = TRUE
PassQuiet ==
  LET t == Expire(defrt)
  IN  /\ Used(t) # {}
      /\ t[Least(t)].left >= Threshold \/ FinitePrefix
      /\ Keeps(t)
      /\ ran' = TRUE

-----------------------------------------------------------------------------
(* Messages, between two passes.                                           *)

Heard(t, r, life) ==
  LET d == Lookup(t, r)
      spare == Slot \ Used(t)
      Renewed(e) == [e EXCEPT !.left = life, !.sending = FALSE,
                              !.count = IF e.sending THEN 0 ELSE @]
  IN  IF d # {} THEN [k \in Slot |-> IF k \in d THEN Renewed(t[k]) ELSE t[k]]
      ELSE IF spare = {} THEN t
      ELSE [t EXCEPT ![Final(spare)] = [used |-> TRUE, ip |-> r, left |-> life,
                                 sending |-> FALSE, count |-> 0]]

\* uip_nd6_ra_input, from router r with a lifetime.  A neighbor entry made for
\* it may evict another one, and with that its router, E if any.
Evicted(r) == {E \in SUBSET (Used(defrt) \ Lookup(defrt, r)) : Cardinality(E) <= 1}

RaInput(r, life) ==
  /\ \E E \in Evicted(r) : defrt' = Heard(Release(defrt, E), r, life)
  /\ rscount' = 0
  /\ asked' = {d \in asked \ Lookup(defrt', r) : defrt'[d].used}
  /\ row' = [d \in Slot |-> IF ~defrt'[d].used \/ d \in Lookup(defrt', r) THEN 0 ELSE row[d]]
  /\ shared' = Shared(defrt')
  /\ quiet' = 0
  /\ UNCHANGED <<wait, ran>>

\* The same without a lifetime.
RaWithdraws(r) ==
  /\ \E E \in Evicted(r) : Keeps(Release(defrt, E \cup Lookup(defrt, r)))
  /\ UNCHANGED ran

\* An advertisement of a neighbor that is no router any more: what send_rs
\* writes is discarded with it.
NaNotRouter(r) ==
  /\ Lookup(defrt, r) # {}
  /\ \E o \in uip_ds6_send_rs(Release(defrt, Lookup(defrt, r)), rscount) :
       Takes(o, o.table, FALSE)
  /\ UNCHANGED ran

\* A unit of time goes by.
Tick ==
  /\ ran /\ ran' = FALSE
  /\ defrt' = [d \in Slot |-> IF defrt[d].left = 0 THEN defrt[d]
                              ELSE [defrt[d] EXCEPT !.left = @ - 1]]
  /\ wait' = IF wait = 0 THEN 0 ELSE wait - 1
  /\ quiet' = IF Used(defrt) = {} THEN quiet + 1 ELSE 0
  /\ shared' = Shared(defrt')
  /\ UNCHANGED <<rscount, asked, row>>

Pass == PassBusy \/ PassEmpty \/ PassRenew \/ PassQuiet \/ \E d \in Slot : PassGiveUp(d)
Message ==
  \E r \in Router : (\E life \in Lifetimes : RaInput(r, life)) \/ RaWithdraws(r) \/ NaNotRouter(r)
Next == Pass \/ Message \/ Tick
Spec == Init /\ [][Next]_vars

-----------------------------------------------------------------------------
TypeOK ==
  /\ defrt \in [Slot -> Entry]
  /\ rscount \in 0 .. MaxCount + 1 /\ wait \in 0 .. MaxInterval
  /\ ran \in BOOLEAN /\ quiet \in Nat
  /\ asked \in SUBSET Slot /\ shared \in SUBSET Slot /\ row \in [Slot -> Nat]

\* A host without a router is never silent for longer than the greatest
\* interval, whatever the backoff draws and whatever was discarded.
NeverSilent == Used(defrt) = {} => quiet <= MaxInterval

\* No router reaches the end of its lifetime without having been asked to
\* renew it, but for one that had to share its last minute with another.
NeverUnasked == Expired(defrt) \subseteq asked \cup shared

\* A router that does not answer is asked alone a few times in a row, and then
\* all of them are.
NeverInsists == \A d \in Slot : row[d] <= MaxSolicitations
=============================================================================
