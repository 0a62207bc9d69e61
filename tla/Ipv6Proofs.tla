----------------------------- MODULE Ipv6Proofs -----------------------------
(***************************************************************************)
(* What is proved of modules Solicit and Stack, the two sides of the IPv6  *)
(* stack: who its router is, and what happens to its packets.              *)
(*                                                                         *)
(* Solicit, for any routers, any size of the list and any intervals: a     *)
(* host without a router solicits again within the greatest interval, and  *)
(* never insists on one router; and with intervals that leave time for it, *)
(* no router expires unasked.                                              *)
(*                                                                         *)
(* Stack, for any contexts the peer offers and any packets it sends, with  *)
(* any chain of extension headers and options: a header comes back from    *)
(* its compressed form; contexts that differ never make the device take a  *)
(* packet for another; it speaks in its own name; a frame fits; and the    *)
(* pointer of a Parameter Problem is at what is wrong.                     *)
(***************************************************************************)
EXTENDS Solicit, Stack, SequenceTheorems, FiniteSetTheorems, WellFoundedInduction, TLAPS

-----------------------------------------------------------------------------
(* When router solicitations go out.                                       *)

(* A set of numbers that is not empty has a least one.                     *)
LEMMA LeastExists ==
  ASSUME NEW T, T \subseteq Nat, T # {}
  PROVE  \E n \in T : \A m \in T : n <= m
<1>1. PICK n \in T : \A m \in T : ~(<<m, n>> \in OpToRel(<, Nat))
  BY WFMin, NatLessThanWellFounded, Zenon
<1>2. \A m \in T : ~(m < n)
  BY <1>1, Zenon DEF OpToRel
<1> QED
  BY <1>2

(* A set of slots that is not empty has a first and a last one.            *)
LEMMA Extremes ==
  ASSUME NEW N \in Nat, NEW S, S \subseteq 1 .. N, S # {}
  PROVE  /\ \E k \in S : \A j \in S : k <= j
         /\ \E k \in S : \A j \in S : j <= k
<1>1. S \subseteq Nat
  OBVIOUS
<1>2. \E k \in S : \A j \in S : k <= j
  BY <1>1, LeastExists
<1> DEFINE T == {N - k : k \in S}
<1>3. T \subseteq Nat /\ T # {}
  <2>1. \A k \in S : N - k \in Nat
    OBVIOUS
  <2> QED
    BY <2>1
<1>4. \E m \in T : \A y \in T : m <= y
  <2> HIDE DEF T
  <2> QED
    BY <1>3, LeastExists
<1>5. PICK k \in S : \A y \in T : N - k <= y
  BY <1>4
<1>6. \A j \in S : j <= k
  <2> TAKE j \in S
  <2>1. N - k <= N - j
    BY <1>5
  <2> QED
    BY <2>1
<1> QED
  BY <1>2, <1>6
-----------------------------------------------------------------------------
Table == [Slot -> Entry]

(* While a host without a router keeps quiet its timer runs; a pass that   *)
(* finds it run out solicits.                                              *)
Pacing ==
  IF Used(defrt) = {}
  THEN quiet + wait <= MaxInterval /\ (ran /\ wait = 0 => quiet = 0)
  ELSE quiet = 0

(* What is counted for a router is at least what was sent to it alone.     *)
CountsAll == \A d \in Slot : row[d] <= defrt[d].count

IInv == TypeOK /\ Pacing /\ CountsAll

(* What uip_ds6_send_rs leaves behind for table t: it keeps every router,  *)
(* counts what it sends to one alone, and stays silent only for the timer. *)
Outcome(t) ==
  [table : {u \in Table : Used(u) = Used(t)}, count : 0 .. MaxCount + 1,
   wait : 0 .. MaxInterval, kind : {"none", "one", "all"}, to : SUBSET Slot]
Sound(o, t) ==
  /\ o.kind = "none" => o.table = t /\ o.wait = wait /\ wait > 0 /\ o.to = {}
  /\ o.kind = "one" =>
       /\ Used(t) # {}
       /\ \A d \in Slot : o.table[d].count = IF d \in o.to THEN t[d].count + 1 ELSE t[d].count
-----------------------------------------------------------------------------
(* The loop over a table finds the first or the last entry.                *)
LEMMA FirstAndFinal ==
  ASSUME NEW S, S \subseteq Slot, S # {}
  PROVE  First(S) \in S /\ Final(S) \in S
BY Extremes, SizesAssumption DEF Slot, First, Final

(* Every interval between two solicitations is within the greatest one.    *)
LEMMA IntervalBounded ==
  ASSUME NEW c \in Nat
  PROVE  rs_rtx_time(c) \subseteq 0 .. MaxInterval
<1>1. beb_next(c) \subseteq 0 .. MaxInterval
  <2> SUFFICES ASSUME NEW w \in beb_next(c)
               PROVE  w \in 0 .. MaxInterval
    OBVIOUS
  <2>1. PICK k \in 0 .. 2 ^ (c - 1) - 1 :
          w = IF k * Interval < MaxInterval THEN k * Interval ELSE MaxInterval
    BY DEF beb_next
  <2>2. k \in Nat
    BY <2>1
  <2>3. k * Interval \in Nat
    BY <2>2, TimesAssumption
  <2> QED
    BY <2>1, <2>3, TimesAssumption
<1> QED
  BY <1>1, TimesAssumption DEF rs_rtx_time

(* A router that is given up, or heard of again, keeps an entry.           *)
LEMMA GivenUpTyped ==
  ASSUME NEW e \in Entry
  PROVE  [e EXCEPT !.sending = FALSE, !.count = 0] \in Entry
<1> DEFINE a == [e EXCEPT !.sending = FALSE]
<1>1. a \in Entry
  BY DEF Entry
<1>2. 0 \in 0 .. MaxSolicitations
  BY SizesAssumption
<1>3. [a EXCEPT !.count = 0] \in Entry
  <2> HIDE DEF a
  <2> QED
    BY <1>1, <1>2 DEF Entry
<1>4. [e EXCEPT !.sending = FALSE, !.count = 0] = [a EXCEPT !.count = 0]
  BY DEF Entry
<1> QED
  BY <1>3, <1>4

(* uip_ds6_send_rs, for any table and count.                               *)
LEMMA SendRsSound ==
  ASSUME TypeOK, NEW t \in Table, NEW c \in 0 .. MaxCount + 1,
         NEW o \in uip_ds6_send_rs(t, c)
  PROVE  o \in Outcome(t) /\ Sound(o, t)
<1>1. CASE wait > 0
  <2>1. o = [table |-> t, count |-> c, wait |-> wait, kind |-> "none", to |-> {}]
    BY <1>1 DEF uip_ds6_send_rs, Silence
  <2> QED
    BY <1>1, <2>1 DEF Outcome, Sound, TypeOK
<1> DEFINE d == First(Sending(t))
<1>0. Used(t) \subseteq Slot /\ Sending(t) \subseteq Used(t)
  BY DEF Used, Sending
<1>2. Sending(t) # {} => d \in Sending(t)
  BY <1>0, FirstAndFinal
<1>3. CASE ~(wait > 0) /\ Sending(t) # {} /\ t[d].count < MaxSolicitations
  <2> DEFINE n == Counted(t[d].count)
             u == [t EXCEPT ![d].count = n]
  <2>1. d \in Slot /\ d \in Used(t)
    BY <1>0, <1>2, <1>3
  <2>2. t[d] \in Entry
    BY <2>1 DEF Table
  <2>3. n = t[d].count + 1 /\ n \in 0 .. MaxSolicitations
    BY <1>3, <2>2, SizesAssumption DEF Counted, Entry
  <2>4. u \in Table
    BY <2>1, <2>3 DEF Table, Entry
  <2>5. \A e \in Slot : /\ u[e].used = t[e].used
                        /\ u[e].count = IF e \in {d} THEN t[e].count + 1 ELSE t[e].count
    BY <2>1, <2>3 DEF Table, Entry
  <2>6. Used(u) = Used(t)
    BY <2>5 DEF Used
  <2>7. n \in Nat
    BY <2>3, SizesAssumption
  <2>8. PICK w \in rs_rtx_time(n) :
          o = [table |-> u, count |-> c, wait |-> w, kind |-> "one", to |-> {d}]
    BY <1>3 DEF uip_ds6_send_rs, Unicast
  <2>9. w \in 0 .. MaxInterval
    BY <2>7, IntervalBounded
  <2> HIDE DEF u, n
  <2> QED
    BY <2>1, <2>4, <2>5, <2>6, <2>8, <2>9 DEF Outcome, Sound
<1>4. CASE ~(wait > 0) /\ ~(Sending(t) # {} /\ t[d].count < MaxSolicitations)
  <2> DEFINE n == IF Used(t) = {} THEN Counted(c) ELSE 0
             up == IF Sending(t) = {} THEN {} ELSE {d}
             u == [e \in Slot |->
                     IF e \in up THEN [t[e] EXCEPT !.sending = FALSE, !.count = 0] ELSE t[e]]
  <2>1. n \in 0 .. MaxCount + 1
    BY SizesAssumption DEF Counted
  <2>2. u \in Table
    <3> SUFFICES ASSUME NEW e \in Slot
                 PROVE  u[e] \in Entry
      BY DEF Table
    <3>1. t[e] \in Entry
      BY DEF Table
    <3>2. [t[e] EXCEPT !.sending = FALSE, !.count = 0] \in Entry
      BY <3>1, GivenUpTyped
    <3>3. u[e] \in {t[e], [t[e] EXCEPT !.sending = FALSE, !.count = 0]}
      BY DEF u
    <3> QED
      BY <3>1, <3>2, <3>3
  <2>3. \A e \in Slot : u[e].used = t[e].used
    BY DEF Table, Entry
  <2>4. Used(u) = Used(t)
    BY <2>3 DEF Used
  <2>5. n \in Nat
    BY <2>1, SizesAssumption
  <2>6. PICK w \in rs_rtx_time(n) :
          o = [table |-> u, count |-> n, wait |-> w, kind |-> "all", to |-> Used(t)]
    BY <1>4 DEF uip_ds6_send_rs, Multicast
  <2>7. w \in 0 .. MaxInterval
    BY <2>5, IntervalBounded
  <2> HIDE DEF u, n
  <2> QED
    BY <1>0, <2>1, <2>2, <2>4, <2>6, <2>7 DEF Outcome, Sound
<1> QED
  BY <1>1, <1>3, <1>4

(* A table without some of its entries.                                    *)
LEMMA ReleaseTyped ==
  ASSUME NEW t \in Table, NEW S
  PROVE  /\ Release(t, S) \in Table
         /\ Used(Release(t, S)) = Used(t) \ S
         /\ \A d \in Used(Release(t, S)) : Release(t, S)[d] = t[d]
<1>1. Free \in Entry /\ Free.used = FALSE
  BY SizesAssumption DEF Free, Entry
<1> QED
  BY <1>1 DEF Release, Table, Used

(* A step that takes outcome o for table s, and table t from there on.     *)
LEMMA TakesKeeps ==
  ASSUME IInv, NEW s \in Table, Used(s) \subseteq Used(defrt),
         NEW o \in Outcome(s), Sound(o, s),
         \A d \in Used(s) : row[d] <= s[d].count,
         NEW t \in Table, \A d \in Used(t) : d \in Used(s) /\ t[d] = o.table[d],
         NEW leaves \in BOOLEAN, leaves \/ Used(defrt) # {},
         ran' \in {ran, TRUE}, Takes(o, t, leaves)
  PROVE  IInv'
<1> USE DEF IInv
<1>1. o.table \in Table /\ Used(o.table) = Used(s)
  BY DEF Outcome
<1>2. \A d \in Slot : d \in o.to /\ o.kind # "one" => o.kind = "all"
  BY DEF Outcome, Sound
<1>3. \A d \in Slot : row'[d] = IF d \notin Used(t) \/ o.kind = "all" THEN 0
                             ELSE IF d \in o.to THEN row[d] + 1 ELSE row[d]
  BY DEF Takes
<1>4. row' \in [Slot -> Nat]
  <2>1. row \in [Slot -> Nat]
    BY DEF TypeOK
  <2> QED
    BY <2>1 DEF Takes
<1>5. TypeOK'
  <2>1. o.count \in 0 .. MaxCount + 1 /\ o.wait \in 0 .. MaxInterval
    BY DEF Outcome
  <2>2. quiet' \in Nat
    BY DEF Takes, TypeOK
  <2>3. asked' \in SUBSET Slot /\ shared' \in SUBSET Slot
    BY DEF Takes, Shared, Short, Used
  <2>4. ran' \in BOOLEAN
    BY DEF TypeOK
  <2> QED
    BY <1>4, <2>1, <2>2, <2>3, <2>4 DEF Takes, TypeOK, Table
<1>6. CountsAll'
  <2> SUFFICES ASSUME NEW d \in Slot
               PROVE  row'[d] <= t[d].count
    BY DEF CountsAll, Takes
  <2>1. t[d].count \in Nat
    BY SizesAssumption DEF Table, Entry
  <2>2. CASE d \notin Used(t) \/ o.kind = "all"
    BY <1>3, <2>1, <2>2
  <2>3. CASE d \in Used(t) /\ o.kind # "all"
    <3>1. row[d] <= s[d].count /\ t[d] = o.table[d]
      BY <2>3
    <3>2. row[d] \in Nat /\ s[d].count \in Nat
      BY SizesAssumption DEF TypeOK, Table, Entry
    <3>3. CASE o.kind = "none"
      <4>1. o.table = s /\ o.to = {}
        BY <3>3 DEF Sound
      <4> QED
        BY <1>3, <2>3, <3>1, <4>1
    <3>4. CASE o.kind = "one"
      <4>1. t[d].count = IF d \in o.to THEN s[d].count + 1 ELSE s[d].count
        BY <3>1, <3>4 DEF Sound
      <4> QED
        BY <1>3, <2>3, <3>1, <3>2, <4>1
    <3> QED
      BY <2>3, <3>3, <3>4 DEF Outcome
  <2> QED
    BY <2>2, <2>3
<1>7. Pacing'
  <2>0. quiet \in Nat /\ wait \in 0 .. MaxInterval /\ o.wait \in 0 .. MaxInterval /\ MaxInterval \in Nat
    BY TimesAssumption DEF TypeOK, Outcome
  <2>1. defrt' = t /\ wait' = o.wait
        /\ quiet' = IF Used(t) # {} \/ (o.kind = "all" /\ leaves) THEN 0 ELSE quiet
    BY DEF Takes
  <2>2. Used(defrt)' = Used(t)
    BY <2>1 DEF Used
  <2>3. CASE quiet' = 0
    BY <2>0, <2>1, <2>2, <2>3 DEF Pacing
  <2>4. CASE Used(t) = {} /\ quiet' = quiet /\ quiet # 0
    <3>1. Used(defrt) = {} /\ leaves /\ o.kind # "all"
      BY <2>0, <2>1, <2>4 DEF Pacing
    <3>2. Used(s) = {}
      BY <3>1
    <3>3. o.kind = "none"
      BY <3>1, <3>2 DEF Sound, Outcome
    <3>4. o.wait = wait /\ wait > 0
      BY <3>3 DEF Sound
    <3> QED
      BY <2>0, <2>1, <2>2, <2>4, <3>1, <3>4 DEF Pacing
  <2> QED
    BY <2>1, <2>3, <2>4
<1> QED
  BY <1>5, <1>6, <1>7

(* A step that solicits with a table s left of the routers, and goes on    *)
(* with table t.                                                           *)
LEMMA SendKeeps ==
  ASSUME IInv, NEW s \in Table, Used(s) \subseteq Used(defrt),
         \A d \in Used(s) : s[d].count = defrt[d].count,
         NEW o \in uip_ds6_send_rs(s, rscount),
         NEW t, o.table \in Table /\ Used(o.table) = Used(s) =>
                  t \in Table /\ \A d \in Used(t) : d \in Used(s) /\ t[d] = o.table[d],
         NEW leaves \in BOOLEAN, leaves \/ Used(defrt) # {},
         ran' \in {ran, TRUE}, Takes(o, t, leaves)
  PROVE  IInv'
<1>1. o \in Outcome(s) /\ Sound(o, s)
  BY SendRsSound DEF IInv, TypeOK
<1>2. o.table \in Table /\ Used(o.table) = Used(s)
  BY <1>1 DEF Outcome
<1>3. \A d \in Used(s) : row[d] <= s[d].count
  BY DEF IInv, CountsAll, Used
<1> QED
  BY <1>1, <1>2, <1>3, TakesKeeps

(* A step that sends nothing and keeps some of the routers.                *)
LEMMA KeepsKeeps ==
  ASSUME IInv, NEW t \in Table, \A d \in Used(t) : d \in Used(defrt) /\ t[d] = defrt[d],
         ran' = ran \/ (ran' = TRUE /\ Used(defrt) # {}), Keeps(t)
  PROVE  IInv'
<1> USE DEF IInv
<1>1. /\ defrt' = t /\ rscount' = rscount /\ wait' = wait
      /\ quiet' = IF Used(t) # {} THEN 0 ELSE quiet
      /\ asked' \in SUBSET Slot /\ shared' \in SUBSET Slot
      /\ row' = [d \in Slot |-> IF d \notin Used(t) THEN 0 ELSE row[d]]
  BY DEF Keeps, Silence, Takes, Shared, Short, Used
<1>2. TypeOK'
  BY <1>1 DEF TypeOK, Table
<1>3. CountsAll'
  <2> SUFFICES ASSUME NEW d \in Slot
               PROVE  row'[d] <= t[d].count
    BY <1>1 DEF CountsAll
  <2>1. t[d].count \in Nat
    BY SizesAssumption DEF Table, Entry
  <2>2. row[d] <= defrt[d].count
    BY DEF CountsAll
  <2> QED
    BY <1>1, <2>1, <2>2
<1>4. Pacing'
  <2>1. Used(defrt)' = Used(t)
    BY <1>1 DEF Used
  <2>2. wait \in 0 .. MaxInterval /\ MaxInterval \in Nat
    BY TimesAssumption DEF TypeOK
  <2>3. Used(defrt) # {} => quiet = 0
    BY DEF Pacing
  <2>4. Used(t) # {} => Used(defrt) # {}
    OBVIOUS
  <2> QED
    BY <1>1, <2>1, <2>2, <2>3, <2>4 DEF Pacing
<1> QED
  BY <1>2, <1>3, <1>4

(* The mark of the router whose lifetime is the least changes nothing else.*)
LEMMA MarkedTyped ==
  ASSUME NEW t \in Table, NEW m \in Marked(t)
  PROVE  m \in Table /\ Used(m) = Used(t) /\ \A d \in Slot : m[d].count = t[d].count
<1>1. m = t \/ m = [t EXCEPT ![Least(t)].sending = TRUE]
  BY DEF Marked
<1> DEFINE x == Least(t)
<1> HIDE DEF x
<1>2. [t EXCEPT ![x].sending = TRUE] \in Table
  BY DEF Table, Entry
<1>3. \A d \in Slot : /\ [t EXCEPT ![x].sending = TRUE][d].count = t[d].count
                      /\ [t EXCEPT ![x].sending = TRUE][d].used = t[d].used
  BY DEF Table, Entry
<1> QED
  BY <1>1, <1>2, <1>3 DEF Used, x

(* Each pass, and each message but one with a lifetime.                    *)
LEMMA PassKeeps ==
  ASSUME IInv, Pass
  PROVE  IInv'
<1>0. defrt \in Table
  BY DEF IInv, TypeOK, Table
<1>1. CASE PassBusy
  <2>1. Keeps(Expire(defrt)) /\ ran' = ran
    BY <1>1 DEF PassBusy
  <2> QED
    BY <1>0, <2>1, ReleaseTyped, KeepsKeeps DEF Expire
<1>2. CASE PassEmpty
  <2>1. PICK o \in uip_ds6_send_rs(defrt, rscount) : Takes(o, o.table, TRUE)
    BY <1>2 DEF PassEmpty
  <2>2. ran' = TRUE
    BY <1>2 DEF PassEmpty
  <2> QED
    BY <1>0, <2>1, <2>2, SendKeeps
<1>3. CASE PassRenew
  <2> DEFINE t == Expire(defrt)
  <2>1. t \in Table /\ Used(t) \subseteq Used(defrt) /\ \A d \in Used(t) : t[d] = defrt[d]
    BY <1>0, ReleaseTyped DEF Expire
  <2>2. ran' = TRUE
    BY <1>3 DEF PassRenew
  <2>3. PICK m \in Marked(t) :
          \E o \in uip_ds6_send_rs(m, rscount) : Takes(o, o.table, TRUE)
    BY <1>3 DEF PassRenew
  <2>4. PICK o \in uip_ds6_send_rs(m, rscount) : Takes(o, o.table, TRUE)
    BY <2>3
  <2> HIDE DEF t
  <2>5. m \in Table /\ Used(m) = Used(t) /\ \A d \in Slot : m[d].count = t[d].count
    BY <2>1, <2>3, MarkedTyped
  <2>6. \A d \in Used(m) : m[d].count = defrt[d].count
    BY <2>1, <2>5 DEF Used
  <2>7. Used(m) \subseteq Used(defrt)
    BY <2>1, <2>5
  <2> QED
    BY <2>2, <2>4, <2>5, <2>6, <2>7, SendKeeps
<1>4. CASE PassQuiet
  <2> DEFINE t == Expire(defrt)
  <2>1. t \in Table /\ Used(t) \subseteq Used(defrt) /\ \A d \in Used(t) : t[d] = defrt[d]
    BY <1>0, ReleaseTyped DEF Expire
  <2>2. ran' = TRUE /\ Used(t) # {}
    BY <1>4 DEF PassQuiet
  <2>3. Keeps(t)
    BY <1>4 DEF PassQuiet
  <2> HIDE DEF t
  <2> QED
    BY <2>1, <2>2, <2>3, KeepsKeeps
<1>5. ASSUME NEW d \in Slot, PassGiveUp(d)
      PROVE  IInv'
  <2> DEFINE s == Release(defrt, {d})
  <2>1. s \in Table /\ Used(s) \subseteq Used(defrt) /\ \A e \in Used(s) : s[e] = defrt[e]
    BY <1>0, ReleaseTyped
  <2>2. PICK o \in uip_ds6_send_rs(s, rscount) : Takes(o, Expire(o.table), TRUE)
    BY <1>5 DEF PassGiveUp
  <2>3. ran' = ran
    BY <1>5 DEF PassGiveUp
  <2> HIDE DEF s
  <2>4. o.table \in Table /\ Used(o.table) = Used(s) =>
          /\ Expire(o.table) \in Table
          /\ \A e \in Used(Expire(o.table)) :
               e \in Used(s) /\ Expire(o.table)[e] = o.table[e]
    BY ReleaseTyped DEF Expire
  <2> QED
    BY <2>1, <2>2, <2>3, <2>4, SendKeeps
<1> QED
  BY <1>1, <1>2, <1>3, <1>4, <1>5 DEF Pass

(* A router that withdraws, in an advertisement of either kind.            *)
LEMMA WithdrawalKeeps ==
  ASSUME IInv, NEW r \in Router, RaWithdraws(r) \/ NaNotRouter(r)
  PROVE  IInv'
<1>0. defrt \in Table
  BY DEF IInv, TypeOK, Table
<1>1. CASE RaWithdraws(r)
  <2>1. PICK E : Keeps(Release(defrt, E \cup Lookup(defrt, r)))
    BY <1>1 DEF RaWithdraws
  <2>2. ran' = ran
    BY <1>1 DEF RaWithdraws
  <2> QED
    BY <1>0, <2>1, <2>2, ReleaseTyped, KeepsKeeps
<1>2. CASE NaNotRouter(r)
  <2> DEFINE s == Release(defrt, Lookup(defrt, r))
  <2>1. s \in Table /\ Used(s) \subseteq Used(defrt) /\ \A e \in Used(s) : s[e] = defrt[e]
    BY <1>0, ReleaseTyped
  <2>2. PICK o \in uip_ds6_send_rs(s, rscount) : Takes(o, o.table, FALSE)
    BY <1>2 DEF NaNotRouter
  <2>3. ran' = ran /\ Used(defrt) # {}
    BY <1>2 DEF NaNotRouter, Lookup
  <2> HIDE DEF s
  <2> QED
    BY <2>1, <2>2, <2>3, SendKeeps
<1> QED
  BY <1>1, <1>2

(* A router that is heard of is listed; the others keep their entries.     *)
LEMMA HeardTyped ==
  ASSUME NEW t \in Table, NEW r \in Router, NEW life \in Lifetimes, NEW h, h = Heard(t, r, life)
  PROVE  /\ h \in Table
         /\ \A d \in Used(h) \ Lookup(h, r) : d \in Used(t) /\ h[d] = t[d]
<1>0. life \in Nat /\ 0 \in 0 .. MaxSolicitations
  BY TimesAssumption, SizesAssumption
<1> DEFINE D == Lookup(t, r)
           spare == Slot \ Used(t)
           Renewed(e) == [e EXCEPT !.left = life, !.sending = FALSE,
                                   !.count = IF e.sending THEN 0 ELSE @]
<1>1. CASE D # {}
  <2>1. h = [k \in Slot |-> IF k \in D THEN Renewed(t[k]) ELSE t[k]]
    BY <1>1 DEF Heard
  <2>2. \A e \in Entry : /\ Renewed(e) \in Entry
                         /\ Renewed(e).used = e.used /\ Renewed(e).ip = e.ip
    <3> TAKE e \in Entry
    <3> DEFINE a == [e EXCEPT !.left = life]
               b == [a EXCEPT !.sending = FALSE]
               n == IF e.sending THEN 0 ELSE e.count
    <3>1. a \in Entry /\ a.used = e.used /\ a.ip = e.ip
      BY <1>0 DEF Entry
    <3>2. b \in Entry /\ b.used = a.used /\ b.ip = a.ip
      <4> HIDE DEF a
      <4> QED
        BY <3>1 DEF Entry
    <3>3. n \in 0 .. MaxSolicitations
      BY <1>0 DEF Entry
    <3>4. /\ [b EXCEPT !.count = n] \in Entry
          /\ [b EXCEPT !.count = n].used = b.used /\ [b EXCEPT !.count = n].ip = b.ip
      <4> HIDE DEF b, n
      <4> QED
        BY <3>2, <3>3 DEF Entry
    <3>5. Renewed(e) = [b EXCEPT !.count = n]
      BY DEF Entry
    <3> HIDE DEF a, b, n
    <3> QED
      BY <3>1, <3>2, <3>4, <3>5
  <2> HIDE DEF Renewed
  <2>3. h \in Table
    BY <2>1, <2>2 DEF Table
  <2>4. D \subseteq Lookup(h, r)
    BY <2>1, <2>2 DEF Table, Lookup, Used
  <2> QED
    BY <2>1, <2>3, <2>4 DEF Used
<1>2. CASE D = {} /\ spare = {}
  BY <1>2 DEF Heard
<1>3. CASE D = {} /\ spare # {}
  <2> DEFINE x == Final(spare)
             new == [used |-> TRUE, ip |-> r, left |-> life, sending |-> FALSE, count |-> 0]
  <2>1. x \in Slot
    BY <1>3, FirstAndFinal
  <2>2. new \in Entry /\ new.used /\ new.ip = r
    BY <1>0 DEF Entry
  <2>3. h = [t EXCEPT ![x] = new]
    BY <1>3 DEF Heard
  <2> HIDE DEF x, new
  <2>4. h \in Table
    BY <2>1, <2>2, <2>3 DEF Table
  <2>5. \A d \in Slot : h[d] = IF d = x THEN new ELSE t[d]
    BY <2>1, <2>3 DEF Table
  <2>6. x \in Lookup(h, r)
    BY <2>1, <2>2, <2>5 DEF Lookup, Used
  <2> QED
    BY <2>4, <2>5, <2>6 DEF Used
<1> QED
  BY <1>1, <1>2, <1>3

(* An advertisement with a lifetime.                                       *)
LEMMA AdvertKeeps ==
  ASSUME IInv, NEW r \in Router, NEW life \in Lifetimes, RaInput(r, life)
  PROVE  IInv'
<1>1. PICK E : defrt' = Heard(Release(defrt, E), r, life)
  BY DEF RaInput
<1> DEFINE t == Release(defrt, E)
<1>2. t \in Table /\ \A d \in Used(t) : t[d] = defrt[d]
  BY ReleaseTyped DEF IInv, TypeOK, Table
<1> HIDE DEF t
<1>3. /\ defrt' \in Table
      /\ \A d \in Used(defrt') \ Lookup(defrt', r) : d \in Used(t) /\ defrt'[d] = t[d]
  BY <1>1, <1>2, HeardTyped DEF t
<1>4. row' = [d \in Slot |-> IF ~defrt'[d].used \/ d \in Lookup(defrt', r) THEN 0 ELSE row[d]]
  BY DEF RaInput
<1>5. TypeOK'
  <2>1. asked' \in SUBSET Slot /\ shared' \in SUBSET Slot
    BY DEF RaInput, IInv, TypeOK, Shared, Short, Used
  <2>2. row' \in [Slot -> Nat]
    BY <1>4 DEF IInv, TypeOK
  <2> QED
    BY <1>3, <2>1, <2>2, SizesAssumption DEF RaInput, IInv, TypeOK, Table
<1>6. CountsAll'
  <2> SUFFICES ASSUME NEW d \in Slot
               PROVE  row'[d] <= defrt'[d].count
    BY DEF CountsAll
  <2>1. defrt'[d].count \in Nat
    BY <1>3, SizesAssumption DEF Table, Entry
  <2>2. row[d] <= defrt[d].count
    BY DEF IInv, CountsAll
  <2>3. row'[d] = 0 \/ (row'[d] = row[d] /\ d \in Used(defrt') \ Lookup(defrt', r))
    BY <1>4 DEF Used
  <2> QED
    BY <1>2, <1>3, <2>1, <2>2, <2>3
<1>7. Pacing'
  BY TimesAssumption DEF RaInput, IInv, TypeOK, Pacing
<1> QED
  BY <1>5, <1>6, <1>7 DEF IInv

(* Time goes by.                                                           *)
LEMMA TickKeeps ==
  ASSUME IInv, Tick
  PROVE  IInv'
<1>1. \A d \in Slot : /\ defrt[d] \in Entry
                      /\ defrt'[d] = IF defrt[d].left = 0 THEN defrt[d]
                                    ELSE [defrt[d] EXCEPT !.left = @ - 1]
  BY DEF Tick, IInv, TypeOK
<1>2. \A e \in Entry : e.left # 0 =>
        /\ [e EXCEPT !.left = @ - 1] \in Entry
        /\ [e EXCEPT !.left = @ - 1].used = e.used
        /\ [e EXCEPT !.left = @ - 1].count = e.count
  BY DEF Entry
<1>3. \A d \in Slot : /\ defrt'[d] \in Entry
                      /\ defrt'[d].used = defrt[d].used /\ defrt'[d].count = defrt[d].count
  BY <1>1, <1>2
<1>4. defrt' \in Table
  BY <1>3 DEF Tick, Table
<1>5. Used(defrt)' = Used(defrt)
  BY <1>3 DEF Used
<1>6. TypeOK'
  <2>1. shared' \in SUBSET Slot
    BY DEF Tick, IInv, TypeOK, Shared, Short, Used
  <2>2. wait' \in 0 .. MaxInterval /\ quiet' \in Nat
    BY TimesAssumption DEF Tick, IInv, TypeOK
  <2> QED
    BY <1>4, <2>1, <2>2 DEF Tick, IInv, TypeOK, Table
<1>7. CountsAll'
  BY <1>3 DEF Tick, IInv, CountsAll
<1>8. Pacing'
  <2>1. /\ quiet \in Nat /\ wait \in 0 .. MaxInterval /\ MaxInterval \in Nat
        /\ MaxInterval # 0
    BY TimesAssumption DEF IInv, TypeOK
  <2>2. /\ ran /\ ran' = FALSE
        /\ wait' = IF wait = 0 THEN 0 ELSE wait - 1
        /\ quiet' = IF Used(defrt) = {} THEN quiet + 1 ELSE 0
    BY DEF Tick
  <2> QED
    BY <1>5, <2>1, <2>2 DEF IInv, Pacing
<1> QED
  BY <1>6, <1>7, <1>8 DEF IInv

-----------------------------------------------------------------------------
(* IInv holds in every reachable state.                                    *)
THEOREM Invariance == Spec => []IInv
<1>1. Init => IInv
  <2> SUFFICES ASSUME Init
               PROVE  IInv
    OBVIOUS
  <2>1. Free \in Entry /\ Free.used = FALSE /\ Free.count = 0
    BY SizesAssumption DEF Free, Entry
  <2>2. TypeOK
    <3>1. defrt \in [Slot -> Entry] /\ row \in [Slot -> Nat]
      BY <2>1 DEF Init
    <3>2. rscount \in 0 .. MaxCount + 1 /\ wait \in 0 .. MaxInterval
      BY SizesAssumption, TimesAssumption DEF Init
    <3>3. ran \in BOOLEAN /\ quiet \in Nat /\ asked \in SUBSET Slot /\ shared \in SUBSET Slot
      BY DEF Init
    <3> QED
      BY <3>1, <3>2, <3>3 DEF TypeOK
  <2>3. Pacing
    BY TimesAssumption DEF Init, Pacing
  <2>4. CountsAll
    BY <2>1 DEF Init, CountsAll
  <2> QED
    BY <2>2, <2>3, <2>4 DEF IInv
<1>2. IInv /\ [Next]_vars => IInv'
  <2> SUFFICES ASSUME IInv, [Next]_vars
               PROVE  IInv'
    OBVIOUS
  <2>1. CASE Pass
    BY <2>1, PassKeeps
  <2>2. CASE Message
    BY <2>2, AdvertKeeps, WithdrawalKeeps DEF Message
  <2>3. CASE Tick
    BY <2>3, TickKeeps
  <2>4. CASE UNCHANGED vars
    BY <2>4 DEF vars, codeVars, ghostVars, IInv, TypeOK, Pacing, CountsAll, Used
  <2> QED
    BY <2>1, <2>2, <2>3, <2>4 DEF Next
<1> QED
  BY <1>1, <1>2, PTL DEF Spec

(* A host that has lost every router asks for one again within the         *)
(* greatest interval, for any intervals, whatever the backoff draws.       *)
THEOREM SolicitsAgain == Spec => []NeverSilent
<1>1. IInv => NeverSilent
  <2> SUFFICES ASSUME IInv, Used(defrt) = {}
               PROVE  quiet <= MaxInterval
    BY DEF NeverSilent
  <2>1. quiet \in Nat /\ wait \in 0 .. MaxInterval /\ MaxInterval \in Nat
    BY TimesAssumption DEF IInv, TypeOK
  <2>2. quiet + wait <= MaxInterval
    BY DEF IInv, Pacing
  <2> QED
    BY <2>1, <2>2
<1> QED
  BY <1>1, Invariance, PTL

(* However many routers there are: one that does not answer is asked alone *)
(* no more than the allowed number of times before all of them are.        *)
THEOREM InsistsNever == Spec => []NeverInsists
<1>1. IInv => NeverInsists
  <2> SUFFICES ASSUME IInv, NEW d \in Slot
               PROVE  row[d] <= MaxSolicitations
    BY DEF NeverInsists
  <2>1. defrt[d].count \in 0 .. MaxSolicitations /\ row[d] \in Nat
    BY DEF IInv, TypeOK, Entry
  <2>2. row[d] <= defrt[d].count
    BY DEF IInv, CountsAll
  <2> QED
    BY <2>1, <2>2, SizesAssumption
<1> QED
  BY <1>1, Invariance, PTL

-----------------------------------------------------------------------------
(* What has to be so for a router to be asked in time: no prefix has less  *)
(* to live than the routers, a solicitation follows another, while there   *)
(* is a router, sooner than a lifetime that has become short ends, and no  *)
(* lifetime is short from the start or ends before the host asks again.    *)
(* The code draws 30 seconds at most, and has 60 for the threshold and the *)
(* greatest interval.                                                      *)
Timely ==
  /\ FinitePrefix = FALSE
  /\ \A c \in 0 .. MaxSolicitations : \A w \in rs_rtx_time(c) : w < Threshold
  /\ \A life \in Lifetimes : life > MaxInterval /\ life >= Threshold

(* What is left of a lifetime outlasts the timer, unless the router has    *)
(* been asked or was not alone; where it is short, it is the only one, and *)
(* a pass of this unit of time has found the timer running.                *)
InTime ==
  /\ asked \cup shared \subseteq Short(defrt)
  /\ \A d \in Used(defrt) \ (asked \cup shared) :
       /\ defrt[d].left > wait
       /\ defrt[d].left < Threshold => Used(defrt) = {d} /\ (ran => wait > 0)
-----------------------------------------------------------------------------
(* A router that shares the list with no other is alone in it.             *)
LEMMA Alone ==
  ASSUME NEW t, NEW d \in Used(t), ~(Cardinality(Used(t)) > 1)
  PROVE  Used(t) = {d}
<1>1. IsFiniteSet(Used(t))
  <2>1. IsFiniteSet(Slot)
    BY FS_Interval, SizesAssumption DEF Slot
  <2> QED
    BY <2>1, FS_Subset DEF Used
<1>2. SUFFICES ASSUME NEW e \in Used(t), e # d
               PROVE  FALSE
  OBVIOUS
<1>3. IsFiniteSet({d, e}) /\ Cardinality({d, e}) = 2
  <2>1. IsFiniteSet({d}) /\ Cardinality({d}) = 1
    BY FS_Singleton
  <2>2. {d} \cup {e} = {d, e} /\ e \notin {d}
    BY <1>2
  <2> QED
    BY <2>1, <2>2, FS_AddElement
<1>4. Cardinality({d, e}) <= Cardinality(Used(t))
  BY <1>1, <1>2, FS_Subset
<1> QED
  BY <1>1, <1>3, <1>4, FS_CardinalityType

(* What uip_ds6_send_rs leaves behind while there is a router: no lifetime *)
(* is touched, the next solicitation is in time, and the only router is    *)
(* asked.                                                                  *)
LEMMA RenewalSound ==
  ASSUME Timely, NEW t \in Table, NEW c, NEW o \in uip_ds6_send_rs(t, c)
  PROVE  /\ \A d \in Slot : o.table[d].left = t[d].left
         /\ Used(t) # {} /\ o.kind # "none" => o.wait < Threshold
         /\ \A d : Used(t) = {d} /\ o.kind # "none" => o.to = {d}
<1>1. CASE wait > 0
  BY <1>1 DEF uip_ds6_send_rs, Silence
<1> DEFINE d == First(Sending(t))
<1>0. Used(t) \subseteq Slot /\ Sending(t) \subseteq Used(t)
  BY DEF Used, Sending
<1>2. Sending(t) # {} => d \in Sending(t)
  BY <1>0, FirstAndFinal
<1>3. CASE ~(wait > 0) /\ Sending(t) # {} /\ t[d].count < MaxSolicitations
  <2> DEFINE n == Counted(t[d].count)
             u == [t EXCEPT ![d].count = n]
  <2>1. d \in Slot /\ d \in Used(t) /\ t[d] \in Entry
    BY <1>0, <1>2, <1>3 DEF Table
  <2>2. n \in 0 .. MaxSolicitations
    BY <1>3, <2>1, SizesAssumption DEF Counted, Entry
  <2>3. PICK w \in rs_rtx_time(n) :
          o = [table |-> u, count |-> c, wait |-> w, kind |-> "one", to |-> {d}]
    BY <1>3 DEF uip_ds6_send_rs, Unicast
  <2>4. w < Threshold
    BY <2>2 DEF Timely
  <2>5. \A e \in Slot : u[e].left = t[e].left
    BY DEF Table, Entry
  <2> HIDE DEF u, n, d
  <2> QED
    BY <2>1, <2>3, <2>4, <2>5
<1>4. CASE ~(wait > 0) /\ ~(Sending(t) # {} /\ t[d].count < MaxSolicitations)
  <2> DEFINE n == IF Used(t) = {} THEN Counted(c) ELSE 0
             up == IF Sending(t) = {} THEN {} ELSE {d}
             u == [e \in Slot |->
                     IF e \in up THEN [t[e] EXCEPT !.sending = FALSE, !.count = 0] ELSE t[e]]
  <2>1. PICK w \in rs_rtx_time(n) :
          o = [table |-> u, count |-> n, wait |-> w, kind |-> "all", to |-> Used(t)]
    BY <1>4 DEF uip_ds6_send_rs, Multicast
  <2>2. Used(t) # {} => w < Threshold
    <3>1. Used(t) # {} => n = 0
      OBVIOUS
    <3>2. 0 \in 0 .. MaxSolicitations
      BY SizesAssumption
    <3> HIDE DEF n
    <3> QED
      BY <2>1, <3>1, <3>2 DEF Timely
  <2>3. \A e \in Slot : u[e].left = t[e].left
    BY DEF Table, Entry
  <2> HIDE DEF u, n
  <2> QED
    BY <2>1, <2>2, <2>3
<1> QED
  BY <1>1, <1>3, <1>4

(* A step that takes outcome o for table s, some of the routers there are, *)
(* and table t from there on; it loses the outcome only if it has given up *)
(* a router.                                                               *)
LEMMA TakesInTime ==
  ASSUME Timely, IInv, InTime, NEW s \in Table, Used(s) \subseteq Used(defrt),
         \A d \in Used(s) : s[d].left = defrt[d].left,
         NEW o \in uip_ds6_send_rs(s, rscount),
         NEW t, \A d \in Used(t) : d \in Used(s) /\ t[d] = o.table[d],
         NEW leaves \in BOOLEAN, leaves \/ Used(s) # Used(defrt), Takes(o, t, leaves)
  PROVE  InTime'
<1>1. /\ defrt' = t /\ wait' = o.wait
      /\ asked' = {d \in Short(t) : d \in asked \/ (leaves /\ d \in o.to)}
      /\ shared' = Shared(t)
  BY DEF Takes
<1>2. Used(defrt') = Used(t) /\ Short(defrt') = Short(t)
  BY <1>1
<1>3. asked' \cup shared' \subseteq Short(t)
  BY <1>1 DEF Shared
<1>4. /\ \A d \in Slot : o.table[d].left = s[d].left
      /\ Used(s) # {} /\ o.kind # "none" => o.wait < Threshold
      /\ \A d : Used(s) = {d} /\ o.kind # "none" => o.to = {d}
  BY RenewalSound
<1>5. Sound(o, s) /\ o \in Outcome(s)
  BY SendRsSound DEF IInv, TypeOK
<1>6. ASSUME NEW d \in Used(t) \ (asked' \cup shared')
      PROVE  /\ t[d].left > o.wait
             /\ t[d].left < Threshold => Used(t) = {d} /\ o.wait > 0
  <2>1. d \in Slot /\ d \in Used(s) /\ d \in Used(defrt) /\ t[d].left = defrt[d].left
    BY <1>4 DEF Used
  <2>2. defrt[d].left \in Nat /\ Threshold \in Nat /\ wait \in Nat /\ o.wait \in Nat
    BY <1>5, <2>1, TimesAssumption DEF IInv, TypeOK, Entry, Outcome
  <2>3. d \notin Short(t) => d \notin Short(defrt)
    BY <2>1 DEF Short
  <2>4. CASE d \notin Short(t)
    <3>1. defrt[d].left > wait /\ ~(t[d].left < Threshold)
      BY <2>1, <2>3, <2>4 DEF InTime, Short
    <3>2. o.wait = wait \/ o.wait < Threshold
      BY <1>4, <1>5, <2>1 DEF Sound
    <3> QED
      BY <2>1, <2>2, <3>1, <3>2
  <2>5. CASE d \in Short(t)
    <3>1. d \notin asked /\ d \notin shared /\ ~(leaves /\ d \in o.to)
          /\ ~(Cardinality(Used(t)) > 1)
      BY <1>1, <2>5 DEF Shared
    <3>2. Used(t) = {d}
      BY <3>1, Alone
    <3>3. defrt[d].left > wait /\ Used(defrt) = {d}
      BY <2>1, <2>5, <3>1 DEF InTime, Short
    <3>4. Used(s) = {d} /\ leaves
      BY <2>1, <3>3
    <3>5. o.kind = "none"
      BY <1>4, <3>1, <3>4
    <3>6. o.wait = wait /\ wait > 0
      BY <1>5, <3>5 DEF Sound
    <3> QED
      BY <2>1, <3>2, <3>3, <3>6
  <2> QED
    BY <2>4, <2>5
<1> QED
  BY <1>1, <1>2, <1>3, <1>6 DEF InTime

(* A step that sends nothing and keeps some of the routers; a pass that    *)
(* could have sent has found one whose lifetime is long, and no other has  *)
(* less to live.                                                           *)
LEMMA KeepsInTime ==
  ASSUME Timely, IInv, InTime, NEW t, \A d \in Used(t) : d \in Used(defrt) /\ t[d] = defrt[d],
         ran' = ran \/ \A d \in Used(t) : t[d].left >= Threshold, Keeps(t)
  PROVE  InTime'
<1>1. /\ defrt' = t /\ wait' = wait
      /\ asked' = {d \in Short(t) : d \in asked}
      /\ shared' = Shared(t)
  BY DEF Keeps, Silence, Takes
<1>2. Used(defrt') = Used(t) /\ Short(defrt') = Short(t)
  BY <1>1
<1>3. asked' \cup shared' \subseteq Short(t)
  BY <1>1 DEF Shared
<1>4. ASSUME NEW d \in Used(t) \ (asked' \cup shared')
      PROVE  /\ t[d].left > wait
             /\ t[d].left < Threshold => Used(t) = {d} /\ (ran' => wait > 0)
  <2>1. d \in Slot /\ d \in Used(defrt) /\ t[d] = defrt[d]
    BY DEF Used
  <2>2. defrt[d].left \in Nat /\ Threshold \in Nat
    BY <2>1, TimesAssumption DEF IInv, TypeOK, Entry
  <2>3. CASE d \notin Short(t)
    BY <2>1, <2>3 DEF InTime, Short
  <2>4. CASE d \in Short(t)
    <3>1. d \notin asked /\ d \notin shared /\ ~(Cardinality(Used(t)) > 1)
      BY <1>1, <2>4 DEF Shared
    <3>2. Used(t) = {d}
      BY <3>1, Alone
    <3>3. defrt[d].left > wait /\ (ran => wait > 0) /\ t[d].left < Threshold
      BY <2>1, <2>4, <3>1 DEF InTime, Short
    <3>4. ran' = ran
      BY <2>1, <2>2, <3>3
    <3> QED
      BY <2>1, <3>2, <3>3, <3>4
  <2> QED
    BY <2>3, <2>4
<1> QED
  BY <1>1, <1>2, <1>3, <1>4 DEF InTime

(* The mark of the router whose lifetime is the least keeps the lifetimes. *)
LEMMA MarkedLeft ==
  ASSUME NEW t \in Table, NEW m \in Marked(t)
  PROVE  \A d \in Slot : m[d].left = t[d].left
<1>1. m = t \/ m = [t EXCEPT ![Least(t)].sending = TRUE]
  BY DEF Marked
<1> DEFINE x == Least(t)
<1> HIDE DEF x
<1>2. \A d \in Slot : [t EXCEPT ![x].sending = TRUE][d].left = t[d].left
  BY DEF Table, Entry
<1> QED
  BY <1>1, <1>2 DEF x

(* No router has less to live than the one that has the least.             *)
LEMMA LeastIsLeast ==
  ASSUME NEW t \in Table, Used(t) # {}
  PROVE  Least(t) \in Used(t) /\ \A d \in Used(t) : t[Least(t)].left <= t[d].left
<1> DEFINE L == {t[d].left : d \in Used(t)}
           S == {d \in Used(t) : \A e \in Used(t) : t[d].left <= t[e].left}
<1>1. L \subseteq Nat /\ L # {}
  BY DEF Table, Entry, Used
<1>2. \E n \in L : \A m \in L : n <= m
  <2> HIDE DEF L
  <2> QED
    BY <1>1, LeastExists
<1>3. S # {}
  BY <1>2
<1>4. S \subseteq Slot
  BY DEF Used
<1>5. First(S) \in S
  <2> HIDE DEF S
  <2> QED
    BY <1>3, <1>4, FirstAndFinal
<1> QED
  BY <1>5 DEF Least

(* Each pass.                                                              *)
LEMMA PassInTime ==
  ASSUME Timely, IInv, InTime, Pass
  PROVE  InTime'
<1>0. defrt \in Table
  BY DEF IInv, TypeOK, Table
<1>1. CASE PassBusy
  <2>1. Keeps(Expire(defrt)) /\ ran' = ran
    BY <1>1 DEF PassBusy
  <2> QED
    BY <1>0, <2>1, ReleaseTyped, KeepsInTime DEF Expire
<1>2. CASE PassEmpty
  <2>1. PICK o \in uip_ds6_send_rs(defrt, rscount) : Takes(o, o.table, TRUE)
    BY <1>2 DEF PassEmpty
  <2>2. o \in Outcome(defrt)
    BY <1>0, SendRsSound DEF IInv, TypeOK
  <2>3. Used(o.table) = Used(defrt)
    BY <2>2 DEF Outcome
  <2> QED
    BY <1>0, <2>1, <2>3, TakesInTime
<1>3. CASE PassRenew
  <2> DEFINE t == Expire(defrt)
  <2>1. t \in Table /\ Used(t) \subseteq Used(defrt) /\ \A d \in Used(t) : t[d] = defrt[d]
    BY <1>0, ReleaseTyped DEF Expire
  <2>2. PICK m \in Marked(t) :
          \E o \in uip_ds6_send_rs(m, rscount) : Takes(o, o.table, TRUE)
    BY <1>3 DEF PassRenew
  <2>3. PICK o \in uip_ds6_send_rs(m, rscount) : Takes(o, o.table, TRUE)
    BY <2>2
  <2> HIDE DEF t
  <2>4. m \in Table /\ Used(m) = Used(t) /\ \A d \in Slot : m[d].left = t[d].left
    BY <2>1, <2>2, MarkedTyped, MarkedLeft
  <2>5. \A d \in Used(m) : m[d].left = defrt[d].left
    BY <2>1, <2>4 DEF Used
  <2>6. Used(m) \subseteq Used(defrt)
    BY <2>1, <2>4
  <2>7. o \in Outcome(m)
    BY <2>4, SendRsSound DEF IInv, TypeOK
  <2>8. Used(o.table) = Used(m)
    BY <2>7 DEF Outcome
  <2> QED
    BY <2>3, <2>4, <2>5, <2>6, <2>8, TakesInTime
<1>4. CASE PassQuiet
  <2> DEFINE t == Expire(defrt)
  <2>1. t \in Table /\ Used(t) \subseteq Used(defrt) /\ \A d \in Used(t) : t[d] = defrt[d]
    BY <1>0, ReleaseTyped DEF Expire
  <2>2. Used(t) # {} /\ t[Least(t)].left >= Threshold /\ Keeps(t)
    BY <1>4 DEF PassQuiet, Timely
  <2> HIDE DEF t
  <2>3. \A d \in Used(t) : t[Least(t)].left <= t[d].left /\ t[d].left \in Nat
    BY <2>1, <2>2, LeastIsLeast DEF Table, Entry, Used
  <2>4. \A d \in Used(t) : t[d].left >= Threshold
    <3> TAKE d \in Used(t)
    <3> DEFINE a == t[Least(t)].left
               b == t[d].left
    <3>1. a <= b /\ b \in Nat /\ a >= Threshold
      BY <2>2, <2>3
    <3>2. a \in Nat
      BY <2>1, <2>2, LeastIsLeast DEF Table, Entry, Used
    <3> QED
      BY <3>1, <3>2, TimesAssumption
  <2> QED
    BY <2>1, <2>2, <2>4, KeepsInTime
<1>5. ASSUME NEW d \in Slot, PassGiveUp(d)
      PROVE  InTime'
  <2> DEFINE s == Release(defrt, {d})
  <2>1. s \in Table /\ Used(s) \subseteq Used(defrt) /\ \A e \in Used(s) : s[e] = defrt[e]
    BY <1>0, ReleaseTyped
  <2>2. PICK o \in uip_ds6_send_rs(s, rscount) : Takes(o, Expire(o.table), TRUE)
    BY <1>5 DEF PassGiveUp
  <2> HIDE DEF s
  <2>3. o \in Outcome(s)
    BY <2>1, SendRsSound DEF IInv, TypeOK
  <2>4. o.table \in Table /\ Used(o.table) = Used(s)
    BY <2>3 DEF Outcome
  <2>5. \A e \in Used(Expire(o.table)) :
          e \in Used(s) /\ Expire(o.table)[e] = o.table[e]
    BY <2>4, ReleaseTyped DEF Expire
  <2> QED
    BY <2>1, <2>2, <2>5, TakesInTime
<1> QED
  BY <1>1, <1>2, <1>3, <1>4, <1>5 DEF Pass

(* A router that withdraws, in an advertisement of either kind.            *)
LEMMA WithdrawalInTime ==
  ASSUME Timely, IInv, InTime, NEW r \in Router, RaWithdraws(r) \/ NaNotRouter(r)
  PROVE  InTime'
<1>0. defrt \in Table
  BY DEF IInv, TypeOK, Table
<1>1. CASE RaWithdraws(r)
  <2>1. PICK E : Keeps(Release(defrt, E \cup Lookup(defrt, r)))
    BY <1>1 DEF RaWithdraws
  <2>2. ran' = ran
    BY <1>1 DEF RaWithdraws
  <2> QED
    BY <1>0, <2>1, <2>2, ReleaseTyped, KeepsInTime
<1>2. CASE NaNotRouter(r)
  <2> DEFINE s == Release(defrt, Lookup(defrt, r))
  <2>1. s \in Table /\ Used(s) \subseteq Used(defrt) /\ \A e \in Used(s) : s[e] = defrt[e]
    BY <1>0, ReleaseTyped
  <2>2. PICK o \in uip_ds6_send_rs(s, rscount) : Takes(o, o.table, FALSE)
    BY <1>2 DEF NaNotRouter
  <2>3. Used(s) # Used(defrt)
    <3>1. Used(s) = Used(defrt) \ Lookup(defrt, r)
      BY <1>0, ReleaseTyped
    <3> QED
      BY <1>2, <3>1 DEF NaNotRouter, Lookup
  <2> HIDE DEF s
  <2>4. o \in Outcome(s)
    BY <2>1, SendRsSound DEF IInv, TypeOK
  <2>5. Used(o.table) = Used(s)
    BY <2>4 DEF Outcome
  <2> QED
    BY <2>1, <2>2, <2>3, <2>5, TakesInTime
<1> QED
  BY <1>1, <1>2

(* A router that is heard of has the whole of its lifetime left.           *)
LEMMA HeardLeft ==
  ASSUME NEW t \in Table, NEW r \in Router, NEW life \in Lifetimes, NEW h,
         h = Heard(t, r, life)
  PROVE  \A d \in Lookup(h, r) : h[d].left = life
<1> DEFINE D == Lookup(t, r)
           spare == Slot \ Used(t)
           Renewed(e) == [e EXCEPT !.left = life, !.sending = FALSE,
                                   !.count = IF e.sending THEN 0 ELSE @]
<1>1. CASE D # {}
  <2>1. h = [k \in Slot |-> IF k \in D THEN Renewed(t[k]) ELSE t[k]]
    BY <1>1 DEF Heard
  <2>2. \A e \in Entry : Renewed(e).left = life
    BY DEF Entry
  <2> HIDE DEF Renewed
  <2> QED
    BY <2>1, <2>2 DEF Table, Lookup, Used
<1>2. CASE D = {} /\ spare = {}
  BY <1>2 DEF Heard
<1>3. CASE D = {} /\ spare # {}
  <2> DEFINE x == Final(spare)
             new == [used |-> TRUE, ip |-> r, left |-> life, sending |-> FALSE, count |-> 0]
  <2>1. new.left = life
    OBVIOUS
  <2>2. h = [t EXCEPT ![x] = new]
    BY <1>3 DEF Heard
  <2> HIDE DEF x, new
  <2>3. \A d \in Slot : h[d] = IF d = x THEN new ELSE t[d]
    BY <2>2 DEF Table
  <2> QED
    BY <1>3, <2>1, <2>3 DEF Lookup, Used
<1> QED
  BY <1>1, <1>2, <1>3

(* An advertisement with a lifetime.                                       *)
LEMMA AdvertInTime ==
  ASSUME Timely, IInv, InTime, NEW r \in Router, NEW life \in Lifetimes, RaInput(r, life)
  PROVE  InTime'
<1>1. PICK E : defrt' = Heard(Release(defrt, E), r, life)
  BY DEF RaInput
<1> DEFINE t == Release(defrt, E)
<1>2. t \in Table /\ Used(t) \subseteq Used(defrt) /\ \A d \in Used(t) : t[d] = defrt[d]
  BY ReleaseTyped DEF IInv, TypeOK, Table
<1> HIDE DEF t
<1>3. /\ defrt' \in Table
      /\ \A d \in Used(defrt') \ Lookup(defrt', r) : d \in Used(t) /\ defrt'[d] = t[d]
      /\ \A d \in Lookup(defrt', r) : defrt'[d].left = life
  BY <1>1, <1>2, HeardTyped, HeardLeft DEF t
<1>4. \A d \in Used(defrt') \ Lookup(defrt', r) : d \in Used(defrt) /\ defrt'[d] = defrt[d]
  BY <1>2, <1>3
<1>5. /\ asked' = {d \in asked \ Lookup(defrt', r) : defrt'[d].used}
      /\ shared' = Shared(defrt') /\ wait' = wait /\ ran' = ran
  BY DEF RaInput
<1>6. asked' \cup shared' \subseteq Short(defrt')
  <2>1. shared' \subseteq Short(defrt')
    BY <1>5 DEF Shared
  <2>2. ASSUME NEW d \in asked'
        PROVE  d \in Short(defrt')
    <3>1. d \in Short(defrt) /\ d \in Used(defrt') \ Lookup(defrt', r)
      BY <1>5 DEF InTime, Used, Short
    <3> QED
      BY <1>4, <3>1 DEF Short
  <2> QED
    BY <2>1, <2>2
<1>7. ASSUME NEW d \in Used(defrt') \ (asked' \cup shared')
      PROVE  /\ defrt'[d].left > wait
             /\ defrt'[d].left < Threshold => Used(defrt') = {d} /\ (ran => wait > 0)
  <2>1. wait \in 0 .. MaxInterval /\ MaxInterval \in Nat /\ Threshold \in Nat /\ life \in Nat
    BY TimesAssumption DEF IInv, TypeOK
  <2>2. CASE d \in Lookup(defrt', r)
    <3>1. defrt'[d].left = life /\ life > MaxInterval /\ life >= Threshold
      BY <1>3, <2>2 DEF Timely
    <3> QED
      BY <2>1, <3>1
  <2>3. CASE d \notin Lookup(defrt', r)
    <3>1. d \in Used(defrt) /\ defrt'[d] = defrt[d] /\ d \notin asked
      BY <1>4, <1>5, <2>3 DEF Used
    <3>2. CASE d \notin Short(defrt')
      BY <3>1, <3>2 DEF InTime, Short
    <3>3. CASE d \in Short(defrt')
      <4>1. d \notin shared /\ ~(Cardinality(Used(defrt')) > 1)
        BY <1>5, <3>3 DEF Shared
      <4>2. Used(defrt') = {d}
        BY <4>1, Alone
      <4> QED
        BY <3>1, <3>3, <4>1, <4>2 DEF InTime, Short
    <3> QED
      BY <3>2, <3>3
  <2> QED
    BY <2>2, <2>3
<1> QED
  BY <1>5, <1>6, <1>7 DEF InTime

(* Time goes by.  The first unit in which a lifetime is short begins with  *)
(* more of it left than the timer runs.                                    *)
LEMMA TickInTime ==
  ASSUME Timely, IInv, InTime, Tick
  PROVE  InTime'
<1>1. \A d \in Slot : /\ defrt[d] \in Entry
                      /\ defrt'[d] = IF defrt[d].left = 0 THEN defrt[d]
                                    ELSE [defrt[d] EXCEPT !.left = @ - 1]
  BY DEF Tick, IInv, TypeOK
<1>2. \A e \in Entry : e.left # 0 =>
        /\ [e EXCEPT !.left = @ - 1].left = e.left - 1
        /\ [e EXCEPT !.left = @ - 1].used = e.used
  BY DEF Entry
<1>3. \A d \in Slot : /\ defrt[d].left \in Nat /\ defrt'[d].used = defrt[d].used
                      /\ defrt'[d].left = IF defrt[d].left = 0 THEN 0 ELSE defrt[d].left - 1
  BY <1>1, <1>2 DEF Entry
<1>4. Used(defrt') = Used(defrt)
  BY <1>3 DEF Used
<1>5. /\ ran /\ ran' = FALSE /\ wait' = IF wait = 0 THEN 0 ELSE wait - 1
      /\ asked' = asked /\ shared' = Shared(defrt')
  BY DEF Tick
<1>6. Short(defrt) \subseteq Short(defrt')
  BY <1>3, <1>4, TimesAssumption DEF Short, Used
<1>7. asked' \cup shared' \subseteq Short(defrt')
  BY <1>5, <1>6 DEF InTime, Shared
<1>8. Threshold > 1
  <2>1. \A w \in rs_rtx_time(0) : w < Threshold
    BY SizesAssumption DEF Timely
  <2>2. Interval \in rs_rtx_time(0)
    BY SizesAssumption DEF rs_rtx_time
  <2> QED
    BY <2>1, <2>2, TimesAssumption
<1>9. ASSUME NEW d \in Used(defrt') \ (asked' \cup shared')
      PROVE  /\ defrt'[d].left > wait'
             /\ defrt'[d].left < Threshold => Used(defrt') = {d}
  <2>1. d \in Slot /\ d \in Used(defrt) /\ d \notin asked
    BY <1>4, <1>5 DEF Used
  <2>2. wait \in Nat /\ Threshold \in Nat
    BY TimesAssumption DEF IInv, TypeOK
  <2>3. defrt'[d].left < Threshold => d \in Short(defrt') /\ ~(Cardinality(Used(defrt')) > 1)
                                      /\ d \notin shared
    BY <1>5 DEF Shared, Short
  <2>4. defrt'[d].left < Threshold => Used(defrt') = {d}
    BY <2>3, Alone
  <2>5. d \notin shared
    <3>1. d \in Short(defrt) => defrt'[d].left < Threshold
      BY <1>6 DEF Short
    <3> QED
      BY <2>3, <3>1 DEF InTime
  <2>6. defrt[d].left > wait /\ (defrt[d].left < Threshold => wait > 0)
    BY <1>5, <2>1, <2>5 DEF InTime
  <2>7. defrt'[d].left > wait'
    BY <1>3, <1>5, <1>8, <2>1, <2>2, <2>6
  <2> QED
    BY <2>4, <2>7
<1> QED
  BY <1>5, <1>7, <1>9 DEF InTime

(* No router reaches the end of its lifetime unasked, unless it had to     *)
(* share its last minute with another, for any routers, any size of the    *)
(* list and any intervals that leave time to ask.                          *)
THEOREM RenewsInTime ==
  ASSUME Timely
  PROVE  Spec => []NeverUnasked
<1>1. Init => InTime
  BY DEF Init, InTime, Used, Free
<1>2. IInv /\ InTime /\ [Next]_vars => InTime'
  <2> SUFFICES ASSUME IInv, InTime, [Next]_vars
               PROVE  InTime'
    OBVIOUS
  <2>1. CASE Pass
    BY <2>1, PassInTime
  <2>2. CASE Message
    BY <2>2, AdvertInTime, WithdrawalInTime DEF Message
  <2>3. CASE Tick
    BY <2>3, TickInTime
  <2>4. CASE UNCHANGED vars
    BY <2>4 DEF vars, codeVars, ghostVars, InTime, Used, Short
  <2> QED
    BY <2>1, <2>2, <2>3, <2>4 DEF Next
<1>3. IInv /\ InTime => NeverUnasked
  <2> SUFFICES ASSUME IInv, InTime, NEW d \in Expired(defrt)
               PROVE  d \in asked \cup shared
    BY DEF NeverUnasked
  <2>1. d \in Used(defrt) /\ defrt[d].left = 0 /\ wait \in Nat
    BY TimesAssumption DEF Expired, IInv, TypeOK
  <2> QED
    BY <2>1 DEF InTime
<1> QED
  BY <1>1, <1>2, <1>3, Invariance, PTL DEF Spec
-----------------------------------------------------------------------------
(* The packet path.                                                        *)

(* Induction over the numbers up to n, for what a set says of them.        *)
LEMMA UpTo ==
  ASSUME NEW n \in Nat, NEW S, 0 \in S, \A k \in 1 .. n : k - 1 \in S => k \in S
  PROVE  \A k \in 0 .. n : k \in S
<1> DEFINE T == {k \in 0 .. n : k \notin S}
<1>1. SUFFICES ASSUME T # {} PROVE FALSE
  OBVIOUS
<1>a. T \subseteq Nat
  OBVIOUS
<1>2. PICK k \in T : \A m \in T : k <= m
  <2> HIDE DEF T
  <2> QED
    BY <1>1, <1>a, LeastExists
<1>3. k \in 1 .. n /\ k - 1 \in 0 .. n /\ ~(k <= k - 1)
  BY <1>2
<1>4. k - 1 \in S
  BY <1>2, <1>3
<1> QED
  BY <1>2, <1>3, <1>4
-----------------------------------------------------------------------------
(* Folds.  FoldLeft() is a function of the sets of positions: the greatest *)
(* position is added last.  Such a function exists whenever a step keeps   *)
(* the results in a set.                                                   *)
LEMMA GreatestOf ==
  ASSUME NEW n \in Nat, NEW s \in SUBSET (1 .. n), n \in s
  PROVE  Max(s) = n
<1>1. \A y \in s : n >= y /\ y \in Nat
  OBVIOUS
<1>2. n \in s /\ \A y \in s : n >= y
  BY <1>1
<1>3. ASSUME NEW x \in s, \A y \in s : x >= y
      PROVE  x = n
  BY <1>1, <1>3
<1> QED
  BY <1>2, <1>3 DEF Max

(* A set of positions that is not empty has a greatest one, Max's.         *)
LEMMA GreatestIn ==
  ASSUME NEW n \in Nat, NEW s \in SUBSET (1 .. n), s # {}
  PROVE  Max(s) \in s
<1> DEFINE T == {m \in Nat : \A y \in s : m >= y}
<1>1. n \in T /\ T \subseteq Nat
  OBVIOUS
<1>2. PICK m \in T : \A k \in T : m <= k
  <2> HIDE DEF T
  <2> QED
    BY <1>1, LeastExists
<1>3. m \in s
  <2> SUFFICES ASSUME m \notin s PROVE FALSE
    OBVIOUS
  <2>1. PICK y \in s : y \in 1 .. n /\ m >= y
    BY <1>2
  <2>2. m - 1 \in Nat /\ \A z \in s : m - 1 >= z
    BY <1>2, <2>1
  <2> QED
    BY <1>2, <2>2
<1>4. m \in s /\ \A y \in s : m >= y
  BY <1>2, <1>3
<1> QED
  BY <1>4 DEF Max

Folds(it, g, base, seq, n) ==
  \A s \in SUBSET (1 .. n) :
    it[s] = IF s = {} THEN base ELSE g[it[s \ {Max(s)}], seq[Max(s)]]

(* A fold over n - 1 positions is extended to one over n.                  *)
LEMMA FoldsOneMore ==
  ASSUME NEW T, NEW E, NEW base \in T, NEW g \in [T \X E -> T], NEW seq \in Seq(E),
         NEW n \in 1 .. Len(seq),
         NEW c \in [SUBSET (1 .. n - 1) -> T], Folds(c, g, base, seq, n - 1)
  PROVE  \E d \in [SUBSET (1 .. n) -> T] : Folds(d, g, base, seq, n)
<1> DEFINE d == [s \in SUBSET (1 .. n) |-> IF n \in s THEN g[c[s \ {n}], seq[n]] ELSE c[s]]
<1>1. \A s \in SUBSET (1 .. n) : s \ {n} \in SUBSET (1 .. n - 1) /\ (n \notin s => s \in SUBSET (1 .. n - 1))
  OBVIOUS
<1>2. seq[n] \in E /\ n \in Nat
  OBVIOUS
<1>3. d \in [SUBSET (1 .. n) -> T]
  <2>1. ASSUME NEW s \in SUBSET (1 .. n)
        PROVE  (IF n \in s THEN g[c[s \ {n}], seq[n]] ELSE c[s]) \in T
    <3>1. CASE n \in s
      <4>1. c[s \ {n}] \in T
        BY <1>1
      <4> QED
        BY <1>2, <3>1, <4>1
    <3>2. CASE n \notin s
      BY <1>1, <3>2
    <3> QED
      BY <3>1, <3>2
  <2> QED
    BY <2>1
<1>4. ASSUME NEW s \in SUBSET (1 .. n - 1)
      PROVE  s \in SUBSET (1 .. n) /\ d[s] = c[s]
  <2>1. s \in SUBSET (1 .. n) /\ n \notin s
    BY <1>2
  <2> QED
    BY <2>1
<1>5. ASSUME NEW s \in SUBSET (1 .. n)
      PROVE  d[s] = IF s = {} THEN base ELSE g[d[s \ {Max(s)}], seq[Max(s)]]
  <2>1. CASE n \in s
    <3>1. Max(s) = n
      BY <1>2, <2>1, GreatestOf
    <3>2. d[s] = g[c[s \ {n}], seq[n]]
      BY <2>1
    <3>3. d[s \ {n}] = c[s \ {n}]
      BY <1>1, <1>4
    <3> HIDE DEF d
    <3> QED
      BY <2>1, <3>1, <3>2, <3>3
  <2>2. CASE n \notin s
    <3>1. s \in SUBSET (1 .. n - 1)
      BY <1>1, <2>2
    <3>2. d[s] = c[s]
      BY <1>4, <3>1
    <3>3. d[s \ {Max(s)}] = c[s \ {Max(s)}]
      BY <1>4, <3>1
    <3>4. c[s] = IF s = {} THEN base ELSE g[c[s \ {Max(s)}], seq[Max(s)]]
      BY <3>1 DEF Folds
    <3> HIDE DEF d
    <3> QED
      BY <3>2, <3>3, <3>4
  <2> QED
    BY <2>1, <2>2
<1>6. Folds(d, g, base, seq, n)
  <2> HIDE DEF d
  <2> QED
    BY <1>5 DEF Folds
<1> QED
  BY <1>3, <1>6

(* So a list of any length has a fold.                                     *)
LEMMA FoldExists ==
  ASSUME NEW T, NEW E, NEW base \in T, NEW g \in [T \X E -> T], NEW seq \in Seq(E)
  PROVE  \E it \in [SUBSET (1 .. Len(seq)) -> T] : Folds(it, g, base, seq, Len(seq))
<1> DEFINE S == {n \in 0 .. Len(seq) : \E it \in [SUBSET (1 .. n) -> T] : Folds(it, g, base, seq, n)}
<1>0. Len(seq) \in Nat /\ DOMAIN seq = 1 .. Len(seq)
  OBVIOUS
<1>1. 0 \in S
  <2> DEFINE it == [s \in SUBSET (1 .. 0) |-> base]
  <2>1. it \in [SUBSET (1 .. 0) -> T]
    OBVIOUS
  <2>2. \A s \in SUBSET (1 .. 0) : s = {} /\ it[s] = base
    OBVIOUS
  <2>3. Folds(it, g, base, seq, 0)
    <3> HIDE DEF it
    <3> QED
      BY <2>2 DEF Folds
  <2> QED
    BY <1>0, <2>1, <2>3
<1>2. \A n \in 1 .. Len(seq) : n - 1 \in S => n \in S
  <2> SUFFICES ASSUME NEW n \in 1 .. Len(seq), n - 1 \in S PROVE n \in S
    OBVIOUS
  <2>1. PICK c \in [SUBSET (1 .. n - 1) -> T] : Folds(c, g, base, seq, n - 1)
    OBVIOUS
  <2>2. \E d \in [SUBSET (1 .. n) -> T] : Folds(d, g, base, seq, n)
    BY <2>1, FoldsOneMore
  <2> QED
    BY <1>0, <2>2
<1> HIDE DEF S
<1>3. Len(seq) \in S
  <2>1. \A k \in 0 .. Len(seq) : k \in S
    BY <1>0, <1>1, <1>2, UpTo
  <2> QED
    BY <1>0, <2>1
<1> QED
  BY <1>3 DEF S

(* A row of partial results: it[1 .. k] for k from 0.                      *)
LEMMA PrefixSets ==
  ASSUME NEW k \in Nat \ {0}
  PROVE  Max(1 .. k) = k /\ (1 .. k) \ {k} = 1 .. k - 1 /\ 1 .. k # {}
<1>1. Max(1 .. k) = k
  <2>1. (1 .. k) \in SUBSET (1 .. k) /\ k \in 1 .. k
    OBVIOUS
  <2> QED
    BY <2>1, GreatestOf
<1>2. k \in 1 .. k /\ \A x : x \in (1 .. k) \ {k} <=> x \in 1 .. k - 1
  OBVIOUS
<1> QED
  BY <1>1, <1>2

(* The sum of a list of numbers, as FoldLeft() adds them.                  *)
SumFold(it, w, n) ==
  it = [t \in SUBSET (1 .. n) |-> IF t = {} THEN 0 ELSE it[t \ {Max(t)}] + w[Max(t)]]

(* A list of numbers has a sum.                                            *)
LEMMA SumFoldExists ==
  ASSUME NEW n \in Nat, NEW w \in [1 .. n -> Nat]
  PROVE  \E it : SumFold(it, w, n)
<1> DEFINE g == [x \in Nat \X Nat |-> x[1] + x[2]]
<1>0. w \in Seq(Nat) /\ DOMAIN w = 1 .. n /\ Len(w) = n
  OBVIOUS
<1>1. g \in [Nat \X Nat -> Nat] /\ 0 \in Nat
  OBVIOUS
<1>2. \A x \in Nat, y \in Nat : g[x, y] = x + y
  OBVIOUS
<1> HIDE DEF g
<1>a. \E it \in [SUBSET (1 .. Len(w)) -> Nat] : Folds(it, g, 0, w, Len(w))
  BY <1>0, <1>1, FoldExists
<1>3. PICK f \in [SUBSET (1 .. n) -> Nat] :
        \A t \in SUBSET (1 .. n) : f[t] = IF t = {} THEN 0 ELSE g[f[t \ {Max(t)}], w[Max(t)]]
  BY <1>0, <1>a DEF Folds
<1>4. ASSUME NEW t \in SUBSET (1 .. n), t # {}
      PROVE  f[t] = f[t \ {Max(t)}] + w[Max(t)]
  <2>1. Max(t) \in t /\ f[t \ {Max(t)}] \in Nat
    BY <1>0, <1>4, GreatestIn
  <2>2. w[Max(t)] \in Nat
    BY <2>1
  <2> QED
    BY <1>0, <1>2, <1>3, <1>4, <2>1, <2>2
<1>5. f = [t \in SUBSET (1 .. n) |-> IF t = {} THEN 0 ELSE f[t \ {Max(t)}] + w[Max(t)]]
  BY <1>0, <1>3, <1>4
<1> QED
  BY <1>5 DEF SumFold

(* The sums of the first k of them, for k from 0.                          *)
Sums(c, w, n) ==
  /\ c \in [0 .. n -> Nat]
  /\ c[0] = 0
  /\ \A k \in 1 .. n : c[k] = c[k - 1] + w[k]

(* The sum of a list is the last of the sums of its first k numbers.       *)
LEMMA SumsOfFold ==
  ASSUME NEW n \in Nat, NEW w \in [1 .. n -> Nat], NEW it, SumFold(it, w, n)
  PROVE  \E c : Sums(c, w, n) /\ it[1 .. n] = c[n]
<1> DEFINE c == [k \in 0 .. n |-> it[1 .. k]]
<1>3. it = [t \in SUBSET (1 .. n) |-> IF t = {} THEN 0 ELSE it[t \ {Max(t)}] + w[Max(t)]]
  BY DEF SumFold
<1>4. c[0] = 0
  <2>1. 1 .. 0 = {} /\ {} \in SUBSET (1 .. n)
    OBVIOUS
  <2>2. it[{}] = 0
    BY <1>3, <2>1
  <2> QED
    BY <2>1, <2>2
<1>5. ASSUME NEW k \in 1 .. n PROVE c[k] = c[k - 1] + w[k]
  <2>1. k \in Nat \ {0} /\ (1 .. k) \in SUBSET (1 .. n)
    OBVIOUS
  <2>2. Max(1 .. k) = k /\ (1 .. k) \ {k} = 1 .. k - 1 /\ 1 .. k # {}
    BY <2>1, PrefixSets
  <2>3. it[1 .. k] = it[(1 .. k) \ {Max(1 .. k)}] + w[Max(1 .. k)]
    BY <1>3, <2>1, <2>2, Zenon
  <2>4. it[1 .. k] = it[1 .. k - 1] + w[k]
    BY <2>2, <2>3, Zenon
  <2>5. c[k] = it[1 .. k] /\ c[k - 1] = it[1 .. k - 1]
    OBVIOUS
  <2> QED
    BY <2>4, <2>5, Zenon
<1>6. c \in [0 .. n -> Nat]
  <2> DEFINE N == {k \in 0 .. n : c[k] \in Nat}
  <2>1. 0 \in N
    BY <1>4
  <2> HIDE DEF c
  <2>2. \A k \in 1 .. n : k - 1 \in N => k \in N
    <3> SUFFICES ASSUME NEW k \in 1 .. n, k - 1 \in N PROVE k \in N
      OBVIOUS
    <3>1. w[k] \in Nat /\ c[k - 1] \in Nat
      OBVIOUS
    <3> QED
      BY <1>5, <3>1
  <2>3. \A k \in 0 .. n : k \in N
    <3> HIDE DEF N
    <3> QED
      BY <2>1, <2>2, UpTo
  <2>4. \A k \in 0 .. n : it[1 .. k] \in Nat
    BY <2>3 DEF c
  <2> QED
    BY <2>4 DEF c
<1>7. it[1 .. n] = c[n]
  OBVIOUS
<1> HIDE DEF c
<1> QED
  BY <1>4, <1>5, <1>6, <1>7 DEF Sums

(* Both.                                                                   *)
LEMMA SumOfFold ==
  ASSUME NEW n \in Nat, NEW w \in [1 .. n -> Nat]
  PROVE  \E c : Sums(c, w, n) /\ (CHOOSE it : SumFold(it, w, n))[1 .. n] = c[n]
<1>1. SumFold(CHOOSE it : SumFold(it, w, n), w, n)
  BY SumFoldExists
<1> QED
  BY <1>1, SumsOfFold

(* The numbers that are added decide their sums.                           *)
LEMMA SumsAgree ==
  ASSUME NEW n \in Nat, NEW m \in 0 .. n, NEW v, NEW w, NEW c, NEW d,
         Sums(c, v, m), Sums(d, w, n), \A k \in 1 .. m : v[k] = w[k]
  PROVE  \A k \in 0 .. m : c[k] = d[k]
<1> DEFINE N == {k \in 0 .. m : c[k] = d[k]}
<1>1. 0 \in N
  BY DEF Sums
<1>2. \A k \in 1 .. m : k - 1 \in N => k \in N
  BY DEF Sums
<1>3. \A k \in 0 .. m : k \in N
  <2> HIDE DEF N
  <2> QED
    BY <1>1, <1>2, UpTo
<1> QED
  BY <1>3

(* The bytes of a list of fields, the lengths of extension headers and the *)
(* sizes of options are such sums.                                         *)
LEMMA BytesSums ==
  ASSUME NEW S, \A x \in S : x.n \in Nat, NEW s \in Seq(S)
  PROVE  \E c : Sums(c, [k \in DOMAIN s |-> s[k].n], Len(s)) /\ Bytes(s) = c[Len(s)]
<1> DEFINE w == [k \in DOMAIN s |-> s[k].n]
<1>0. Len(s) \in Nat /\ DOMAIN s = 1 .. Len(s) /\ w \in [1 .. Len(s) -> Nat]
  OBVIOUS
<1>1. Bytes(s) = (CHOOSE it : it = [t \in SUBSET DOMAIN s |->
                    IF t = {} THEN 0 ELSE it[t \ {Max(t)}] + s[Max(t)].n])[DOMAIN s]
  BY DEF Bytes, FoldLeft, MapThenFoldSet
<1>2. ASSUME NEW it
      PROVE  (it = [t \in SUBSET DOMAIN s |->
                      IF t = {} THEN 0 ELSE it[t \ {Max(t)}] + s[Max(t)].n])
             <=> SumFold(it, w, Len(s))
  <2>1. \A t \in SUBSET DOMAIN s : t # {} => w[Max(t)] = s[Max(t)].n
    BY <1>0, GreatestIn
  <2> HIDE DEF w
  <2> QED
    BY <1>0, <2>1 DEF SumFold
<1>3. Bytes(s) = (CHOOSE it : SumFold(it, w, Len(s)))[DOMAIN s]
  <2> HIDE DEF w
  <2> QED
    BY <1>1, <1>2
<1> HIDE DEF w
<1>4. \E c : Sums(c, w, Len(s)) /\ Bytes(s) = c[Len(s)]
  BY <1>0, <1>3, SumOfFold
<1> QED
  BY <1>4 DEF w

(* The length of a chain of extension headers is the sum of theirs.        *)
LEMMA LengthSums ==
  ASSUME NEW s \in Seq(ExtHeader)
  PROVE  \E c : Sums(c, [k \in DOMAIN s |-> s[k].len], Len(s)) /\ Length(s) = c[Len(s)]
<1> DEFINE w == [k \in DOMAIN s |-> s[k].len]
<1>a. Len(s) \in Nat /\ DOMAIN s = 1 .. Len(s)
  OBVIOUS
<1>b. \A k \in DOMAIN s : s[k].len \in Nat
  <2>1. \A k \in DOMAIN s : s[k] \in ExtHeader
    BY <1>a
  <2> QED
    BY <2>1 DEF ExtHeader
<1>0. Len(s) \in Nat /\ DOMAIN s = 1 .. Len(s) /\ w \in [1 .. Len(s) -> Nat]
  BY <1>a, <1>b
<1>1. Length(s) = (CHOOSE it : it = [t \in SUBSET DOMAIN s |->
                    IF t = {} THEN 0 ELSE it[t \ {Max(t)}] + s[Max(t)].len])[DOMAIN s]
  BY DEF Length, FoldLeft, MapThenFoldSet
<1>2. ASSUME NEW it
      PROVE  (it = [t \in SUBSET DOMAIN s |->
                      IF t = {} THEN 0 ELSE it[t \ {Max(t)}] + s[Max(t)].len])
             <=> SumFold(it, w, Len(s))
  <2>1. \A t \in SUBSET DOMAIN s : t # {} => w[Max(t)] = s[Max(t)].len
    BY <1>0, GreatestIn
  <2> HIDE DEF w
  <2> QED
    BY <1>0, <2>1 DEF SumFold
<1>3. Length(s) = (CHOOSE it : SumFold(it, w, Len(s)))[DOMAIN s]
  <2> HIDE DEF w
  <2> QED
    BY <1>1, <1>2
<1> HIDE DEF w
<1>4. \E c : Sums(c, w, Len(s)) /\ Length(s) = c[Len(s)]
  BY <1>0, <1>3, SumOfFold
<1> QED
  BY <1>4 DEF w

(* The size of a list of options is the sum of theirs.                     *)
LEMMA SizesSums ==
  ASSUME NEW s \in Seq(TLV)
  PROVE  \E c : Sums(c, [k \in DOMAIN s |-> Size(s[k])], Len(s)) /\ Sizes(s) = c[Len(s)]
<1> DEFINE w == [k \in DOMAIN s |-> Size(s[k])]
<1>a. Len(s) \in Nat /\ DOMAIN s = 1 .. Len(s)
  OBVIOUS
<1>b. \A k \in DOMAIN s : Size(s[k]) \in Nat
  <2>1. \A k \in DOMAIN s : s[k] \in TLV
    BY <1>a
  <2> QED
    BY <2>1 DEF TLV, Size
<1>0. Len(s) \in Nat /\ DOMAIN s = 1 .. Len(s) /\ w \in [1 .. Len(s) -> Nat]
  BY <1>a, <1>b
<1>1. Sizes(s) = (CHOOSE it : it = [t \in SUBSET DOMAIN s |->
                    IF t = {} THEN 0 ELSE it[t \ {Max(t)}] + Size(s[Max(t)])])[DOMAIN s]
  BY DEF Sizes, FoldLeft, MapThenFoldSet
<1>2. ASSUME NEW it
      PROVE  (it = [t \in SUBSET DOMAIN s |->
                      IF t = {} THEN 0 ELSE it[t \ {Max(t)}] + Size(s[Max(t)])])
             <=> SumFold(it, w, Len(s))
  <2>1. \A t \in SUBSET DOMAIN s : t # {} => w[Max(t)] = Size(s[Max(t)])
    BY <1>0, GreatestIn
  <2> HIDE DEF w
  <2> QED
    BY <1>0, <2>1 DEF SumFold
<1>3. Sizes(s) = (CHOOSE it : SumFold(it, w, Len(s)))[DOMAIN s]
  <2> HIDE DEF w
  <2> QED
    BY <1>1, <1>2
<1> HIDE DEF w
<1>4. \E c : Sums(c, w, Len(s)) /\ Sizes(s) = c[Len(s)]
  BY <1>0, <1>3, SumOfFold
<1> QED
  BY <1>4 DEF w

(* The sum of the first k is that of the list cut there.                   *)
LEMMA LengthOfPrefix ==
  ASSUME NEW s \in Seq(ExtHeader), NEW c, Sums(c, [k \in DOMAIN s |-> s[k].len], Len(s)),
         NEW m \in 0 .. Len(s)
  PROVE  Length(SubSeq(s, 1, m)) = c[m]
<1> DEFINE r == SubSeq(s, 1, m)
           v == [k \in DOMAIN r |-> r[k].len]
           w == [k \in DOMAIN s |-> s[k].len]
<1>1. r \in Seq(ExtHeader) /\ Len(r) = m /\ DOMAIN r = 1 .. m /\ DOMAIN s = 1 .. Len(s)
      /\ Len(s) \in Nat
  BY SubSeqProperties
<1>2. \A k \in 1 .. m : r[k] = s[k]
  BY SubSeqProperties
<1>3. PICK d : Sums(d, v, m) /\ Length(r) = d[m]
  BY <1>1, LengthSums
<1>4. \A k \in 1 .. m : v[k] = w[k]
  BY <1>1, <1>2
<1>a. Sums(c, w, Len(s))
  OBVIOUS
<1> HIDE DEF r, v, w
<1>5. \A k \in 0 .. m : d[k] = c[k]
  BY <1>1, <1>3, <1>4, <1>a, SumsAgree
<1> QED
  BY <1>1, <1>3, <1>5 DEF r

(* The size of the first m options is the m-th of the sums.                *)
LEMMA SizesOfPrefix ==
  ASSUME NEW s \in Seq(TLV), NEW c, Sums(c, [k \in DOMAIN s |-> Size(s[k])], Len(s)),
         NEW m \in 0 .. Len(s)
  PROVE  Sizes(SubSeq(s, 1, m)) = c[m]
<1> DEFINE r == SubSeq(s, 1, m)
           v == [k \in DOMAIN r |-> Size(r[k])]
           w == [k \in DOMAIN s |-> Size(s[k])]
<1>1. r \in Seq(TLV) /\ Len(r) = m /\ DOMAIN r = 1 .. m /\ DOMAIN s = 1 .. Len(s)
      /\ Len(s) \in Nat
  BY SubSeqProperties
<1>2. \A k \in 1 .. m : r[k] = s[k]
  BY SubSeqProperties
<1>3. PICK d : Sums(d, v, m) /\ Sizes(r) = d[m]
  BY <1>1, SizesSums
<1>4. \A k \in 1 .. m : v[k] = w[k]
  BY <1>1, <1>2
<1>a. Sums(c, w, Len(s))
  OBVIOUS
<1> HIDE DEF r, v, w
<1>5. \A k \in 0 .. m : d[k] = c[k]
  BY <1>1, <1>3, <1>4, <1>a, SumsAgree
<1> QED
  BY <1>1, <1>3, <1>5 DEF r

-----------------------------------------------------------------------------
(* The options of an extension header, and the headers of a packet: the    *)
(* states the two loops of uip_process() go through, and what is between   *)
(* one and the next.                                                       *)
Fates == {GoesOn, Discarded}
         \cup {Problem(code, p) : code \in {"nextheader", "header", "option"}, p \in Nat}
OptionStates == [fate : Fates, offset : Nat]

(* Going on, a discarded packet and an answer are three things.            *)
LEMMA FatesDiffer ==
  /\ GoesOn # Discarded
  /\ \A code, p : Problem(code, p) # GoesOn /\ Problem(code, p) # Discarded
<1>1. GoesOn.is = "going" /\ Discarded.is = "discarded"
  BY DEF GoesOn, Discarded
<1>2. \A code, p : Problem(code, p).is = "problem"
  BY DEF Problem
<1> QED
  BY <1>1, <1>2

(* One option: the loop goes on past it, or ends with a discarded packet   *)
(* or an answer at it.                                                     *)
LEMMA OptionStep ==
  ASSUME NEW acc \in OptionStates, NEW o \in TLV, NEW at \in Nat, NEW mcast
  PROVE  LET next == Option(acc, o, at, mcast)
         IN  /\ next \in OptionStates
             /\ acc.fate # GoesOn => next = acc
             /\ acc.fate = GoesOn =>
                  \/ next.fate = GoesOn /\ next.offset = acc.offset + Size(o)
                  \/ next.fate = Discarded
                  \/ o.type \div 128 = 1 /\ next.fate = Problem("option", at + acc.offset)
<1> DEFINE act  == (o.type \div 64) % 4
           step == IF o.type = PAD1 THEN 1 ELSE o.len + 2
           next == Option(acc, o, at, mcast)
<1>1. acc.fate \in Fates /\ acc.offset \in Nat /\ acc = [fate |-> acc.fate, offset |-> acc.offset]
  BY DEF OptionStates
<1>2. o.type \in 0 .. 255 /\ o.len \in Nat
  BY DEF TLV
<1>3. step \in Nat /\ step = Size(o)
  BY <1>2 DEF Size
<1>4. act \in 0 .. 3 /\ (act \in {2, 3} => o.type \div 128 = 1)
  BY <1>2
<1>5. GoesOn \in Fates /\ Discarded \in Fates /\ Problem("option", at + acc.offset) \in Fates
  BY <1>1 DEF Fates
<1>6. CASE acc.fate # GoesOn
  <2>1. next = acc
    BY <1>6 DEF Option
  <2> QED
    BY <1>6, <2>1
<1>7. CASE acc.fate = GoesOn /\ (o.type \in {PAD1, PADN} \/ act = 0)
  <2>1. next = [acc EXCEPT !.offset = @ + step]
    BY <1>7, <1>1 DEF Option, PAD1, PADN
  <2> HIDE DEF next, step
  <2>2. next = [fate |-> GoesOn, offset |-> acc.offset + step]
    BY <1>1, <1>7, <2>1
  <2>3. acc.offset + step \in Nat
    BY <1>1, <1>3
  <2>4. next \in OptionStates /\ next.fate = GoesOn /\ next.offset = acc.offset + Size(o)
    BY <1>3, <1>5, <2>2, <2>3 DEF OptionStates
  <2> QED
    BY <1>7, <2>4 DEF next
<1>8. CASE acc.fate = GoesOn /\ ~(o.type \in {PAD1, PADN} \/ act = 0)
           /\ (act = 1 \/ (act = 3 /\ mcast))
  <2>1. next = [acc EXCEPT !.fate = Discarded]
    BY <1>8 DEF Option
  <2> HIDE DEF next
  <2>2. next = [fate |-> Discarded, offset |-> acc.offset]
    BY <1>1, <2>1
  <2>3. next \in OptionStates /\ next.fate = Discarded
    BY <1>1, <1>5, <2>2 DEF OptionStates
  <2> QED
    BY <1>8, <2>3 DEF next
<1>9. CASE acc.fate = GoesOn /\ ~(o.type \in {PAD1, PADN} \/ act = 0)
           /\ ~(act = 1 \/ (act = 3 /\ mcast))
  <2>1. next = [acc EXCEPT !.fate = Problem("option", at + acc.offset)]
    BY <1>9 DEF Option
  <2>a. o.type \div 128 = 1
    BY <1>4, <1>9
  <2> HIDE DEF next, act
  <2>2. next = [fate |-> Problem("option", at + acc.offset), offset |-> acc.offset]
    BY <1>1, <2>1
  <2>3. next \in OptionStates /\ next.fate = Problem("option", at + acc.offset)
    BY <1>1, <1>5, <2>2 DEF OptionStates
  <2> QED
    BY <1>9, <2>3, <2>a DEF next
<1> QED
  BY <1>6, <1>7, <1>8, <1>9

(* The loop over the options of a header as a row of its states.           *)
RunsOptions(c, e, at, mcast) ==
  /\ c[0] = [fate |-> GoesOn, offset |-> 2]
  /\ \A k \in 1 .. Len(e.opts) : c[k] = Option(c[k - 1], e.opts[k], at, mcast)
  /\ ext_hdr_options_process(e, at, mcast) = c[Len(e.opts)].fate

(* There is one, whatever the options.                                     *)
LEMMA OptionsRow ==
  ASSUME NEW e \in ExtHeader, NEW at \in Nat, NEW mcast
  PROVE  \E c \in [0 .. Len(e.opts) -> OptionStates] : RunsOptions(c, e, at, mcast)
<1> DEFINE s  == e.opts
           b  == [fate |-> GoesOn, offset |-> 2]
           g  == [x \in OptionStates \X TLV |-> Option(x[1], x[2], at, mcast)]
           it == CHOOSE it : it = [t \in SUBSET DOMAIN s |->
                   IF t = {} THEN b ELSE Option(it[t \ {Max(t)}], s[Max(t)], at, mcast)]
<1>0. s \in Seq(TLV) /\ Len(s) \in Nat /\ DOMAIN s = 1 .. Len(s)
  BY DEF ExtHeader
<1>a. b \in OptionStates
  BY DEF OptionStates, Fates
<1>b. \A x \in OptionStates, o \in TLV : Option(x, o, at, mcast) \in OptionStates
  BY OptionStep
<1>c. g \in [OptionStates \X TLV -> OptionStates] /\ \A x \in OptionStates, o \in TLV : g[x, o] = Option(x, o, at, mcast)
  BY <1>b
<1>1. ext_hdr_options_process(e, at, mcast) = it[DOMAIN s].fate
  BY DEF ext_hdr_options_process, FoldLeft, MapThenFoldSet
<1> HIDE DEF g, b, s
<1>2. \E f : f = [t \in SUBSET DOMAIN s |->
                   IF t = {} THEN b ELSE Option(f[t \ {Max(t)}], s[Max(t)], at, mcast)]
  <2>1. \E f \in [SUBSET (1 .. Len(s)) -> OptionStates] : Folds(f, g, b, s, Len(s))
    BY <1>0, <1>a, <1>c, FoldExists
  <2>2. PICK f \in [SUBSET DOMAIN s -> OptionStates] :
          \A t \in SUBSET DOMAIN s : f[t] = IF t = {} THEN b ELSE g[f[t \ {Max(t)}], s[Max(t)]]
    BY <1>0, <2>1 DEF Folds
  <2>3. ASSUME NEW t \in SUBSET DOMAIN s, t # {}
        PROVE  f[t] = Option(f[t \ {Max(t)}], s[Max(t)], at, mcast)
    <3>1. Max(t) \in t
      BY <1>0, <2>3, GreatestIn
    <3>2. f[t \ {Max(t)}] \in OptionStates /\ s[Max(t)] \in TLV
      BY <1>0, <2>3, <3>1
    <3>3. f[t] = g[f[t \ {Max(t)}], s[Max(t)]]
      BY <2>2, <2>3
    <3> QED
      BY <1>c, <3>2, <3>3
  <2>4. \A t \in SUBSET DOMAIN s :
          f[t] = IF t = {} THEN b ELSE Option(f[t \ {Max(t)}], s[Max(t)], at, mcast)
    BY <2>2, <2>3, Zenon
  <2>5. f = [t \in SUBSET DOMAIN s |->
               IF t = {} THEN b ELSE Option(f[t \ {Max(t)}], s[Max(t)], at, mcast)]
    BY <2>4
  <2> QED
    BY <2>5, Zenon
<1>3. it = [t \in SUBSET DOMAIN s |->
              IF t = {} THEN b ELSE Option(it[t \ {Max(t)}], s[Max(t)], at, mcast)]
  BY <1>2, Zenon
<1> HIDE DEF it
<1>d. \A t \in SUBSET DOMAIN s :
        it[t] = IF t = {} THEN b ELSE Option(it[t \ {Max(t)}], s[Max(t)], at, mcast)
  BY <1>3, Zenon
<1> DEFINE c == [k \in 0 .. Len(s) |-> it[1 .. k]]
<1>4. c[0] = b
  <2>1. 1 .. 0 = {} /\ {} \in SUBSET DOMAIN s
    OBVIOUS
  <2>2. it[{}] = b
    BY <1>d, <2>1, Zenon
  <2>3. c[0] = it[1 .. 0]
    BY <1>0
  <2> QED
    BY <2>1, <2>2, <2>3, Zenon
<1>5. ASSUME NEW k \in 1 .. Len(s) PROVE c[k] = Option(c[k - 1], s[k], at, mcast)
  <2>1. k \in Nat \ {0} /\ (1 .. k) \in SUBSET DOMAIN s
    BY <1>0
  <2>2. Max(1 .. k) = k /\ (1 .. k) \ {k} = 1 .. k - 1 /\ 1 .. k # {}
    BY <2>1, PrefixSets
  <2>3. it[1 .. k] = Option(it[(1 .. k) \ {Max(1 .. k)}], s[Max(1 .. k)], at, mcast)
    BY <1>d, <2>1, <2>2, Zenon
  <2>4. it[1 .. k] = Option(it[1 .. k - 1], s[k], at, mcast)
    BY <2>2, <2>3, Zenon
  <2>5. c[k] = it[1 .. k] /\ c[k - 1] = it[1 .. k - 1]
    BY <1>0
  <2> QED
    BY <2>4, <2>5, Zenon
<1>6. c \in [0 .. Len(s) -> OptionStates]
  <2> DEFINE N == {k \in 0 .. Len(s) : c[k] \in OptionStates}
  <2>1. 0 \in N
    BY <1>0, <1>4, <1>a
  <2> HIDE DEF c
  <2>2. \A k \in 1 .. Len(s) : k - 1 \in N => k \in N
    <3> SUFFICES ASSUME NEW k \in 1 .. Len(s), k - 1 \in N PROVE k \in N
      OBVIOUS
    <3>1. c[k - 1] \in OptionStates /\ s[k] \in TLV /\ k \in 0 .. Len(s)
      BY <1>0
    <3> QED
      BY <1>5, <1>b, <3>1
  <2>3. \A k \in 0 .. Len(s) : k \in N
    <3> HIDE DEF N
    <3> QED
      BY <1>0, <2>1, <2>2, UpTo
  <2>4. \A k \in 0 .. Len(s) : it[1 .. k] \in OptionStates
    BY <2>3 DEF c
  <2> QED
    BY <2>4 DEF c
<1>7. c[Len(s)] = it[DOMAIN s]
  BY <1>0
<1> HIDE DEF c
<1>8. ext_hdr_options_process(e, at, mcast) = c[Len(s)].fate
  BY <1>1, <1>7, Zenon
<1>9. RunsOptions(c, e, at, mcast)
  BY <1>4, <1>5, <1>8, Zenon DEF s, b, RunsOptions
<1> QED
  BY <1>6, <1>9, Zenon DEF s

(* An answer that the options of a header ask for points at one of them.   *)
AsksAt(e, at, r) ==
  \E j \in DOMAIN e.opts :
    /\ e.opts[j].type \div 128 = 1
    /\ r = Problem("option", at + 2 + Sizes(SubSeq(e.opts, 1, j - 1)))

(* The answer to an option is at an option that asks for one.              *)
LEMMA OptionLocated ==
  ASSUME NEW e \in ExtHeader, NEW at \in Nat, NEW mcast
  PROVE  LET r == ext_hdr_options_process(e, at, mcast)
         IN  r \in Fates /\ (r \in {GoesOn, Discarded} \/ AsksAt(e, at, r))
<1> DEFINE s == e.opts
           n == Len(s)
           w == [k \in DOMAIN s |-> Size(s[k])]
<1>1. s \in Seq(TLV) /\ n \in Nat /\ DOMAIN s = 1 .. n
  BY DEF ExtHeader
<1>r. PICK c \in [0 .. n -> OptionStates] : RunsOptions(c, e, at, mcast)
  BY OptionsRow, Zenon
<1>2. /\ c[0] = [fate |-> GoesOn, offset |-> 2]
      /\ \A k \in 1 .. n : c[k] = Option(c[k - 1], s[k], at, mcast)
      /\ ext_hdr_options_process(e, at, mcast) = c[n].fate
  BY <1>r, Zenon DEF RunsOptions
<1>3. PICK d : Sums(d, w, n)
  BY <1>1, SizesSums
<1>4. \A k \in 1 .. n : Sizes(SubSeq(s, 1, k - 1)) = d[k - 1]
  <2> SUFFICES ASSUME NEW k \in 1 .. n PROVE Sizes(SubSeq(s, 1, k - 1)) = d[k - 1]
    OBVIOUS
  <2>1. k - 1 \in 0 .. n
    BY <1>1
  <2> HIDE DEF s
  <2> QED
    BY <1>1, <1>3, <2>1, SizesOfPrefix
<1>5. \A k \in 1 .. n : d[k] = d[k - 1] + Size(s[k]) /\ d[k - 1] \in Nat
  <2> SUFFICES ASSUME NEW k \in 1 .. n PROVE d[k] = d[k - 1] + Size(s[k]) /\ d[k - 1] \in Nat
    OBVIOUS
  <2>1. w[k] = Size(s[k]) /\ k - 1 \in 0 .. n
    BY <1>1
  <2> HIDE DEF w, s
  <2> QED
    BY <1>3, <2>1 DEF Sums
<1> DEFINE N == {k \in 0 .. n : \/ c[k].fate = GoesOn /\ c[k].offset = 2 + d[k]
                                \/ c[k].fate = Discarded
                                \/ AsksAt(e, at, c[k].fate)}
<1>6. 0 \in N
  <2>1. d[0] = 0
    BY <1>3 DEF Sums
  <2>2. c[0].fate = GoesOn /\ c[0].offset = 2 /\ 0 \in 0 .. n
    BY <1>1, <1>2
  <2> QED
    BY <2>1, <2>2
<1>7. \A k \in 1 .. n : k - 1 \in N => k \in N
  <2> SUFFICES ASSUME NEW k \in 1 .. n, k - 1 \in N PROVE k \in N
    OBVIOUS
  <2> DEFINE next == Option(c[k - 1], s[k], at, mcast)
  <2>1. c[k] = next /\ c[k - 1] \in OptionStates /\ s[k] \in TLV /\ k \in DOMAIN e.opts
    BY <1>1, <1>2
  <2>2. /\ c[k - 1].fate # GoesOn => next = c[k - 1]
        /\ c[k - 1].fate = GoesOn =>
             \/ next.fate = GoesOn /\ next.offset = c[k - 1].offset + Size(s[k])
             \/ next.fate = Discarded
             \/ s[k].type \div 128 = 1 /\ next.fate = Problem("option", at + c[k - 1].offset)
    BY <2>1, OptionStep
  <2>a. Size(s[k]) \in Nat
    BY <2>1 DEF Size, TLV
  <2> HIDE DEF next
  <2>3. CASE c[k - 1].fate # GoesOn
    BY <2>1, <2>2, <2>3
  <2>4. CASE c[k - 1].fate = GoesOn /\ next.fate = GoesOn
    <3>1. c[k - 1].offset = 2 + d[k - 1]
      BY <2>4, FatesDiffer DEF AsksAt
    <3>2. next.offset = c[k - 1].offset + Size(s[k])
      BY <2>2, <2>4, FatesDiffer
    <3> QED
      BY <1>5, <2>1, <2>a, <2>4, <3>1, <3>2, SMTT(60)
  <2>5. CASE c[k - 1].fate = GoesOn /\ next.fate # GoesOn
    <3>1. c[k - 1].offset = 2 + d[k - 1]
      BY <2>5, FatesDiffer DEF AsksAt
    <3>2. \/ next.fate = Discarded
          \/ s[k].type \div 128 = 1 /\ next.fate = Problem("option", at + c[k - 1].offset)
      BY <2>2, <2>5
    <3>a. d[k - 1] \in Nat /\ Sizes(SubSeq(s, 1, k - 1)) = d[k - 1]
      BY <1>4, <1>5
    <3>3. at + c[k - 1].offset = at + 2 + Sizes(SubSeq(s, 1, k - 1))
      <4> HIDE DEF s
      <4> QED
        BY <3>1, <3>a, SMTT(30)
    <3>4. next.fate = Discarded \/ AsksAt(e, at, next.fate)
      BY <2>1, <3>2, <3>3 DEF AsksAt
    <3> QED
      BY <2>1, <3>4
  <2> QED
    BY <2>3, <2>4, <2>5
<1>8. n \in N
  <2>1. \A k \in 0 .. n : k \in N
    <3> HIDE DEF N
    <3> QED
      BY <1>1, <1>6, <1>7, UpTo
  <2> QED
    BY <1>1, <2>1
<1>9. c[n].fate \in Fates
  BY <1>1, <1>2 DEF OptionStates
<1> QED
  BY <1>2, <1>8, <1>9

HeaderStates == [fate : Fates, hbho : Nat, desto : Nat, routing : Nat, ext_len : Nat, next_hdr : Nat]

(* Skip() moves past one header and changes nothing else.                  *)
LEMMA SkipStep ==
  ASSUME NEW acc \in HeaderStates, NEW e \in ExtHeader
  PROVE  Skip(acc, e) = [fate |-> acc.fate, hbho |-> acc.hbho, desto |-> acc.desto,
                         routing |-> acc.routing, ext_len |-> acc.ext_len + e.len,
                         next_hdr |-> UIP_IPH_LEN + acc.ext_len]
<1> DEFINE State(fate, len, hdr) ==
             [fate |-> fate, hbho |-> acc.hbho, desto |-> acc.desto, routing |-> acc.routing,
              ext_len |-> len, next_hdr |-> hdr]
<1>1. acc = State(acc.fate, acc.ext_len, acc.next_hdr)
  BY DEF HeaderStates
<1>2. [acc EXCEPT !.next_hdr = UIP_IPH_LEN + acc.ext_len]
        = State(acc.fate, acc.ext_len, UIP_IPH_LEN + acc.ext_len)
  BY <1>1
<1> DEFINE next == Skip(acc, e)
<1>3. next = [acc EXCEPT !.next_hdr = UIP_IPH_LEN + acc.ext_len, !.ext_len = @ + e.len]
  BY DEF Skip
<1> HIDE DEF next
<1>4. next = State(acc.fate, acc.ext_len + e.len, UIP_IPH_LEN + acc.ext_len)
  BY <1>1, <1>3
<1> QED
  BY <1>4 DEF next

(* A step of the loop over the headers, kind by kind.                      *)
Onwards(acc, e, next) ==
  /\ next.fate = GoesOn
  /\ next.ext_len = acc.ext_len + e.len
  /\ next.next_hdr = UIP_IPH_LEN + acc.ext_len
  /\ acc[e.kind] # MostOf[e.kind]
  /\ next.hbho = IF e.kind = "hbho" THEN acc.hbho + 1 ELSE acc.hbho
  /\ next.desto = IF e.kind = "desto" THEN acc.desto + 1 ELSE acc.desto
  /\ next.routing = IF e.kind = "routing" THEN 1 ELSE acc.routing

Stops(acc, e, next) ==
  \/ next.fate = Discarded
  \/ acc[e.kind] = MostOf[e.kind] /\ next.fate = Problem("nextheader", acc.next_hdr)
  \/ e.kind = "routing" /\ e.seg > 0
     /\ next.fate = Problem("header", UIP_IPH_LEN + acc.ext_len + 2)
  \/ AsksAt(e, UIP_IPH_LEN + acc.ext_len, next.fate)

(* One header: the loop is over already, moves past the header, or ends at *)
(* it.                                                                     *)
LEMMA HeaderStep ==
  ASSUME NEW acc \in HeaderStates, NEW e \in ExtHeader, NEW mcast
  PROVE  LET next == Header(acc, e, mcast)
         IN  /\ next \in HeaderStates
             /\ acc.fate # GoesOn => next = acc
             /\ acc.fate = GoesOn => Onwards(acc, e, next) \/ Stops(acc, e, next)
<1> DEFINE next    == Header(acc, e, mcast)
           at      == UIP_IPH_LEN + acc.ext_len
           options == ext_hdr_options_process(e, at, mcast)
           h       == acc.hbho
           d       == acc.desto
           r       == acc.routing
           State(fate, h2, d2, r2, len, hdr) ==
             [fate |-> fate, hbho |-> h2, desto |-> d2, routing |-> r2, ext_len |-> len,
              next_hdr |-> hdr]
<1>1. /\ acc.fate \in Fates /\ h \in Nat /\ d \in Nat /\ r \in Nat
      /\ acc.ext_len \in Nat /\ acc.next_hdr \in Nat
      /\ acc = State(acc.fate, h, d, r, acc.ext_len, acc.next_hdr)
  BY DEF HeaderStates
<1>2. e.kind \in {"hbho", "desto", "routing"} /\ e.len \in Nat /\ e.seg \in Nat
  BY DEF ExtHeader
<1>3. at \in Nat /\ GoesOn \in Fates /\ Discarded \in Fates
      /\ \A p \in Nat : Problem("nextheader", p) \in Fates /\ Problem("header", p) \in Fates
  BY <1>1 DEF Fates, UIP_IPH_LEN
<1>4. options \in Fates /\ (options \in {GoesOn, Discarded} \/ AsksAt(e, at, options))
  BY <1>3, OptionLocated
<1>5. CASE acc.fate # GoesOn
  <2>1. next = acc
    BY <1>5 DEF Header
  <2> QED
    BY <1>5, <2>1
<1>6. CASE acc.fate = GoesOn /\ acc[e.kind] = MostOf[e.kind]
  <2>1. next = bad_hdr(acc)
    <3> HIDE DEF options
    <3> QED
      BY <1>1, <1>2, <1>6 DEF Header, options, MostOf, bad_hdr, HeaderStates
  <2> HIDE DEF next
  <2>2. next = State(Problem("nextheader", acc.next_hdr), h, d, r, acc.ext_len, acc.next_hdr)
    BY <1>1, <2>1 DEF bad_hdr
  <2>3. next \in HeaderStates /\ next.fate = Problem("nextheader", acc.next_hdr)
    BY <1>1, <1>3, <2>2 DEF HeaderStates
  <2>4. Stops(acc, e, next)
    BY <1>6, <2>3 DEF Stops
  <2> QED
    BY <1>6, <2>3, <2>4 DEF next
<1>7. CASE acc.fate = GoesOn /\ acc[e.kind] # MostOf[e.kind] /\ e.kind \in {"hbho", "desto"}
  <2> DEFINE a == [acc EXCEPT ![e.kind] = @ + 1]
             h2 == IF e.kind = "hbho" THEN h + 1 ELSE h
             d2 == IF e.kind = "desto" THEN d + 1 ELSE d
  <2>1. next = IF options = GoesOn THEN Skip(a, e) ELSE [a EXCEPT !.fate = options]
    <3> HIDE DEF a, options
    <3> QED
      BY <1>7 DEF Header, a, options
  <2>2. a = State(GoesOn, h2, d2, r, acc.ext_len, acc.next_hdr)
    <3>1. CASE e.kind = "hbho"
      <4>1. a = [acc EXCEPT !["hbho"] = @ + 1]
        BY <3>1, Zenon
      <4> HIDE DEF a
      <4> QED
        BY <1>1, <1>7, <3>1, <4>1
    <3>2. CASE e.kind = "desto"
      <4>1. a = [acc EXCEPT !["desto"] = @ + 1]
        BY <3>2, Zenon
      <4> HIDE DEF a
      <4> QED
        BY <1>1, <1>7, <3>2, <4>1
    <3> QED
      BY <1>7, <3>1, <3>2
  <2>3. a \in HeaderStates
    <3> HIDE DEF a
    <3> QED
      BY <1>1, <1>3, <2>2 DEF HeaderStates
  <2>4. CASE options = GoesOn
    <3>1. next = Skip(a, e)
      <4> HIDE DEF next, options, a
      <4> QED
        BY <2>1, <2>4
    <3> HIDE DEF next, a, at
    <3>2. next = State(GoesOn, h2, d2, r, acc.ext_len + e.len, UIP_IPH_LEN + acc.ext_len)
      BY <2>2, <2>3, <3>1, SkipStep
    <3>3. next \in HeaderStates
      BY <1>1, <1>2, <1>3, <3>2 DEF HeaderStates, UIP_IPH_LEN
    <3>4. Onwards(acc, e, next)
      BY <1>7, <3>2 DEF Onwards
    <3> QED
      BY <1>7, <3>3, <3>4 DEF next
  <2>5. CASE options # GoesOn
    <3>1. next = [a EXCEPT !.fate = options]
      <4> HIDE DEF next, options, a
      <4> QED
        BY <2>1, <2>5
    <3> HIDE DEF next, a, at, options
    <3>2. next = State(options, h2, d2, r, acc.ext_len, acc.next_hdr)
      BY <2>2, <3>1
    <3>3. next \in HeaderStates /\ next.fate = options
      BY <1>1, <1>2, <1>4, <3>2 DEF HeaderStates
    <3>4. Stops(acc, e, next)
      BY <1>4, <2>5, <3>3 DEF Stops, at
    <3> QED
      BY <1>7, <3>3, <3>4 DEF next
  <2> QED
    BY <2>4, <2>5
<1>8. CASE acc.fate = GoesOn /\ acc.routing = 0 /\ e.kind = "routing" /\ e.seg > 0
  <2>1. next = [acc EXCEPT !.routing = 1, !.fate = Problem("header", at + 2)]
    BY <1>8 DEF Header, MostOf
  <2> HIDE DEF next, at
  <2>2. next = State(Problem("header", at + 2), h, d, 1, acc.ext_len, acc.next_hdr)
    BY <1>1, <2>1
  <2>3. next \in HeaderStates /\ next.fate = Problem("header", at + 2)
    BY <1>1, <1>3, <2>2 DEF HeaderStates
  <2>4. Stops(acc, e, next)
    BY <1>8, <2>3 DEF Stops, at
  <2> QED
    BY <1>8, <2>3, <2>4 DEF next
<1>9. CASE acc.fate = GoesOn /\ acc[e.kind] # MostOf[e.kind] /\ e.kind = "routing"
           /\ ~(acc.routing = 0 /\ e.seg > 0)
  <2> DEFINE a == [acc EXCEPT !.routing = 1]
  <2>1. next = Skip(a, e)
    BY <1>9 DEF Header
  <2>2. a = State(GoesOn, h, d, 1, acc.ext_len, acc.next_hdr)
    BY <1>1, <1>9
  <2> HIDE DEF next, a
  <2>3. a \in HeaderStates
    BY <1>1, <1>3, <2>2 DEF HeaderStates
  <2>4. next = State(GoesOn, h, d, 1, acc.ext_len + e.len, UIP_IPH_LEN + acc.ext_len)
    BY <2>1, <2>2, <2>3, SkipStep
  <2>5. next \in HeaderStates
    BY <1>1, <1>2, <1>3, <2>4 DEF HeaderStates, UIP_IPH_LEN
  <2>6. Onwards(acc, e, next)
    BY <1>9, <2>4 DEF Onwards
  <2> QED
    BY <1>9, <2>5, <2>6 DEF next
<1>10. MostOf[e.kind] = 1 \/ e.kind # "routing"
  BY DEF MostOf
<1> HIDE DEF next
<1> QED
  BY <1>2, <1>5, <1>6, <1>7, <1>8, <1>9

(* What the loop leaves, its last state being acc.                         *)
Ended(acc, upper) ==
  CASE acc.fate # GoesOn \/ upper \in {"udp", "icmp6"}      -> acc
    [] acc.fate = GoesOn /\ upper \in {"frag", "none"}      -> [acc EXCEPT !.fate = Discarded]
    [] OTHER                                                -> bad_hdr(acc)

(* The loop over the headers of a packet as a row of its states.           *)
LEMMA HeadersRow ==
  ASSUME NEW exts \in Seq(ExtHeader), NEW upper, NEW mcast
  PROVE  \E c \in [0 .. Len(exts) -> HeaderStates] :
           /\ c[0] = Start
           /\ \A k \in 1 .. Len(exts) : c[k] = Header(c[k - 1], exts[k], mcast)
           /\ ExtensionHeaders(exts, upper, mcast) = Ended(c[Len(exts)], upper)
<1> DEFINE s  == exts
           b  == Start
           g  == [x \in HeaderStates \X ExtHeader |-> Header(x[1], x[2], mcast)]
           it == CHOOSE it : it = [t \in SUBSET DOMAIN s |->
                   IF t = {} THEN b ELSE Header(it[t \ {Max(t)}], s[Max(t)], mcast)]
<1>0. s \in Seq(ExtHeader) /\ Len(s) \in Nat /\ DOMAIN s = 1 .. Len(s)
  OBVIOUS
<1>a. b \in HeaderStates
  BY DEF HeaderStates, Fates, Start, NextHdrAt
<1>b. \A x \in HeaderStates, o \in ExtHeader : Header(x, o, mcast) \in HeaderStates
  BY HeaderStep
<1>c. g \in [HeaderStates \X ExtHeader -> HeaderStates] /\ \A x \in HeaderStates, o \in ExtHeader : g[x, o] = Header(x, o, mcast)
  BY <1>b
<1>1. ExtensionHeaders(exts, upper, mcast) = Ended(it[DOMAIN s], upper)
  BY DEF ExtensionHeaders, Ended, FoldLeft, MapThenFoldSet
<1> HIDE DEF g, b, s
<1>2. \E f : f = [t \in SUBSET DOMAIN s |->
                   IF t = {} THEN b ELSE Header(f[t \ {Max(t)}], s[Max(t)], mcast)]
  <2>1. \E f \in [SUBSET (1 .. Len(s)) -> HeaderStates] : Folds(f, g, b, s, Len(s))
    BY <1>0, <1>a, <1>c, FoldExists
  <2>2. PICK f \in [SUBSET DOMAIN s -> HeaderStates] :
          \A t \in SUBSET DOMAIN s : f[t] = IF t = {} THEN b ELSE g[f[t \ {Max(t)}], s[Max(t)]]
    BY <1>0, <2>1 DEF Folds
  <2>3. ASSUME NEW t \in SUBSET DOMAIN s, t # {}
        PROVE  f[t] = Header(f[t \ {Max(t)}], s[Max(t)], mcast)
    <3>1. Max(t) \in t
      BY <1>0, <2>3, GreatestIn
    <3>2. f[t \ {Max(t)}] \in HeaderStates /\ s[Max(t)] \in ExtHeader
      BY <1>0, <2>3, <3>1
    <3>3. f[t] = g[f[t \ {Max(t)}], s[Max(t)]]
      BY <2>2, <2>3
    <3> QED
      BY <1>c, <3>2, <3>3
  <2>4. \A t \in SUBSET DOMAIN s :
          f[t] = IF t = {} THEN b ELSE Header(f[t \ {Max(t)}], s[Max(t)], mcast)
    BY <2>2, <2>3, Zenon
  <2>5. f = [t \in SUBSET DOMAIN s |->
               IF t = {} THEN b ELSE Header(f[t \ {Max(t)}], s[Max(t)], mcast)]
    BY <2>4
  <2> QED
    BY <2>5, Zenon
<1>3. it = [t \in SUBSET DOMAIN s |->
              IF t = {} THEN b ELSE Header(it[t \ {Max(t)}], s[Max(t)], mcast)]
  BY <1>2, Zenon
<1> HIDE DEF it
<1>d. \A t \in SUBSET DOMAIN s :
        it[t] = IF t = {} THEN b ELSE Header(it[t \ {Max(t)}], s[Max(t)], mcast)
  BY <1>3, Zenon
<1> DEFINE c == [k \in 0 .. Len(s) |-> it[1 .. k]]
<1>4. c[0] = b
  <2>1. 1 .. 0 = {} /\ {} \in SUBSET DOMAIN s
    OBVIOUS
  <2>2. it[{}] = b
    BY <1>d, <2>1, Zenon
  <2>3. c[0] = it[1 .. 0]
    BY <1>0
  <2> QED
    BY <2>1, <2>2, <2>3, Zenon
<1>5. ASSUME NEW k \in 1 .. Len(s) PROVE c[k] = Header(c[k - 1], s[k], mcast)
  <2>1. k \in Nat \ {0} /\ (1 .. k) \in SUBSET DOMAIN s
    BY <1>0
  <2>2. Max(1 .. k) = k /\ (1 .. k) \ {k} = 1 .. k - 1 /\ 1 .. k # {}
    BY <2>1, PrefixSets
  <2>3. it[1 .. k] = Header(it[(1 .. k) \ {Max(1 .. k)}], s[Max(1 .. k)], mcast)
    BY <1>d, <2>1, <2>2, Zenon
  <2>4. it[1 .. k] = Header(it[1 .. k - 1], s[k], mcast)
    BY <2>2, <2>3, Zenon
  <2>5. c[k] = it[1 .. k] /\ c[k - 1] = it[1 .. k - 1]
    BY <1>0
  <2> QED
    BY <2>4, <2>5, Zenon
<1>6. c \in [0 .. Len(s) -> HeaderStates]
  <2> DEFINE N == {k \in 0 .. Len(s) : c[k] \in HeaderStates}
  <2>1. 0 \in N
    BY <1>0, <1>4, <1>a
  <2> HIDE DEF c
  <2>2. \A k \in 1 .. Len(s) : k - 1 \in N => k \in N
    <3> SUFFICES ASSUME NEW k \in 1 .. Len(s), k - 1 \in N PROVE k \in N
      OBVIOUS
    <3>1. c[k - 1] \in HeaderStates /\ s[k] \in ExtHeader /\ k \in 0 .. Len(s)
      BY <1>0
    <3> QED
      BY <1>5, <1>b, <3>1
  <2>3. \A k \in 0 .. Len(s) : k \in N
    <3> HIDE DEF N
    <3> QED
      BY <1>0, <2>1, <2>2, UpTo
  <2>4. \A k \in 0 .. Len(s) : it[1 .. k] \in HeaderStates
    BY <2>3 DEF c
  <2> QED
    BY <2>4 DEF c
<1>7. c[Len(s)] = it[DOMAIN s]
  BY <1>0
<1> HIDE DEF c
<1>8. ExtensionHeaders(exts, upper, mcast) = Ended(c[Len(s)], upper)
  BY <1>1, <1>7, Zenon
<1> QED
  BY <1>4, <1>5, <1>6, <1>8, Zenon DEF s, b

(* How many of the first k headers are of a kind.                          *)
Seen(exts, k, kind) == Cardinality({j \in 1 .. k : exts[j].kind = kind})

(* None of no headers is of any kind.                                      *)
LEMMA SeenNone ==
  ASSUME NEW exts, NEW kind
  PROVE  Seen(exts, 0, kind) = 0
<1>1. {j \in 1 .. 0 : exts[j].kind = kind} = {}
  OBVIOUS
<1> QED
  BY <1>1, FS_EmptySet DEF Seen

(* One more header counts for its own kind.                                *)
LEMMA SeenNext ==
  ASSUME NEW exts, NEW kind, NEW k \in Nat \ {0}
  PROVE  Seen(exts, k, kind) = IF exts[k].kind = kind THEN Seen(exts, k - 1, kind) + 1
                               ELSE Seen(exts, k - 1, kind)
<1> DEFINE S == {j \in 1 .. k - 1 : exts[j].kind = kind}
           T == {j \in 1 .. k : exts[j].kind = kind}
<1>1. IsFiniteSet(S)
  <2>1. IsFiniteSet(1 .. k - 1)
    BY FS_Interval
  <2>2. S \subseteq 1 .. k - 1
    OBVIOUS
  <2> HIDE DEF S
  <2> QED
    BY <2>1, <2>2, FS_Subset
<1>2. k \notin S
  OBVIOUS
<1>3. CASE exts[k].kind = kind
  <2>1. T = S \cup {k}
    BY <1>3
  <2> HIDE DEF S, T
  <2>2. Cardinality(S \cup {k}) = Cardinality(S) + 1
    BY <1>1, <1>2, FS_AddElement
  <2>3. Cardinality(T) = Cardinality(S) + 1
    BY <2>1, <2>2
  <2> QED
    BY <1>3, <2>3 DEF Seen, S, T
<1>4. CASE exts[k].kind # kind
  <2>1. T = S
    BY <1>4
  <2> QED
    BY <1>4, <2>1 DEF Seen
<1> QED
  BY <1>3, <1>4

(* A Parameter Problem found at one of the headers points at it.           *)
Located(exts, r) ==
  \E k \in DOMAIN exts :
    \/ Repeated(exts, k) /\ r = Problem("nextheader", NamedAt(exts, k))
    \/ exts[k].kind = "routing" /\ exts[k].seg > 0 /\ r = Problem("header", At(exts, k) + 2)
    \/ AsksAt(exts[k], At(exts, k), r)

(* The state of the loop past the first k headers.                         *)
Going(exts, acc, k, d) ==
  /\ acc.fate = GoesOn
  /\ acc.ext_len = d[k]
  /\ acc.next_hdr = NamedAt(exts, k + 1)
  /\ acc.hbho = Seen(exts, k, "hbho")
  /\ acc.desto = Seen(exts, k, "desto")
  /\ acc.routing = Seen(exts, k, "routing") /\ acc.routing \in {0, 1}

(* The state past k - 1 headers becomes the one past k.                    *)
LEMMA StillGoing ==
  ASSUME NEW exts \in Seq(ExtHeader), NEW d, Sums(d, [k \in DOMAIN exts |-> exts[k].len], Len(exts)),
         NEW k \in 1 .. Len(exts), NEW acc \in HeaderStates, NEW next,
         Going(exts, acc, k - 1, d), Onwards(acc, exts[k], next)
  PROVE  Going(exts, next, k, d)
<1> DEFINE e == exts[k]
<1>1. e \in ExtHeader /\ k \in Nat \ {0} /\ k - 1 \in 0 .. Len(exts) /\ DOMAIN exts = 1 .. Len(exts)
  OBVIOUS
<1>2. e.kind \in {"hbho", "desto", "routing"} /\ e.len \in Nat
  BY <1>1 DEF ExtHeader
<1>3. d[k] = d[k - 1] + e.len /\ Length(SubSeq(exts, 1, k - 1)) = d[k - 1]
  <2>1. d[k] = d[k - 1] + [i \in DOMAIN exts |-> exts[i].len][k]
    BY DEF Sums
  <2>2. Length(SubSeq(exts, 1, k - 1)) = d[k - 1]
    BY <1>1, LengthOfPrefix
  <2> QED
    BY <1>1, <2>1, <2>2
<1>4. At(exts, k) = UIP_IPH_LEN + d[k - 1]
  BY <1>3 DEF At
<1>5. NamedAt(exts, k + 1) = At(exts, k)
  <2>1. k + 1 # 1 /\ (k + 1) - 1 = k
    BY <1>1
  <2> QED
    BY <2>1 DEF NamedAt
<1>6. \A kind : Seen(exts, k, kind) = IF e.kind = kind THEN Seen(exts, k - 1, kind) + 1
                                     ELSE Seen(exts, k - 1, kind)
  BY <1>1, SeenNext
<1> HIDE DEF e
<1>a. /\ acc.ext_len = d[k - 1]
      /\ acc.hbho = Seen(exts, k - 1, "hbho") /\ acc.desto = Seen(exts, k - 1, "desto")
      /\ acc.routing = Seen(exts, k - 1, "routing") /\ acc.routing \in {0, 1}
  BY DEF Going
<1>b. /\ next.fate = GoesOn /\ next.ext_len = acc.ext_len + e.len
      /\ next.next_hdr = UIP_IPH_LEN + acc.ext_len
      /\ acc[e.kind] # MostOf[e.kind]
      /\ next.hbho = IF e.kind = "hbho" THEN acc.hbho + 1 ELSE acc.hbho
      /\ next.desto = IF e.kind = "desto" THEN acc.desto + 1 ELSE acc.desto
      /\ next.routing = IF e.kind = "routing" THEN 1 ELSE acc.routing
  BY DEF Onwards, e
<1>7. next.hbho = Seen(exts, k, "hbho") /\ next.desto = Seen(exts, k, "desto")
  BY <1>6, <1>a, <1>b
<1>8. next.routing = Seen(exts, k, "routing") /\ next.routing \in {0, 1}
  <2>1. CASE e.kind = "routing"
    <3>1. acc["routing"] # 1
      BY <1>b, <2>1 DEF MostOf
    <3>2. acc.routing = 0
      BY <1>a, <3>1
    <3> QED
      BY <1>6, <1>a, <1>b, <2>1, <3>2
  <2>2. CASE e.kind # "routing"
    BY <1>6, <1>a, <1>b, <2>2
  <2> QED
    BY <2>1, <2>2
<1>9. next.next_hdr = NamedAt(exts, k + 1)
  BY <1>4, <1>5, <1>a, <1>b
<1> QED
  BY <1>3, <1>7, <1>8, <1>9, <1>a, <1>b DEF Going

(* A packet that is not passed on is discarded, or the answer points at    *)
(* what is wrong.                                                          *)
LEMMA StopsAtCulprit ==
  ASSUME NEW exts \in Seq(ExtHeader), NEW d, Sums(d, [k \in DOMAIN exts |-> exts[k].len], Len(exts)),
         NEW k \in 1 .. Len(exts), NEW acc \in HeaderStates, NEW next,
         Going(exts, acc, k - 1, d), Stops(acc, exts[k], next)
  PROVE  next.fate = Discarded \/ Located(exts, next.fate)
<1> DEFINE e == exts[k]
<1>1. e \in ExtHeader /\ k \in Nat \ {0} /\ k - 1 \in 0 .. Len(exts) /\ DOMAIN exts = 1 .. Len(exts)
  OBVIOUS
<1>2. At(exts, k) = UIP_IPH_LEN + acc.ext_len
  <2>1. Length(SubSeq(exts, 1, k - 1)) = d[k - 1]
    BY <1>1, LengthOfPrefix
  <2> QED
    BY <2>1 DEF At, Going
<1>3. CASE acc[e.kind] = MostOf[e.kind] /\ next.fate = Problem("nextheader", acc.next_hdr)
  <2>1. (k - 1) + 1 = k /\ k \in DOMAIN exts
    BY <1>1
  <2>2. acc.next_hdr = NamedAt(exts, k)
    BY <2>1 DEF Going
  <2>3. e.kind \in {"hbho", "desto", "routing"}
    BY <1>1 DEF ExtHeader
  <2>4. acc[e.kind] = Seen(exts, k - 1, e.kind) /\ acc[e.kind] \in Nat
    <3> HIDE DEF e
    <3>1. CASE e.kind = "hbho"
      BY <3>1 DEF Going, HeaderStates
    <3>2. CASE e.kind = "desto"
      BY <3>2 DEF Going, HeaderStates
    <3>3. CASE e.kind = "routing"
      BY <3>3 DEF Going, HeaderStates
    <3> QED
      BY <2>3, <3>1, <3>2, <3>3
  <2>5. Seen(exts, k, e.kind) = Seen(exts, k - 1, e.kind) + 1
    BY <1>1, SeenNext
  <2>6. Repeated(exts, k)
    <3> DEFINE most == MostOf[e.kind]
    <3>1. Seen(exts, k, e.kind) > most
      <4> HIDE DEF e, most
      <4>1. Seen(exts, k - 1, e.kind) = most /\ most \in Nat
        BY <1>3, <2>4 DEF most
      <4> QED
        BY <2>5, <4>1
    <3> QED
      BY <3>1 DEF Repeated, Seen
  <2> QED
    BY <1>3, <2>1, <2>2, <2>6 DEF Located
<1>4. CASE e.kind = "routing" /\ e.seg > 0
           /\ next.fate = Problem("header", UIP_IPH_LEN + acc.ext_len + 2)
  BY <1>1, <1>2, <1>4 DEF Located
<1>5. CASE AsksAt(e, UIP_IPH_LEN + acc.ext_len, next.fate)
  BY <1>1, <1>2, <1>5 DEF Located
<1> QED
  BY <1>3, <1>4, <1>5 DEF Stops

(* After any number of headers the loop is past them all, or has ended     *)
(* with one at fault.                                                      *)
LEMMA HeadersWalked ==
  ASSUME NEW exts \in Seq(ExtHeader), NEW d, Sums(d, [k \in DOMAIN exts |-> exts[k].len], Len(exts)),
         NEW mcast, NEW c \in [0 .. Len(exts) -> HeaderStates], c[0] = Start,
         \A k \in 1 .. Len(exts) : c[k] = Header(c[k - 1], exts[k], mcast)
  PROVE  \A k \in 0 .. Len(exts) :
           \/ Going(exts, c[k], k, d)
           \/ c[k].fate = Discarded
           \/ Located(exts, c[k].fate)
<1> DEFINE n == Len(exts)
           N == {k \in 0 .. n : \/ Going(exts, c[k], k, d)
                                \/ c[k].fate = Discarded
                                \/ Located(exts, c[k].fate)}
<1>1. n \in Nat /\ DOMAIN exts = 1 .. n
  OBVIOUS
<1>2. 0 \in N
  <2>1. d[0] = 0
    BY DEF Sums
  <2>2. NamedAt(exts, 0 + 1) = NextHdrAt
    BY DEF NamedAt
  <2>3. Going(exts, c[0], 0, d)
    BY <2>1, <2>2, SeenNone DEF Going, Start
  <2> QED
    BY <1>1, <2>3
<1>3. \A k \in 1 .. n : k - 1 \in N => k \in N
  <2> SUFFICES ASSUME NEW k \in 1 .. n, k - 1 \in N PROVE k \in N
    OBVIOUS
  <2>1. /\ c[k] = Header(c[k - 1], exts[k], mcast) /\ c[k - 1] \in HeaderStates
        /\ exts[k] \in ExtHeader /\ k \in 0 .. n
    BY <1>1
  <2>2. /\ c[k - 1].fate # GoesOn => c[k] = c[k - 1]
        /\ c[k - 1].fate = GoesOn => \/ Onwards(c[k - 1], exts[k], c[k])
                                     \/ Stops(c[k - 1], exts[k], c[k])
    <3> DEFINE next == Header(c[k - 1], exts[k], mcast)
    <3>1. /\ c[k - 1].fate # GoesOn => next = c[k - 1]
          /\ c[k - 1].fate = GoesOn => \/ Onwards(c[k - 1], exts[k], next)
                                       \/ Stops(c[k - 1], exts[k], next)
      BY <2>1, HeaderStep
    <3> HIDE DEF next
    <3>2. c[k] = next
      BY <2>1 DEF next
    <3> QED
      BY <3>1, <3>2
  <2>3. CASE c[k - 1].fate # GoesOn
    <3>1. c[k - 1].fate = Discarded \/ Located(exts, c[k - 1].fate)
      BY <2>3 DEF Going
    <3> QED
      BY <2>1, <2>2, <2>3, <3>1
  <2>4. CASE c[k - 1].fate = GoesOn
    <3>1. ~Located(exts, c[k - 1].fate)
      BY <2>4, FatesDiffer DEF Located, AsksAt
    <3>2. Going(exts, c[k - 1], k - 1, d)
      BY <2>4, <3>1, FatesDiffer
    <3> HIDE DEF N
    <3>3. \/ Going(exts, c[k], k, d)
          \/ c[k].fate = Discarded
          \/ Located(exts, c[k].fate)
      BY <2>1, <2>2, <2>4, <3>2, StillGoing, StopsAtCulprit
    <3> QED
      BY <2>1, <3>3 DEF N
  <2> QED
    BY <2>3, <2>4
<1>4. \A k \in 0 .. n : k \in N
  <2> HIDE DEF N
  <2> QED
    BY <1>1, <1>2, <1>3, UpTo
<1> QED
  BY <1>4

(* What the headers say of a packet: a pointer of a Parameter Problem is   *)
(* one of those at fault, and past the last header uip_ext_len is the      *)
(* length of them all.                                                     *)
LEMMA HeadersLocated ==
  ASSUME NEW exts \in Seq(ExtHeader), NEW upper, NEW mcast
  PROVE  LET acc == ExtensionHeaders(exts, upper, mcast)
         IN  /\ acc.fate.is = "problem"
                  => <<acc.fate.code, acc.fate.pointer>> \in Culprits(exts, upper)
             /\ acc.fate = GoesOn => acc.ext_len = Length(exts)
<1> DEFINE n == Len(exts)
           acc == ExtensionHeaders(exts, upper, mcast)
<1>1. n \in Nat /\ DOMAIN exts = 1 .. n /\ n \in 0 .. n
  OBVIOUS
<1>2. PICK c \in [0 .. n -> HeaderStates] :
        /\ c[0] = Start
        /\ \A k \in 1 .. n : c[k] = Header(c[k - 1], exts[k], mcast)
        /\ acc = Ended(c[n], upper)
  BY HeadersRow
<1>3. PICK d : Sums(d, [k \in DOMAIN exts |-> exts[k].len], n) /\ Length(exts) = d[n]
  BY LengthSums
<1> HIDE DEF acc
<1>4. \/ Going(exts, c[n], n, d)
      \/ c[n].fate = Discarded
      \/ Located(exts, c[n].fate)
  <2>1. \A k \in 0 .. n : \/ Going(exts, c[k], k, d)
                          \/ c[k].fate = Discarded
                          \/ Located(exts, c[k].fate)
    BY <1>2, <1>3, HeadersWalked
  <2> QED
    BY <1>1, <2>1
<1>5. c[n] \in HeaderStates
  BY <1>1, <1>2
<1>a. \A code, p : Problem(code, p).is = "problem" /\ Problem(code, p).code = code
                   /\ Problem(code, p).pointer = p
  BY DEF Problem
<1>b. GoesOn.is # "problem" /\ Discarded.is # "problem"
  BY DEF GoesOn, Discarded
<1>6. Located(exts, c[n].fate) => /\ c[n].fate.is = "problem"
                                  /\ <<c[n].fate.code, c[n].fate.pointer>> \in Culprits(exts, upper)
  <2> SUFFICES ASSUME Located(exts, c[n].fate)
               PROVE  /\ c[n].fate.is = "problem"
                      /\ <<c[n].fate.code, c[n].fate.pointer>> \in Culprits(exts, upper)
    OBVIOUS
  <2> DEFINE r == c[n].fate
  <2> HIDE DEF r
  <2>1. PICK k \in DOMAIN exts :
          \/ Repeated(exts, k) /\ r = Problem("nextheader", NamedAt(exts, k))
          \/ exts[k].kind = "routing" /\ exts[k].seg > 0 /\ r = Problem("header", At(exts, k) + 2)
          \/ AsksAt(exts[k], At(exts, k), r)
    BY DEF Located, r
  <2>2. CASE Repeated(exts, k) /\ r = Problem("nextheader", NamedAt(exts, k))
    <3>1. <<"nextheader", NamedAt(exts, k)>> \in Culprits(exts, upper)
      BY <2>1, <2>2 DEF Culprits
    <3> QED
      BY <1>a, <2>2, <3>1, SMTT(30) DEF r
  <2>3. CASE exts[k].kind = "routing" /\ exts[k].seg > 0 /\ r = Problem("header", At(exts, k) + 2)
    <3>1. <<"header", At(exts, k) + 2>> \in Culprits(exts, upper)
      BY <2>1, <2>3 DEF Culprits
    <3> QED
      BY <1>a, <2>3, <3>1 DEF r
  <2>4. CASE AsksAt(exts[k], At(exts, k), r)
    <3>1. PICK j \in DOMAIN exts[k].opts :
            /\ exts[k].opts[j].type \div 128 = 1
            /\ r = Problem("option", At(exts, k) + 2 + Sizes(SubSeq(exts[k].opts, 1, j - 1)))
      BY <2>4 DEF AsksAt
    <3>2. r = Problem("option", OptionAt(exts, k, j))
      BY <3>1, Zenon DEF OptionAt
    <3>3. <<"option", OptionAt(exts, k, j)>> \in Culprits(exts, upper)
      <4>1. <<"option", OptionAt(exts, k, j)>>
              \in UNION {{<<"option", OptionAt(exts, i, m)>> : m \in {m \in DOMAIN exts[i].opts :
                                             exts[i].opts[m].type \div 128 = 1}}
                        : i \in DOMAIN exts}
        BY <2>1, <3>1
      <4> QED
        BY <4>1 DEF Culprits
    <3> QED
      <4>1. r.is = "problem" /\ r.code = "option" /\ r.pointer = OptionAt(exts, k, j)
        BY <1>a, <3>2, Zenon
      <4>2. r.is = "problem" /\ <<r.code, r.pointer>> \in Culprits(exts, upper)
        BY <3>3, <4>1, Zenon
      <4> QED
        BY <4>2 DEF r
  <2> QED
    BY <2>1, <2>2, <2>3, <2>4
<1>7. CASE c[n].fate # GoesOn
  <2>1. acc = c[n]
    BY <1>2, <1>7 DEF Ended
  <2>2. c[n].fate = Discarded \/ Located(exts, c[n].fate)
    BY <1>4, <1>7 DEF Going
  <2> QED
    BY <1>6, <1>7, <1>b, <2>1, <2>2 DEF acc
<1>8. CASE c[n].fate = GoesOn
  <2>1. Going(exts, c[n], n, d)
    BY <1>4, <1>6, <1>8, <1>b, FatesDiffer
  <2>2. CASE upper \in {"udp", "icmp6"}
    <3>1. acc = c[n]
      BY <1>2, <2>2 DEF Ended
    <3> QED
      BY <1>3, <1>8, <1>b, <2>1, <3>1 DEF Going, acc
  <2>3. CASE upper \in {"frag", "none"}
    <3>1. acc = [c[n] EXCEPT !.fate = Discarded]
      BY <1>2, <1>8, <2>3 DEF Ended
    <3>2. acc.fate = Discarded
      BY <1>5, <3>1 DEF HeaderStates
    <3> QED
      BY <1>b, <3>2, FatesDiffer DEF acc
  <2>4. CASE upper \notin {"udp", "icmp6", "frag", "none"}
    <3>1. acc = bad_hdr(c[n])
      BY <1>2, <1>8, <2>4 DEF Ended
    <3>2. acc.fate = Problem("nextheader", c[n].next_hdr)
      BY <1>5, <3>1 DEF HeaderStates, bad_hdr
    <3>3. c[n].next_hdr = NamedAt(exts, n + 1)
      BY <2>1 DEF Going
    <3>4. <<"nextheader", NamedAt(exts, n + 1)>> \in Culprits(exts, upper)
      BY <2>4 DEF Culprits
    <3> QED
      BY <1>a, <3>2, <3>3, <3>4, FatesDiffer DEF acc
  <2> QED
    BY <2>2, <2>3, <2>4
<1> QED
  BY <1>7, <1>8

-----------------------------------------------------------------------------
(* The lists of fields: a field is found past the lengths of the parts     *)
(* before its own.                                                         *)
Places(s, part, before) == \A i \in 1 .. Len(part) : s[before + i] = part[i]

(* A part that is appended has its place after what was there, which keeps *)
(* its own.                                                                *)
LEMMA PlacesInTwo ==
  ASSUME NEW S, NEW s \in Seq(S), NEW part \in Seq(S)
  PROVE  /\ s \o part \in Seq(S)
         /\ Len(s \o part) = Len(s) + Len(part)
         /\ Places(s \o part, part, Len(s))
         /\ \A q \in Seq(S), k \in Nat :
              k + Len(q) <= Len(s) /\ Places(s, q, k) => Places(s \o part, q, k)
<1>1. Len(s) \in Nat /\ Len(part) \in Nat /\ s \o part \in Seq(S)
      /\ Len(s \o part) = Len(s) + Len(part)
  BY ConcatProperties
<1>2. \A i \in 1 .. Len(s) + Len(part) :
        (s \o part)[i] = IF i <= Len(s) THEN s[i] ELSE part[i - Len(s)]
  BY ConcatProperties
<1> DEFINE t == s \o part
<1> HIDE DEF t
<1>3. Places(t, part, Len(s))
  <2> SUFFICES ASSUME NEW i \in 1 .. Len(part) PROVE t[Len(s) + i] = part[i]
    BY DEF Places
  <2>1. Len(s) + i \in 1 .. Len(s) + Len(part) /\ ~(Len(s) + i <= Len(s))
        /\ (Len(s) + i) - Len(s) = i
    BY <1>1
  <2> QED
    BY <1>2, <2>1 DEF t
<1>4. ASSUME NEW q \in Seq(S), NEW k \in Nat, k + Len(q) <= Len(s), Places(s, q, k)
      PROVE  Places(t, q, k)
  <2> SUFFICES ASSUME NEW i \in 1 .. Len(q) PROVE t[k + i] = q[i]
    BY DEF Places
  <2>1. Len(q) \in Nat
    OBVIOUS
  <2>2. k + i \in 1 .. Len(s) + Len(part) /\ k + i <= Len(s)
    BY <1>1, <1>4, <2>1
  <2>3. t[k + i] = s[k + i]
    BY <1>2, <2>2 DEF t
  <2>4. s[k + i] = q[i]
    BY <1>4 DEF Places
  <2> QED
    BY <2>3, <2>4
<1> QED
  BY <1>1, <1>3, <1>4 DEF t

(* What is in its place stays there when another part follows.             *)
LEMMA PlacesKept ==
  ASSUME NEW S, NEW s \in Seq(S), NEW part \in Seq(S), NEW q \in Seq(S), NEW k \in Nat,
         k + Len(q) <= Len(s), Places(s, q, k)
  PROVE  Places(s \o part, q, k)
BY PlacesInTwo

SevenPlaced(A, T, N, H, B, D, U) ==
  LET s  == A \o T \o N \o H \o B \o D \o U
      i0 == Len(A)
      i1 == i0 + Len(T)
      i2 == i1 + Len(N)
      i3 == i2 + Len(H)
      i4 == i3 + Len(B)
      i5 == i4 + Len(D)
  IN  /\ Places(s, A, 0) /\ Places(s, T, i0) /\ Places(s, N, i1) /\ Places(s, H, i2)
      /\ Places(s, B, i3) /\ Places(s, D, i4) /\ Places(s, U, i5)
      /\ Len(s) = i5 + Len(U)

(* Each of seven parts is found past the lengths of those before it.       *)
LEMMA PlacesInSeven ==
  ASSUME NEW S, NEW A \in Seq(S), NEW T \in Seq(S), NEW N \in Seq(S), NEW H \in Seq(S),
         NEW B \in Seq(S), NEW D \in Seq(S), NEW U \in Seq(S)
  PROVE  /\ SevenPlaced(A, T, N, H, B, D, U)
         /\ A \o T \o N \o H \o B \o D \o U \in Seq(S)
<1> DEFINE i0 == Len(A)
           i1 == i0 + Len(T)
           i2 == i1 + Len(N)
           i3 == i2 + Len(H)
           i4 == i3 + Len(B)
           i5 == i4 + Len(D)
           s1 == A \o T
           s2 == s1 \o N
           s3 == s2 \o H
           s4 == s3 \o B
           s5 == s4 \o D
           s6 == s5 \o U
<1>0. /\ Len(A) \in Nat /\ Len(T) \in Nat /\ Len(N) \in Nat /\ Len(H) \in Nat
      /\ Len(B) \in Nat /\ Len(D) \in Nat /\ Len(U) \in Nat
  OBVIOUS
<1>a. Places(A, A, 0)
  BY DEF Places
<1>n. /\ i0 \in Nat /\ i1 \in Nat /\ i2 \in Nat /\ i3 \in Nat /\ i4 \in Nat /\ i5 \in Nat
      /\ 0 + Len(A) = i0 /\ i0 <= i1 /\ i1 <= i2 /\ i2 <= i3 /\ i3 <= i4 /\ i4 <= i5
  BY <1>0
<1>m. /\ i0 = 0 + Len(A) /\ i1 = i0 + Len(T) /\ i2 = i1 + Len(N) /\ i3 = i2 + Len(H)
      /\ i4 = i3 + Len(B) /\ i5 = i4 + Len(D)
  BY <1>0
<1> HIDE DEF i0, i1, i2, i3, i4, i5
<1>1. /\ s1 \in Seq(S) /\ Len(s1) = i1 /\ Places(s1, A, 0)
      /\ Places(s1, T, i0)
  <2>1. A \in Seq(S) /\ T \in Seq(S) /\ Len(A) = i0
    BY <1>a, <1>0 DEF i0
  <2>2. s1 \in Seq(S) /\ Len(s1) = i1 /\ Places(s1, T, i0)
    BY <2>1, <1>m, PlacesInTwo
  <2>3. Places(s1, A, 0)
    <3>1. 0 \in Nat /\ 0 + Len(A) <= Len(A) /\ Places(A, A, 0)
      BY <1>m, <1>n, <1>a, <1>0
    <3> QED
      BY <2>1, <3>1, PlacesKept
  <2> QED
    BY <2>2, <2>3
<1> HIDE DEF s1
<1>2. /\ s2 \in Seq(S) /\ Len(s2) = i2 /\ Places(s2, A, 0)
      /\ Places(s2, T, i0) /\ Places(s2, N, i1)
  <2>1. s1 \in Seq(S) /\ N \in Seq(S) /\ Len(s1) = i1
    BY <1>1
  <2>2. s2 \in Seq(S) /\ Len(s2) = i2 /\ Places(s2, N, i1)
    BY <2>1, <1>m, PlacesInTwo
  <2>3. Places(s2, A, 0)
    <3>1. 0 \in Nat /\ 0 + Len(A) <= Len(s1) /\ Places(s1, A, 0)
      BY <1>m, <1>n, <1>1
    <3> QED
      BY <2>1, <3>1, PlacesKept
  <2>4. Places(s2, T, i0)
    <3>1. i0 \in Nat /\ i0 + Len(T) <= Len(s1) /\ Places(s1, T, i0)
      BY <1>m, <1>n, <1>1
    <3> QED
      BY <2>1, <3>1, PlacesKept
  <2> QED
    BY <2>2, <2>3, <2>4
<1> HIDE DEF s2
<1>3. /\ s3 \in Seq(S) /\ Len(s3) = i3 /\ Places(s3, A, 0)
      /\ Places(s3, T, i0) /\ Places(s3, N, i1) /\ Places(s3, H, i2)
  <2>1. s2 \in Seq(S) /\ H \in Seq(S) /\ Len(s2) = i2
    BY <1>2
  <2>2. s3 \in Seq(S) /\ Len(s3) = i3 /\ Places(s3, H, i2)
    BY <2>1, <1>m, PlacesInTwo
  <2>3. Places(s3, A, 0)
    <3>1. 0 \in Nat /\ 0 + Len(A) <= Len(s2) /\ Places(s2, A, 0)
      BY <1>m, <1>n, <1>2
    <3> QED
      BY <2>1, <3>1, PlacesKept
  <2>4. Places(s3, T, i0)
    <3>1. i0 \in Nat /\ i0 + Len(T) <= Len(s2) /\ Places(s2, T, i0)
      BY <1>m, <1>n, <1>2
    <3> QED
      BY <2>1, <3>1, PlacesKept
  <2>5. Places(s3, N, i1)
    <3>1. i1 \in Nat /\ i1 + Len(N) <= Len(s2) /\ Places(s2, N, i1)
      BY <1>m, <1>n, <1>2
    <3> QED
      BY <2>1, <3>1, PlacesKept
  <2> QED
    BY <2>2, <2>3, <2>4, <2>5
<1> HIDE DEF s3
<1>4. /\ s4 \in Seq(S) /\ Len(s4) = i4 /\ Places(s4, A, 0)
      /\ Places(s4, T, i0) /\ Places(s4, N, i1) /\ Places(s4, H, i2)
      /\ Places(s4, B, i3)
  <2>1. s3 \in Seq(S) /\ B \in Seq(S) /\ Len(s3) = i3
    BY <1>3
  <2>2. s4 \in Seq(S) /\ Len(s4) = i4 /\ Places(s4, B, i3)
    BY <2>1, <1>m, PlacesInTwo
  <2>3. Places(s4, A, 0)
    <3>1. 0 \in Nat /\ 0 + Len(A) <= Len(s3) /\ Places(s3, A, 0)
      BY <1>m, <1>n, <1>3
    <3> QED
      BY <2>1, <3>1, PlacesKept
  <2>4. Places(s4, T, i0)
    <3>1. i0 \in Nat /\ i0 + Len(T) <= Len(s3) /\ Places(s3, T, i0)
      BY <1>m, <1>n, <1>3
    <3> QED
      BY <2>1, <3>1, PlacesKept
  <2>5. Places(s4, N, i1)
    <3>1. i1 \in Nat /\ i1 + Len(N) <= Len(s3) /\ Places(s3, N, i1)
      BY <1>m, <1>n, <1>3
    <3> QED
      BY <2>1, <3>1, PlacesKept
  <2>6. Places(s4, H, i2)
    <3>1. i2 \in Nat /\ i2 + Len(H) <= Len(s3) /\ Places(s3, H, i2)
      BY <1>m, <1>n, <1>3
    <3> QED
      BY <2>1, <3>1, PlacesKept
  <2> QED
    BY <2>2, <2>3, <2>4, <2>5, <2>6
<1> HIDE DEF s4
<1>5. /\ s5 \in Seq(S) /\ Len(s5) = i5 /\ Places(s5, A, 0)
      /\ Places(s5, T, i0) /\ Places(s5, N, i1) /\ Places(s5, H, i2)
      /\ Places(s5, B, i3) /\ Places(s5, D, i4)
  <2>1. s4 \in Seq(S) /\ D \in Seq(S) /\ Len(s4) = i4
    BY <1>4
  <2>2. s5 \in Seq(S) /\ Len(s5) = i5 /\ Places(s5, D, i4)
    BY <2>1, <1>m, PlacesInTwo
  <2>3. Places(s5, A, 0)
    <3>1. 0 \in Nat /\ 0 + Len(A) <= Len(s4) /\ Places(s4, A, 0)
      BY <1>m, <1>n, <1>4
    <3> QED
      BY <2>1, <3>1, PlacesKept
  <2>4. Places(s5, T, i0)
    <3>1. i0 \in Nat /\ i0 + Len(T) <= Len(s4) /\ Places(s4, T, i0)
      BY <1>m, <1>n, <1>4
    <3> QED
      BY <2>1, <3>1, PlacesKept
  <2>5. Places(s5, N, i1)
    <3>1. i1 \in Nat /\ i1 + Len(N) <= Len(s4) /\ Places(s4, N, i1)
      BY <1>m, <1>n, <1>4
    <3> QED
      BY <2>1, <3>1, PlacesKept
  <2>6. Places(s5, H, i2)
    <3>1. i2 \in Nat /\ i2 + Len(H) <= Len(s4) /\ Places(s4, H, i2)
      BY <1>m, <1>n, <1>4
    <3> QED
      BY <2>1, <3>1, PlacesKept
  <2>7. Places(s5, B, i3)
    <3>1. i3 \in Nat /\ i3 + Len(B) <= Len(s4) /\ Places(s4, B, i3)
      BY <1>m, <1>n, <1>4
    <3> QED
      BY <2>1, <3>1, PlacesKept
  <2> QED
    BY <2>2, <2>3, <2>4, <2>5, <2>6, <2>7
<1> HIDE DEF s5
<1>6. /\ s6 \in Seq(S) /\ Len(s6) = i5 + Len(U) /\ Places(s6, A, 0) /\ Places(s6, T, i0)
      /\ Places(s6, N, i1) /\ Places(s6, H, i2) /\ Places(s6, B, i3)
      /\ Places(s6, D, i4) /\ Places(s6, U, i5)
  <2>1. s5 \in Seq(S) /\ U \in Seq(S) /\ Len(s5) = i5
    BY <1>5
  <2>2. s6 \in Seq(S) /\ Len(s6) = i5 + Len(U) /\ Places(s6, U, i5)
    BY <2>1, PlacesInTwo
  <2>3. Places(s6, A, 0)
    <3>1. 0 \in Nat /\ 0 + Len(A) <= Len(s5) /\ Places(s5, A, 0)
      BY <1>m, <1>n, <1>5
    <3> QED
      BY <2>1, <3>1, PlacesKept
  <2>4. Places(s6, T, i0)
    <3>1. i0 \in Nat /\ i0 + Len(T) <= Len(s5) /\ Places(s5, T, i0)
      BY <1>m, <1>n, <1>5
    <3> QED
      BY <2>1, <3>1, PlacesKept
  <2>5. Places(s6, N, i1)
    <3>1. i1 \in Nat /\ i1 + Len(N) <= Len(s5) /\ Places(s5, N, i1)
      BY <1>m, <1>n, <1>5
    <3> QED
      BY <2>1, <3>1, PlacesKept
  <2>6. Places(s6, H, i2)
    <3>1. i2 \in Nat /\ i2 + Len(H) <= Len(s5) /\ Places(s5, H, i2)
      BY <1>m, <1>n, <1>5
    <3> QED
      BY <2>1, <3>1, PlacesKept
  <2>7. Places(s6, B, i3)
    <3>1. i3 \in Nat /\ i3 + Len(B) <= Len(s5) /\ Places(s5, B, i3)
      BY <1>m, <1>n, <1>5
    <3> QED
      BY <2>1, <3>1, PlacesKept
  <2>8. Places(s6, D, i4)
    <3>1. i4 \in Nat /\ i4 + Len(D) <= Len(s5) /\ Places(s5, D, i4)
      BY <1>m, <1>n, <1>5
    <3> QED
      BY <2>1, <3>1, PlacesKept
  <2> QED
    BY <2>2, <2>3, <2>4, <2>5, <2>6, <2>7, <2>8
<1> HIDE DEF s6
<1> QED
  BY <1>6 DEF SevenPlaced, s1, s2, s3, s4, s5, s6, i0, i1, i2, i3, i4, i5

-----------------------------------------------------------------------------
(* Context tables and what is looked up in them.                           *)
IsTable(t) ==
  /\ t = [i \in ContextIds |-> t[i]]
  /\ \A i \in ContextIds : t[i] = NoContext \/ IsContext(t[i])

FoundAt(c, t, a, i) ==
  /\ IsContext(t[i]) /\ PrefixMatches(a, t[i])
  /\ c.state = t[i].state /\ c.prefix = t[i].prefix /\ c.length = t[i].length
  /\ c.id = i

(* A context that is found is one of the table, for a prefix of the        *)
(* address.                                                                *)
LEMMA LookupFound ==
  ASSUME NEW t, IsTable(t), NEW a
  PROVE  LET c == LookupByPrefix(t, a)
         IN  c = NoContext \/ \E i \in ContextIds : FoundAt(c, t, a, i)
<1> DEFINE hits == {i \in ContextIds : t[i].state # "free" /\ PrefixMatches(a, t[i])}
           i == CHOOSE i \in hits : \A j \in hits : i <= j
<1>1. CASE hits = {}
  BY <1>1 DEF LookupByPrefix
<1>2. CASE hits # {}
  <2>1. hits \subseteq Nat
    BY DEF ContextIds
  <2>2. \E m \in hits : \A j \in hits : m <= j
    <3> HIDE DEF hits
    <3> QED
      BY <1>2, <2>1, LeastExists
  <2>3. i \in hits
    <3> HIDE DEF hits
    <3> QED
      BY <2>2
  <2>4. LookupByPrefix(t, a) = [state |-> t[i].state, prefix |-> t[i].prefix,
                                length |-> t[i].length, id |-> i]
    BY <1>2 DEF LookupByPrefix
  <2> HIDE DEF i
  <2>5. t[i].state # "free" /\ PrefixMatches(a, t[i]) /\ i \in ContextIds
    BY <2>3
  <2>6. IsContext(t[i])
    BY <2>5 DEF IsTable, NoContext
  <2> DEFINE c == LookupByPrefix(t, a)
  <2>7. FoundAt(c, t, a, i)
    <3>1. c.state = t[i].state /\ c.prefix = t[i].prefix /\ c.length = t[i].length /\ c.id = i
      <4> HIDE DEF c
      <4>1. c = [state |-> t[i].state, prefix |-> t[i].prefix, length |-> t[i].length, id |-> i]
        BY <2>4 DEF c
      <4> QED
        BY <4>1
    <3> HIDE DEF c
    <3> QED
      BY <2>5, <2>6, <3>1 DEF FoundAt
  <2> QED
    BY <2>5, <2>7
<1> QED
  BY <1>1, <1>2

(* A context is of a prefix that is no group's: none is found for a group. *)
LEMMA NoneForGroups ==
  ASSUME NEW t, IsTable(t), NEW a, IsMulticast(a)
  PROVE  LookupByPrefix(t, a) = NoContext
<1> DEFINE c == LookupByPrefix(t, a)
<1>1. c = NoContext \/ \E i \in ContextIds : FoundAt(c, t, a, i)
  BY LookupFound
<1>2. \A i \in ContextIds : ~FoundAt(c, t, a, i)
  BY DEF FoundAt, PrefixMatches, IsContext, IsMulticast
<1> QED
  BY <1>1, <1>2

(* The three ways an address is compressed with a context, or without.     *)
LEMMA IidForms ==
  ASSUME NEW a, NEW l
  PROVE  LET e == compress_iid(a, l)
         IN  \/ e = [mode |-> 3, inline |-> <<>>] /\ a.iid = OfMac(l)
             \/ e = [mode |-> 2, inline |-> Field(2, <<a.iid[2], a.iid[3]>>)] /\ IsShort(a)
             \/ e = [mode |-> 1, inline |-> Field(8, a.iid)]
BY DEF compress_iid, IsMacBased

(* The four forms of an address of one node.                               *)
LEMMA AddrForms ==
  ASSUME NEW c, NEW a, NEW l
  PROVE  LET e == compress_addr(c, a, l)
         IN  \/ Compresses(c) /\ c.length = 128 /\ e = [mode |-> 3, inline |-> <<>>]
             \/ Compresses(c) /\ c.length # 128 /\ e = compress_iid(a, l)
             \/ ~Compresses(c) /\ IsLinkLocal(a) /\ e = compress_iid(a, l)
             \/ ~Compresses(c) /\ e = [mode |-> 0, inline |-> Field(16, a)]
BY DEF compress_addr

(* The four forms of a group.                                              *)
LEMMA McastForms ==
  ASSUME NEW a
  PROVE  LET e == compress_mcast(a)
         IN  \/ a.scope = LinkScope /\ e = [mode |-> 3, inline |-> Field(1, a.iid)]
             \/ a.iid[1] # "g128" /\ e = [mode |-> 2, inline |-> Field(4, <<a.scope, a.iid>>)]
             \/ a.iid[1] # "g128" /\ e = [mode |-> 1, inline |-> Field(6, <<a.scope, a.iid>>)]
             \/ e = [mode |-> 0, inline |-> Field(16, a)]
BY DEF compress_mcast

-----------------------------------------------------------------------------
(* The parts of a compressed header: each is nothing or one field, and the *)
(* last nothing or the three of a UDP header.                              *)
IsPart(q) == q = <<>> \/ \E n \in Nat : \E v : q = Field(n, v)
IsPorted(q) == q = <<>> \/ \E n \in Nat : \E form, ports, sum :
                             q = Field(1, form) \o Field(n, ports) \o Field(2, sum)

(* A part is a list of fields of any set that holds its field.             *)
LEMMA PartSeq ==
  ASSUME NEW q, IsPart(q), NEW S, q # <<>> /\ q[1].n \in Nat => q[1] \in S
  PROVE  q \in Seq(S)
<1>1. CASE q = <<>>
  BY <1>1
<1>2. CASE q # <<>>
  <2>a. PICK n \in Nat : \E v : q = <<[n |-> n, v |-> v]>>
    BY <1>2 DEF IsPart, Field
  <2>1. PICK v : q = <<[n |-> n, v |-> v]>>
    BY <2>a
  <2> DEFINE x == [n |-> n, v |-> v]
  <2>2. q = <<x>> /\ q[1] = x /\ x.n = n
    BY <2>1
  <2> HIDE DEF x
  <2>3. x \in S
    BY <1>2, <2>2
  <2> QED
    BY <2>2, <2>3
<1> QED
  BY <1>1, <1>2

(* A field makes a list of one, and is the one in it.                      *)
LEMMA PartLen ==
  ASSUME NEW n, NEW v
  PROVE  Len(Field(n, v)) = 1 /\ Field(n, v)[1].v = v /\ Field(n, v)[1].n = n /\ Field(n, v) # <<>>
BY DEF Field

(* Three fields one after the other are a list of three.                   *)
LEMMA ThreeFields ==
  ASSUME NEW x, NEW y, NEW z
  PROVE  <<x>> \o <<y>> \o <<z>> = <<x, y, z>>
<1> DEFINE S == {x, y, z}
<1>1. <<x>> \in Seq(S) /\ <<y>> \in Seq(S) /\ <<z>> \in Seq(S)
  OBVIOUS
<1>2. <<x, y, z>> \in Seq(S) /\ Len(<<x, y, z>>) = 3
  OBVIOUS
<1> DEFINE r == <<x>> \o <<y>>
           s == r \o <<z>>
<1>3. r \in Seq(S) /\ Len(r) = 2 /\ r[1] = x /\ r[2] = y
  BY <1>1, ConcatProperties
<1> HIDE DEF r
<1>4. s \in Seq(S) /\ Len(s) = 3 /\ s[1] = x /\ s[2] = y /\ s[3] = z
  <2> DEFINE t == <<z>>
  <2>a. t \in Seq(S) /\ Len(t) = 1 /\ t[1] = z
    BY <1>1
  <2> HIDE DEF t, S
  <2>b. s \in Seq(S) /\ Len(s) = Len(r) + Len(t)
        /\ \A i \in 1 .. Len(r) + Len(t) : s[i] = IF i <= Len(r) THEN r[i] ELSE t[i - Len(r)]
    BY <1>3, <2>a, ConcatProperties DEF t
  <2>c. Len(s) = 3
    BY <1>3, <2>a, <2>b
  <2>1. s[1] = r[1] /\ s[2] = r[2]
    BY <1>3, <2>a, <2>b
  <2>2. s[3] = t[1]
    <3>1. 3 \in 1 .. Len(r) + Len(t) /\ ~(3 <= Len(r)) /\ 3 - Len(r) = 1
      BY <1>3, <2>a
    <3> QED
      BY <2>b, <3>1
  <2> QED
    BY <1>3, <2>a, <2>b, <2>c, <2>1, <2>2
<1> HIDE DEF s
<1>5. s = <<x, y, z>>
  BY <1>2, <1>4
<1> QED
  BY <1>5 DEF s, r

(* The three fields of a UDP header.                                       *)
LEMMA PortedIs ==
  ASSUME NEW form, NEW n, NEW ports, NEW sum
  PROVE  LET q == Field(1, form) \o Field(n, ports) \o Field(2, sum)
         IN  /\ q = <<[n |-> 1, v |-> form], [n |-> n, v |-> ports], [n |-> 2, v |-> sum]>>
             /\ Len(q) = 3
             /\ q[1].v = form /\ q[2].v = ports /\ q[3].v = sum
<1>1. Field(1, form) \o Field(n, ports) \o Field(2, sum)
        = <<[n |-> 1, v |-> form], [n |-> n, v |-> ports], [n |-> 2, v |-> sum]>>
  BY ThreeFields DEF Field
<1> DEFINE q == Field(1, form) \o Field(n, ports) \o Field(2, sum)
<1> HIDE DEF q
<1>2. q = <<[n |-> 1, v |-> form], [n |-> n, v |-> ports], [n |-> 2, v |-> sum]>>
  BY <1>1 DEF q
<1>3. Len(q) = 3 /\ q[1].v = form /\ q[2].v = ports /\ q[3].v = sum
  BY <1>2
<1> QED
  BY <1>2, <1>3 DEF q

(* They are a list of fields of any set that holds them.                   *)
LEMMA PortedSeq ==
  ASSUME NEW q, IsPorted(q), NEW S,
         q # <<>> /\ q[1].n \in Nat => q[1] \in S,
         q # <<>> /\ q[2].n \in Nat => q[2] \in S,
         q # <<>> /\ q[3].n \in Nat => q[3] \in S
  PROVE  q \in Seq(S)
<1>1. CASE q = <<>>
  BY <1>1
<1>2. CASE q # <<>>
  <2>a. PICK n \in Nat : \E form, ports, sum :
          q = Field(1, form) \o Field(n, ports) \o Field(2, sum)
    BY <1>2 DEF IsPorted
  <2>1. PICK form, ports, sum : q = Field(1, form) \o Field(n, ports) \o Field(2, sum)
    BY <2>a
  <2>2. q = <<[n |-> 1, v |-> form], [n |-> n, v |-> ports], [n |-> 2, v |-> sum]>>
    BY <2>1, PortedIs
  <2>3. /\ [n |-> 1, v |-> form] \in S /\ [n |-> n, v |-> ports] \in S
        /\ [n |-> 2, v |-> sum] \in S
    BY <1>2, <2>2
  <2> QED
    BY <2>2, <2>3
<1> QED
  BY <1>1, <1>2

(* All the parts are lists of the fields of one set.                       *)
Fields(A, T, N, H, B, D, U, S) ==
  /\ \A x \in S : x.n \in Nat
  /\ A \in Seq(S) /\ T \in Seq(S) /\ N \in Seq(S) /\ H \in Seq(S)
  /\ B \in Seq(S) /\ D \in Seq(S) /\ U \in Seq(S)

(* Whatever the parts, there is one set that holds the fields of them all. *)
LEMMA PartsTogether ==
  ASSUME NEW A, NEW T, NEW N, NEW H, NEW B, NEW D, NEW U,
         IsPart(A), IsPart(T), IsPart(N), IsPart(H), IsPart(B), IsPart(D), IsPorted(U)
  PROVE  \E S : Fields(A, T, N, H, B, D, U, S)
<1> DEFINE All == {A[1], T[1], N[1], H[1], B[1], D[1], U[1], U[2], U[3]}
           S   == {x \in All : x.n \in Nat}
<1>1. \A x \in S : x.n \in Nat
  OBVIOUS
<1>2. A[1] \in All /\ T[1] \in All /\ N[1] \in All /\ H[1] \in All /\ B[1] \in All
      /\ D[1] \in All /\ U[1] \in All /\ U[2] \in All /\ U[3] \in All
  OBVIOUS
<1>3. \A x \in All : x.n \in Nat => x \in S
  OBVIOUS
<1> HIDE DEF S, All
<1>4. A \in Seq(S) /\ T \in Seq(S) /\ N \in Seq(S) /\ H \in Seq(S) /\ B \in Seq(S) /\ D \in Seq(S)
  BY <1>2, <1>3, PartSeq
<1>5. U \in Seq(S)
  BY <1>2, <1>3, PortedSeq
<1>6. Fields(A, T, N, H, B, D, U, S)
  BY <1>1, <1>4, <1>5 DEF Fields
<1> QED
  BY <1>6

(* What each part of the header stands for: compressed and uncompressed,   *)
(* the traffic class, the flow label, the hop limit and the ports are the  *)
(* same.                                                                   *)
LEMMA TrafficClass ==
  ASSUME NEW tc \in 0 .. 255
  PROVE  FromLink(ToLink(tc)) = tc
<1> DEFINE q == tc \div 4
           r == tc % 4
<1>1. q \in 0 .. 63 /\ r \in 0 .. 3 /\ tc = 4 * q + r
  OBVIOUS
<1> HIDE DEF q, r
<1>2. ToLink(tc) = r * 64 + q
  BY DEF ToLink, q, r
<1> DEFINE a == q \div 4
           b == q % 4
<1>3. a \in 0 .. 15 /\ b \in 0 .. 3 /\ q = 4 * a + b
  BY <1>1
<1> HIDE DEF a, b
<1>4. ToLink(tc) \div 4 = 16 * r + a
  BY <1>1, <1>2, <1>3
<1>5. (16 * r + a) % 16 = a
  BY <1>1, <1>3
<1>6. ToLink(tc) % 4 = b /\ ToLink(tc) \div 64 = r
  BY <1>1, <1>2, <1>3
<1> QED
  BY <1>1, <1>3, <1>4, <1>5, <1>6 DEF FromLink

(* Traffic class and flow label: what is in line is what is not zero.      *)
LEMMA FlowAndClass ==
  ASSUME NEW p, p.tc \in 0 .. 255
  PROVE  LET q == compress_tf(p)
         IN  /\ IsPart(q)
             /\ Len(q) = IF p.fl = 0 /\ p.tc = 0 THEN 0 ELSE 1
             /\ p.fl = 0 /\ p.tc # 0 => FromLink(q[1].v) = p.tc
             /\ p.fl # 0 /\ p.tc = 0 => q[1].v = p.fl
             /\ p.fl # 0 /\ p.tc # 0 => FromLink(q[1].v[1]) = p.tc /\ q[1].v[2] = p.fl
<1> DEFINE q == compress_tf(p)
<1>1. FromLink(ToLink(p.tc)) = p.tc
  BY TrafficClass
<1>2. CASE p.fl = 0 /\ p.tc = 0
  <2>1. q = <<>>
    BY <1>2 DEF compress_tf
  <2> HIDE DEF q
  <2> QED
    BY <1>2, <2>1 DEF IsPart, q
<1>3. CASE p.fl = 0 /\ p.tc # 0
  <2>1. q = Field(1, ToLink(p.tc))
    BY <1>3 DEF compress_tf
  <2> HIDE DEF q
  <2> QED
    BY <1>1, <1>3, <2>1, PartLen DEF IsPart, q
<1>4. CASE p.fl # 0 /\ p.tc = 0
  <2>1. q = Field(3, p.fl)
    BY <1>4 DEF compress_tf
  <2> HIDE DEF q
  <2> QED
    BY <1>4, <2>1, PartLen DEF IsPart, q
<1>5. CASE p.fl # 0 /\ p.tc # 0
  <2> DEFINE v == <<ToLink(p.tc), p.fl>>
  <2>1. q = Field(4, v)
    BY <1>5 DEF compress_tf
  <2>2. v[1] = ToLink(p.tc) /\ v[2] = p.fl
    OBVIOUS
  <2> HIDE DEF q, v
  <2>3. IsPart(q) /\ Len(q) = 1 /\ q[1].v = v
    BY <2>1, PartLen DEF IsPart
  <2> QED
    BY <1>1, <1>5, <2>2, <2>3 DEF q
<1> QED
  BY <1>2, <1>3, <1>4, <1>5

(* The hop limit is in line, or one of the three with a form of their own. *)
LEMMA HopLimit ==
  ASSUME NEW hl
  PROVE  LET c == compress_ttl(hl)
         IN  /\ IsPart(c.inline)
             /\ \/ c.bits = 0 /\ Len(c.inline) = 1 /\ c.inline[1].v = hl
                \/ c.bits \in 1 .. 3 /\ Len(c.inline) = 0 /\ CompressedHops[c.bits] = hl
<1> DEFINE c == compress_ttl(hl)
           i == CHOOSE i \in 1 .. 3 : CompressedHops[i] = hl
<1>1. CASE \E j \in 1 .. 3 : CompressedHops[j] = hl
  <2>1. i \in 1 .. 3 /\ CompressedHops[i] = hl
    BY <1>1, Zenon
  <2>2. c = [bits |-> i, inline |-> <<>>]
    BY <1>1 DEF compress_ttl
  <2> HIDE DEF c, i
  <2>3. c.bits = i /\ c.inline = <<>>
    BY <2>2
  <2> QED
    BY <2>1, <2>3 DEF IsPart, c
<1>2. CASE ~\E j \in 1 .. 3 : CompressedHops[j] = hl
  <2>1. c = [bits |-> 0, inline |-> Field(1, hl)]
    BY <1>2 DEF compress_ttl
  <2> HIDE DEF c
  <2>2. c.bits = 0 /\ c.inline = Field(1, hl)
    BY <2>1
  <2> QED
    BY <2>2, PartLen DEF IsPart, c
<1> QED
  BY <1>1, <1>2

(* Ports are numbers.                                                      *)
LEMMA PortIsInt == \A x \in Port : x \in Int
BY SMT DEF Port

(* The ports of a header are a record of two numbers and a sum.            *)
LEMMA PortsAre ==
  ASSUME NEW u, IsPorts(u)
  PROVE  \E s \in Int, d \in Int : \E c : u = [sport |-> s, dport |-> d, sum |-> c]
<1> DEFINE v == [sport |-> u.sport, dport |-> u.dport, sum |-> u.sum]
<1>1. u.sport \in Int /\ u.dport \in Int
  <2>1. u.sport \in Port /\ u.dport \in Port
    BY DEF IsPorts
  <2> QED
    BY <2>1, PortIsInt, Zenon
<1>2. \E s \in Int, d \in Int : \E c : v = [sport |-> s, dport |-> d, sum |-> c]
  BY <1>1, Zenon
<1>3. v.sport = u.sport /\ v.dport = u.dport /\ v.sum = u.sum
      /\ v = [f \in {"sport", "dport", "sum"} |-> v[f]]
  OBVIOUS
<1> HIDE DEF v
<1>4. v = u
  BY <1>3 DEF IsPorts, IsRecord
<1> QED
  BY <1>2, <1>4, Zenon

(* A port is its distance from the base of its range and the base; the     *)
(* shortest range is within the other.                                     *)
LEMMA PortNumbers ==
  ASSUME NEW s \in Int
  PROVE  /\ FourBit + (s - FourBit) = s /\ EightBit + (s - EightBit) = s
         /\ IsFourBit(s) => IsEightBit(s)
BY SMT DEF IsFourBit, IsEightBit, FourBit, EightBit

(* Whatever the ports, the form that is chosen for them gives them back.   *)
LEMMA PortsForm ==
  ASSUME NEW u, IsPorts(u)
  PROVE  \E n \in Nat : \E form, ports :
           /\ compress_udp(u) = Field(1, form) \o Field(n, ports) \o Field(2, u.sum)
           /\ uncompress_udp(form, ports, u.sum) = u
<1>a. PICK s \in Int, d \in Int : \E c : u = [sport |-> s, dport |-> d, sum |-> c]
  BY PortsAre
<1>0. PICK c : u = [sport |-> s, dport |-> d, sum |-> c]
  BY <1>a
<1>1. u.sport = s /\ u.dport = d /\ u.sum = c
  BY <1>0
<1>2. /\ FourBit + (s - FourBit) = s /\ FourBit + (d - FourBit) = d
      /\ EightBit + (s - EightBit) = s /\ EightBit + (d - EightBit) = d
      /\ IsFourBit(d) => IsEightBit(d)
  BY PortNumbers
<1> DEFINE Sent(form, n, ports) ==
             compress_udp(u) = Field(1, form) \o Field(n, ports) \o Field(2, c)
           Good == \E n \in Nat : \E form, ports :
                     Sent(form, n, ports) /\ uncompress_udp(form, ports, c) = u
<1>n. 1 \in Nat /\ 3 \in Nat /\ 4 \in Nat
  OBVIOUS
<1>s. SUFFICES Good
  BY <1>1, Zenon
<1>4. CASE IsFourBit(s) /\ IsFourBit(d)
  <2> DEFINE v == <<s - FourBit, d - FourBit>>
  <2>1. Sent("P_11", 1, v)
    BY <1>1, <1>2, <1>4, Zenon DEF compress_udp
  <2>2. v[1] = s - FourBit /\ v[2] = d - FourBit
    OBVIOUS
  <2> HIDE DEF v, Sent
  <2>3. uncompress_udp("P_11", v, c) = u
    BY <1>0, <1>2, <2>2 DEF uncompress_udp
  <2> QED
    BY <1>n, <2>1, <2>3, Zenon
<1>5. CASE ~(IsFourBit(s) /\ IsFourBit(d)) /\ IsEightBit(d)
  <2> DEFINE v == <<s, d - EightBit>>
  <2>1. Sent("P_01", 3, v)
    BY <1>1, <1>2, <1>5, Zenon DEF compress_udp
  <2>2. v[1] = s /\ v[2] = d - EightBit
    OBVIOUS
  <2> HIDE DEF v, Sent
  <2>3. uncompress_udp("P_01", v, c) = u
    BY <1>0, <1>2, <2>2 DEF uncompress_udp
  <2> QED
    BY <1>n, <2>1, <2>3, Zenon
<1>6. CASE ~IsEightBit(d) /\ IsEightBit(s)
  <2> DEFINE v == <<s - EightBit, d>>
  <2>1. Sent("P_10", 3, v)
    BY <1>1, <1>2, <1>6, Zenon DEF compress_udp
  <2>2. v[1] = s - EightBit /\ v[2] = d
    OBVIOUS
  <2> HIDE DEF v, Sent
  <2>3. uncompress_udp("P_10", v, c) = u
    BY <1>0, <1>2, <2>2 DEF uncompress_udp
  <2> QED
    BY <1>n, <2>1, <2>3, Zenon
<1>7. CASE ~IsEightBit(d) /\ ~IsEightBit(s)
  <2> DEFINE v == <<s, d>>
  <2>1. Sent("P_00", 4, v)
    BY <1>1, <1>2, <1>7, Zenon DEF compress_udp
  <2>2. v[1] = s /\ v[2] = d
    OBVIOUS
  <2> HIDE DEF v, Sent
  <2>3. uncompress_udp("P_00", v, c) = u
    BY <1>0, <1>2, <2>2 DEF uncompress_udp
  <2> QED
    BY <1>n, <2>1, <2>3, Zenon
<1> HIDE DEF Good
<1> QED
  BY <1>2, <1>4, <1>5, <1>6, <1>7, Zenon

(* An address: what is in line, and that it comes back with the context it *)
(* was compressed with, unless its identifier has 16 bits.                 *)
LEMMA AddrPart ==
  ASSUME NEW c, NEW a, NEW l
  PROVE  LET e == compress_addr(c, a, l)
         IN  /\ IsPart(e.inline) /\ e.mode \in 0 .. 3
             /\ Len(e.inline) = IF e.mode = 3 THEN 0 ELSE 1
             /\ Compresses(c) => e.mode # 0
             /\ e.mode = 0 => e.inline[1].v = a
<1> DEFINE e == compress_addr(c, a, l)
           i == compress_iid(a, l)
<1>1. i.mode \in 1 .. 3 /\ IsPart(i.inline) /\ Len(i.inline) = IF i.mode = 3 THEN 0 ELSE 1
  <2>1. \/ i = [mode |-> 3, inline |-> <<>>]
        \/ i = [mode |-> 2, inline |-> Field(2, <<a.iid[2], a.iid[3]>>)]
        \/ i = [mode |-> 1, inline |-> Field(8, a.iid)]
    BY IidForms
  <2> HIDE DEF i
  <2>2. CASE i = [mode |-> 3, inline |-> <<>>]
    <3>1. i.mode = 3 /\ i.inline = <<>>
      BY <2>2
    <3> QED
      BY <3>1 DEF IsPart
  <2>3. CASE i = [mode |-> 2, inline |-> Field(2, <<a.iid[2], a.iid[3]>>)]
    <3>1. i.mode = 2 /\ i.inline = Field(2, <<a.iid[2], a.iid[3]>>)
      BY <2>3
    <3> QED
      BY <3>1, PartLen DEF IsPart
  <2>4. CASE i = [mode |-> 1, inline |-> Field(8, a.iid)]
    <3>1. i.mode = 1 /\ i.inline = Field(8, a.iid)
      BY <2>4
    <3> QED
      BY <3>1, PartLen DEF IsPart
  <2> QED
    BY <2>1, <2>2, <2>3, <2>4
<1>2. \/ e = [mode |-> 3, inline |-> <<>>]
      \/ e = i
      \/ ~Compresses(c) /\ e = [mode |-> 0, inline |-> Field(16, a)]
  BY AddrForms
<1> HIDE DEF e, i
<1>3. CASE e = [mode |-> 3, inline |-> <<>>]
  <2>1. e.mode = 3 /\ e.inline = <<>>
    BY <1>3
  <2> QED
    BY <2>1 DEF IsPart, e
<1>4. CASE e = i
  BY <1>1, <1>4 DEF e
<1>5. CASE ~Compresses(c) /\ e = [mode |-> 0, inline |-> Field(16, a)]
  <2>1. e.mode = 0 /\ e.inline = Field(16, a)
    BY <1>5
  <2> QED
    BY <1>5, <2>1, PartLen DEF IsPart, e
<1> QED
  BY <1>2, <1>3, <1>4, <1>5

(* An address with an identifier longer than 16 bits comes back.           *)
LEMMA AddrRestored ==
  ASSUME NEW t, IsTable(t), NEW a, NEW l, NEW k, NEW v,
         IsAddress(a), ~IsMulticast(a), ~IsShort(a),
         LET c == LookupByPrefix(t, a)
             e == compress_addr(c, a, l)
         IN  /\ Compresses(c) => k.prefix = c.prefix /\ k.length = c.length
             /\ Len(e.inline) = 1 => v = e.inline[1].v
  PROVE  LET c == LookupByPrefix(t, a)
         IN  uncompress_addr(Compresses(c), k, compress_addr(c, a, l).mode, v, l) = a
<1> DEFINE c == LookupByPrefix(t, a)
           e == compress_addr(c, a, l)
           i == compress_iid(a, l)
           r == uncompress_addr(Compresses(c), k, e.mode, v, l)
<1>s. SUFFICES r = a
  OBVIOUS
<1>1. c = NoContext \/ \E j \in ContextIds : FoundAt(c, t, a, j)
  BY LookupFound
<1>2. Compresses(c) => k.prefix = c.prefix /\ k.length = c.length
  OBVIOUS
<1>3. Len(e.inline) = 1 => v = e.inline[1].v
  OBVIOUS
<1>4. [pfx |-> a.pfx, iid |-> a.iid] = a
  BY DEF IsAddress, IsRecord
<1>5. \/ Compresses(c) /\ c.length = 128 /\ e = [mode |-> 3, inline |-> <<>>]
      \/ Compresses(c) /\ c.length # 128 /\ e = i
      \/ ~Compresses(c) /\ IsLinkLocal(a) /\ e = i
      \/ ~Compresses(c) /\ e = [mode |-> 0, inline |-> Field(16, a)]
  BY AddrForms
<1>6. \/ i = [mode |-> 3, inline |-> <<>>] /\ a.iid = OfMac(l)
      \/ i = [mode |-> 1, inline |-> Field(8, a.iid)]
  BY IidForms
<1>7. Compresses(c) => /\ c.prefix.pfx = a.pfx
                       /\ c.length = 128 => c.prefix = a
  <2> SUFFICES ASSUME Compresses(c)
               PROVE  c.prefix.pfx = a.pfx /\ (c.length = 128 => c.prefix = a)
    OBVIOUS
  <2> HIDE DEF c
  <2>1. PICK j \in ContextIds : FoundAt(c, t, a, j)
    BY <1>1 DEF Compresses, NoContext
  <2>2. /\ IsAddress(c.prefix) /\ ~IsMulticast(c.prefix) /\ c.prefix.pfx = a.pfx
        /\ c.length = 128 => c.prefix.iid = a.iid
    BY <2>1 DEF FoundAt, IsContext, PrefixMatches
  <2>3. [pfx |-> c.prefix.pfx, iid |-> c.prefix.iid] = c.prefix
    BY <2>2 DEF IsAddress, IsRecord
  <2> QED
    BY <1>4, <2>2, <2>3
<1> HIDE DEF c, e, i
<1>8. r = CASE e.mode = 0 /\ Compresses(c)                      -> Unspecified
            [] e.mode = 0 /\ ~Compresses(c)                     -> v
            [] e.mode # 0 /\ Compresses(c) /\ k.length = 128    -> k.prefix
            [] OTHER -> [pfx |-> IF Compresses(c) THEN k.prefix.pfx ELSE "ll",
                         iid |-> CASE e.mode = 1 -> v
                                   [] e.mode = 2 -> Mapped(<<v[1], v[1]>>)
                                   [] e.mode = 3 -> OfMac(l)]
  BY DEF uncompress_addr
<1> HIDE DEF r
<1>9. CASE Compresses(c) /\ c.length = 128 /\ e = [mode |-> 3, inline |-> <<>>]
  <2>1. e.mode = 3
    BY <1>9
  <2> QED
    BY <1>2, <1>7, <1>8, <1>9, <2>1
<1>10. CASE e = i /\ ((Compresses(c) /\ c.length # 128) \/ (~Compresses(c) /\ IsLinkLocal(a)))
  <2>1. (IF Compresses(c) THEN k.prefix.pfx ELSE "ll") = a.pfx /\ (Compresses(c) => k.length # 128)
    BY <1>2, <1>7, <1>10 DEF IsLinkLocal
  <2>2. CASE i = [mode |-> 3, inline |-> <<>>] /\ a.iid = OfMac(l)
    <3>1. e.mode = 3
      BY <1>10, <2>2
    <3>2. r = [pfx |-> a.pfx, iid |-> OfMac(l)]
      BY <1>8, <2>1, <3>1
    <3> QED
      BY <1>4, <2>2, <3>2
  <2>3. CASE i = [mode |-> 1, inline |-> Field(8, a.iid)]
    <3>1. e.mode = 1 /\ e.inline = Field(8, a.iid)
      BY <1>10, <2>3
    <3>2. v = a.iid
      BY <1>3, <3>1, PartLen
    <3>3. r = [pfx |-> a.pfx, iid |-> a.iid]
      BY <1>8, <2>1, <3>1, <3>2
    <3> QED
      BY <1>4, <3>3
  <2> QED
    BY <1>6, <2>2, <2>3
<1>11. CASE ~Compresses(c) /\ e = [mode |-> 0, inline |-> Field(16, a)]
  <2>1. e.mode = 0 /\ e.inline = Field(16, a)
    BY <1>11
  <2>2. v = a
    BY <1>3, <2>1, PartLen
  <2> QED
    BY <1>8, <1>11, <2>1, <2>2
<1> QED
  BY <1>5, <1>9, <1>10, <1>11

(* A group, unless the scope is lost.                                      *)
LEMMA GroupPart ==
  ASSUME NEW a, IsAddress(a), IsMulticast(a)
  PROVE  LET e == compress_mcast(a)
         IN  /\ IsPart(e.inline) /\ e.mode \in 0 .. 3 /\ Len(e.inline) = 1
             /\ (a.scope = LinkScope \/ a.iid[1] = "g128")
                  => uncompress_mcast(e.mode, e.inline[1].v) = a
<1> DEFINE e == compress_mcast(a)
           w == <<a.scope, a.iid>>
<1>0. \/ a.scope = LinkScope /\ e = [mode |-> 3, inline |-> Field(1, a.iid)]
      \/ a.iid[1] # "g128" /\ e = [mode |-> 2, inline |-> Field(4, w)]
      \/ a.iid[1] # "g128" /\ e = [mode |-> 1, inline |-> Field(6, w)]
      \/ e = [mode |-> 0, inline |-> Field(16, a)]
  BY McastForms
<1>1. [pfx |-> "mcast", scope |-> a.scope, iid |-> a.iid] = a
  BY DEF IsAddress, IsRecord, IsMulticast
<1>2. a.scope = LinkScope => Group(mcast_prefix, a.iid) = a
  BY <1>1 DEF Group, mcast_prefix
<1>3. w[2] = a.iid
  OBVIOUS
<1> HIDE DEF e, w
<1>4. ASSUME NEW n \in Nat, NEW m \in 0 .. 3, NEW v,
             e = [mode |-> m, inline |-> Field(n, v)],
             a.scope = LinkScope \/ a.iid[1] = "g128" => uncompress_mcast(m, v) = a
      PROVE  /\ IsPart(e.inline) /\ e.mode \in 0 .. 3 /\ Len(e.inline) = 1
             /\ (a.scope = LinkScope \/ a.iid[1] = "g128")
                  => uncompress_mcast(e.mode, e.inline[1].v) = a
  <2>1. e.mode = m /\ e.inline = Field(n, v)
    BY <1>4
  <2>2. IsPart(e.inline) /\ Len(e.inline) = 1 /\ e.inline[1].v = v
    BY <2>1, PartLen DEF IsPart
  <2> QED
    BY <1>4, <2>1, <2>2
<1>5. CASE a.scope = LinkScope /\ e = [mode |-> 3, inline |-> Field(1, a.iid)]
  <2>1. uncompress_mcast(3, a.iid) = a
    BY <1>2, <1>5 DEF uncompress_mcast
  <2> QED
    BY <1>4, <1>5, <2>1 DEF e
<1>6. CASE a.iid[1] # "g128" /\ e = [mode |-> 2, inline |-> Field(4, w)]
  <2>1. a.scope = LinkScope => uncompress_mcast(2, w) = a
    BY <1>2, <1>3 DEF uncompress_mcast
  <2> QED
    BY <1>4, <1>6, <2>1 DEF e
<1>7. CASE a.iid[1] # "g128" /\ e = [mode |-> 1, inline |-> Field(6, w)]
  <2>1. a.scope = LinkScope => uncompress_mcast(1, w) = a
    BY <1>2, <1>3 DEF uncompress_mcast
  <2> QED
    BY <1>4, <1>7, <2>1 DEF e
<1>8. CASE e = [mode |-> 0, inline |-> Field(16, a)]
  <2>1. uncompress_mcast(0, a) = a
    BY DEF uncompress_mcast
  <2> QED
    BY <1>4, <1>8, <2>1 DEF e
<1> QED
  BY <1>0, <1>5, <1>6, <1>7, <1>8

(* The parts of a compressed header.                                       *)
IdUsed(t, a) == LET c == LookupByPrefix(t, a) IN IF Compresses(c) THEN c.id ELSE 0
IdPart(t, p) ==
  IF IdUsed(t, p.src) # 0 \/ IdUsed(t, p.dst) # 0
  THEN Field(1, <<IdUsed(t, p.src), IdUsed(t, p.dst)>>) ELSE <<>>
NextPart(p) == IF p.proto = "udp" THEN <<>> ELSE Field(1, p.proto)
SrcPart(t, own, p) ==
  IF p.src = Unspecified THEN [mode |-> 0, inline |-> <<>>]
  ELSE compress_addr(LookupByPrefix(t, p.src), p.src, own)
DstPart(t, dest, p) ==
  IF IsMulticast(p.dst) THEN compress_mcast(p.dst)
  ELSE compress_addr(LookupByPrefix(t, p.dst), p.dst, dest)
UdpPart(p) == IF p.proto = "udp" THEN compress_udp(p.up) ELSE <<>>

IsCompressed(h, t, own, dest, p) ==
  /\ h.cid = (IdUsed(t, p.src) # 0 \/ IdUsed(t, p.dst) # 0)
  /\ h.sac = (Compresses(LookupByPrefix(t, p.src)) \/ p.src = Unspecified)
  /\ h.sam = SrcPart(t, own, p).mode
  /\ h.m = IsMulticast(p.dst)
  /\ h.dac = Compresses(LookupByPrefix(t, p.dst))
  /\ h.dam = DstPart(t, dest, p).mode
  /\ h.flc = (p.fl = 0) /\ h.tcc = (p.tc = 0) /\ h.nhc = (p.proto = "udp")
  /\ h.ttl = compress_ttl(p.hl).bits
  /\ h.inline = IdPart(t, p) \o compress_tf(p) \o NextPart(p) \o compress_ttl(p.hl).inline
                  \o SrcPart(t, own, p).inline \o DstPart(t, dest, p).inline \o UdpPart(p)

(* A compressed header is its seven parts, one after the other.            *)
LEMMA Compressed ==
  ASSUME NEW t, NEW own, NEW dest, NEW p
  PROVE  IsCompressed(compress_hdr_hc06(t, own, dest, p), t, own, dest, p)
<1> DEFINE h   == compress_hdr_hc06(t, own, dest, p)
           cid == IdUsed(t, p.src) # 0 \/ IdUsed(t, p.dst) # 0
           sac == Compresses(LookupByPrefix(t, p.src)) \/ p.src = Unspecified
           sam == SrcPart(t, own, p).mode
           m   == IsMulticast(p.dst)
           dac == Compresses(LookupByPrefix(t, p.dst))
           dam == DstPart(t, dest, p).mode
           flc == p.fl = 0
           tcc == p.tc = 0
           nhc == p.proto = "udp"
           ttl == compress_ttl(p.hl).bits
           all == IdPart(t, p) \o compress_tf(p) \o NextPart(p) \o compress_ttl(p.hl).inline
                    \o SrcPart(t, own, p).inline \o DstPart(t, dest, p).inline \o UdpPart(p)
<1>1. h = [cid |-> cid, sac |-> sac, sam |-> sam, m |-> m, dac |-> dac, dam |-> dam,
           flc |-> flc, tcc |-> tcc, nhc |-> nhc, ttl |-> ttl, inline |-> all]
  BY Zenon DEF compress_hdr_hc06, IdUsed, IdPart, NextPart, SrcPart, DstPart, UdpPart
<1> HIDE DEF h, cid, sac, sam, m, dac, dam, flc, tcc, nhc, ttl, all
<1>2. /\ h.cid = cid /\ h.sac = sac /\ h.sam = sam /\ h.m = m /\ h.dac = dac
      /\ h.dam = dam /\ h.flc = flc /\ h.tcc = tcc /\ h.nhc = nhc /\ h.ttl = ttl
      /\ h.inline = all
  BY <1>1
<1> QED
  BY <1>2 DEF IsCompressed, h, cid, sac, sam, m, dac, dam, flc, tcc, nhc, ttl, all

(* The byte of context ids is there when a context is used.                *)
LEMMA IdPartIs ==
  ASSUME NEW t, NEW p
  PROVE  LET q   == IdPart(t, p)
             cid == IdUsed(t, p.src) # 0 \/ IdUsed(t, p.dst) # 0
         IN  /\ IsPart(q) /\ Len(q) = IF cid THEN 1 ELSE 0
             /\ cid => q[1].v = <<IdUsed(t, p.src), IdUsed(t, p.dst)>>
<1> DEFINE q   == IdPart(t, p)
           cid == IdUsed(t, p.src) # 0 \/ IdUsed(t, p.dst) # 0
           v   == <<IdUsed(t, p.src), IdUsed(t, p.dst)>>
<1>1. (cid => q = Field(1, v)) /\ (~cid => q = <<>>)
  BY DEF IdPart
<1> HIDE DEF q, cid, v
<1>2. IsPart(q) /\ (Len(q) = IF cid THEN 1 ELSE 0) /\ (cid => q[1].v = v)
  BY <1>1, PartLen DEF IsPart
<1> QED
  BY <1>2 DEF q, cid, v

(* The next header is in line unless it is UDP's.                          *)
LEMMA NextPartIs ==
  ASSUME NEW p
  PROVE  LET q == NextPart(p)
         IN  /\ IsPart(q) /\ Len(q) = IF p.proto = "udp" THEN 0 ELSE 1
             /\ p.proto # "udp" => q[1].v = p.proto
<1> DEFINE q == NextPart(p)
<1>1. (p.proto # "udp" => q = Field(1, p.proto)) /\ (p.proto = "udp" => q = <<>>)
  BY DEF NextPart
<1> HIDE DEF q
<1>2. IsPart(q) /\ (Len(q) = IF p.proto = "udp" THEN 0 ELSE 1) /\ (p.proto # "udp" => q[1].v = p.proto)
  BY <1>1, PartLen DEF IsPart
<1> QED
  BY <1>2 DEF q

(* What is in line of the source.                                          *)
LEMMA SrcPartIs ==
  ASSUME NEW t, NEW own, NEW p
  PROVE  LET e   == SrcPart(t, own, p)
             sac == Compresses(LookupByPrefix(t, p.src)) \/ p.src = Unspecified
         IN  /\ IsPart(e.inline) /\ e.mode \in 0 .. 3
             /\ Len(e.inline) = IF e.mode = 3 \/ (sac /\ e.mode = 0) THEN 0 ELSE 1
<1> DEFINE c   == LookupByPrefix(t, p.src)
           e   == SrcPart(t, own, p)
           sac == Compresses(c) \/ p.src = Unspecified
<1>1. CASE p.src = Unspecified
  <2>1. e = [mode |-> 0, inline |-> <<>>]
    BY <1>1 DEF SrcPart
  <2> HIDE DEF e
  <2>2. e.mode = 0 /\ e.inline = <<>>
    BY <2>1
  <2> QED
    BY <1>1, <2>2 DEF IsPart, e
<1>2. CASE p.src # Unspecified
  <2> DEFINE a == compress_addr(c, p.src, own)
  <2>1. e = a
    BY <1>2 DEF SrcPart
  <2>2. /\ IsPart(a.inline) /\ a.mode \in 0 .. 3
        /\ Len(a.inline) = IF a.mode = 3 THEN 0 ELSE 1
        /\ Compresses(c) => a.mode # 0
    <3> HIDE DEF c
    <3> QED
      BY AddrPart
  <2> HIDE DEF e, a, c
  <2>3. IsPart(e.inline) /\ e.mode \in 0 .. 3
        /\ Len(e.inline) = IF e.mode = 3 \/ (sac /\ e.mode = 0) THEN 0 ELSE 1
    BY <1>2, <2>1, <2>2
  <2> QED
    BY <2>3 DEF e, c
<1> QED
  BY <1>1, <1>2

(* What is in line of the destination.                                     *)
LEMMA DstPartIs ==
  ASSUME NEW t, IsTable(t), NEW dest, NEW p, IsAddress(p.dst)
  PROVE  LET e   == DstPart(t, dest, p)
             dac == Compresses(LookupByPrefix(t, p.dst))
         IN  /\ IsPart(e.inline) /\ e.mode \in 0 .. 3
             /\ Len(e.inline) = IF (e.mode = 3 /\ ~IsMulticast(p.dst)) \/ (dac /\ e.mode = 0)
                                THEN 0 ELSE 1
<1> DEFINE c   == LookupByPrefix(t, p.dst)
           e   == DstPart(t, dest, p)
           dac == Compresses(c)
<1>1. CASE IsMulticast(p.dst)
  <2> DEFINE a == compress_mcast(p.dst)
  <2>1. e = a
    BY <1>1 DEF DstPart
  <2>2. IsPart(a.inline) /\ a.mode \in 0 .. 3 /\ Len(a.inline) = 1
    BY <1>1, GroupPart
  <2>3. ~dac
    BY <1>1, NoneForGroups DEF Compresses, NoContext
  <2> HIDE DEF e, a, c
  <2> QED
    BY <1>1, <2>1, <2>2, <2>3 DEF e, c
<1>2. CASE ~IsMulticast(p.dst)
  <2> DEFINE a == compress_addr(c, p.dst, dest)
  <2>1. e = a
    BY <1>2 DEF DstPart
  <2>2. /\ IsPart(a.inline) /\ a.mode \in 0 .. 3
        /\ Len(a.inline) = IF a.mode = 3 THEN 0 ELSE 1
        /\ Compresses(c) => a.mode # 0
    <3> HIDE DEF c
    <3> QED
      BY AddrPart
  <2> HIDE DEF e, a, c
  <2> QED
    BY <1>2, <2>1, <2>2 DEF e, c
<1> QED
  BY <1>1, <1>2

(* The UDP header is there when it is next, and gives the ports back.      *)
LEMMA UdpPartIs ==
  ASSUME NEW p, IsPorts(p.up)
  PROVE  LET q == UdpPart(p)
         IN  /\ IsPorted(q)
             /\ p.proto = "udp" => /\ Len(q) = 3
                                   /\ uncompress_udp(q[1].v, q[2].v, q[3].v) = p.up
<1> DEFINE q == UdpPart(p)
<1>1. CASE p.proto = "udp"
  <2>a. PICK n \in Nat : \E form, ports :
           /\ compress_udp(p.up) = Field(1, form) \o Field(n, ports) \o Field(2, p.up.sum)
           /\ uncompress_udp(form, ports, p.up.sum) = p.up
    BY PortsForm, Zenon
  <2>b. PICK form, ports :
           /\ compress_udp(p.up) = Field(1, form) \o Field(n, ports) \o Field(2, p.up.sum)
           /\ uncompress_udp(form, ports, p.up.sum) = p.up
    BY <2>a, Zenon
  <2>1. q = Field(1, form) \o Field(n, ports) \o Field(2, p.up.sum)
    BY <1>1, <2>b, Zenon DEF UdpPart
  <2> HIDE DEF q
  <2>2. Len(q) = 3 /\ q[1].v = form /\ q[2].v = ports /\ q[3].v = p.up.sum
    BY <2>1, PortedIs
  <2>3. IsPorted(q)
    BY <2>1, Zenon DEF IsPorted
  <2> QED
    BY <2>b, <2>2, <2>3, Zenon DEF q
<1>2. CASE p.proto # "udp"
  <2>1. q = <<>>
    BY <1>2 DEF UdpPart
  <2> QED
    BY <1>2, <2>1 DEF IsPorted
<1> QED
  BY <1>1, <1>2

(* What is uncompressed from a compressed header, given other addresses    *)
(* and another table: the fields are those of the packet, and the          *)
(* addresses made of what is in line for them.                             *)
AddrIn(h, c, v, l) == uncompress_addr(h.sac, c, h.sam, v, l)
AddrOut(h, c, v, l) ==
  IF h.m THEN uncompress_mcast(h.dam, v) ELSE uncompress_addr(h.dac, c, h.dam, v, l)
Refused(h, sc, dc) ==
  (h.sac /\ h.sam # 0 /\ sc.state = "free") \/ (h.dac /\ dc.state = "free")
InLine(e, v) == Len(e.inline) = 1 => v = e.inline[1].v
Restored(p, src, dst) ==
  [version |-> 6, tc |-> p.tc, fl |-> p.fl, proto |-> p.proto, hl |-> p.hl,
   src |-> src, dst |-> dst, up |-> p.up]

MadeOf(q, h, t, own, dest, p, u, sender, receiver) ==
  LET sc == u[IdUsed(t, p.src)]
      dc == u[IdUsed(t, p.dst)]
  IN  \E v, w :
        /\ InLine(SrcPart(t, own, p), v) /\ InLine(DstPart(t, dest, p), w)
        /\ q = IF Refused(h, sc, dc) THEN Garbage(h)
               ELSE Restored(p, AddrIn(h, sc, v, sender), AddrOut(h, dc, w, receiver))

(* Whatever the receiver's table and addresses, every field of the header  *)
(* but the addresses comes back.                                           *)
LEMMA FieldsRestored ==
  ASSUME NEW t, IsTable(t), NEW own, NEW dest, NEW p, IsHeader(p),
         NEW u, NEW sender, NEW receiver
  PROVE  LET h == compress_hdr_hc06(t, own, dest, p)
         IN  MadeOf(uncompress_hdr_hc06(u, sender, receiver, h), h, t, own, dest, p,
                    u, sender, receiver)
<1> DEFINE h  == compress_hdr_hc06(t, own, dest, p)
           A  == IdPart(t, p)
           T  == compress_tf(p)
           N  == NextPart(p)
           H  == compress_ttl(p.hl).inline
           B  == SrcPart(t, own, p).inline
           D  == DstPart(t, dest, p).inline
           U  == UdpPart(p)
           si == IdUsed(t, p.src)
           di == IdUsed(t, p.dst)
           s  == h.inline
           j0 == Len(A)
           j1 == j0 + Len(T)
           j2 == j1 + Len(N)
           j3 == j2 + Len(H)
           j4 == j3 + Len(B)
           j5 == j4 + Len(D)
<1>p. /\ p.tc \in 0 .. 255 /\ IsAddress(p.dst) /\ IsPorts(p.up)
      /\ p.version = 6 /\ (p.proto # "udp" => p.up = NoPorts)
  BY DEF IsHeader
<1>h. /\ h.cid = (si # 0 \/ di # 0)
      /\ h.sac = (Compresses(LookupByPrefix(t, p.src)) \/ p.src = Unspecified)
      /\ h.sam = SrcPart(t, own, p).mode
      /\ h.m = IsMulticast(p.dst)
      /\ h.dac = Compresses(LookupByPrefix(t, p.dst))
      /\ h.dam = DstPart(t, dest, p).mode
      /\ h.flc = (p.fl = 0) /\ h.tcc = (p.tc = 0) /\ h.nhc = (p.proto = "udp")
      /\ h.ttl = compress_ttl(p.hl).bits
      /\ s = A \o T \o N \o H \o B \o D \o U
  <2>1. IsCompressed(h, t, own, dest, p)
    BY Compressed
  <2> HIDE DEF h
  <2> QED
    BY <2>1 DEF IsCompressed
<1>a. /\ IsPart(A) /\ Len(A) = IF h.cid THEN 1 ELSE 0
      /\ h.cid => A[1].v = <<si, di>>
  <2> HIDE DEF h
  <2> QED
    BY <1>h, IdPartIs
<1>t. /\ IsPart(T) /\ Len(T) = IF h.flc /\ h.tcc THEN 0 ELSE 1
      /\ h.flc /\ ~h.tcc => FromLink(T[1].v) = p.tc
      /\ ~h.flc /\ h.tcc => T[1].v = p.fl
      /\ ~h.flc /\ ~h.tcc => FromLink(T[1].v[1]) = p.tc /\ T[1].v[2] = p.fl
  <2> HIDE DEF h
  <2> QED
    BY <1>p, <1>h, FlowAndClass
<1>n. /\ IsPart(N) /\ Len(N) = IF h.nhc THEN 0 ELSE 1
      /\ ~h.nhc => N[1].v = p.proto
  <2> HIDE DEF h
  <2> QED
    BY <1>h, NextPartIs
<1>l. /\ IsPart(H)
      /\ \/ h.ttl = 0 /\ Len(H) = 1 /\ H[1].v = p.hl
         \/ h.ttl \in 1 .. 3 /\ Len(H) = 0 /\ CompressedHops[h.ttl] = p.hl
  <2> HIDE DEF h
  <2> QED
    BY <1>h, HopLimit
<1>b. /\ IsPart(B)
      /\ Len(B) = IF h.sam = 3 \/ (h.sac /\ h.sam = 0) THEN 0 ELSE 1
  <2> HIDE DEF h
  <2> QED
    BY <1>h, SrcPartIs, ZenonT(30)
<1>d. /\ IsPart(D)
      /\ Len(D) = IF (h.dam = 3 /\ ~h.m) \/ (h.dac /\ h.dam = 0) THEN 0 ELSE 1
  <2> HIDE DEF h
  <2> QED
    BY <1>p, <1>h, DstPartIs
<1>u. /\ IsPorted(U)
      /\ h.nhc => Len(U) = 3 /\ uncompress_udp(U[1].v, U[2].v, U[3].v) = p.up
  <2> HIDE DEF h
  <2> QED
    BY <1>p, <1>h, UdpPartIs
<1> HIDE DEF A, T, N, H, B, D, U, si, di
<1> HIDE DEF h
<1>g. /\ IsPart(A) /\ IsPart(T) /\ IsPart(N) /\ IsPart(H) /\ IsPart(B) /\ IsPart(D)
      /\ IsPorted(U)
  BY <1>a, <1>t, <1>n, <1>l, <1>b, <1>d, <1>u
<1>s. PICK S : Fields(A, T, N, H, B, D, U, S)
  BY <1>g, PartsTogether, Zenon
<1>1. /\ A \in Seq(S) /\ T \in Seq(S) /\ N \in Seq(S) /\ H \in Seq(S)
      /\ B \in Seq(S) /\ D \in Seq(S) /\ U \in Seq(S)
  BY <1>s DEF Fields
<1>2. /\ Places(s, A, 0) /\ Places(s, T, j0) /\ Places(s, N, j1) /\ Places(s, H, j2)
      /\ Places(s, B, j3) /\ Places(s, D, j4) /\ Places(s, U, j5)
  <2> DEFINE all == A \o T \o N \o H \o B \o D \o U
  <2>0. SevenPlaced(A, T, N, H, B, D, U)
    BY <1>1, PlacesInSeven, Zenon
  <2>1. /\ Places(all, A, 0) /\ Places(all, T, j0) /\ Places(all, N, j1) /\ Places(all, H, j2)
        /\ Places(all, B, j3) /\ Places(all, D, j4) /\ Places(all, U, j5)
    BY <2>0, Zenon DEF SevenPlaced
  <2>2. s = all
    BY <1>h
  <2> HIDE DEF all
  <2> QED
    BY <2>1, <2>2
<1> DEFINE third == IF h.cid THEN s[1].v ELSE <<0, 0>>
           i0 == IF h.cid THEN 1 ELSE 0
           i1 == i0 + (IF h.flc /\ h.tcc THEN 0 ELSE 1)
           i2 == i1 + (IF h.nhc THEN 0 ELSE 1)
           i3 == i2 + (IF h.ttl = 0 THEN 1 ELSE 0)
           i4 == i3 + (IF h.sam = 3 \/ (h.sac /\ h.sam = 0) THEN 0 ELSE 1)
           i5 == i4 + (IF (h.dam = 3 /\ ~h.m) \/ (h.dac /\ h.dam = 0) THEN 0 ELSE 1)
           at(i) == s[i].v
           tf == IF h.flc THEN [fl |-> 0, tc |-> IF h.tcc THEN 0 ELSE FromLink(at(i1))]
                 ELSE IF h.tcc THEN [fl |-> at(i1), tc |-> 0]
                 ELSE [fl |-> at(i1)[2], tc |-> FromLink(at(i1)[1])]
           v == IF i4 > i3 THEN at(i4) ELSE Zero
           w == IF i5 > i4 THEN at(i5) ELSE Zero
           udp == uncompress_udp(at(i5 + 1), at(i5 + 2), at(i5 + 3))
           proto == IF h.nhc THEN "udp" ELSE at(i2)
           hl == IF h.ttl = 0 THEN at(i3) ELSE CompressedHops[h.ttl]
           up == IF h.nhc THEN udp ELSE [sport |-> 0, dport |-> 0, sum |-> Zero]
           dst == IF h.m THEN uncompress_mcast(h.dam, at(i5))
                  ELSE uncompress_addr(h.dac, u[third[2]], h.dam, w, receiver)
           q == uncompress_hdr_hc06(u, sender, receiver, h)
<1>q. q = IF Refused(h, u[third[1]], u[third[2]]) THEN Garbage(h)
          ELSE [version |-> 6, tc |-> tf.tc, fl |-> tf.fl, proto |-> proto, hl |-> hl,
                src |-> AddrIn(h, u[third[1]], v, sender), dst |-> dst, up |-> up]
  BY Zenon DEF uncompress_hdr_hc06, Refused, AddrIn
<1> HIDE DEF q
<1>3. /\ i0 = j0 /\ i1 = j1 /\ i2 = j2 /\ i3 = j3 /\ i4 = j4 /\ i5 = j5
      /\ j0 \in Nat /\ j1 \in Nat /\ j2 \in Nat /\ j3 \in Nat /\ j4 \in Nat /\ j5 \in Nat
      /\ j1 = j0 + Len(T) /\ j2 = j1 + Len(N) /\ j3 = j2 + Len(H) /\ j4 = j3 + Len(B)
      /\ j5 = j4 + Len(D)
  <2>0. i0 = j0 /\ j0 \in Nat
    BY <1>a
  <2> HIDE DEF i0, j0
  <2>1. i1 = j1 /\ j1 \in Nat /\ j1 = j0 + Len(T)
    BY <2>0, <1>t
  <2> HIDE DEF i1, j1
  <2>2. i2 = j2 /\ j2 \in Nat /\ j2 = j1 + Len(N)
    BY <2>1, <1>n
  <2> HIDE DEF i2, j2
  <2>3. i3 = j3 /\ j3 \in Nat /\ j3 = j2 + Len(H)
    <3>1. h.ttl = 0 => Len(H) = 1
      BY <1>l
    <3>2. h.ttl # 0 => Len(H) = 0
      BY <1>l
    <3>3. CASE h.ttl = 0
      <4>1. i3 = i2 + 1 /\ Len(H) = 1
        BY <3>1, <3>3
      <4> HIDE DEF i3
      <4> QED
        BY <2>2, <4>1
    <3>4. CASE h.ttl # 0
      <4>1. i3 = i2 + 0 /\ Len(H) = 0
        BY <3>2, <3>4
      <4> HIDE DEF i3
      <4> QED
        BY <2>2, <4>1
    <3> QED
      BY <3>3, <3>4
  <2> HIDE DEF i3, j3
  <2>4. i4 = j4 /\ j4 \in Nat /\ j4 = j3 + Len(B)
    BY <2>3, <1>b
  <2> HIDE DEF i4, j4
  <2>5. i5 = j5 /\ j5 \in Nat /\ j5 = j4 + Len(D)
    BY <2>4, <1>d
  <2> QED
    BY <2>0, <2>1, <2>2, <2>3, <2>4, <2>5
<1> HIDE DEF i0, i1, i2, i3, i4, i5, j0, j1, j2, j3, j4, j5
<1>4. third[1] = si /\ third[2] = di
  <2>1. CASE h.cid
    <3>1. A[1].v = <<si, di>> /\ 1 \in 1 .. Len(A)
      BY <1>a, <2>1
    <3>2. s[0 + 1] = A[1]
      BY <1>2, <3>1 DEF Places
    <3>3. third = <<si, di>>
      BY <2>1, <3>1, <3>2
    <3> QED
      BY <3>3
  <2>2. CASE ~h.cid
    <3>1. si = 0 /\ di = 0
      BY <1>h, <2>2
    <3> QED
      BY <2>2, <3>1
  <2> QED
    BY <2>1, <2>2
<1>5. tf.tc = p.tc /\ tf.fl = p.fl
  <2>1. ~(h.flc /\ h.tcc) => s[i1] = T[1]
    BY <1>2, <1>3, <1>t DEF Places
  <2> QED
    BY <1>h, <1>t, <2>1
<1>6. proto = p.proto
  <2>1. ~h.nhc => s[i2] = N[1]
    BY <1>2, <1>3, <1>n DEF Places
  <2> QED
    BY <1>h, <1>n, <2>1
<1>7. hl = p.hl
  <2>1. h.ttl = 0 => s[i3] = H[1]
    <3> SUFFICES ASSUME h.ttl = 0 PROVE s[i3] = H[1]
      OBVIOUS
    <3>1. Len(H) = 1
      BY <1>l
    <3> QED
      BY <1>2, <1>3, <3>1 DEF Places
  <2> QED
    BY <1>l, <2>1
<1>8. up = p.up
  <2>1. CASE h.nhc
    <3>1. s[i5 + 1] = U[1] /\ s[i5 + 2] = U[2] /\ s[i5 + 3] = U[3]
      <4>1. 1 \in 1 .. Len(U) /\ 2 \in 1 .. Len(U) /\ 3 \in 1 .. Len(U)
        <5>1. Len(U) = 3
          BY <1>u, <2>1
        <5> QED
          BY <5>1
      <4> QED
        BY <1>2, <1>3, <4>1 DEF Places
    <3> QED
      BY <1>u, <2>1, <3>1
  <2>2. CASE ~h.nhc
    <3>1. p.up = NoPorts
      BY <1>p, <1>h, <2>2
    <3> QED
      BY <2>2, <3>1 DEF NoPorts
  <2> QED
    BY <2>1, <2>2
<1>9. Len(B) = 1 => v = B[1].v
  <2> SUFFICES ASSUME Len(B) = 1 PROVE v = B[1].v
    OBVIOUS
  <2>1. s[j3 + 1] = B[1] /\ i4 = j3 + 1 /\ i4 > i3
    BY <1>2, <1>3 DEF Places
  <2> QED
    BY <2>1
<1>10. Len(D) = 1 => w = D[1].v
  <2> SUFFICES ASSUME Len(D) = 1 PROVE w = D[1].v
    OBVIOUS
  <2>1. s[j4 + 1] = D[1] /\ i5 = j4 + 1 /\ i5 > i4
    BY <1>2, <1>3 DEF Places
  <2> QED
    BY <2>1
<1>11. dst = AddrOut(h, u[di], w, receiver)
  <2>1. h.m => ~(h.dac /\ h.dam = 0)
    <3>1. h.m = IsMulticast(p.dst) /\ h.dac = Compresses(LookupByPrefix(t, p.dst))
      BY <1>h
    <3>2. IsMulticast(p.dst) => LookupByPrefix(t, p.dst) = NoContext
      BY NoneForGroups
    <3>3. ~Compresses(NoContext)
      BY DEF Compresses, NoContext
    <3> QED
      BY <3>1, <3>2, <3>3
  <2>2. h.m => i5 > i4
    <3> SUFFICES ASSUME h.m PROVE i5 > i4
      OBVIOUS
    <3>1. Len(D) = 1
      BY <1>d, <2>1
    <3> QED
      BY <1>3, <3>1
  <2>3. h.m => at(i5) = w
    BY <2>2
  <2> HIDE DEF w
  <2> QED
    BY <1>4, <2>3 DEF AddrOut
<1> HIDE DEF v, w, tf, proto, hl, up, dst, third
<1>12. q = IF Refused(h, u[si], u[di]) THEN Garbage(h)
           ELSE Restored(p, AddrIn(h, u[si], v, sender), AddrOut(h, u[di], w, receiver))
  BY <1>q, <1>4, <1>5, <1>6, <1>7, <1>8, <1>11 DEF Restored
<1>13. InLine(SrcPart(t, own, p), v) /\ InLine(DstPart(t, dest, p), w)
  BY <1>9, <1>10 DEF InLine, B, D
<1> QED
  BY <1>12, <1>13, Zenon DEF MadeOf, q, h, si, di

-----------------------------------------------------------------------------
(* Frames.                                                                 *)
LEMMA InlineBytes ==
  ASSUME NEW t, IsTable(t), NEW own, NEW dest, NEW p, IsHeader(p)
  PROVE  rime_hdr_len(compress_hdr_hc06(t, own, dest, p)) \in Nat
<1> DEFINE h  == compress_hdr_hc06(t, own, dest, p)
           A  == IdPart(t, p)
           T  == compress_tf(p)
           N  == NextPart(p)
           H  == compress_ttl(p.hl).inline
           B  == SrcPart(t, own, p).inline
           D  == DstPart(t, dest, p).inline
           U  == UdpPart(p)
<1>1. p.tc \in 0 .. 255 /\ IsAddress(p.dst) /\ IsPorts(p.up)
  BY DEF IsHeader
<1>2. IsPart(A) /\ IsPart(T) /\ IsPart(N) /\ IsPart(H)
  BY <1>1, IdPartIs, FlowAndClass, NextPartIs, HopLimit
<1>3. IsPart(B) /\ IsPart(D) /\ IsPorted(U)
  BY <1>1, SrcPartIs, DstPartIs, UdpPartIs
<1>4. h.inline = A \o T \o N \o H \o B \o D \o U
  <2>1. IsCompressed(h, t, own, dest, p)
    BY Compressed
  <2> HIDE DEF h
  <2> QED
    BY <2>1 DEF IsCompressed
<1> HIDE DEF h, A, T, N, H, B, D, U
<1>5. PICK S : Fields(A, T, N, H, B, D, U, S)
  BY <1>2, <1>3, PartsTogether, Zenon
<1>6. (\A x \in S : x.n \in Nat) /\ h.inline \in Seq(S)
  <2>1. A \o T \o N \o H \o B \o D \o U \in Seq(S)
    BY <1>5, PlacesInSeven DEF Fields
  <2> QED
    BY <1>4, <1>5, <2>1 DEF Fields
<1>7. Bytes(h.inline) \in Nat
  <2> DEFINE s == h.inline
             w == [k \in DOMAIN s |-> s[k].n]
  <2>1. PICK c : Sums(c, w, Len(s)) /\ Bytes(s) = c[Len(s)]
    BY <1>6, BytesSums
  <2>2. Len(s) \in 0 .. Len(s)
    BY <1>6
  <2> HIDE DEF s, w
  <2>3. c \in [0 .. Len(s) -> Nat]
    BY <2>1 DEF Sums
  <2> QED
    BY <2>1, <2>2, <2>3 DEF s
<1> QED
  BY <1>7 DEF rime_hdr_len, h

(* The header of the frame that n sends to dest: addresses of two bytes    *)
(* for all, of eight for one.                                              *)
FrameHead(own, dest) ==
  LET all == dest = NullMac
  IN  Field(1, [type |-> "data", compression |-> TRUE])
      \o Field(1, [dmode |-> IF all THEN "short" ELSE "long", smode |-> "long"])
      \o Field(1, 0) \o Field(2, Pan)
      \o Field(IF all THEN 2 ELSE 8, IF all THEN Broadcast ELSE dest)
      \o <<>> \o Field(8, own)
HeadLen(dest) == IF dest = NullMac THEN 15 ELSE 21

IsFrameHead(s, own, dest) ==
  /\ Len(s) = 6 /\ Bytes(s) = HeadLen(dest)
  /\ s[1].v.compression = TRUE
  /\ s[2].v.dmode = (IF dest = NullMac THEN "short" ELSE "long") /\ s[2].v.smode = "long"
  /\ s[4].v = Pan
  /\ s[5].v = (IF dest = NullMac THEN Broadcast ELSE dest)
  /\ s[6].v = own

(* The frame header: its fields and its length.                            *)
LEMMA FrameHeadIs ==
  ASSUME NEW own, NEW dest
  PROVE  IsFrameHead(FrameHead(own, dest), own, dest)
<1> DEFINE all == dest = NullMac
           a  == [type |-> "data", compression |-> TRUE]
           m  == [dmode |-> IF all THEN "short" ELSE "long", smode |-> "long"]
           k  == IF all THEN 2 ELSE 8
           d  == IF all THEN Broadcast ELSE dest
           A  == Field(1, a)
           T  == Field(1, m)
           N  == Field(1, 0)
           H  == Field(2, Pan)
           B  == Field(k, d)
           D  == <<>>
           U  == Field(8, own)
           s  == FrameHead(own, dest)
<1>1. a.compression = TRUE /\ m.dmode = (IF all THEN "short" ELSE "long") /\ m.smode = "long"
  BY Zenon
<1>2. k \in Nat /\ 3 + 2 + k + 8 = HeadLen(dest)
  BY DEF HeadLen
<1>3. s = A \o T \o N \o H \o B \o D \o U
  BY Zenon DEF FrameHead
<1> HIDE DEF s, a, m, k, d
<1> DEFINE S == {A[1], T[1], N[1], H[1], B[1], U[1]}
<1>5. /\ Len(A) = 1 /\ A[1].n = 1 /\ A[1].v = a
      /\ Len(T) = 1 /\ T[1].n = 1 /\ T[1].v = m
      /\ Len(N) = 1 /\ N[1].n = 1
      /\ Len(H) = 1 /\ H[1].n = 2 /\ H[1].v = Pan
      /\ Len(B) = 1 /\ B[1].n = k /\ B[1].v = d
      /\ Len(U) = 1 /\ U[1].n = 8 /\ U[1].v = own
  BY PartLen
<1>6. /\ A \in Seq(S) /\ T \in Seq(S) /\ N \in Seq(S) /\ H \in Seq(S)
      /\ B \in Seq(S) /\ D \in Seq(S) /\ U \in Seq(S)
  BY DEF Field
<1>7. \A x \in S : x.n \in Nat
  BY <1>2, <1>5
<1>8. Len(D) = 0
  OBVIOUS
<1> HIDE DEF A, T, N, H, B, D, U, S
<1>9. SevenPlaced(A, T, N, H, B, D, U) /\ s \in Seq(S)
  BY <1>3, <1>6, PlacesInSeven
<1>10. /\ Len(s) = 6
       /\ s[1] = A[1] /\ s[2] = T[1] /\ s[3] = N[1] /\ s[4] = H[1] /\ s[5] = B[1] /\ s[6] = U[1]
  <2>1. /\ Places(s, A, 0) /\ Places(s, T, 1) /\ Places(s, N, 2) /\ Places(s, H, 3)
        /\ Places(s, B, 4) /\ Places(s, U, 5) /\ Len(s) = 6
    BY <1>3, <1>5, <1>8, <1>9 DEF SevenPlaced
  <2> QED
    BY <1>5, <2>1 DEF Places
<1>11. Bytes(s) = HeadLen(dest)
  <2> DEFINE w == [j \in DOMAIN s |-> s[j].n]
  <2>1. PICK c : Sums(c, w, Len(s)) /\ Bytes(s) = c[Len(s)]
    BY <1>7, <1>9, BytesSums
  <2>2. DOMAIN s = 1 .. 6
    BY <1>9, <1>10
  <2>3. w[1] = 1 /\ w[2] = 1 /\ w[3] = 1 /\ w[4] = 2 /\ w[5] = k /\ w[6] = 8
    BY <1>5, <1>10, <2>2
  <2> HIDE DEF w
  <2>4. /\ c[0] = 0 /\ \A j \in 1 .. 6 : c[j] = c[j - 1] + w[j]
    BY <1>10, <2>1 DEF Sums
  <2>5. c[1] = c[0] + w[1] /\ c[2] = c[1] + w[2] /\ c[3] = c[2] + w[3]
        /\ c[4] = c[3] + w[4] /\ c[5] = c[4] + w[5] /\ c[6] = c[5] + w[6]
    BY <2>4
  <2>6. c[6] = 3 + 2 + k + 8
    BY <1>2, <2>3, <2>4, <2>5
  <2> QED
    BY <1>2, <1>10, <2>1, <2>6
<1>12. /\ s[1].v = a /\ s[2].v = m /\ s[4].v = Pan /\ s[5].v = d /\ s[6].v = own
  BY <1>5, <1>10
<1>13. /\ Len(s) = 6 /\ Bytes(s) = HeadLen(dest)
       /\ s[1].v.compression = TRUE
       /\ s[2].v.dmode = (IF all THEN "short" ELSE "long") /\ s[2].v.smode = "long"
       /\ s[4].v = Pan /\ s[5].v = d /\ s[6].v = own
  BY <1>1, <1>10, <1>11, <1>12
<1> QED
  BY <1>13 DEF IsFrameHead, s, d

SentAs(f, own, dest, len) ==
  f.sent => /\ f.hdr = FrameHead(own, dest)
            /\ packetbuf_totlen(f.buf) = HeadLen(dest) + len

(* What send_packet() makes of a packet.                                   *)
LEMMA FrameSent ==
  ASSUME NEW own, NEW dest, NEW len \in Nat
  PROVE  SentAs(send_packet(own, [packetbuf_clear EXCEPT !.receiver = dest, !.buflen = len]),
                own, dest, len)
<1> DEFINE b      == [packetbuf_clear EXCEPT !.receiver = dest, !.buflen = len]
           all    == dest = NullMac
           dmode  == IF all THEN "short" ELSE "long"
           daddr  == IF all THEN Broadcast ELSE dest
           params == [dmode |-> dmode, smode |-> "long", dpid |-> Pan, spid |-> Pan,
                      daddr |-> daddr, saddr |-> own]
           n      == field_len(params)
           size   == frame802154_hdrlen(params)
           f      == send_packet(own, b)
<1>1. \A x : LET g == [b EXCEPT !.hdrptr = x] IN g.hdrptr = x /\ g.buflen = len
  BY DEF packetbuf_clear, PACKETBUF_HDR_SIZE
<1>2. b.hdrptr = 48 /\ b.buflen = len /\ b.receiver = dest
  BY DEF packetbuf_clear, PACKETBUF_HDR_SIZE
<1> HIDE DEF b
<1>3. f = IF CanHdrAlloc(b, size)
          THEN [sent |-> TRUE, hdr |-> frame802154_create(params),
                buf |-> packetbuf_hdralloc(b, size)]
          ELSE [sent |-> FALSE]
  BY <1>2 DEF send_packet
<1>4. dmode \in {"short", "long"} /\ (all => dmode = "short") /\ (~all => dmode = "long")
  OBVIOUS
<1> HIDE DEF dmode, daddr
<1>5. /\ params.dmode = dmode /\ params.smode = "long" /\ params.dpid = Pan /\ params.spid = Pan
      /\ params.daddr = daddr /\ params.saddr = own
  OBVIOUS
<1> HIDE DEF params
<1>6. n = [compression |-> TRUE, dpid |-> 2, spid |-> 0,
           daddr |-> IF all THEN 2 ELSE 8, saddr |-> 8]
  BY <1>4, <1>5 DEF field_len, addr_len
<1> HIDE DEF n
<1>7. n.compression = TRUE /\ n.dpid = 2 /\ n.spid = 0
      /\ n.daddr = (IF all THEN 2 ELSE 8) /\ n.saddr = 8
  BY <1>6
<1>8. size = HeadLen(dest)
  BY <1>7 DEF frame802154_hdrlen, HeadLen, n
<1>9. frame802154_create(params) = FrameHead(own, dest)
  <2> DEFINE optional(k, v) == IF k = 0 THEN <<>> ELSE Field(k, v)
             a == Field(1, [type |-> "data", compression |-> TRUE])
             m == Field(1, [dmode |-> dmode, smode |-> "long"])
             z == Field(1, 0)
  <2>1. frame802154_create(params) =
          Field(1, [type |-> "data", compression |-> n.compression])
          \o Field(1, [dmode |-> params.dmode, smode |-> params.smode]) \o z
          \o optional(n.dpid, params.dpid) \o optional(n.daddr, params.daddr)
          \o optional(n.spid, params.spid) \o optional(n.saddr, params.saddr)
    BY DEF frame802154_create, n
  <2>2. frame802154_create(params) = a \o m \o z
          \o optional(n.dpid, Pan) \o optional(n.daddr, daddr)
          \o optional(n.spid, Pan) \o optional(n.saddr, own)
    BY <1>5, <1>7, <2>1
  <2>3. /\ optional(n.dpid, Pan) = Field(2, Pan)
        /\ optional(n.daddr, daddr) = Field(IF all THEN 2 ELSE 8, daddr)
        /\ optional(n.spid, Pan) = <<>> /\ optional(n.saddr, own) = Field(8, own)
    BY <1>7
  <2>4. FrameHead(own, dest) = a \o m \o z \o Field(2, Pan)
          \o Field(IF all THEN 2 ELSE 8, daddr) \o <<>> \o Field(8, own)
    BY Zenon DEF FrameHead, dmode, daddr
  <2> HIDE DEF optional, a, m, z
  <2> QED
    BY <2>2, <2>3, <2>4
<1> HIDE DEF f, params, size
<1>10. ASSUME f.sent
       PROVE  /\ f.hdr = FrameHead(own, dest)
              /\ packetbuf_totlen(f.buf) = HeadLen(dest) + len
  <2> DEFINE g == packetbuf_hdralloc(b, size)
  <2>0. [sent |-> FALSE].sent = FALSE
    OBVIOUS
  <2>1. f = [sent |-> TRUE, hdr |-> frame802154_create(params), buf |-> g]
    BY <1>3, <1>10, <2>0
  <2>2. g = [b EXCEPT !.hdrptr = 48 - size]
    BY <1>2 DEF packetbuf_hdralloc
  <2> HIDE DEF g
  <2>3. g.hdrptr = 48 - size /\ g.buflen = len
    BY <1>1, <2>2
  <2>4. f.hdr = frame802154_create(params) /\ f.buf = g
    BY <2>1
  <2>5. HeadLen(dest) \in Nat
    BY DEF HeadLen
  <2>6. packetbuf_totlen(g) = HeadLen(dest) + len
    BY <1>8, <2>3, <2>5 DEF packetbuf_totlen, PACKETBUF_HDR_SIZE
  <2> QED
    BY <1>9, <2>4, <2>6
<1> QED
  BY <1>10 DEF SentAs, f, b

(* What input_packet() makes of it: the link-layer addresses it was sent   *)
(* with.                                                                   *)
LEMMA FrameTaken ==
  ASSUME NEW own, NEW dest, NEW n, NEW len \in Nat, HeadLen(dest) + len <= 125
  PROVE  LET r == input_packet(n, FrameHead(own, dest), HeadLen(dest) + len)
         IN  r.taken => r.buf.sender = own /\ r.buf.receiver = dest
<1> DEFINE hdr == FrameHead(own, dest)
           all == dest = NullMac
           tot == HeadLen(dest) + len
           b   == packetbuf_copyfrom(tot)
           p   == frame802154_parse(hdr, b.buflen)
           k   == b.buflen - p.payload_len
           g   == packetbuf_hdrreduce(b, k)
           everyone == is_broadcast_addr(p.dmode, p.daddr)
           ok  == /\ CanHdrReduce(b, k)
                  /\ p.dmode # "none" => /\ p.dpid \in {Pan, BroadcastPan}
                                         /\ everyone \/ p.daddr = n
           to  == IF p.dmode = "none" \/ everyone THEN NullMac ELSE p.daddr
           r   == input_packet(n, hdr, tot)
<1>1. /\ Bytes(hdr) = HeadLen(dest)
      /\ hdr[1].v.compression = TRUE
      /\ hdr[2].v.dmode = (IF all THEN "short" ELSE "long") /\ hdr[2].v.smode = "long"
      /\ hdr[5].v = (IF all THEN Broadcast ELSE dest)
      /\ hdr[6].v = own
  <2>1. IsFrameHead(hdr, own, dest)
    BY FrameHeadIs
  <2> HIDE DEF hdr
  <2> QED
    BY <2>1 DEF IsFrameHead
<1>2. HeadLen(dest) \in Nat /\ tot \in Nat /\ tot <= 128
  BY DEF HeadLen
<1> HIDE DEF hdr
<1>r. r = IF ok THEN [taken |-> TRUE, buf |-> [g EXCEPT !.sender = p.saddr, !.receiver = to]]
          ELSE [taken |-> FALSE]
  BY DEF input_packet
<1>3. b = [hdrptr |-> 48, bufptr |-> 0, buflen |-> tot, sender |-> NullMac, receiver |-> NullMac]
  BY <1>2 DEF packetbuf_copyfrom, packetbuf_clear, PACKETBUF_HDR_SIZE, PACKETBUF_SIZE
<1> HIDE DEF tot
<1>4. p.dmode = (IF all THEN "short" ELSE "long") /\ p.daddr = (IF all THEN Broadcast ELSE dest)
      /\ p.saddr = own
  BY <1>1 DEF frame802154_parse
<1> HIDE DEF b, p
<1>5. to = dest
  BY <1>4 DEF is_broadcast_addr
<1> DEFINE e == [g EXCEPT !.sender = p.saddr, !.receiver = to]
<1>6. e.sender = p.saddr /\ e.receiver = to
  <2> HIDE DEF to, k
  <2> QED
    BY <1>3 DEF packetbuf_hdrreduce
<1>7. e.sender = own /\ e.receiver = dest
  <2> HIDE DEF e, to
  <2> QED
    BY <1>4, <1>5, <1>6
<1> HIDE DEF g, to, k, ok, r, everyone
<1>8. ASSUME r.taken PROVE r.buf.sender = own /\ r.buf.receiver = dest
  <2>0. [taken |-> FALSE].taken = FALSE
    OBVIOUS
  <2> HIDE DEF e
  <2>1. r = [taken |-> TRUE, buf |-> e]
    BY <1>r, <1>8, <2>0 DEF e
  <2>2. r.buf = e
    BY <2>1
  <2> QED
    BY <1>7, <2>2
<1> QED
  BY <1>8 DEF r, tot, hdr

-----------------------------------------------------------------------------
(* The contexts a header was compressed with.                              *)
LEMMA ContextNumbers ==
  ASSUME NEW t, IsTable(t), NEW own, NEW dest, NEW p, IsHeader(p)
  PROVE  LET h == compress_hdr_hc06(t, own, dest, p)
         IN  /\ (IF h.cid THEN h.inline[1].v[1] ELSE 0) = IdUsed(t, p.src)
             /\ (IF h.cid THEN h.inline[1].v[2] ELSE 0) = IdUsed(t, p.dst)
<1> DEFINE h  == compress_hdr_hc06(t, own, dest, p)
           A  == IdPart(t, p)
           T  == compress_tf(p)
           N  == NextPart(p)
           H  == compress_ttl(p.hl).inline
           B  == SrcPart(t, own, p).inline
           D  == DstPart(t, dest, p).inline
           U  == UdpPart(p)
           si == IdUsed(t, p.src)
           di == IdUsed(t, p.dst)
<1>1. p.tc \in 0 .. 255 /\ IsAddress(p.dst) /\ IsPorts(p.up)
  BY DEF IsHeader
<1>2. IsPart(A) /\ IsPart(T) /\ IsPart(N) /\ IsPart(H)
  BY <1>1, IdPartIs, FlowAndClass, NextPartIs, HopLimit
<1>3. IsPart(B) /\ IsPart(D) /\ IsPorted(U)
  BY <1>1, SrcPartIs, DstPartIs, UdpPartIs
<1>4. h.cid = (si # 0 \/ di # 0) /\ h.inline = A \o T \o N \o H \o B \o D \o U
  <2>1. IsCompressed(h, t, own, dest, p)
    BY Compressed
  <2> HIDE DEF h
  <2> QED
    BY <2>1 DEF IsCompressed
<1>5. (Len(A) = IF si # 0 \/ di # 0 THEN 1 ELSE 0) /\ (si # 0 \/ di # 0 => A[1].v = <<si, di>>)
  BY IdPartIs
<1> HIDE DEF h, A, T, N, H, B, D, U, si, di
<1>6. PICK S : Fields(A, T, N, H, B, D, U, S)
  BY <1>2, <1>3, PartsTogether, Zenon
<1>7. Places(h.inline, A, 0)
  <2>1. SevenPlaced(A, T, N, H, B, D, U)
    BY <1>6, PlacesInSeven DEF Fields
  <2> QED
    BY <1>4, <2>1 DEF SevenPlaced
<1>8. (IF h.cid THEN h.inline[1].v[1] ELSE 0) = si /\ (IF h.cid THEN h.inline[1].v[2] ELSE 0) = di
  <2>1. CASE si # 0 \/ di # 0
    <3>1. 1 \in 1 .. Len(A) /\ A[1].v = <<si, di>>
      BY <1>5, <2>1
    <3>2. h.inline[0 + 1] = A[1]
      BY <1>7, <3>1 DEF Places
    <3>3. h.inline[1].v = <<si, di>>
      BY <3>1, <3>2
    <3>4. h.inline[1].v[1] = si /\ h.inline[1].v[2] = di
      BY <3>3
    <3>5. h.cid
      BY <1>4, <2>1
    <3> QED
      BY <3>4, <3>5
  <2>2. CASE ~(si # 0 \/ di # 0)
    BY <1>4, <2>2
  <2> QED
    BY <2>1, <2>2
<1> QED
  BY <1>8 DEF h, si, di

(* A receiver that has the contexts recorded with a frame has those its    *)
(* addresses were compressed with.                                         *)
LEMMA UsedContexts ==
  ASSUME NEW t, IsTable(t), NEW own, NEW dest, NEW p, IsHeader(p), NEW table
  PROVE  LET h == compress_hdr_hc06(t, own, dest, p)
             Has(i) == /\ table[i] # NoContext /\ table[i].prefix = t[i].prefix
                       /\ table[i].length = t[i].length
         IN  (\A u \in ContextsUsed(t, h) : /\ table[u.id] # NoContext
                                            /\ table[u.id].prefix = u.prefix
                                            /\ table[u.id].length = u.length)
             => /\ h.sac /\ h.sam # 0 => Has(IdUsed(t, p.src))
                /\ h.dac => Has(IdUsed(t, p.dst))
<1> DEFINE h   == compress_hdr_hc06(t, own, dest, p)
           si  == IdUsed(t, p.src)
           di  == IdUsed(t, p.dst)
           ids == (IF h.sac /\ h.sam # 0 THEN {si} ELSE {}) \cup (IF h.dac THEN {di} ELSE {})
           rec(i) == [id |-> i, prefix |-> t[i].prefix, length |-> t[i].length]
           Has(i) == /\ table[i] # NoContext /\ table[i].prefix = t[i].prefix
                     /\ table[i].length = t[i].length
<1> SUFFICES ASSUME \A u \in ContextsUsed(t, h) : /\ table[u.id] # NoContext
                                                  /\ table[u.id].prefix = u.prefix
                                                  /\ table[u.id].length = u.length
             PROVE  (h.sac /\ h.sam # 0 => Has(si)) /\ (h.dac => Has(di))
  BY Zenon
<1>1. /\ (IF h.cid THEN h.inline[1].v[1] ELSE 0) = si
      /\ (IF h.cid THEN h.inline[1].v[2] ELSE 0) = di
  BY ContextNumbers
<1> HIDE DEF h, si, di
<1>2. ContextsUsed(t, h) = {rec(i) : i \in ids}
  BY <1>1 DEF ContextsUsed
<1>3. \A i \in ids : Has(i)
  <2> SUFFICES ASSUME NEW i \in ids PROVE Has(i)
    OBVIOUS
  <2> DEFINE u == rec(i)
  <2>1. u \in ContextsUsed(t, h)
    BY <1>2
  <2>2. u.id = i /\ u.prefix = t[i].prefix /\ u.length = t[i].length
    OBVIOUS
  <2> HIDE DEF u
  <2> QED
    BY <2>1, <2>2
<1> QED
  BY <1>3

(* A source that is a group's is carried in full.                          *)
LEMMA GroupInFull ==
  ASSUME NEW t, IsTable(t), NEW a, IsMulticast(a), NEW l, NEW k, NEW v,
         LET c == LookupByPrefix(t, a)
         IN  Len(compress_addr(c, a, l).inline) = 1 => v = compress_addr(c, a, l).inline[1].v
  PROVE  LET c == LookupByPrefix(t, a)
         IN  uncompress_addr(Compresses(c), k, compress_addr(c, a, l).mode, v, l) = a
<1> DEFINE c == LookupByPrefix(t, a)
           e == compress_addr(c, a, l)
<1>1. c = NoContext
  BY NoneForGroups
<1> HIDE DEF c
<1>2. ~Compresses(c)
  BY <1>1 DEF Compresses, NoContext
<1>3. e = [mode |-> 0, inline |-> Field(16, a)]
  BY <1>2 DEF compress_addr, IsMulticast, IsLinkLocal
<1>4. Len(e.inline) = 1 => v = e.inline[1].v
  BY DEF c
<1> HIDE DEF e
<1>5. e.mode = 0 /\ v = a
  BY <1>3, <1>4, PartLen
<1>6. uncompress_addr(Compresses(c), k, e.mode, v, l) = a
  BY <1>2, <1>5 DEF uncompress_addr
<1> QED
  BY <1>6 DEF e, c

(* What the source becomes is an address, whatever the contexts.           *)
LEMMA SourceIsAddress ==
  ASSUME NEW t, IsTable(t), NEW own, NEW dest, NEW p, IsHeader(p), NEW k, NEW v, NEW l,
         InLine(SrcPart(t, own, p), v),
         k = NoContext \/ IsContext(k),
         LET h == compress_hdr_hc06(t, own, dest, p) IN ~(h.sac /\ h.sam # 0 /\ k.state = "free")
  PROVE  IsAddress(AddrIn(compress_hdr_hc06(t, own, dest, p), k, v, l))
<1> DEFINE h == compress_hdr_hc06(t, own, dest, p)
           e == SrcPart(t, own, p)
           c == LookupByPrefix(t, p.src)
           r == AddrIn(h, k, v, l)
<1> SUFFICES IsAddress(r)
  OBVIOUS
<1>1. h.sac = (Compresses(c) \/ p.src = Unspecified) /\ h.sam = e.mode
  <2>1. IsCompressed(h, t, own, dest, p)
    BY Compressed
  <2> HIDE DEF h, e, c
  <2> QED
    BY <2>1 DEF IsCompressed, e, c
<1>2. e.mode \in 0 .. 3
  BY SrcPartIs
<1>3. p.src = Unspecified => e.mode = 0
  BY DEF SrcPart
<1>4. p.src # Unspecified => /\ Compresses(c) => e.mode # 0
                             /\ e.mode = 0 => Len(e.inline) = 1 /\ e.inline[1].v = p.src
  <2> SUFFICES ASSUME p.src # Unspecified
               PROVE  /\ Compresses(c) => e.mode # 0
                      /\ e.mode = 0 => Len(e.inline) = 1 /\ e.inline[1].v = p.src
    OBVIOUS
  <2>1. e = compress_addr(c, p.src, own)
    BY DEF SrcPart
  <2> HIDE DEF e, c
  <2>2. LET a == compress_addr(c, p.src, own)
        IN  /\ Len(a.inline) = IF a.mode = 3 THEN 0 ELSE 1
            /\ Compresses(c) => a.mode # 0
            /\ a.mode = 0 => a.inline[1].v = p.src
    BY AddrPart
  <2> QED
    BY <2>1, <2>2
<1>5. IsAddress(p.src) /\ IsAddress(Unspecified)
  BY DEF IsHeader, IsAddress, IsRecord, Unspecified, IsMulticast
<1>6. InLine(e, v) /\ ~(h.sac /\ h.sam # 0 /\ k.state = "free")
  OBVIOUS
<1> HIDE DEF h, e, c
<1>7. \A pfx, iid : pfx # "mcast" => IsAddress([pfx |-> pfx, iid |-> iid])
  BY DEF IsAddress, IsRecord, IsMulticast
<1>8. CASE h.sam = 0 /\ h.sac
  BY <1>5, <1>8 DEF AddrIn, uncompress_addr
<1>9. CASE h.sam = 0 /\ ~h.sac
  <2>1. v = p.src
    BY <1>1, <1>4, <1>6, <1>9 DEF InLine
  <2> QED
    BY <1>5, <1>9, <2>1 DEF AddrIn, uncompress_addr
<1>10. CASE h.sam # 0 /\ h.sac
  <2>1. IsContext(k)
    BY <1>6, <1>10 DEF NoContext
  <2>2. IsAddress(k.prefix) /\ k.prefix.pfx # "mcast"
    BY <2>1 DEF IsContext, IsMulticast
  <2>3. r = k.prefix \/ \E iid : r = [pfx |-> k.prefix.pfx, iid |-> iid]
    BY <1>10 DEF AddrIn, uncompress_addr
  <2> HIDE DEF r
  <2> QED
    BY <1>7, <2>2, <2>3 DEF r
<1>11. CASE h.sam # 0 /\ ~h.sac
  <2>3. \E iid : r = [pfx |-> "ll", iid |-> iid]
    BY <1>11 DEF AddrIn, uncompress_addr
  <2> HIDE DEF r
  <2> QED
    BY <1>7, <2>3 DEF r
<1> QED
  BY <1>8, <1>9, <1>10, <1>11

(* The id used for an address is that of the context found for it.         *)
LEMMA IdIs ==
  ASSUME NEW t, IsTable(t), NEW a
  PROVE  LET c == LookupByPrefix(t, a)
             i == IdUsed(t, a)
         IN  /\ i \in ContextIds
             /\ Compresses(c) => c.prefix = t[i].prefix /\ c.length = t[i].length
<1> DEFINE c == LookupByPrefix(t, a)
           i == IdUsed(t, a)
<1>1. c = NoContext \/ \E j \in ContextIds : FoundAt(c, t, a, j)
  BY LookupFound
<1>2. i = IF Compresses(c) THEN c.id ELSE 0
  BY DEF IdUsed
<1>3. 0 \in ContextIds
  BY DEF ContextIds
<1> HIDE DEF c, i
<1>4. CASE Compresses(c)
  <2>1. PICK j \in ContextIds : FoundAt(c, t, a, j)
    BY <1>1, <1>4 DEF Compresses, NoContext
  <2> QED
    BY <1>2, <1>4, <2>1 DEF FoundAt, c, i
<1>5. CASE ~Compresses(c)
  BY <1>2, <1>3, <1>5 DEF c, i
<1> QED
  BY <1>4, <1>5

(* A header comes back as it was, when the contexts it was compressed with *)
(* are there, if neither address is one that is lost.                      *)
LEMMA HeaderRestored ==
  ASSUME NEW t, IsTable(t), NEW table, IsTable(table), NEW own, NEW dest, NEW p, IsHeader(p),
         ~Lossy(p.src), ~Lossy(p.dst),
         \A u \in ContextsUsed(t, compress_hdr_hc06(t, own, dest, p)) :
           /\ table[u.id] # NoContext
           /\ table[u.id].prefix = u.prefix /\ table[u.id].length = u.length
  PROVE  uncompress_hdr_hc06(table, own, dest, compress_hdr_hc06(t, own, dest, p)) = p
<1> DEFINE h  == compress_hdr_hc06(t, own, dest, p)
           q  == uncompress_hdr_hc06(table, own, dest, h)
           si == IdUsed(t, p.src)
           di == IdUsed(t, p.dst)
           sc == LookupByPrefix(t, p.src)
           dc == LookupByPrefix(t, p.dst)
           e  == SrcPart(t, own, p)
           d  == DstPart(t, dest, p)
<1>1. PICK v, w : /\ InLine(e, v) /\ InLine(d, w)
                  /\ q = IF Refused(h, table[si], table[di]) THEN Garbage(h)
                         ELSE Restored(p, AddrIn(h, table[si], v, own), AddrOut(h, table[di], w, dest))
  <2>1. MadeOf(q, h, t, own, dest, p, table, own, dest)
    BY FieldsRestored, Zenon
  <2> HIDE DEF q, h
  <2> QED
    BY <2>1, Zenon DEF MadeOf
<1>2. /\ h.sac = (Compresses(sc) \/ p.src = Unspecified) /\ h.sam = e.mode
      /\ h.m = IsMulticast(p.dst) /\ h.dac = Compresses(dc) /\ h.dam = d.mode
  <2>1. IsCompressed(h, t, own, dest, p)
    BY Compressed
  <2> HIDE DEF h, e, d, sc, dc
  <2> QED
    BY <2>1, Zenon DEF IsCompressed, e, d, sc, dc
<1>3. /\ h.sac /\ h.sam # 0 => /\ table[si] # NoContext /\ table[si].prefix = t[si].prefix
                               /\ table[si].length = t[si].length
      /\ h.dac => /\ table[di] # NoContext /\ table[di].prefix = t[di].prefix
                  /\ table[di].length = t[di].length
  BY UsedContexts
<1>4. /\ si \in ContextIds /\ di \in ContextIds
      /\ Compresses(sc) => sc.prefix = t[si].prefix /\ sc.length = t[si].length
      /\ Compresses(dc) => dc.prefix = t[di].prefix /\ dc.length = t[di].length
  BY IdIs
<1>5. IsAddress(p.src) /\ IsAddress(p.dst)
  BY DEF IsHeader
<1>6. /\ p.src = Unspecified => e = [mode |-> 0, inline |-> <<>>]
      /\ p.src # Unspecified => e = compress_addr(sc, p.src, own)
      /\ IsMulticast(p.dst) => d = compress_mcast(p.dst)
      /\ ~IsMulticast(p.dst) => d = compress_addr(dc, p.dst, dest)
  BY DEF SrcPart, DstPart
<1>7. ~Refused(h, table[si], table[di])
  <2>1. \A i \in ContextIds : table[i] # NoContext => table[i].state # "free"
    BY DEF IsTable, IsContext
  <2> HIDE DEF h, si, di
  <2> QED
    BY <1>3, <1>4, <2>1 DEF Refused
<1>8. AddrIn(h, table[si], v, own) = p.src
  <2>1. CASE p.src = Unspecified
    <3>1. e.mode = 0
      BY <1>6, <2>1
    <3> HIDE DEF h, e
    <3> QED
      BY <1>2, <2>1, <3>1 DEF AddrIn, uncompress_addr
  <2>2. CASE p.src # Unspecified /\ IsMulticast(p.src)
    <3> HIDE DEF e
    <3>1. e = compress_addr(sc, p.src, own) /\ InLine(e, v)
      BY <1>1, <1>6, <2>2
    <3>2. uncompress_addr(Compresses(sc), table[si], e.mode, v, own) = p.src
      BY <2>2, <3>1, GroupInFull DEF InLine
    <3> HIDE DEF h, sc, si
    <3>3. h.sac = Compresses(sc) /\ h.sam = e.mode
      <4>1. h.sac = (Compresses(sc) \/ p.src = Unspecified) /\ h.sam = e.mode
        BY <1>2
      <4> QED
        BY <2>2, <4>1 DEF Compresses
    <3> QED
      BY <3>2, <3>3 DEF AddrIn
  <2>3. CASE p.src # Unspecified /\ ~IsMulticast(p.src)
    <3> HIDE DEF e
    <3>1. e = compress_addr(sc, p.src, own) /\ InLine(e, v)
      BY <1>1, <1>6, <2>3
    <3>2. h.sac = Compresses(sc) /\ h.sam = e.mode
      <4>1. h.sac = (Compresses(sc) \/ p.src = Unspecified) /\ h.sam = e.mode
        BY <1>2
      <4> HIDE DEF h, sc
      <4> QED
        BY <2>3, <4>1 DEF Compresses
    <3>3. Compresses(sc) => e.mode # 0
      <4> HIDE DEF sc
      <4> QED
        BY <3>1, AddrPart
    <3>4. Compresses(sc) => table[si].prefix = sc.prefix /\ table[si].length = sc.length
      <4> HIDE DEF sc, h, si
      <4> QED
        BY <1>3, <1>4, <3>2, <3>3
    <3>5. ~IsShort(p.src)
      BY <2>3 DEF Lossy
    <3>6. uncompress_addr(Compresses(sc), table[si], e.mode, v, own) = p.src
      <4> HIDE DEF si
      <4> QED
        BY <1>5, <2>3, <3>1, <3>4, <3>5, AddrRestored DEF InLine
    <3> HIDE DEF h, sc, si
    <3> QED
      BY <3>2, <3>6 DEF AddrIn
  <2> QED
    BY <2>1, <2>2, <2>3
<1>9. AddrOut(h, table[di], w, dest) = p.dst
  <2>1. CASE IsMulticast(p.dst)
    <3> HIDE DEF d
    <3>1. d = compress_mcast(p.dst) /\ InLine(d, w)
      BY <1>1, <1>6, <2>1
    <3>2. p.dst.scope = LinkScope \/ p.dst.iid[1] = "g128"
      BY <2>1 DEF Lossy
    <3>3. Len(d.inline) = 1 /\ uncompress_mcast(d.mode, d.inline[1].v) = p.dst
      BY <1>5, <2>1, <3>1, <3>2, GroupPart
    <3>4. h.m /\ h.dam = d.mode
      BY <1>2, <2>1
    <3> HIDE DEF h
    <3> QED
      BY <3>1, <3>3, <3>4 DEF InLine, AddrOut
  <2>2. CASE ~IsMulticast(p.dst)
    <3> HIDE DEF d
    <3>1. d = compress_addr(dc, p.dst, dest) /\ InLine(d, w)
      BY <1>1, <1>6, <2>2
    <3>2. ~h.m /\ h.dac = Compresses(dc) /\ h.dam = d.mode
      BY <1>2, <2>2
    <3>4. Compresses(dc) => table[di].prefix = dc.prefix /\ table[di].length = dc.length
      <4> HIDE DEF dc, h, di
      <4> QED
        BY <1>3, <1>4, <3>2
    <3>5. ~IsShort(p.dst)
      BY <2>2 DEF Lossy
    <3>6. uncompress_addr(Compresses(dc), table[di], d.mode, w, dest) = p.dst
      <4> HIDE DEF di
      <4> QED
        BY <1>5, <2>2, <3>1, <3>4, <3>5, AddrRestored DEF InLine
    <3> HIDE DEF h, dc, di
    <3> QED
      BY <3>2, <3>6 DEF AddrOut
  <2> QED
    BY <2>1, <2>2
<1>10. Restored(p, p.src, p.dst) = p
  BY DEF Restored, IsHeader, IsRecord
<1> HIDE DEF h, q, si, di
<1>11. q = p
  BY <1>1, <1>7, <1>8, <1>9, <1>10
<1> QED
  BY <1>11 DEF q, h

-----------------------------------------------------------------------------
(* The frames on the air: made by output() of a node from a packet.        *)
Made(f, t, dest) ==
  /\ IsTable(t)
  /\ f.mhr = FrameHead(f.from, dest)
  /\ f.h = compress_hdr_hc06(t, f.from, dest, f.orig)
  /\ f.used = ContextsUsed(t, f.h)
  /\ f.len = HeadLen(dest) + rime_hdr_len(f.h) + f.body.len
  /\ f.len <= 125

WellMade(f) ==
  /\ f.from \in Nodes /\ IsHeader(f.orig) /\ f.body.len \in Nat
  /\ \E t, dest : Made(f, t, dest)

(* What output() sends is well made.                                       *)
LEMMA OutputMade ==
  ASSUME NEW n \in Nodes, IsTable(ctx[n]), NEW dest, NEW pkt, IsHeader(pkt.p),
         pkt.body.len \in Nat, NEW f \in output(n, dest, pkt)
  PROVE  WellMade(f) /\ f.from = n /\ f.orig = pkt.p /\ f.body = pkt.body
<1> DEFINE h   == compress_hdr_hc06(ctx[n], n, dest, pkt.p)
           len == rime_hdr_len(h) + pkt.body.len
           b   == [packetbuf_clear EXCEPT !.receiver = dest, !.buflen = len]
           s   == send_packet(n, b)
           tot == packetbuf_totlen(s.buf)
           g   == [mhr |-> s.hdr, h |-> h, body |-> pkt.body, len |-> tot,
                   from |-> n, orig |-> pkt.p, used |-> ContextsUsed(ctx[n], h)]
<1>1. Fits(h, pkt.body.len) /\ s.sent /\ f = g
  BY DEF output
<1>2. rime_hdr_len(h) \in Nat /\ len \in Nat
  <2>1. rime_hdr_len(h) \in Nat
    BY InlineBytes
  <2> HIDE DEF h
  <2> QED
    BY <2>1
<1> HIDE DEF h
<1>3. rime_hdr_len(h) + pkt.body.len <= 102
  BY <1>1, <1>2 DEF Fits, MAC_MAX_PAYLOAD
<1>4. s.hdr = FrameHead(n, dest) /\ tot = HeadLen(dest) + len
  <2> HIDE DEF len
  <2>1. SentAs(s, n, dest, len)
    BY <1>2, FrameSent, Zenon
  <2> HIDE DEF s
  <2> QED
    BY <1>1, <2>1 DEF SentAs
<1> HIDE DEF s, tot
<1>5. /\ g.mhr = s.hdr /\ g.h = h /\ g.body = pkt.body /\ g.len = tot /\ g.from = n
      /\ g.orig = pkt.p /\ g.used = ContextsUsed(ctx[n], h)
  OBVIOUS
<1> HIDE DEF g
<1>6. tot = HeadLen(dest) + rime_hdr_len(h) + pkt.body.len /\ tot <= 125
  BY <1>2, <1>3, <1>4 DEF HeadLen
<1>7. Made(f, ctx[n], dest)
  BY <1>1, <1>4, <1>5, <1>6 DEF Made, h
<1> QED
  BY <1>1, <1>5, <1>7 DEF WellMade

(* What the receiver reads: the header that was sent, but for addresses.   *)
LEMMA FrameRead ==
  ASSUME NEW f, WellMade(f), NEW n, IsTable(ctx[n]), Taken(n, f)
  PROVE  LET q == Uncompressed(n, f)
         IN  q = Garbage(f.h) \/ \E src, dst : IsAddress(src) /\ q = Restored(f.orig, src, dst)
<1> DEFINE q == Uncompressed(n, f)
           p == f.orig
           m == f.from
<1>1. PICK t, dest : Made(f, t, dest)
  BY DEF WellMade
<1>2. IsHeader(p) /\ IsTable(t) /\ f.h = compress_hdr_hc06(t, m, dest, p)
  BY <1>1 DEF WellMade, Made
<1> DEFINE h == compress_hdr_hc06(t, m, dest, p)
           r == input_packet(n, f.mhr, f.len)
<1>3. q = uncompress_hdr_hc06(ctx[n], r.buf.sender, r.buf.receiver, h)
  BY <1>2 DEF Uncompressed
<1>4. MadeOf(q, h, t, m, dest, p, ctx[n], r.buf.sender, r.buf.receiver)
  BY <1>2, <1>3, FieldsRestored
<1> DEFINE k == ctx[n][IdUsed(t, p.src)]
           j == ctx[n][IdUsed(t, p.dst)]
           l == r.buf.sender
<1>5. k = NoContext \/ IsContext(k)
  <2>1. IdUsed(t, p.src) \in ContextIds
    BY <1>2, IdIs
  <2> QED
    BY <2>1 DEF IsTable
<1>6. PICK v, w : /\ InLine(SrcPart(t, m, p), v)
                  /\ q = IF Refused(h, k, j) THEN Garbage(h)
                         ELSE Restored(p, AddrIn(h, k, v, l), AddrOut(h, j, w, r.buf.receiver))
  <2> HIDE DEF q, h, r, p
  <2> QED
    BY <1>4, Zenon DEF MadeOf
<1>7. ~Refused(h, k, j) => IsAddress(AddrIn(h, k, v, l))
  <2> SUFFICES ASSUME ~Refused(h, k, j) PROVE IsAddress(AddrIn(h, k, v, l))
    OBVIOUS
  <2>1. ~(h.sac /\ h.sam # 0 /\ k.state = "free")
    BY DEF Refused
  <2> HIDE DEF k, l, p
  <2> QED
    BY <1>2, <1>5, <1>6, <2>1, SourceIsAddress
<1> HIDE DEF q, h, r, k, j, l
<1>8. q = Garbage(f.h) \/ \E src, dst : IsAddress(src) /\ q = Restored(p, src, dst)
  BY <1>2, <1>6, <1>7 DEF h
<1> QED
  BY <1>8 DEF q

(* With the contexts it was compressed with, and no address of those that  *)
(* lose something, a well-made frame gives its header back.                *)
LEMMA FrameRestored ==
  ASSUME NEW f, WellMade(f), NEW n, IsTable(ctx[n]), Taken(n, f),
         ~Lossy(f.orig.src), ~Lossy(f.orig.dst),
         \A u \in f.used : /\ ctx[n][u.id] # NoContext
                           /\ ctx[n][u.id].prefix = u.prefix
                           /\ ctx[n][u.id].length = u.length
  PROVE  Uncompressed(n, f) = f.orig
<1> DEFINE r == input_packet(n, f.mhr, f.len)
           m == f.from
<1>1. PICK t, dest : Made(f, t, dest)
  BY DEF WellMade
<1>2. /\ IsHeader(f.orig) /\ IsTable(t) /\ f.h = compress_hdr_hc06(t, m, dest, f.orig)
      /\ f.used = ContextsUsed(t, f.h) /\ f.body.len \in Nat
      /\ f.mhr = FrameHead(m, dest)
      /\ f.len = HeadLen(dest) + rime_hdr_len(f.h) + f.body.len /\ f.len <= 125
  BY <1>1 DEF WellMade, Made
<1>3. rime_hdr_len(f.h) + f.body.len \in Nat
      /\ f.len = HeadLen(dest) + (rime_hdr_len(f.h) + f.body.len)
  <2>1. rime_hdr_len(f.h) \in Nat
    BY <1>2, InlineBytes
  <2> QED
    BY <1>2, <2>1 DEF HeadLen
<1>4. r.taken
  BY DEF Taken
<1>5. r.buf.sender = m /\ r.buf.receiver = dest
  <2> DEFINE k == rime_hdr_len(f.h) + f.body.len
             z == input_packet(n, FrameHead(m, dest), HeadLen(dest) + k)
  <2>1. k \in Nat /\ HeadLen(dest) + k <= 125
    BY <1>2, <1>3
  <2>2. r = z
    BY <1>2, <1>3
  <2> HIDE DEF k
  <2>3. z.taken => z.buf.sender = m /\ z.buf.receiver = dest
    BY <2>1, FrameTaken
  <2> HIDE DEF r, z
  <2> QED
    BY <1>4, <2>2, <2>3
<1>6. Uncompressed(n, f) = uncompress_hdr_hc06(ctx[n], m, dest, compress_hdr_hc06(t, m, dest, f.orig))
  <2> HIDE DEF r
  <2> QED
    BY <1>2, <1>5 DEF Uncompressed, r
<1> QED
  BY <1>2, <1>6, HeaderRestored

-----------------------------------------------------------------------------
(* Packets with their checksums in place.                                  *)
PortFields == {"sport", "dport", "sum"}
BodyFields == {"exts", "upper", "up", "sum", "type", "len"}

(* Setting the sum of a UDP header leaves its ports.                       *)
LEMMA PortsSummed ==
  ASSUME NEW u, IsRecord(u, PortFields), NEW sum
  PROVE  LET v == [u EXCEPT !.sum = sum]
         IN  /\ IsRecord(v, PortFields)
             /\ v.sport = u.sport /\ v.dport = u.dport /\ v.sum = sum
BY DEF IsRecord, PortFields

(* Setting the sum in a compressible UDP header leaves the rest of the     *)
(* header.                                                                 *)
LEMMA HeaderSummed ==
  ASSUME NEW p, IsHeader(p), NEW sum, p.proto = "udp"
  PROVE  LET k == [p EXCEPT !.up.sum = sum]
         IN  /\ IsHeader(k) /\ k.src = p.src /\ k.dst = p.dst /\ k.proto = p.proto
             /\ k.up.sport = p.up.sport /\ k.up.dport = p.up.dport /\ k.up.sum = sum
<1> DEFINE k == [p EXCEPT !.up.sum = sum]
           v == [p.up EXCEPT !.sum = sum]
           F == {"version", "tc", "fl", "proto", "hl", "src", "dst", "up"}
<1>1. IsRecord(p, F)
  BY DEF IsHeader
<1>2. k = [p EXCEPT !.up = v]
  OBVIOUS
<1>3. /\ IsRecord(v, PortFields)
      /\ v.sport = p.up.sport /\ v.dport = p.up.dport /\ v.sum = sum
  BY PortsSummed DEF IsHeader, IsPorts, PortFields
<1> HIDE DEF v, k
<1>4. /\ IsRecord(k, F) /\ k.version = p.version /\ k.tc = p.tc /\ k.fl = p.fl
      /\ k.proto = p.proto /\ k.hl = p.hl /\ k.src = p.src /\ k.dst = p.dst /\ k.up = v
  BY <1>1, <1>2 DEF IsRecord
<1>5. IsPorts(v)
  BY <1>3 DEF IsHeader, IsPorts, PortFields
<1>6. IsHeader(k)
  BY <1>4, <1>5 DEF IsHeader
<1> QED
  BY <1>3, <1>4, <1>6 DEF k

(* Setting the sum of a body leaves the rest of it.                        *)
LEMMA BodySummed ==
  ASSUME NEW F, NEW b, IsRecord(b, F), BodyFields \subseteq F, NEW sum
  PROVE  LET k == [b EXCEPT !.sum = sum]
         IN  /\ IsRecord(k, F) /\ k.sum = sum
             /\ \A x \in F \ {"sum"} : k[x] = b[x]
BY DEF IsRecord, BodyFields

PortsIn(k, b, F, sum) ==
  /\ IsRecord(k, F) /\ IsRecord(k.up, PortFields)
  /\ k.up.sport = b.up.sport /\ k.up.dport = b.up.dport /\ k.up.sum = sum
  /\ \A x \in F \ {"up"} : k[x] = b[x]

(* Setting the sum of the UDP header in a body leaves the rest of both.    *)
LEMMA BodyPortsSummed ==
  ASSUME NEW F, NEW b, IsRecord(b, F), BodyFields \subseteq F, IsRecord(b.up, PortFields), NEW sum
  PROVE  PortsIn([b EXCEPT !.up.sum = sum], b, F, sum)
<1> DEFINE k == [b EXCEPT !.up.sum = sum]
           v == [b.up EXCEPT !.sum = sum]
<1>1. k = [b EXCEPT !.up = v]
  OBVIOUS
<1>2. /\ IsRecord(v, PortFields)
      /\ v.sport = b.up.sport /\ v.dport = b.up.dport /\ v.sum = sum
  BY PortsSummed
<1> HIDE DEF k, v
<1>3. IsRecord(k, F) /\ k.up = v /\ \A x \in F \ {"up"} : k[x] = b[x]
  BY <1>1 DEF IsRecord, BodyFields
<1> QED
  BY <1>2, <1>3 DEF PortsIn, k

SummedFrom(k, p, b, F) ==
  /\ IsHeader(k.p) /\ k.p.src = p.src /\ k.p.dst = p.dst /\ k.p.proto = p.proto
  /\ IsRecord(k.body, F) /\ \A x \in F \ {"up", "sum"} : k.body[x] = b[x]
  /\ IsRecord(k.body.up, PortFields)
  /\ k.body.up.sport = b.up.sport /\ k.body.up.dport = b.up.dport
  /\ ChecksumHolds(k.p, k.body)

(* WithSum() puts a checksum in its place, and nothing else changes.       *)
LEMMA SummedIs ==
  ASSUME NEW p, IsHeader(p), NEW F, NEW b, IsRecord(b, F), BodyFields \subseteq F,
         IsRecord(b.up, PortFields), b.upper = "udp" /\ b.exts = <<>> => p.proto = "udp",
         NEW sum \in PeerSums(p, b)
  PROVE  SummedFrom(WithSum(p, b, sum), p, b, F)
<1> DEFINE k == WithSum(p, b, sum)
<1>f. "exts" \in F \ {"up", "sum"} /\ "upper" \in F \ {"up", "sum"} /\ "type" \in F \ {"up", "sum"}
  BY DEF BodyFields
<1>s. sum = upper_layer_chksum(p, b) \/ (b.upper = "udp" /\ sum = Zero)
  BY DEF PeerSums
<1>1. CASE b.upper = "udp" /\ b.exts = <<>>
  <2> DEFINE h == [p EXCEPT !.up.sum = sum]
  <2>1. k = [p |-> h, body |-> b]
    BY <1>1 DEF WithSum
  <2>2. /\ IsHeader(h) /\ h.src = p.src /\ h.dst = p.dst /\ h.proto = p.proto
        /\ h.up.sport = p.up.sport /\ h.up.dport = p.up.dport /\ h.up.sum = sum
    BY <1>1, HeaderSummed
  <2> HIDE DEF k, h
  <2>3. k.p = h /\ k.body = b
    BY <2>1
  <2>4. upper_layer_chksum(h, b) = upper_layer_chksum(p, b)
    BY <1>1, <2>2 DEF upper_layer_chksum, Ports
  <2>5. ChecksumHolds(h, b)
    BY <1>1, <1>s, <2>2, <2>4 DEF ChecksumHolds, Unchecked, Ports
  <2> QED
    BY <2>2, <2>3, <2>5 DEF SummedFrom, k
<1>2. CASE b.upper = "udp" /\ b.exts # <<>>
  <2> DEFINE c == [b EXCEPT !.up.sum = sum]
  <2>1. k = [p |-> p, body |-> c]
    BY <1>2 DEF WithSum
  <2>2. /\ IsRecord(c, F) /\ IsRecord(c.up, PortFields)
        /\ c.up.sport = b.up.sport /\ c.up.dport = b.up.dport /\ c.up.sum = sum
        /\ \A x \in F \ {"up"} : c[x] = b[x]
    <3>1. PortsIn(c, b, F, sum)
      BY BodyPortsSummed
    <3> HIDE DEF c
    <3> QED
      BY <3>1 DEF PortsIn
  <2> HIDE DEF k, c
  <2>3. k.p = p /\ k.body = c
    BY <2>1
  <2>4. c.exts = b.exts /\ c.upper = b.upper /\ c.type = b.type
    BY <1>f, <2>2
  <2>5. upper_layer_chksum(p, c) = upper_layer_chksum(p, b)
    BY <1>2, <2>2, <2>4 DEF upper_layer_chksum, Ports
  <2>6. ChecksumHolds(p, c)
    BY <1>2, <1>s, <2>2, <2>4, <2>5 DEF ChecksumHolds, Unchecked, Ports
  <2> QED
    BY <2>2, <2>3, <2>6 DEF SummedFrom, k
<1>3. CASE b.upper # "udp"
  <2> DEFINE c == [b EXCEPT !.sum = sum]
  <2>1. k = [p |-> p, body |-> c]
    BY <1>3 DEF WithSum
  <2>2. IsRecord(c, F) /\ c.sum = sum /\ \A x \in F \ {"sum"} : c[x] = b[x]
    BY BodySummed
  <2> HIDE DEF k, c
  <2>3. k.p = p /\ k.body = c
    BY <2>1
  <2>4. c.exts = b.exts /\ c.upper = b.upper /\ c.type = b.type /\ c.up = b.up
    BY <1>f, <2>2 DEF BodyFields
  <2>5. upper_layer_chksum(p, c) = upper_layer_chksum(p, b)
    BY <2>4 DEF upper_layer_chksum, Ports
  <2>6. ChecksumHolds(p, c)
    BY <1>3, <1>s, <2>2, <2>4, <2>5 DEF ChecksumHolds
  <2> QED
    BY <2>2, <2>3, <2>4, <2>6 DEF SummedFrom, k
<1> QED
  BY <1>1, <1>2, <1>3

-----------------------------------------------------------------------------
(* The inductive invariant: tables of contexts, and at most one frame on   *)
(* the air, made by output() of a node from a packet that its sender may   *)
(* send.                                                                   *)
FromPeer(f) ==
  /\ IsBody(f.body) /\ ChecksumHolds(f.orig, f.body)
  /\ f.orig.proto = "udp" <=> f.body.upper = "udp" /\ f.body.exts = <<>>

OwnAddresses == {LinkLocal(Dev), Global, Unspecified}
AtFault(b)   == b.type = "error" => <<b.code, b.pointer>> \in Culprits(b.about.exts, b.about.upper)

FromDev(f) ==
  /\ f.orig.src \in OwnAddresses /\ f.orig.dst # Unspecified
  /\ AtFault(f.body)

Good(f) ==
  /\ WellMade(f)
  /\ f.from = Peer => FromPeer(f)
  /\ f.from = Dev => FromDev(f)

Tables == ctx = [n \in Nodes |-> ctx[n]] /\ \A n \in Nodes : IsTable(ctx[n])
OnAir  == air = <<>> \/ \E f : air = <<f>> /\ Good(f)
StackIInv == Tables /\ OnAir

(* What the device passes to tcpip_ipv6_output().                          *)
DevPacket(pkt) ==
  /\ IsHeader(pkt.p) /\ pkt.body.len \in Nat
  /\ pkt.p.src \in OwnAddresses /\ AtFault(pkt.body)

(* A packet of the device makes good frames.                               *)
LEMMA DevGood ==
  ASSUME Tables, NEW pkt, DevPacket(pkt), NEW f \in tcpip_ipv6_output(pkt)
  PROVE  Good(f)
<1>1. Dev \in Nodes /\ IsTable(ctx[Dev])
  BY DEF Tables, Nodes
<1>2. pkt.p.dst # Unspecified /\ \E l : f \in output(Dev, l, pkt)
  <2> DEFINE dst == pkt.p.dst
             S   == tcpip_ipv6_output(pkt)
  <2>1. dst # Unspecified
    <3> SUFFICES ASSUME dst = Unspecified PROVE FALSE
      OBVIOUS
    <3>0. ~IsMulticast(dst)
      BY DEF IsMulticast, Unspecified
    <3>1. S = {}
      BY <3>0, Zenon DEF tcpip_ipv6_output
    <3> QED
      BY <3>1
  <2>2. CASE IsMulticast(dst)
    <3>1. S = output(Dev, NullMac, pkt)
      BY <2>1, <2>2, Zenon DEF tcpip_ipv6_output
    <3> QED
      BY <2>1, <3>1
  <2>3. CASE ~IsMulticast(dst) /\ HasNextHop(dst)
    <3>1. S = UNION {output(Dev, l, pkt) : l \in NullRead}
      BY <2>1, <2>3, Zenon DEF tcpip_ipv6_output
    <3> QED
      BY <2>1, <3>1
  <2>4. CASE ~IsMulticast(dst) /\ ~HasNextHop(dst)
    <3>1. S = {}
      BY <2>1, <2>4, Zenon DEF tcpip_ipv6_output
    <3> QED
      BY <3>1
  <2> QED
    BY <2>2, <2>3, <2>4
<1>3. PICK l : f \in output(Dev, l, pkt)
  BY <1>2
<1>4. WellMade(f) /\ f.from = Dev /\ f.orig = pkt.p /\ f.body = pkt.body
  BY <1>1, <1>3, OutputMade DEF DevPacket
<1> QED
  BY <1>2, <1>4, NodesAssumption DEF Good, FromDev, DevPacket

(* A packet of the peer makes good frames.                                 *)
LEMMA PeerGood ==
  ASSUME Tables, NEW s \in PeerPackets, NEW sum \in PeerSums(s.p, s.body), NEW dest,
         NEW f \in output(Peer, dest, WithSum(s.p, s.body, sum))
  PROVE  Good(f)
<1> DEFINE k == WithSum(s.p, s.body, sum)
           p == s.p
           b == s.body
<1>1. Peer \in Nodes /\ IsTable(ctx[Peer])
  BY DEF Tables, Nodes
<1>2. /\ IsHeader(p) /\ IsBody(b)
      /\ p.proto = "udp" <=> b.upper = "udp" /\ b.exts = <<>>
  BY PeerAssumption
<1> HIDE DEF p, b
<1>3. IsRecord(b, BodyFields) /\ IsRecord(b.up, PortFields)
  BY <1>2 DEF IsBody, IsPorts, BodyFields, PortFields
<1>4. SummedFrom(k, p, b, BodyFields)
  BY <1>2, <1>3, SummedIs DEF p, b
<1> HIDE DEF k
<1>5. /\ IsHeader(k.p) /\ k.p.proto = p.proto /\ ChecksumHolds(k.p, k.body)
      /\ IsRecord(k.body, BodyFields)
      /\ k.body.exts = b.exts /\ k.body.upper = b.upper /\ k.body.len = b.len
      /\ IsRecord(k.body.up, PortFields)
      /\ k.body.up.sport = b.up.sport /\ k.body.up.dport = b.up.dport
  <2>1. \A x \in {"exts", "upper", "len"} : x \in BodyFields \ {"up", "sum"}
    BY DEF BodyFields
  <2> QED
    BY <1>4, <2>1 DEF SummedFrom
<1>6. IsBody(k.body)
  BY <1>2, <1>5 DEF IsBody, IsPorts, BodyFields, PortFields
<1>7. k.body.len \in Nat
  BY <1>6 DEF IsBody
<1>8. f \in output(Peer, dest, k)
  BY DEF k, p, b
<1>9. WellMade(f) /\ f.from = Peer /\ f.orig = k.p /\ f.body = k.body
  BY <1>1, <1>5, <1>7, <1>8, OutputMade
<1> QED
  BY <1>2, <1>5, <1>6, <1>9, NodesAssumption DEF Good, FromPeer

(* What was read differs from what was sent in addresses at most, and a    *)
(* checksum that holds for both leaves no address that differs.            *)
LEMMA Unmistaken ==
  ASSUME NEW f, Good(f), f.from = Peer, IsTable(ctx[Dev]), Taken(Dev, f), NEW upper,
         Reaches(Uncompressed(Dev, f), f.body, upper)
  PROVE  LET q == Uncompressed(Dev, f)
         IN  /\ [q EXCEPT !.src = f.orig.src, !.dst = f.orig.dst] = f.orig
             /\ ~Unchecked(q, f.body) => q = f.orig
<1> DEFINE q == Uncompressed(Dev, f)
           p == f.orig
           b == f.body
<1>1. WellMade(f) /\ FromPeer(f) /\ IsHeader(p)
  BY DEF Good, WellMade
<1>2. q = Garbage(f.h) \/ \E src, dst : IsAddress(src) /\ q = Restored(p, src, dst)
  <2> HIDE DEF p
  <2> QED
    BY <1>1, FrameRead DEF p
<1>3. "dst" \in DOMAIN q /\ ChecksumHolds(q, b)
  BY DEF Reaches, ForThisNode
<1>4. ChecksumHolds(p, b)
  BY <1>1 DEF FromPeer
<1> HIDE DEF q, p, b
<1>5. q # Garbage(f.h)
  BY <1>3 DEF Garbage
<1>6. PICK src, dst : q = Restored(p, src, dst)
  BY <1>2, <1>5
<1>7. q.src = src /\ q.dst = dst /\ q.up = p.up
  BY <1>6 DEF Restored
<1>8. Restored(p, p.src, p.dst) = p
  BY <1>1 DEF Restored, IsHeader, IsRecord
<1>9. [q EXCEPT !.src = p.src, !.dst = p.dst] = p
  <2>1. [q EXCEPT !.src = p.src, !.dst = p.dst] = [[q EXCEPT !.src = p.src] EXCEPT !.dst = p.dst]
    OBVIOUS
  <2>2. [q EXCEPT !.src = p.src] = Restored(p, p.src, dst)
    BY <1>6 DEF Restored
  <2>3. [Restored(p, p.src, dst) EXCEPT !.dst = p.dst] = Restored(p, p.src, p.dst)
    BY DEF Restored
  <2> QED
    BY <1>8, <2>1, <2>2, <2>3
<1>10. ASSUME ~Unchecked(q, b) PROVE q = p
  <2>1. upper_layer_chksum(q, b) = upper_layer_chksum(p, b)
    BY <1>3, <1>4, <1>7, <1>10 DEF ChecksumHolds, Unchecked, Ports
  <2>2. q.src = p.src /\ q.dst = p.dst
    BY <2>1 DEF upper_layer_chksum
  <2> QED
    BY <1>6, <1>7, <1>8, <2>2
<1> QED
  BY <1>9, <1>10 DEF q, p, b

(* The addresses of the device are addresses.                              *)
LEMMA OwnAreAddresses ==
  \A a \in OwnAddresses : IsAddress(a)
BY DEF OwnAddresses, IsAddress, IsRecord, LinkLocal, Global, Unspecified, IsMulticast

(* The source that is selected is one of the device's.                     *)
LEMMA SelectedIsOwn ==
  \A dst : uip_ds6_select_src(dst) \in OwnAddresses
<1> TAKE dst
<1>1. CASE IsLinkLocal(dst) \/ IsMulticast(dst)
  BY <1>1 DEF uip_ds6_select_src, OwnAddresses
<1>2. CASE ~IsLinkLocal(dst) /\ ~IsMulticast(dst)
  BY <1>2 DEF uip_ds6_select_src, OwnAddresses
<1> QED
  BY <1>1, <1>2

(* A header made by the device.                                            *)
LEMMA Header6Is ==
  ASSUME NEW src, IsAddress(src), NEW dst, IsAddress(dst), NEW proto, NEW up, IsPorts(up),
         proto # "udp" => up = NoPorts
  PROVE  LET p == Header6(src, dst, proto, up)
         IN  IsHeader(p) /\ p.src = src /\ p.dst = dst /\ p.proto = proto
<1> DEFINE p == Header6(src, dst, proto, up)
           hl == cur_hop_limit
<1>0. 0 \in FlowLabel
  BY SMT DEF FlowLabel
<1>1. 0 \in FlowLabel /\ hl \in 0 .. 255 /\ 0 \in 0 .. 255
  BY <1>0, SMT DEF cur_hop_limit
<1> HIDE DEF hl
<1>2. p = [version |-> 6, tc |-> 0, fl |-> 0, proto |-> proto, hl |-> hl,
           src |-> src, dst |-> dst, up |-> up]
  BY DEF Header6, hl
<1>3. IsRecord(p, {"version", "tc", "fl", "proto", "hl", "src", "dst", "up"})
  BY <1>2 DEF IsRecord
<1> HIDE DEF p
<1>4. /\ p.version = 6 /\ p.tc = 0 /\ p.fl = 0 /\ p.proto = proto /\ p.hl = hl
      /\ p.src = src /\ p.dst = dst /\ p.up = up
  BY <1>2
<1>5. IsHeader(p)
  BY <1>1, <1>3, <1>4 DEF IsHeader
<1> QED
  BY <1>4, <1>5 DEF p

(* A body without extension headers.                                       *)
LEMMA BodyIs ==
  ASSUME NEW upper, NEW type, NEW len
  PROVE  LET b == Body(upper, type, len)
         IN  /\ IsRecord(b, BodyFields) /\ IsRecord(b.up, PortFields)
             /\ b.upper = upper /\ b.exts = <<>> /\ b.type = type /\ b.len = len /\ b.up = NoPorts
<1> DEFINE b == Body(upper, type, len)
           u == NoPorts
           z == Zero
           n == <<>>
<1>1. IsRecord(u, PortFields)
  BY DEF IsRecord, PortFields, NoPorts
<1> HIDE DEF u, z, n
<1>2. b = [exts |-> n, upper |-> upper, up |-> u, sum |-> z, type |-> type, len |-> len]
  BY DEF Body, u, z, n
<1>3. IsRecord(b, BodyFields)
  BY <1>2 DEF IsRecord, BodyFields
<1> HIDE DEF b
<1>4. b.upper = upper /\ b.exts = n /\ b.type = type /\ b.len = len /\ b.up = u
  BY <1>2
<1> QED
  BY <1>1, <1>3, <1>4 DEF b, u, n

(* A UDP header before its checksum is computed.                           *)
LEMMA PortsOf ==
  ASSUME NEW s \in Port, NEW d \in Port
  PROVE  IsPorts([sport |-> s, dport |-> d, sum |-> Zero])
BY DEF IsPorts, IsRecord

(* The ports of the program are of 16 bits.                                *)
LEMMA PortConstants == 0 \in Port /\ LOCAL_PORT \in Port /\ REMOTE_PORT \in Port
BY SMT DEF Port, LOCAL_PORT, REMOTE_PORT

(* Even the ports of a packet that has none are ports.                     *)
LEMMA NoPortsIs == IsPorts(NoPorts)
BY PortConstants, PortsOf DEF NoPorts

(* With a checksum in place it is what the device sends.                   *)
LEMMA SummedGoes ==
  ASSUME NEW p, IsHeader(p), p.src \in OwnAddresses, NEW F, NEW b, IsRecord(b, F),
         BodyFields \subseteq F, IsRecord(b.up, PortFields), b.len \in Nat,
         b.upper = "udp" /\ b.exts = <<>> => p.proto = "udp",
         b.type = "error" => /\ {"code", "pointer", "about"} \subseteq F
                             /\ <<b.code, b.pointer>> \in Culprits(b.about.exts, b.about.upper)
  PROVE  DevPacket(Summed(p, b))
<1> DEFINE k == Summed(p, b)
<1>1. SummedFrom(k, p, b, F)
  <2> DEFINE sum == upper_layer_chksum(p, b)
  <2>1. sum \in PeerSums(p, b) /\ k = WithSum(p, b, sum)
    BY DEF PeerSums, Summed
  <2> HIDE DEF sum, k
  <2> QED
    BY <2>1, SummedIs
<1> HIDE DEF k
<1>2. /\ IsHeader(k.p) /\ k.p.src = p.src
      /\ k.body.len = b.len /\ k.body.type = b.type
  <2>1. \A x \in {"len", "type"} : x \in F \ {"up", "sum"}
    BY DEF BodyFields
  <2> QED
    BY <1>1, <2>1 DEF SummedFrom
<1>3. AtFault(k.body)
  <2> SUFFICES ASSUME b.type = "error"
               PROVE  <<k.body.code, k.body.pointer>> \in Culprits(k.body.about.exts, k.body.about.upper)
    BY <1>2 DEF AtFault
  <2>1. \A x \in {"code", "pointer", "about"} : x \in F \ {"up", "sum"}
    OBVIOUS
  <2>2. k.body.code = b.code /\ k.body.pointer = b.pointer /\ k.body.about = b.about
    BY <1>1, <2>1 DEF SummedFrom
  <2> QED
    BY <2>2
<1> QED
  BY <1>2, <1>3 DEF DevPacket, k

(* What the client sends is a packet of the device.                        *)
LEMMA AppPacket ==
  ASSUME NEW src \in OwnAddresses, NEW len \in Nat
  PROVE  DevPacket(Udp(src, LinkLocal(Peer), LOCAL_PORT, REMOTE_PORT, len))
<1> DEFINE up == [sport |-> LOCAL_PORT, dport |-> REMOTE_PORT, sum |-> Zero]
           p  == Header6(src, LinkLocal(Peer), "udp", up)
           b  == Body("udp", "data", len)
<1>1. IsAddress(src) /\ IsAddress(LinkLocal(Peer))
  BY OwnAreAddresses DEF IsAddress, IsRecord, LinkLocal, IsMulticast
<1>2. IsPorts(up)
  BY PortConstants, PortsOf, Zenon
<1> HIDE DEF up
<1>3. IsHeader(p) /\ p.src = src /\ p.proto = "udp"
  BY <1>1, <1>2, Header6Is
<1>4. /\ IsRecord(b, BodyFields) /\ IsRecord(b.up, PortFields)
      /\ b.type = "data" /\ b.len = len
  BY BodyIs
<1> HIDE DEF p, b
<1>5. DevPacket(Summed(p, b))
  BY <1>3, <1>4, SummedGoes
<1> QED
  BY <1>5 DEF Udp, p, b, up

(* The answers.                                                            *)
LEMMA ReplyHeader ==
  ASSUME NEW q, IsHeader(q), q.up = NoPorts, NEW src, IsAddress(src)
  PROVE  LET r == [q EXCEPT !.hl = cur_hop_limit, !.proto = "icmp6", !.dst = q.src, !.src = src]
         IN  IsHeader(r) /\ r.src = src
<1> DEFINE hl == cur_hop_limit
           r  == [q EXCEPT !.hl = hl, !.proto = "icmp6", !.dst = q.src, !.src = src]
           F  == {"version", "tc", "fl", "proto", "hl", "src", "dst", "up"}
<1>1. hl \in 0 .. 255
  BY DEF cur_hop_limit
<1> HIDE DEF hl
<1>2. IsRecord(q, F)
  BY DEF IsHeader
<1>3. IsRecord(r, F)
  BY <1>2 DEF IsRecord
<1>4. /\ r.version = q.version /\ r.tc = q.tc /\ r.fl = q.fl /\ r.proto = "icmp6" /\ r.hl = hl
      /\ r.src = src /\ r.dst = q.src /\ r.up = q.up
  BY <1>2 DEF IsRecord
<1> HIDE DEF r
<1>5. IsHeader(r)
  BY <1>1, <1>3, <1>4 DEF IsHeader
<1> QED
  BY <1>4, <1>5 DEF r, hl

(* A packet for this node and for no group is for an address of its own.   *)
LEMMA ToMe ==
  ASSUME NEW q, ForThisNode(q), ~IsMulticast(q.dst)
  PROVE  q.dst \in OwnAddresses
BY DEF ForThisNode, uip_ds6_is_my_addr, OwnAddresses

(* The length of a chain of headers is a number.                           *)
LEMMA LengthIsNat ==
  ASSUME NEW s \in Seq(ExtHeader)
  PROVE  Length(s) \in Nat
<1> DEFINE w == [k \in DOMAIN s |-> s[k].len]
<1>1. PICK c : Sums(c, w, Len(s)) /\ Length(s) = c[Len(s)]
  BY LengthSums
<1>2. Len(s) \in 0 .. Len(s)
  OBVIOUS
<1> HIDE DEF w
<1>3. c \in [0 .. Len(s) -> Nat]
  BY <1>1 DEF Sums
<1> QED
  BY <1>1, <1>2, <1>3

(* The answer to an echo request is a packet of the device.                *)
LEMMA EchoAnswered ==
  ASSUME NEW f, Good(f), f.from = Peer, IsTable(ctx[Dev]), Taken(Dev, f),
         IsEcho(Uncompressed(Dev, f), f.body)
  PROVE  DevPacket(EchoReply(Uncompressed(Dev, f), f.body))
<1> DEFINE q   == Uncompressed(Dev, f)
           b   == f.body
           src == IF IsMulticast(q.dst) THEN uip_ds6_select_src(q.src) ELSE q.dst
           len == b.len - Headers(q, b).ext_len
           r   == [q EXCEPT !.hl = cur_hop_limit, !.proto = "icmp6", !.dst = q.src, !.src = src]
           c   == Body("icmp6", "reply", len)
<1>1. Reaches(q, b, "icmp6")
  BY DEF IsEcho
<1>2. q = f.orig
  <2>1. b.upper # "udp"
    BY <1>1 DEF Reaches
  <2> QED
    BY <1>1, <2>1, Unmistaken DEF Unchecked
<1>3. FromPeer(f) /\ IsHeader(f.orig)
  BY DEF Good, WellMade
<1>4. ForThisNode(q) /\ Headers(q, b).fate = GoesOn /\ b.upper = "icmp6"
  BY <1>1 DEF Reaches
<1> HIDE DEF q, b
<1>5. IsHeader(q) /\ q.up = NoPorts /\ IsBody(b)
  <2>1. q.proto # "udp"
    BY <1>2, <1>3, <1>4 DEF FromPeer, b
  <2> QED
    BY <1>2, <1>3, <2>1 DEF FromPeer, IsHeader, b
<1>6. src \in OwnAddresses
  BY <1>4, ToMe, SelectedIsOwn
<1>7. len \in Nat
  <2>1. b.exts \in Seq(ExtHeader) /\ b.len \in Nat /\ b.len >= Length(b.exts)
    BY <1>5 DEF IsBody
  <2>2. Headers(q, b).ext_len = Length(b.exts)
    <3> DEFINE m   == IsMulticast(q.dst)
               acc == ExtensionHeaders(b.exts, b.upper, m)
    <3>1. acc.fate = GoesOn => acc.ext_len = Length(b.exts)
      <4> HIDE DEF m
      <4> QED
        BY <2>1, HeadersLocated
    <3>2. Headers(q, b) = acc
      BY DEF Headers
    <3> HIDE DEF acc
    <3> QED
      BY <1>4, <3>1, <3>2
  <2>3. Length(b.exts) \in Nat
    BY <2>1, LengthIsNat
  <2> QED
    BY <2>1, <2>2, <2>3
<1> HIDE DEF src, len
<1>8. IsHeader(r) /\ r.src \in OwnAddresses
  <2>1. IsAddress(src)
    BY <1>6, OwnAreAddresses
  <2>2. IsHeader(r) /\ r.src = src
    BY <1>5, <2>1, ReplyHeader
  <2> HIDE DEF r
  <2> QED
    BY <1>6, <2>2
<1>9. /\ IsRecord(c, BodyFields) /\ IsRecord(c.up, PortFields)
      /\ c.upper = "icmp6" /\ c.type = "reply" /\ c.len = len
  BY BodyIs
<1> HIDE DEF r, c
<1>10. DevPacket(Summed(r, c))
  BY <1>7, <1>8, <1>9, SummedGoes
<1>11. EchoReply(q, b) = Summed(r, c)
  BY Zenon DEF EchoReply, r, c, src, len
<1> QED
  BY <1>10, <1>11 DEF q, b

(* So is a Parameter Problem, which points at what is wrong.               *)
LEMMA ErrorAnswered ==
  ASSUME NEW f, Good(f), f.from = Peer, IsTable(ctx[Dev]), Taken(Dev, f),
         IsProblem(Uncompressed(Dev, f), f.body),
         NEW a \in uip_icmp6_error_output(Uncompressed(Dev, f), f.body)
  PROVE  DevPacket(a)
<1> DEFINE q     == Uncompressed(Dev, f)
           b     == f.body
           x     == Headers(q, b).fate
           src   == IF IsMulticast(q.dst) THEN uip_ds6_select_src(q.dst) ELSE q.dst
           len   == 8 + UIP_IPH_LEN + b.len
           about == [exts |-> b.exts, upper |-> b.upper]
           code  == x.code
           ptr   == x.pointer
           u     == NoPorts
           z     == Zero
           n     == <<>>
           h     == Header6(src, q.src, "icmp6", u)
           e     == [exts |-> n, upper |-> "icmp6", up |-> u, sum |-> z,
                     type |-> "error", len |-> len, code |-> code, pointer |-> ptr, about |-> about]
           F     == BodyFields \cup {"code", "pointer", "about"}
<1>1. WellMade(f) /\ FromPeer(f)
  BY DEF Good
<1>2. q = Garbage(f.h) \/ \E s, d : IsAddress(s) /\ q = Restored(f.orig, s, d)
  BY <1>1, FrameRead
<1>3. ForThisNode(q) /\ x.is = "problem"
  BY DEF IsProblem
<1>4. a = Summed(h, e)
  BY DEF uip_icmp6_error_output
<1>5. IsBody(b)
  BY <1>1 DEF FromPeer
<1>6. <<code, ptr>> \in Culprits(b.exts, b.upper)
  <2> DEFINE m   == IsMulticast(q.dst)
             acc == ExtensionHeaders(b.exts, b.upper, m)
  <2>1. b.exts \in Seq(ExtHeader)
    BY <1>5 DEF IsBody
  <2>2. acc.fate.is = "problem" => <<acc.fate.code, acc.fate.pointer>> \in Culprits(b.exts, b.upper)
    <3> HIDE DEF m, b
    <3> QED
      BY <2>1, HeadersLocated
  <2>3. x = acc.fate
    BY DEF Headers
  <2> HIDE DEF acc, x
  <2> QED
    BY <1>3, <2>2, <2>3
<1> HIDE DEF q, x, code, ptr, z, n
<1>7. IsAddress(q.src)
  <2>1. "dst" \in DOMAIN q
    BY <1>3 DEF ForThisNode
  <2>2. q # Garbage(f.h)
    BY <2>1 DEF Garbage
  <2>3. PICK s, d : IsAddress(s) /\ q = Restored(f.orig, s, d)
    BY <1>2, <2>2
  <2>4. q.src = s
    BY <2>3 DEF Restored
  <2> QED
    BY <2>3, <2>4
<1>8. src \in OwnAddresses /\ IsAddress(src)
  BY <1>3, ToMe, SelectedIsOwn, OwnAreAddresses
<1> HIDE DEF src
<1>9. IsHeader(h) /\ h.src \in OwnAddresses
  <2>1. IsPorts(u)
    BY NoPortsIs
  <2>2. IsHeader(h) /\ h.src = src
    BY <1>7, <1>8, <2>1, Header6Is
  <2> HIDE DEF h
  <2> QED
    BY <1>8, <2>2
<1>10. len \in Nat
  BY <1>5 DEF IsBody, UIP_IPH_LEN
<1>11. about.exts = b.exts /\ about.upper = b.upper
  OBVIOUS
<1>12. IsRecord(u, PortFields)
  BY NoPortsIs DEF IsPorts, PortFields
<1> HIDE DEF u, len, about, h
<1>13. IsRecord(e, F)
  BY DEF IsRecord, BodyFields
<1>14. /\ e.upper = "icmp6" /\ e.up = u /\ e.type = "error" /\ e.len = len
       /\ e.code = code /\ e.pointer = ptr /\ e.about = about
  OBVIOUS
<1> HIDE DEF e
<1>15. BodyFields \subseteq F /\ {"code", "pointer", "about"} \subseteq F
  OBVIOUS
<1> HIDE DEF F
<1>16. <<e.code, e.pointer>> \in Culprits(e.about.exts, e.about.upper)
  BY <1>6, <1>11, <1>14
<1>17. DevPacket(Summed(h, e))
  BY <1>9, <1>10, <1>12, <1>13, <1>14, <1>15, <1>16, SummedGoes
<1> QED
  BY <1>4, <1>17

(* So is any answer.                                                       *)
LEMMA AnswerGoes ==
  ASSUME NEW f, Good(f), f.from = Peer, IsTable(ctx[Dev]), Taken(Dev, f),
         NEW a \in Answer(Uncompressed(Dev, f), f.body)
  PROVE  DevPacket(a)
<1> DEFINE q == Uncompressed(Dev, f)
           b == f.body
<1>1. ~(IsEcho(q, b) /\ IsProblem(q, b))
  <2> HIDE DEF q, b
  <2> QED
    BY DEF IsEcho, Reaches, IsProblem, GoesOn
<1>2. CASE IsEcho(q, b)
  <2>1. Answer(q, b) = {EchoReply(q, b)}
    BY <1>1, <1>2, Zenon DEF Answer
  <2>2. a = EchoReply(q, b)
    BY <2>1
  <2> QED
    BY <1>2, <2>2, EchoAnswered
<1>3. CASE IsProblem(q, b)
  <2>1. Answer(q, b) = uip_icmp6_error_output(q, b)
    BY <1>1, <1>3, Zenon DEF Answer
  <2> QED
    BY <1>3, <2>1, ErrorAnswered
<1>4. CASE ~IsEcho(q, b) /\ ~IsProblem(q, b)
  <2>1. Answer(q, b) = {}
    BY <1>4, Zenon DEF Answer
  <2> QED
    BY <2>1
<1> QED
  BY <1>2, <1>3, <1>4

-----------------------------------------------------------------------------
(* The steps.                                                              *)
LEMMA Transmitted ==
  ASSUME NEW frames, \A g \in frames : Good(g), Transmit(<<>>, frames)
  PROVE  OnAir'
<1>1. CASE air' = <<>>
  BY <1>1 DEF OnAir
<1>2. CASE \E g \in frames : air' = Append(<<>>, g)
  <2>1. PICK g \in frames : air' = Append(<<>>, g)
    BY <1>2
  <2>2. air' = <<g>>
    BY <2>1
  <2> QED
    BY <2>2 DEF OnAir
<1> QED
  BY <1>1, <1>2 DEF Transmit

(* The tables stay when no step touches them,                              *)
LEMMA TablesKept ==
  ASSUME Tables, UNCHANGED ctx
  PROVE  Tables'
BY DEF Tables

(* and when one context of one node is set or dropped.                     *)
LEMMA TablesChanged ==
  ASSUME Tables, NEW n \in Nodes, NEW i \in ContextIds, NEW c, c = NoContext \/ IsContext(c),
         ctx' = [ctx EXCEPT ![n][i] = c]
  PROVE  Tables'
<1> DEFINE t == [ctx[n] EXCEPT ![i] = c]
<1>1. ctx' = [ctx EXCEPT ![n] = t]
  OBVIOUS
<1>2. IsTable(ctx[n])
  BY DEF Tables
<1>3. IsTable(t)
  BY <1>2 DEF IsTable
<1> HIDE DEF t
<1>4. \A m \in Nodes : ctx'[m] = IF m = n THEN t ELSE ctx[m]
  BY <1>1 DEF Tables
<1>5. ctx' = [m \in Nodes |-> ctx'[m]]
  BY <1>1 DEF Tables
<1>6. \A m \in Nodes : IsTable(ctx'[m])
  BY <1>3, <1>4 DEF Tables
<1> QED
  BY <1>5, <1>6 DEF Tables

(* The invariant holds at the start,                                       *)
LEMMA InitHolds == StackInit => StackIInv
<1> SUFFICES ASSUME StackInit PROVE StackIInv
  OBVIOUS
<1>1. Tables
  BY DEF StackInit, Tables, IsTable
<1>2. OnAir
  BY DEF StackInit, OnAir
<1> QED
  BY <1>1, <1>2 DEF StackIInv

(* and every step keeps it.                                                *)
LEMMA StepKeeps == StackIInv /\ [StackNext]_stackVars => StackIInv'
<1> SUFFICES ASSUME Tables, OnAir, [StackNext]_stackVars PROVE Tables' /\ OnAir'
  BY DEF StackIInv
<1>a. ASSUME UNCHANGED air PROVE OnAir'
  BY <1>a DEF OnAir
<1>n. Dev \in Nodes /\ Peer \in Nodes /\ IsTable(ctx[Dev]) /\ IsTable(ctx[Peer])
  BY DEF Tables, Nodes
<1>1. CASE Open
  BY <1>a, <1>1, TablesKept DEF Open
<1>2. CASE AppSend
  <2>1. UNCHANGED ctx /\ air = <<>>
    BY <1>2 DEF AppSend
  <2> DEFINE src     == uip_ds6_select_src(LinkLocal(Peer))
             pkt(len) == Udp(src, LinkLocal(Peer), LOCAL_PORT, REMOTE_PORT, len)
  <2>2. PICK len \in Lens : Transmit(<<>>, tcpip_ipv6_output(pkt(len)))
    BY <1>2, <2>1 DEF AppSend
  <2>3. len \in Nat
    BY NodesAssumption
  <2>4. src \in OwnAddresses
    BY SelectedIsOwn
  <2>5. DevPacket(pkt(len))
    <3> HIDE DEF src
    <3> QED
      BY <2>3, <2>4, AppPacket
  <2> DEFINE S == tcpip_ipv6_output(pkt(len))
  <2>6. \A g \in S : Good(g)
    <3> HIDE DEF pkt
    <3> QED
      BY <2>5, DevGood
  <2> HIDE DEF pkt, S
  <2>7. OnAir'
    BY <2>2, <2>6, Transmitted DEF S
  <2> QED
    BY <2>1, <2>7, TablesKept
<1>3. CASE Receive
  <2>1. UNCHANGED ctx /\ air # <<>>
    BY <1>3 DEF Receive
  <2>2. PICK f : air = <<f>> /\ Good(f)
    BY <2>1 DEF OnAir
  <2>3. Head(air) = f /\ Tail(air) = <<>> /\ f.from = Peer
    BY <1>3, <2>2 DEF Receive
  <2>4. OnAir'
    <3>1. CASE ~Taken(Dev, f)
      <4>1. air' = <<>>
        BY <1>3, <2>3, <3>1 DEF Receive
      <4> QED
        BY <4>1 DEF OnAir
    <3>2. CASE Taken(Dev, f)
      <4> DEFINE As == Answer(Uncompressed(Dev, f), f.body)
                 S  == UNION {tcpip_ipv6_output(a) : a \in As}
      <4>1. Transmit(<<>>, S)
        BY <1>3, <2>3, <3>2 DEF Receive
      <4>2. \A a \in As : DevPacket(a)
        BY <1>n, <2>2, <2>3, <3>2, AnswerGoes
      <4> HIDE DEF As
      <4>3. \A g \in S : Good(g)
        BY <4>2, DevGood
      <4> HIDE DEF S
      <4> QED
        BY <4>1, <4>3, Transmitted
    <3> QED
      BY <3>1, <3>2
  <2> QED
    BY <2>1, <2>4, TablesKept
<1>4. ASSUME NEW i \in ContextIds, Advertised(i) PROVE Tables' /\ OnAir'
  <2> DEFINE k == ctx[Peer][i]
             c == IF k = NoContext THEN NoContext
                  ELSE ContextOf(k.prefix, k.length, Compresses(k))
  <2>1. ctx' = [ctx EXCEPT ![Dev][i] = c] /\ UNCHANGED air
    BY <1>4 DEF Advertised
  <2>2. k = NoContext \/ IsContext(k)
    BY <1>n DEF IsTable
  <2>3. c = NoContext \/ IsContext(c)
    <3> HIDE DEF k
    <3>1. CASE k = NoContext
      BY <3>1
    <3>2. CASE k # NoContext
      <4> DEFINE st == IF Compresses(k) THEN "compress" ELSE "uncompress"
      <4>1. IsContext(k) /\ st \in {"compress", "uncompress"}
        BY <2>2, <3>2
      <4>2. c = [state |-> st, prefix |-> k.prefix, length |-> k.length]
        BY <3>2 DEF ContextOf
      <4> HIDE DEF st, c
      <4>3. IsRecord(c, {"state", "prefix", "length"})
            /\ c.state = st /\ c.prefix = k.prefix /\ c.length = k.length
        BY <4>2 DEF IsRecord
      <4> QED
        BY <4>1, <4>3 DEF IsContext
    <3> QED
      BY <3>1, <3>2
  <2> HIDE DEF c
  <2> QED
    BY <1>a, <1>n, <2>1, <2>3, TablesChanged
<1>5. ASSUME NEW i \in ContextIds, ContextTimeout(i) PROVE Tables' /\ OnAir'
  <2> DEFINE k == ctx[Dev][i]
             c == Aged(k)
  <2>1. ctx' = [ctx EXCEPT ![Dev][i] = c] /\ UNCHANGED air /\ k # NoContext
    BY <1>5 DEF ContextTimeout
  <2>2. IsContext(k)
    BY <1>n, <2>1 DEF IsTable
  <2>3. IsContext(c)
    <3> HIDE DEF k
    <3>1. IsRecord(c, {"state", "prefix", "length"})
          /\ c.state = "uncompress" /\ c.prefix = k.prefix /\ c.length = k.length
      BY <2>2 DEF IsContext, Aged, IsRecord
    <3> HIDE DEF c
    <3> QED
      BY <2>2, <3>1 DEF IsContext
  <2> HIDE DEF c
  <2> QED
    BY <1>a, <1>n, <2>1, <2>3, TablesChanged
<1>6. ASSUME NEW i \in ContextIds, PeerContext(i) PROVE Tables' /\ OnAir'
  <2>1. PICK c \in Offers[i] \cup {NoContext} : ctx' = [ctx EXCEPT ![Peer][i] = c]
    BY <1>6 DEF PeerContext
  <2>2. c = NoContext \/ IsContext(c)
    BY OffersAssumption
  <2>3. UNCHANGED air
    BY <1>6 DEF PeerContext
  <2> QED
    BY <1>a, <1>n, <2>1, <2>2, <2>3, TablesChanged
<1>7. ASSUME NEW to \in {"none", "tentative", "preferred"}, AddressChange(to)
      PROVE  Tables' /\ OnAir'
  BY <1>a, <1>7, TablesKept DEF AddressChange
<1>8. CASE RouterChange
  BY <1>a, <1>8, TablesKept DEF RouterChange
<1>9. CASE PeerSend
  <2>1. UNCHANGED ctx /\ air = <<>>
    BY <1>9 DEF PeerSend
  <2> DEFINE S(s, sum) == output(Peer, IF IsMulticast(s.p.dst) THEN NullMac ELSE s.to,
                                 WithSum(s.p, s.body, sum))
  <2>a. PICK s \in PeerPackets : \E sum \in PeerSums(s.p, s.body) : Transmit(<<>>, S(s, sum))
    BY <1>9, <2>1 DEF PeerSend
  <2>2. PICK sum \in PeerSums(s.p, s.body) : Transmit(<<>>, S(s, sum))
    BY <2>a
  <2>3. \A g \in S(s, sum) : Good(g)
    BY PeerGood
  <2> HIDE DEF S
  <2>4. OnAir'
    BY <2>2, <2>3, Transmitted
  <2> QED
    BY <2>1, <2>4, TablesKept
<1>10. CASE PeerReceive
  <2>1. UNCHANGED ctx /\ air # <<>> /\ air' = Tail(air)
    BY <1>10 DEF PeerReceive
  <2>a. PICK f : air = <<f>>
    BY <2>1 DEF OnAir
  <2>2. air' = <<>>
    BY <2>1, <2>a
  <2> QED
    BY <2>1, <2>2, TablesKept DEF OnAir
<1>11. CASE UNCHANGED stackVars
  BY <1>a, <1>11, TablesKept DEF stackVars
<1> QED
  BY <1>1, <1>2, <1>3, <1>4, <1>5, <1>6, <1>7, <1>8, <1>9, <1>10, <1>11 DEF StackNext

(* The data of a packet are where the client is given them just when there *)
(* are no extension headers.                                               *)
LEMMA DataPlace ==
  ASSUME NEW b, IsBody(b)
  PROVE  uip_appdata(b) = UdpData(b) <=> Length(b.exts) = 0
<1> DEFINE n == Length(b.exts)
<1>1. n \in Nat
  BY LengthIsNat DEF IsBody
<1>2. uip_len(b) \in Int /\ UIP_IPUDPH_LEN = 48
  BY DEF IsBody, uip_len, UIP_IPUDPH_LEN, UIP_IPH_LEN
<1>3. /\ uip_appdata(b) = [at |-> 48, len |-> uip_len(b) - 48]
      /\ UdpData(b) = [at |-> 48 + n, len |-> uip_len(b) - 48 - n]
  BY <1>2 DEF uip_appdata, UdpData
<1> HIDE DEF n
<1>4. n = 0 => uip_appdata(b) = UdpData(b)
  BY <1>1, <1>2, <1>3
<1>5. uip_appdata(b) = UdpData(b) => n = 0
  <2>1. uip_appdata(b) = UdpData(b) => 48 = 48 + n
    BY <1>3
  <2> QED
    BY <1>1, <2>1
<1> QED
  BY <1>4, <1>5 DEF n

(* What the properties say of a frame holds of every good one.             *)
LEMMA PropertiesHold ==
  ASSUME StackIInv
  PROVE  RoundTrip /\ NeverMistaken /\ OwnSource /\ WholeFrame /\ ProblemLocated
<1>0. Tables /\ OnAir /\ IsTable(ctx[Dev])
  BY DEF StackIInv, Tables, Nodes
<1>1. \A k \in DOMAIN air : Good(air[k])
  BY <1>0 DEF OnAir
<1>2. RoundTrip
  <2> SUFFICES ASSUME NEW k \in DOMAIN air,
                      \A u \in air[k].used :
                        /\ ctx[Receiver(air[k])][u.id] # NoContext
                        /\ ctx[Receiver(air[k])][u.id].prefix = u.prefix
                        /\ ctx[Receiver(air[k])][u.id].length = u.length,
                      Taken(Receiver(air[k]), air[k]),
                      ~Lossy(air[k].orig.src), ~Lossy(air[k].orig.dst)
               PROVE  Uncompressed(Receiver(air[k]), air[k]) = air[k].orig
    BY DEF RoundTrip
  <2> DEFINE f == air[k]
             n == Receiver(f)
  <2>1. WellMade(f)
    BY <1>1 DEF Good
  <2>2. IsTable(ctx[n])
    BY <1>0 DEF Tables, Nodes, Receiver
  <2> HIDE DEF f, n
  <2> QED
    BY <2>1, <2>2, FrameRestored DEF f, n
<1>3. NeverMistaken
  <2> SUFFICES ASSUME NEW k \in DOMAIN air, air[k].from = Peer, Taken(Dev, air[k]),
                      \/ ToClient(Uncompressed(Dev, air[k]), air[k].body)
                      \/ IsEcho(Uncompressed(Dev, air[k]), air[k].body)
               PROVE  LET f == air[k]
                          q == Uncompressed(Dev, f)
                      IN  /\ [q EXCEPT !.src = f.orig.src, !.dst = f.orig.dst] = f.orig
                          /\ ~Unchecked(q, f.body) => q = f.orig
                          /\ uip_appdata(f.body) = UdpData(f.body) <=> Length(f.body.exts) = 0
    BY DEF NeverMistaken
  <2> DEFINE f == air[k]
  <2>1. Good(f) /\ FromPeer(f)
    BY <1>1 DEF Good
  <2>2. \E upper : Reaches(Uncompressed(Dev, f), f.body, upper)
    BY DEF ToClient, IsEcho
  <2>3. uip_appdata(f.body) = UdpData(f.body) <=> Length(f.body.exts) = 0
    BY <2>1, DataPlace DEF FromPeer
  <2> QED
    BY <1>0, <2>1, <2>2, <2>3, Unmistaken
<1>4. OwnSource /\ ProblemLocated
  BY <1>1 DEF OwnSource, ProblemLocated, Good, FromDev, OwnAddresses, AtFault
<1>5. WholeFrame
  <2> SUFFICES ASSUME NEW k \in DOMAIN air
               PROVE  /\ air[k].len <= 125
                      /\ air[k].len = Bytes(air[k].mhr) + rime_hdr_len(air[k].h) + air[k].body.len
    BY DEF WholeFrame
  <2> DEFINE f == air[k]
  <2>1. PICK t, dest : Made(f, t, dest)
    BY <1>1 DEF Good, WellMade
  <2> HIDE DEF f
  <2>2. Bytes(f.mhr) = HeadLen(dest)
    <3>1. f.mhr = FrameHead(f.from, dest)
      BY <2>1 DEF Made
    <3>2. IsFrameHead(FrameHead(f.from, dest), f.from, dest)
      BY FrameHeadIs
    <3> QED
      BY <3>1, <3>2 DEF IsFrameHead
  <2> QED
    BY <2>1, <2>2 DEF Made, f
<1> QED
  BY <1>2, <1>3, <1>4, <1>5

(* The state of the packet path stays what the proofs take it to be.       *)
THEOREM StackInductive == StackSpec => []StackIInv
BY InitHolds, StepKeeps, PTL DEF StackSpec

(* Whatever the table of contexts and the addresses of a packet: what a    *)
(* receiver uncompresses is the header that was compressed, if it has the  *)
(* contexts it was compressed with and no address is one of those that     *)
(* are lost.                                                               *)
THEOREM StackRoundTrip == StackSpec => []RoundTrip
BY StackInductive, PropertiesHold, PTL

(* The device never takes a packet that carries a checksum for another     *)
(* one, with whatever contexts it was compressed and is uncompressed: the  *)
(* sum, over the addresses of the packet that was sent, would not hold.  A *)
(* UDP packet without one it may take with other addresses, and nothing    *)
(* else is wrong in its header; the data of a packet reach the client just *)
(* when it has no extension headers.                                       *)
THEOREM StackNeverMistaken == StackSpec => []NeverMistaken
BY StackInductive, PropertiesHold, PTL

(* The device sends in its own name, to any address that is one.           *)
THEOREM StackOwnSource == StackSpec => []OwnSource
BY StackInductive, PropertiesHold, PTL

(* A frame that is sent fits, with its header, in what the radio can send. *)
THEOREM StackWholeFrame == StackSpec => []WholeFrame
BY StackInductive, PropertiesHold, PTL

(* The pointer of a Parameter Problem is at what is wrong, after any chain *)
(* of extension headers with any options.                                  *)
THEOREM StackProblemLocated == StackSpec => []ProblemLocated
BY StackInductive, PropertiesHold, PTL

(* The flags of the device.                                                *)
FlagsOK ==
  /\ global \in {"none", "tentative", "preferred"}
  /\ hasrouter \in BOOLEAN /\ conn \in BOOLEAN

(* Every step keeps the flags typed.                                       *)
LEMMA FlagsKept == FlagsOK /\ [StackNext]_stackVars => FlagsOK'
<1> SUFFICES ASSUME FlagsOK, [StackNext]_stackVars PROVE FlagsOK'
  OBVIOUS
<1>1. CASE Open
  BY <1>1 DEF Open, FlagsOK
<1>2. CASE AppSend
  BY <1>2 DEF AppSend, FlagsOK
<1>3. CASE Receive
  BY <1>3 DEF Receive, FlagsOK
<1>4. ASSUME NEW i \in ContextIds, Advertised(i) \/ ContextTimeout(i) \/ PeerContext(i)
      PROVE  FlagsOK'
  BY <1>4 DEF Advertised, ContextTimeout, PeerContext, FlagsOK
<1>5. ASSUME NEW to \in {"none", "tentative", "preferred"}, AddressChange(to)
      PROVE  FlagsOK'
  BY <1>5 DEF AddressChange, FlagsOK
<1>6. CASE RouterChange
  BY <1>6 DEF RouterChange, FlagsOK
<1>7. CASE PeerSend
  BY <1>7 DEF PeerSend, FlagsOK
<1>8. CASE PeerReceive
  BY <1>8 DEF PeerReceive, FlagsOK
<1>9. CASE UNCHANGED stackVars
  BY <1>9 DEF stackVars, FlagsOK
<1> QED
  BY <1>1, <1>2, <1>3, <1>4, <1>5, <1>6, <1>7, <1>8, <1>9 DEF StackNext

(* A frame that output() made has a length.                                *)
LEMMA FrameLength ==
  ASSUME NEW f, WellMade(f)
  PROVE  f.len \in Nat
<1>1. PICK t, dest : Made(f, t, dest)
  BY DEF WellMade
<1>2. rime_hdr_len(f.h) \in Nat
  BY <1>1, InlineBytes DEF Made, WellMade
<1>3. HeadLen(dest) \in Nat
  BY DEF HeadLen
<1> QED
  BY <1>1, <1>2, <1>3 DEF Made, WellMade

(* The packet path is typed: one frame at most is on the air, and every    *)
(* context of a table is one.                                              *)
THEOREM StackTyped == StackSpec => []StackTypeOK
<1>1. StackInit => FlagsOK
  BY DEF StackInit, FlagsOK
<1>2. StackIInv /\ FlagsOK => StackTypeOK
  <2> SUFFICES ASSUME Tables, OnAir, FlagsOK PROVE StackTypeOK
    BY DEF StackIInv
  <2>1. Len(air) <= 1
    <3>1. CASE air = <<>>
      <4>1. Len(air) = 0
        BY <3>1
      <4> QED
        BY <4>1
    <3>2. ASSUME NEW f, air = <<f>> PROVE Len(air) <= 1
      <4>1. Len(air) = 1
        BY <3>2
      <4> QED
        BY <4>1
    <3> QED
      BY <3>1, <3>2 DEF OnAir
  <2>2. ASSUME NEW k \in DOMAIN air PROVE air[k].from \in Nodes /\ air[k].len \in Nat
    <3>1. WellMade(air[k])
      BY DEF OnAir, Good
    <3> QED
      BY <3>1, FrameLength DEF WellMade
  <2>3. \A n \in Nodes, i \in ContextIds : ctx[n][i] = NoContext \/ IsContext(ctx[n][i])
    BY DEF Tables, IsTable
  <2> QED
    BY <2>1, <2>2, <2>3 DEF StackTypeOK, FlagsOK
<1> QED
  BY <1>1, <1>2, FlagsKept, StackInductive, PTL DEF StackSpec
=============================================================================
