---------------------------- MODULE EtimerProofs ----------------------------
(***************************************************************************)
(* Theorems about the event timers (module Etimer) for every set of timers *)
(* and processes, every clock width and every queue length.                *)
(***************************************************************************)
EXTENDS Etimer, SequenceTheorems, TLAPS

(* What RemoveAt() makes of a list: one element less, those behind it move *)
(* up.                                                                     *)
LEMMA RemoveAtProperties ==
  ASSUME NEW S, NEW s \in Seq(S), NEW i \in 1 .. Len(s)
  PROVE  /\ RemoveAt(s, i) \in Seq(S)
         /\ Len(RemoveAt(s, i)) = Len(s) - 1
         /\ \A j \in 1 .. Len(s) - 1 :
              RemoveAt(s, i)[j] = IF j < i THEN s[j] ELSE s[j + 1]
<1> DEFINE a == SubSeq(s, 1, i - 1)
           b == SubSeq(s, i + 1, Len(s))
<1>0. Len(s) \in Nat
  OBVIOUS
<1>1. a \in Seq(S) /\ Len(a) = i - 1 /\ \A j \in 1 .. i - 1 : a[j] = s[j]
  BY <1>0, SubSeqProperties
<1>2. b \in Seq(S) /\ Len(b) = Len(s) - i /\ \A j \in 1 .. Len(s) - i : b[j] = s[j + i]
  BY <1>0, SubSeqProperties
<1>3. RemoveAt(s, i) = a \o b
  BY DEF RemoveAt
<1> HIDE DEF a, b
<1>4. /\ a \o b \in Seq(S) /\ Len(a \o b) = Len(a) + Len(b)
      /\ \A j \in 1 .. Len(a) + Len(b) :
           (a \o b)[j] = IF j <= Len(a) THEN a[j] ELSE b[j - Len(a)]
  BY <1>1, <1>2, ConcatProperties
<1>5. Len(a) + Len(b) = Len(s) - 1 /\ i \in Int
  BY <1>0, <1>1, <1>2
<1>6. ASSUME NEW j \in 1 .. Len(s) - 1, j < i
      PROVE  (a \o b)[j] = s[j]
  <2>1. j \in 1 .. i - 1 /\ j <= Len(a)
    BY <1>0, <1>1, <1>6
  <2> QED
    BY <2>1, <1>1, <1>4, <1>5
<1>7. ASSUME NEW j \in 1 .. Len(s) - 1, ~(j < i)
      PROVE  (a \o b)[j] = s[j + 1]
  <2>1. j - Len(a) \in 1 .. Len(s) - i /\ ~(j <= Len(a)) /\ j - Len(a) + i = j + 1
    BY <1>0, <1>1, <1>7
  <2>2. (a \o b)[j] = b[j - Len(a)]
    BY <2>1, <1>4, <1>5
  <2>3. b[j - Len(a)] = s[(j - Len(a)) + i]
    BY <2>1, <1>2
  <2> QED
    BY <2>1, <2>2, <2>3
<1> QED
  BY <1>3, <1>4, <1>5, <1>6, <1>7

(* A list has nothing twice; it has an element.                            *)
Distinct(s) == \A i, j \in DOMAIN s : s[i] = s[j] => i = j
Holds(s, e) == \E i \in DOMAIN s : s[i] = e

(* Putting an element that is not there before a list.                     *)
LEMMA ConsProperties ==
  ASSUME NEW S, NEW s \in Seq(S), NEW e \in S, ~Holds(s, e), Distinct(s)
  PROVE  /\ Cons(e, s) \in Seq(S)
         /\ Distinct(Cons(e, s))
         /\ \A x \in S : Holds(Cons(e, s), x) <=> Holds(s, x) \/ x = e
<1> DEFINE c == Cons(e, s)
<1>1. /\ c \in Seq(S) /\ Len(c) = Len(s) + 1
      /\ \A j \in 1 .. Len(s) + 1 : c[j] = IF j <= 1 THEN e ELSE s[j - 1]
  <2>1. <<e>> \in Seq(S) /\ Len(<<e>>) = 1 /\ <<e>>[1] = e
    OBVIOUS
  <2> QED
    BY <2>1, ConcatProperties DEF Cons
<1> HIDE DEF c
<1>2. /\ Len(s) \in Nat /\ DOMAIN s = 1 .. Len(s) /\ DOMAIN c = 1 .. Len(s) + 1
  BY <1>1
<1>3. ASSUME NEW j \in DOMAIN c
      PROVE  (j = 1 /\ c[j] = e) \/ (j - 1 \in DOMAIN s /\ c[j] = s[j - 1])
  <2>1. CASE j = 1
    BY <1>1, <1>2, <2>1
  <2>2. CASE j # 1
    <3>1. ~(j <= 1) /\ j - 1 \in DOMAIN s
      BY <1>2, <2>2
    <3> QED
      BY <1>1, <1>2, <3>1
  <2> QED
    BY <2>1, <2>2
<1>4. \A j \in DOMAIN s : j + 1 \in DOMAIN c /\ c[j + 1] = s[j]
  BY <1>1, <1>2
<1>5. 1 \in DOMAIN c /\ c[1] = e
  BY <1>1, <1>2
<1>6. Distinct(c)
  <2>1. \A j \in DOMAIN s : s[j] # e
    BY DEF Holds
  <2>2. ASSUME NEW i \in DOMAIN c, NEW j \in DOMAIN c, c[i] = c[j] PROVE i = j
    <3>1. CASE i = 1 \/ j = 1
      BY <1>3, <1>5, <2>1, <2>2, <3>1
    <3>2. CASE i # 1 /\ j # 1
      <4>1. i - 1 \in DOMAIN s /\ j - 1 \in DOMAIN s /\ s[i - 1] = s[j - 1]
        BY <1>3, <2>2, <3>2
      <4>2. i - 1 = j - 1
        BY <4>1 DEF Distinct
      <4> QED
        BY <1>2, <4>2
    <3> QED
      BY <3>1, <3>2
  <2> QED
    BY <2>2 DEF Distinct
<1>7. \A x \in S : Holds(c, x) <=> Holds(s, x) \/ x = e
  BY <1>3, <1>4, <1>5 DEF Holds
<1> QED
  BY <1>1, <1>6, <1>7 DEF c

(* Removing the element at a position of a list that has nothing twice.    *)
LEMMA RemovingProperties ==
  ASSUME NEW S, NEW s \in Seq(S), NEW i \in DOMAIN s, Distinct(s)
  PROVE  /\ RemoveAt(s, i) \in Seq(S)
         /\ Distinct(RemoveAt(s, i))
         /\ \A x \in S : Holds(RemoveAt(s, i), x) <=> Holds(s, x) /\ x # s[i]
         /\ \A j \in DOMAIN RemoveAt(s, i) : Holds(s, RemoveAt(s, i)[j])
<1> DEFINE r == RemoveAt(s, i)
<1>1. /\ r \in Seq(S) /\ Len(r) = Len(s) - 1
      /\ \A j \in 1 .. Len(s) - 1 : r[j] = IF j < i THEN s[j] ELSE s[j + 1]
  BY RemoveAtProperties, SMTT(20)
<1> HIDE DEF r
<1>2. /\ Len(s) \in Nat /\ i \in Int /\ DOMAIN s = 1 .. Len(s)
      /\ DOMAIN r = 1 .. Len(s) - 1
  BY <1>1
<1>3. \A j \in DOMAIN r : \/ j < i /\ j \in DOMAIN s /\ r[j] = s[j]
                          \/ j >= i /\ j + 1 \in DOMAIN s /\ r[j] = s[j + 1]
  BY <1>1, <1>2
<1>4. \A k \in DOMAIN s : \/ k < i /\ k \in DOMAIN r /\ r[k] = s[k]
                          \/ k > i /\ k - 1 \in DOMAIN r /\ r[k - 1] = s[k]
                          \/ k = i
  <2>1. ASSUME NEW k \in DOMAIN s, k > i
        PROVE  k - 1 \in DOMAIN r /\ r[k - 1] = s[k]
    <3>1. k - 1 \in 1 .. Len(s) - 1 /\ ~(k - 1 < i) /\ (k - 1) + 1 = k
      BY <1>2, <2>1
    <3> QED
      BY <1>1, <1>2, <3>1
  <2> QED
    BY <1>1, <1>2, <2>1
<1>5. \A j \in DOMAIN r : \E k \in DOMAIN s : k # i /\ r[j] = s[k]
  <2>1. ASSUME NEW j \in DOMAIN r PROVE \E k \in DOMAIN s : k # i /\ r[j] = s[k]
    <3>1. CASE j < i
      BY <1>2, <1>3, <3>1
    <3>2. CASE j >= i
      <4>1. j + 1 \in DOMAIN s /\ j + 1 # i /\ r[j] = s[j + 1]
        BY <1>2, <1>3, <3>2
      <4> QED
        BY <4>1
    <3> QED
      BY <1>2, <3>1, <3>2
  <2> QED
    BY <2>1
<1>6. \A k \in DOMAIN s : k # i => \E j \in DOMAIN r : r[j] = s[k]
  BY <1>4
<1>7. Distinct(r)
  <2>1. ASSUME NEW j \in DOMAIN r, NEW k \in DOMAIN r, r[j] = r[k] PROVE j = k
    <3>1. CASE j < i /\ k < i
      BY <1>2, <1>3, <2>1, <3>1 DEF Distinct
    <3>2. CASE j >= i /\ k >= i
      <4>1. j + 1 \in DOMAIN s /\ k + 1 \in DOMAIN s /\ s[j + 1] = s[k + 1]
        BY <1>2, <1>3, <2>1, <3>2
      <4>2. j + 1 = k + 1
        BY <4>1 DEF Distinct
      <4> QED
        BY <1>2, <4>2
    <3>3. CASE j < i /\ k >= i
      <4>1. j \in DOMAIN s /\ k + 1 \in DOMAIN s /\ s[j] = s[k + 1]
        BY <1>2, <1>3, <2>1, <3>3
      <4>2. j = k + 1
        BY <4>1 DEF Distinct
      <4> QED
        BY <1>2, <3>3, <4>2
    <3>4. CASE j >= i /\ k < i
      <4>1. j + 1 \in DOMAIN s /\ k \in DOMAIN s /\ s[j + 1] = s[k]
        BY <1>2, <1>3, <2>1, <3>4
      <4>2. j + 1 = k
        BY <4>1 DEF Distinct
      <4> QED
        BY <1>2, <3>4, <4>2
    <3> QED
      BY <1>2, <3>1, <3>2, <3>3, <3>4
  <2> QED
    BY <2>1 DEF Distinct
<1>8. \A x \in S : Holds(r, x) <=> Holds(s, x) /\ x # s[i]
  <2>1. ASSUME NEW x \in S, Holds(r, x) PROVE Holds(s, x) /\ x # s[i]
    <3>1. PICK k \in DOMAIN s : k # i /\ x = s[k]
      BY <1>5, <2>1 DEF Holds
    <3> QED
      BY <3>1 DEF Holds, Distinct
  <2>2. ASSUME NEW x \in S, Holds(s, x), x # s[i] PROVE Holds(r, x)
    BY <1>6, <2>2 DEF Holds
  <2> QED
    BY <2>1, <2>2
<1>9. \A j \in DOMAIN r : Holds(s, r[j])
  BY <1>5 DEF Holds
<1> QED
  BY <1>1, <1>7, <1>8, <1>9 DEF r
-----------------------------------------------------------------------------
(* True time and the program's clock agree modulo W, on the list and, for  *)
(* as long as a timer may be reset, off it.                                *)
AgeInv ==
  \A t \in Timers :
    Listed(t) \/ age[t] < MaxAge =>
      ticks = start[t] + age[t] \/ ticks = start[t] + age[t] - W

(* Listed timers have been set. *)
SetInv == \A t \in Timers : Listed(t) => interval[t] \in Intervals

ScanInv == pc = "scan" => at > 0

IInv ==
  /\ TypeOK /\ ListExact /\ AgeInv /\ SetInv /\ ScanInv /\ NoneForgotten

-----------------------------------------------------------------------------
LEMMA ModWrap ==
  ASSUME NEW d \in Nat, NEW n \in 0 .. d - 1
  PROVE  n % d = n /\ (n - d) % d = n /\ (n + d) % d = n
OBVIOUS

-----------------------------------------------------------------------------
LEMMA IntervalNat == \A i \in Intervals \cup {0} : i \in Nat /\ i <= MaxAge
BY EtimerAssumption

(* timer_expired() on a listed timer tells true time. *)
LEMMA ExpiredIsTrue ==
  ASSUME TypeOK, AgeInv, NEW t \in Timers, Listed(t)
  PROVE  Expired(t) <=> age[t] >= interval[t]
<1>1. /\ age[t] \in 0 .. MaxAge /\ start[t] \in 0 .. W - 1 /\ ticks \in 0 .. W - 1
      /\ interval[t] \in Intervals \cup {0}
  BY DEF TypeOK
<1>2. ticks = start[t] + age[t] \/ ticks = start[t] + age[t] - W
  BY DEF AgeInv
<1>3. interval[t] \in Nat
  BY <1>1, IntervalNat
<1> DEFINE n == age[t] + 1
           x == (ticks - start[t]) + 1
<1>4. x = n \/ x = n - W
  BY <1>1, <1>2, EtimerAssumption
<1>5. n \in 0 .. W - 1 /\ W \in Nat
  BY <1>1, EtimerAssumption
<1>6. x % W = n
  <2> HIDE DEF n, x
  <2> QED
    BY <1>4, <1>5, ModWrap
<1> QED
  BY <1>1, <1>3, <1>6 DEF Expired

-----------------------------------------------------------------------------
(* The two ways the list changes. *)

LEMMA Adding ==
  ASSUME TypeOK, ListExact, NEW p \in Procs, NEW t \in Timers, add_timer(p, t)
  PROVE  /\ timerlist' \in Seq(Timers)
         /\ owner' \in [Timers -> Procs \cup {None}]
         /\ ListExact'
         /\ \A u \in Timers : Listed(u)' <=> Listed(u) \/ u = t
<1>1. /\ timerlist \in Seq(Timers) /\ owner \in [Timers -> Procs \cup {None}]
      /\ Distinct(timerlist) /\ \A u \in Timers : owner[u] # None <=> Listed(u)
  BY DEF TypeOK, ListExact, Distinct
<1>2. CASE Listed(t)
  <2>1. owner' = owner /\ timerlist' = timerlist
    BY <1>1, <1>2 DEF add_timer
  <2> QED
    BY <1>1, <1>2, <2>1 DEF Listed, ListExact, Distinct
<1>3. CASE ~Listed(t)
  <2>1. timerlist' = Cons(t, timerlist) /\ owner' = [owner EXCEPT ![t] = p]
    BY <1>3 DEF add_timer
  <2>2. /\ timerlist' \in Seq(Timers) /\ Distinct(timerlist')
        /\ \A u \in Timers : Holds(timerlist', u) <=> Holds(timerlist, u) \/ u = t
    BY <1>1, <1>3, <2>1, ConsProperties DEF Listed, Holds
  <2>3. \A u \in Timers : Listed(u)' <=> Listed(u) \/ u = t
    BY <2>2 DEF Listed, Holds
  <2>4. owner' \in [Timers -> Procs \cup {None}]
    BY <1>1, <2>1
  <2>5. \A u \in Timers : owner'[u] # None <=> Listed(u)'
    BY <1>1, <2>1, <2>3, EtimerAssumption
  <2> QED
    BY <2>2, <2>3, <2>4, <2>5 DEF ListExact, Distinct
<1> QED
  BY <1>2, <1>3

LEMMA Removing ==
  ASSUME TypeOK, ListExact, NEW i \in DOMAIN timerlist,
         timerlist' = RemoveAt(timerlist, i),
         owner' = [owner EXCEPT ![timerlist[i]] = None]
  PROVE  /\ timerlist' \in Seq(Timers)
         /\ owner' \in [Timers -> Procs \cup {None}]
         /\ ListExact'
         /\ \A u \in Timers : Listed(u)' <=> Listed(u) /\ u # timerlist[i]
<1>1. /\ timerlist \in Seq(Timers) /\ owner \in [Timers -> Procs \cup {None}]
      /\ Distinct(timerlist) /\ \A u \in Timers : owner[u] # None <=> Listed(u)
      /\ timerlist[i] \in Timers
  BY DEF TypeOK, ListExact, Distinct
<1>2. /\ timerlist' \in Seq(Timers) /\ Distinct(timerlist')
      /\ \A u \in Timers : Holds(timerlist', u) <=> Holds(timerlist, u) /\ u # timerlist[i]
  BY <1>1, RemovingProperties
<1>3. \A u \in Timers : Listed(u)' <=> Listed(u) /\ u # timerlist[i]
  BY <1>2 DEF Listed, Holds
<1>4. owner' \in [Timers -> Procs \cup {None}]
  BY <1>1
<1>5. \A u \in Timers : owner'[u] # None <=> Listed(u)'
  BY <1>1, <1>3
<1> QED
  BY <1>2, <1>3, <1>4, <1>5 DEF ListExact, Distinct

(* next_expiration stays on the clock. *)
LEMMA Updating ==
  ASSUME ticks \in 0 .. W - 1, NEW list \in Seq(Timers),
         NEW st \in [Timers -> 0 .. W - 1], NEW iv \in [Timers -> Intervals \cup {0}],
         update_time(list, st, iv)
  PROVE  next_expiration' \in 0 .. W - 1
<1>0. W \in Nat \ {0}
  BY EtimerAssumption
<1>1. CASE list = <<>> /\ next_expiration' = 0
  BY <1>0, <1>1
<1>2. ASSUME NEW i \in DOMAIN list,
             next_expiration' = (ticks + Distance(st, iv, list[i])) % W
      PROVE  next_expiration' \in 0 .. W - 1
  <2>1. list[i] \in Timers
    OBVIOUS
  <2>2. st[list[i]] \in 0 .. W - 1 /\ iv[list[i]] \in Intervals \cup {0}
    BY <2>1
  <2>3. st[list[i]] \in Int /\ iv[list[i]] \in Int /\ ticks \in Int
    BY <1>0, <2>2, IntervalNat
  <2>4. Distance(st, iv, list[i]) \in Int
    BY <1>0, <2>3 DEF Distance
  <2>5. ticks + Distance(st, iv, list[i]) \in Int
    BY <2>3, <2>4
  <2> QED
    BY <1>0, <1>2, <2>5
<1> QED
  BY <1>1, <1>2 DEF update_time

-----------------------------------------------------------------------------
LEMMA InitIInv == Init => IInv
<1> SUFFICES ASSUME Init PROVE IInv
  OBVIOUS
<1>1. TypeOK
  <2>1. 0 \in 0 .. W - 1 /\ 0 \in 0 .. MaxAge /\ MaxPosts \in 0 .. MaxPosts /\ 0 \in Nat
    BY EtimerAssumption
  <2>2. timerlist \in Seq(Timers) /\ queue \in Seq(Event)
    BY DEF Init
  <2>3. /\ start \in [Timers -> 0 .. W - 1] /\ age \in [Timers -> 0 .. MaxAge]
        /\ interval \in [Timers -> Intervals \cup {0}]
        /\ owner \in [Timers -> Procs \cup {None}]
    BY <2>1 DEF Init
  <2>4. /\ ticks \in 0 .. W - 1 /\ next_expiration \in 0 .. W - 1
        /\ polled \in BOOLEAN /\ at \in Nat /\ posts \in 0 .. MaxPosts
        /\ pc \in {"run", "scan", "event"}
    BY <2>1 DEF Init
  <2> QED
    BY <2>2, <2>3, <2>4 DEF TypeOK
<1>2. \A t \in Timers : ~Listed(t)
  BY DEF Init, Listed
<1>3. ListExact
  BY <1>2 DEF Init, ListExact
<1>4. AgeInv /\ SetInv /\ ScanInv /\ NoneForgotten
  BY <1>2 DEF Init, AgeInv, SetInv, ScanInv, NoneForgotten
<1> QED
  BY <1>1, <1>3, <1>4 DEF IInv

(* A timer is set, reset or restarted: it starts at st, i ticks long and   *)
(* a ticks old.                                                            *)
LEMMA ArmStep ==
  ASSUME IInv, NEW p \in Procs, NEW t \in Timers, MayUse(p, t),
         NEW st \in 0 .. W - 1, NEW iv \in Intervals, NEW a \in 0 .. MaxAge,
         ticks = st + a \/ ticks = st + a - W,
         start' = [start EXCEPT ![t] = st],
         interval' = [interval EXCEPT ![t] = iv],
         age' = [age EXCEPT ![t] = a],
         add_timer(p, t), update_time(timerlist', start', interval'),
         UNCHANGED <<ticks, loopVars, queueVars>>
  PROVE  IInv'
<1>1. /\ timerlist' \in Seq(Timers)
      /\ owner' \in [Timers -> Procs \cup {None}]
      /\ ListExact'
      /\ \A u \in Timers : Listed(u)' <=> Listed(u) \/ u = t
  BY Adding DEF IInv
<1>2. /\ start' \in [Timers -> 0 .. W - 1]
      /\ interval' \in [Timers -> Intervals \cup {0}]
      /\ age' \in [Timers -> 0 .. MaxAge]
      /\ ticks \in 0 .. W - 1
  BY DEF IInv, TypeOK
<1>3. next_expiration' \in 0 .. W - 1
  BY <1>1, <1>2, Updating
<1>4. polled' = TRUE
  BY DEF add_timer
<1>5. TypeOK'
  BY <1>1, <1>2, <1>3, <1>4 DEF IInv, TypeOK, loopVars, queueVars
<1>6. AgeInv'
  BY <1>1 DEF IInv, AgeInv, TypeOK
<1>7. SetInv'
  BY <1>1 DEF IInv, SetInv, TypeOK
<1>8. ScanInv' /\ NoneForgotten'
  BY <1>4 DEF IInv, ScanInv, NoneForgotten, loopVars
<1> QED
  BY <1>1, <1>5, <1>6, <1>7, <1>8 DEF IInv

(* A timer leaves the list while nothing else about timers changes. *)
LEMMA LeaveStep ==
  ASSUME IInv, NEW i \in DOMAIN timerlist,
         timerlist' = RemoveAt(timerlist, i),
         owner' = [owner EXCEPT ![timerlist[i]] = None],
         update_time(timerlist', start, interval),
         queue' \in Seq(Event), pc' = pc, at' \in Nat,
         (pc = "run" /\ at' = at) \/ (pc = "scan" /\ at' = 1),
         UNCHANGED <<ticks, start, interval, polled, posts, age>>
  PROVE  IInv'
<1>1. /\ timerlist' \in Seq(Timers)
      /\ owner' \in [Timers -> Procs \cup {None}]
      /\ ListExact'
      /\ \A u \in Timers : Listed(u)' <=> Listed(u) /\ u # timerlist[i]
  BY Removing DEF IInv
<1>2. next_expiration' \in 0 .. W - 1
  BY <1>1, Updating DEF IInv, TypeOK
<1>3. TypeOK'
  BY <1>1, <1>2 DEF IInv, TypeOK
<1>4. AgeInv' /\ SetInv'
  BY <1>1 DEF IInv, AgeInv, SetInv
<1>5. ScanInv'
  BY DEF IInv, ScanInv
<1>6. NoneForgotten'
  <2>1. CASE pc = "scan" /\ at' = 1
    <3>1. \A j \in DOMAIN timerlist' : 1 <= j
      BY <1>1
    <3> QED
      BY <2>1, <3>1 DEF NoneForgotten
  <2>2. CASE pc = "run"
    <3>1. \A j \in DOMAIN timerlist' : \E k \in DOMAIN timerlist : timerlist'[j] = timerlist[k]
      BY <1>1 DEF Listed
    <3> QED
      BY <2>2, <3>1 DEF IInv, NoneForgotten
  <2> QED
    BY <2>1, <2>2
<1> QED
  BY <1>1, <1>3, <1>4, <1>5, <1>6 DEF IInv

LEMMA IInvClient ==
  ASSUME IInv, Client
  PROVE  IInv'
<1>0. /\ ticks \in 0 .. W - 1 /\ interval \in [Timers -> Intervals \cup {0}]
      /\ start \in [Timers -> 0 .. W - 1] /\ age \in [Timers -> 0 .. MaxAge]
      /\ W \in Nat /\ MaxAge \in Nat /\ MaxAge + 1 < W
      /\ \A i \in Intervals : i \in Nat /\ i <= MaxAge /\ i # 0
  BY EtimerAssumption DEF IInv, TypeOK
<1>1. ASSUME NEW p \in Procs, NEW t \in Timers, NEW i \in Intervals, etimer_set(p, t, i)
      PROVE  IInv'
  <2>1. 0 \in 0 .. MaxAge /\ ticks = ticks + 0
    BY <1>0
  <2> QED
    BY <1>0, <1>1, <2>1, ArmStep DEF etimer_set
<1>2. ASSUME NEW p \in Procs, NEW t \in Timers, etimer_reset(p, t)
      PROVE  IInv'
  <2> DEFINE st == (start[t] + interval[t]) % W
             iv == interval[t]
             a  == age[t] - interval[t]
  <2>1. /\ iv \in Intervals /\ age[t] \in Nat /\ start[t] \in 0 .. W - 1
        /\ iv <= age[t] /\ age[t] < MaxAge
    BY <1>0, <1>2 DEF etimer_reset
  <2>2. a \in 0 .. MaxAge
    BY <1>0, <2>1
  <2>3. ticks = start[t] + age[t] \/ ticks = start[t] + age[t] - W
    BY <2>1 DEF IInv, AgeInv
  <2>4. st \in 0 .. W - 1 /\ (ticks = st + a \/ ticks = st + a - W)
    <3> DEFINE n == start[t] + iv
    <3>1. n \in Nat /\ n < W + W
      BY <1>0, <2>1
    <3>2. CASE n < W
      <4>1. st = n
        BY <1>0, <3>1, <3>2, ModWrap
      <4> QED
        BY <1>0, <2>1, <2>3, <3>1, <3>2, <4>1
    <3>3. CASE n >= W
      <4>1. n - W \in 0 .. W - 1 /\ n = (n - W) + W
        BY <1>0, <3>1, <3>3
      <4>2. st = n - W
        BY <1>0, <4>1, ModWrap
      <4>3. ticks = n + a \/ ticks = n + a - W
        BY <1>0, <2>1, <2>3
      <4>4. ticks < W /\ n + a >= W
        BY <1>0, <2>2, <3>1, <3>3
      <4> QED
        BY <1>0, <2>2, <3>1, <4>1, <4>2, <4>3, <4>4
    <3> QED
      BY <1>0, <3>1, <3>2, <3>3
  <2>5. /\ start' = [start EXCEPT ![t] = st]
        /\ age' = [age EXCEPT ![t] = a]
        /\ interval' = interval /\ MayUse(p, t)
        /\ add_timer(p, t) /\ update_time(timerlist', start', interval)
        /\ UNCHANGED <<ticks, loopVars, queueVars>>
    BY <1>2 DEF etimer_reset
  <2>6. interval' = [interval EXCEPT ![t] = iv]
    BY <1>0, <2>5
  <2> HIDE DEF st, iv, a
  <2> QED
    BY <2>1, <2>2, <2>4, <2>5, <2>6, ArmStep
<1>3. ASSUME NEW p \in Procs, NEW t \in Timers, etimer_restart(p, t)
      PROVE  IInv'
  <2>1. 0 \in 0 .. MaxAge /\ ticks = ticks + 0 /\ interval[t] \in Intervals
    BY <1>0, <1>3 DEF etimer_restart
  <2>2. interval' = interval /\ interval' = [interval EXCEPT ![t] = interval[t]]
    BY <1>0, <1>3 DEF etimer_restart
  <2> QED
    BY <1>0, <1>3, <2>1, <2>2, ArmStep DEF etimer_restart
<1>4. ASSUME NEW p \in Procs, NEW t \in Timers, etimer_stop(p, t)
      PROVE  IInv'
  <2>1. ASSUME NEW i \in DOMAIN timerlist, timerlist[i] = t,
               timerlist' = RemoveAt(timerlist, i),
               update_time(timerlist', start, interval)
        PROVE  IInv'
    BY <1>4, <2>1, LeaveStep DEF etimer_stop, MayUse, loopVars, queueVars, IInv, TypeOK
  <2>2. CASE ~Listed(t) /\ UNCHANGED <<timerlist, next_expiration>>
    <3>1. owner[t] = None /\ owner' = [owner EXCEPT ![t] = None]
      BY <1>4, <2>2 DEF etimer_stop, IInv, ListExact
    <3>2. owner' = owner
      BY <3>1 DEF IInv, TypeOK
    <3> QED
      BY <1>4, <2>2, <3>2 DEF etimer_stop, IInv, TypeOK, ListExact, AgeInv, SetInv,
         ScanInv, NoneForgotten, Listed, loopVars, queueVars
  <2> QED
    BY <1>4, <2>1, <2>2 DEF etimer_stop, unlink
<1>5. ASSUME NEW p \in Procs, PostOther(p) PROVE IInv'
  <2>1. [p |-> p, t |-> Other] \in Event
    BY DEF Event
  <2>2. queue' \in Seq(Event) /\ posts' \in 0 .. MaxPosts
    BY <1>5, <2>1, EtimerAssumption DEF PostOther, IInv, TypeOK
  <2> QED
    BY <1>5, <2>2 DEF PostOther, IInv, TypeOK, ListExact, AgeInv, SetInv, ScanInv,
       NoneForgotten, Listed, loopVars, timerVars
<1> QED
  BY <1>1, <1>2, <1>3, <1>4, <1>5 DEF Client

LEMMA IInvLoop ==
  ASSUME IInv, Loop
  PROVE  IInv'
<1>1. CASE ScanPost
  <2>1. /\ at \in DOMAIN timerlist /\ pc = "scan"
        /\ timerlist' = RemoveAt(timerlist, at)
        /\ owner' = [owner EXCEPT ![timerlist[at]] = None]
        /\ queue' = Append(queue, [p |-> owner[timerlist[at]], t |-> timerlist[at]])
        /\ update_time(timerlist', start, interval) /\ at' = 1
        /\ UNCHANGED <<ticks, start, interval, polled, pc, posts, age>>
    BY <1>1 DEF ScanPost, Visiting
  <2>2. timerlist[at] \in Timers /\ owner[timerlist[at]] \in Procs
    <3>1. timerlist[at] \in Timers /\ Listed(timerlist[at])
      BY <2>1 DEF IInv, TypeOK, Listed
    <3> QED
      BY <3>1 DEF IInv, TypeOK, ListExact
  <2>3. queue' \in Seq(Event)
    <3>1. [p |-> owner[timerlist[at]], t |-> timerlist[at]] \in Event
      BY <2>2 DEF Event
    <3> QED
      BY <2>1, <3>1 DEF IInv, TypeOK
  <2> QED
    BY <2>1, <2>3, LeaveStep
<1> USE DEF IInv, ScanInv
<1>2. CASE ~ScanPost
  <2>1. UNCHANGED <<ticks, timerVars, age, posts>>
    BY <1>2 DEF Loop, RunPoll, RunNoPoll, ScanSkip, ScanFull, ScanDone, Take, NoEvent,
       queueVars
  <2>2. polled' \in BOOLEAN /\ pc' \in {"run", "scan", "event"} /\ at' \in Nat
        /\ queue' \in Seq(Event)
    <3>1. polled \in BOOLEAN /\ at \in Nat /\ at + 1 \in Nat /\ queue \in Seq(Event)
          /\ pc \in {"run", "scan", "event"}
      BY DEF TypeOK
    <3>2. queue # <<>> => Tail(queue) \in Seq(Event)
      BY <3>1
    <3>3. polled' = FALSE \/ polled' = TRUE \/ polled' = polled
      BY <1>2 DEF Loop, RunPoll, RunNoPoll, ScanSkip, ScanFull, ScanDone, Take, NoEvent
    <3>4. polled' \in BOOLEAN
      BY <3>1, <3>3
    <3>5. pc' \in {"run", "scan", "event"} /\ at' \in Nat
      BY <1>2, <3>1 DEF Loop, RunPoll, RunNoPoll, ScanSkip, ScanFull, ScanDone, Take,
         NoEvent
    <3>6. queue' = queue \/ (queue # <<>> /\ queue' = Tail(queue))
      BY <1>2 DEF Loop, RunPoll, RunNoPoll, ScanSkip, ScanFull, ScanDone, Take, NoEvent,
         queueVars
    <3>7. queue' \in Seq(Event)
      BY <3>1, <3>2, <3>6
    <3> QED
      BY <3>4, <3>5, <3>7
  <2>3. TypeOK' /\ ListExact' /\ AgeInv' /\ SetInv'
    BY <2>1, <2>2 DEF TypeOK, ListExact, AgeInv, SetInv, Listed, timerVars
  <2>4. ScanInv'
    BY <1>2 DEF Loop, RunPoll, RunNoPoll, ScanSkip, ScanFull, ScanDone, Take, NoEvent,
       TypeOK
  <2>5. NoneForgotten'
    <3>0. DOMAIN timerlist = 1 .. Len(timerlist) /\ Len(timerlist) \in Nat /\ at \in Nat
          /\ timerlist' = timerlist /\ age' = age /\ interval' = interval
      BY <2>1 DEF TypeOK, timerVars
    <3>1. CASE RunPoll
      BY <3>0, <3>1 DEF RunPoll, NoneForgotten
    <3>2. CASE RunNoPoll \/ Take \/ NoEvent
      BY <3>0, <3>2 DEF RunNoPoll, Take, NoEvent, NoneForgotten
    <3>3. CASE ScanSkip
      <4>1. ~(age[timerlist[at]] >= interval[timerlist[at]])
        <5>1. timerlist[at] \in Timers /\ Listed(timerlist[at]) /\ ~Expired(timerlist[at])
          BY <3>3 DEF ScanSkip, Visiting, Listed, TypeOK
        <5> QED
          BY <5>1, ExpiredIsTrue
      <4> QED
        BY <3>0, <3>3, <4>1 DEF ScanSkip, Visiting, NoneForgotten
    <3>4. CASE ScanFull
      BY <3>4 DEF ScanFull, NoneForgotten
    <3>5. CASE ScanDone
      BY <3>0, <3>5 DEF ScanDone, NoneForgotten
    <3> QED
      BY <1>2, <3>1, <3>2, <3>3, <3>4, <3>5 DEF Loop
  <2> QED
    BY <2>3, <2>4, <2>5
<1> QED
  BY <1>1, <1>2

LEMMA IInvTick ==
  ASSUME IInv, Tick
  PROVE  IInv'
<1>0. /\ ticks \in 0 .. W - 1 /\ age \in [Timers -> 0 .. MaxAge]
      /\ start \in [Timers -> 0 .. W - 1]
      /\ W \in Nat /\ MaxAge \in Nat /\ MaxAge + 1 < W
      /\ ticks' = (ticks + 1) % W
      /\ age' = [t \in Timers |-> IF age[t] < MaxAge THEN age[t] + 1 ELSE MaxAge]
      /\ UNCHANGED <<timerVars, loopVars, queueVars>>
      /\ polled' = (polled \/ timerlist # <<>>)
  BY EtimerAssumption DEF IInv, TypeOK, Tick
<1>1. (ticks' = ticks + 1 /\ ticks + 1 < W) \/ (ticks' = 0 /\ ticks + 1 = W)
  <2>1. CASE ticks + 1 < W
    <3> DEFINE x == ticks + 1
    <3>1. x \in 0 .. W - 1
      BY <1>0, <2>1
    <3>2. ticks' = x % W
      BY <1>0
    <3> HIDE DEF x
    <3>3. ticks' = x
      BY <1>0, <3>1, <3>2, ModWrap
    <3> QED
      BY <2>1, <3>3 DEF x
  <2>2. CASE ticks + 1 = W
    <3> DEFINE x == ticks + 1
    <3>1. 0 \in 0 .. W - 1 /\ 0 + W = x
      BY <1>0, <2>2
    <3>2. (0 + W) % W = 0
      BY <1>0, <3>1, ModWrap
    <3>3. ticks' = x % W
      BY <1>0
    <3> HIDE DEF x
    <3>4. ticks' = 0
      BY <3>1, <3>2, <3>3
    <3> QED
      BY <2>2, <3>4
  <2> QED
    BY <1>0, <2>1, <2>2
<1>2. \A t \in Timers : age'[t] \in 0 .. MaxAge /\ (age[t] < MaxAge => age'[t] = age[t] + 1)
                       /\ (~(age[t] < MaxAge) => age'[t] = MaxAge)
  BY <1>0
<1>3. TypeOK'
  <2>1. ticks' \in 0 .. W - 1
    BY <1>0, <1>1
  <2>2. age' \in [Timers -> 0 .. MaxAge]
    BY <1>0, <1>2
  <2>3. polled' \in BOOLEAN
    BY <1>0
  <2> QED
    BY <1>0, <2>1, <2>2, <2>3 DEF IInv, TypeOK, timerVars, loopVars, queueVars
<1>4. ListExact' /\ SetInv' /\ ScanInv'
  BY <1>0 DEF IInv, ListExact, SetInv, ScanInv, Listed, timerVars, loopVars
<1>5. AgeInv'
  <2>1. ASSUME NEW t \in Timers, Listed(t)' \/ age'[t] < MaxAge
        PROVE  ticks' = start[t] + age'[t] \/ ticks' = start[t] + age'[t] - W
    <3>1. age[t] < MaxAge
      <4>1. CASE Listed(t)
        BY <4>1 DEF Tick, Listed
      <4>2. CASE ~Listed(t)
        <5>1. age'[t] < MaxAge
          BY <1>0, <2>1, <4>2 DEF Listed, timerVars
        <5> QED
          BY <1>0, <1>2, <5>1
      <4> QED
        BY <4>1, <4>2
    <3>2. ticks = start[t] + age[t] \/ ticks = start[t] + age[t] - W
      BY <3>1 DEF IInv, AgeInv
    <3>3. age'[t] = age[t] + 1 /\ age[t] \in 0 .. MaxAge /\ start[t] \in 0 .. W - 1
      BY <1>0, <1>2, <3>1
    <3> QED
      BY <1>0, <1>1, <3>2, <3>3
  <2> QED
    BY <1>0, <2>1 DEF AgeInv, timerVars
<1>6. NoneForgotten'
  <2>1. CASE timerlist = <<>>
    BY <1>0, <2>1 DEF NoneForgotten, timerVars
  <2>2. CASE timerlist # <<>>
    <3>1. polled' = TRUE
      BY <1>0, <2>2
    <3> QED
      BY <3>1 DEF NoneForgotten
  <2> QED
    BY <2>1, <2>2
<1> QED
  BY <1>3, <1>4, <1>5, <1>6 DEF IInv

-----------------------------------------------------------------------------
(* The inductive invariant holds in every reachable state.                 *)
THEOREM IInvCorrect == Spec => []IInv
<1>1. ASSUME IInv, [Next]_vars PROVE IInv'
  <2>1. CASE UNCHANGED vars
    BY <1>1, <2>1 DEF IInv, TypeOK, ListExact, AgeInv, SetInv, ScanInv, NoneForgotten,
       Listed, vars, timerVars, loopVars, queueVars
  <2> QED
    BY <1>1, <2>1, IInvClient, IInvLoop, IInvTick DEF Next
<1> QED
  BY InitIInv, <1>1, PTL DEF Spec

(* et->p alone tells whether a timer is on the list, and the list is never *)
(* closed into a ring: etimer_expired() and add_timer() may trust et->p.   *)
THEOREM ListIsExact == Spec => []ListExact
<1>1. IInv => ListExact
  BY DEF IInv
<1> QED
  BY IInvCorrect, <1>1, PTL

(* The comparison of timer_expired(), on a clock that wraps, tells true    *)
(* time for every listed timer.                                            *)
THEOREM ClockIsExact == Spec => []ClockExact
<1>1. IInv => ClockExact
  BY ExpiredIsTrue DEF IInv, ClockExact
<1> QED
  BY IInvCorrect, <1>1, PTL

(* No expired timer is forgotten: a full queue, a tick behind the walk or  *)
(* a timer set while others wait leave a poll pending.                     *)
THEOREM NoneIsForgotten == Spec => []NoneForgotten
<1>1. IInv => NoneForgotten
  BY DEF IInv
<1> QED
  BY IInvCorrect, <1>1, PTL
=============================================================================
