----------------------------- MODULE CoapProofs -----------------------------
(***************************************************************************)
(* What is proved of module Coap, for any clients and requests, any length *)
(* of the table and of the event queue: the table of observers holds each  *)
(* allocated block once and each client once, and the resource's timer     *)
(* runs, or its event is to come, as long as the resource is observed.     *)
(* Whatever requests come (MessagesAssumption says what a message may be), *)
(* they are answered with their own id and token, the table is what the    *)
(* clients were told, and a change is announced to them.                   *)
(***************************************************************************)
EXTENDS Coap, SequenceTheorems, WellFoundedInduction, TLAPS

(* What RemoveAt() makes of a list: one element less, those behind it move *)
(* up.                                                                     *)
LEMMA RemoveAtProperties ==
  ASSUME NEW S, NEW s \in Seq(S), NEW i \in 1 .. Len(s)
  PROVE  /\ RemoveAt(s, i) \in Seq(S)
         /\ Len(RemoveAt(s, i)) = Len(s) - 1
         /\ \A j \in 1 .. Len(s) - 1 :
              RemoveAt(s, i)[j] = IF j < i THEN s[j] ELSE s[j + 1]
<1> DEFINE a == SubSeq(s, 1, i - 1)
           b == SubSeq(s, i + 1, Len(s))
<1>0. Len(s) \in Nat
  OBVIOUS
<1>1. a \in Seq(S) /\ Len(a) = i - 1 /\ \A j \in 1 .. i - 1 : a[j] = s[j]
  BY <1>0, SubSeqProperties
<1>2. b \in Seq(S) /\ Len(b) = Len(s) - i /\ \A j \in 1 .. Len(s) - i : b[j] = s[j + i]
  BY <1>0, SubSeqProperties
<1>3. RemoveAt(s, i) = a \o b
  BY DEF RemoveAt
<1> HIDE DEF a, b
<1>4. /\ a \o b \in Seq(S) /\ Len(a \o b) = Len(a) + Len(b)
      /\ \A j \in 1 .. Len(a) + Len(b) :
           (a \o b)[j] = IF j <= Len(a) THEN a[j] ELSE b[j - Len(a)]
  BY <1>1, <1>2, ConcatProperties
<1>5. Len(a) + Len(b) = Len(s) - 1 /\ i \in Int
  BY <1>0, <1>1, <1>2
<1>6. ASSUME NEW j \in 1 .. Len(s) - 1, j < i
      PROVE  (a \o b)[j] = s[j]
  <2>1. j \in 1 .. i - 1 /\ j <= Len(a)
    BY <1>0, <1>1, <1>6
  <2> QED
    BY <2>1, <1>1, <1>4, <1>5
<1>7. ASSUME NEW j \in 1 .. Len(s) - 1, ~(j < i)
      PROVE  (a \o b)[j] = s[j + 1]
  <2>1. j - Len(a) \in 1 .. Len(s) - i /\ ~(j <= Len(a)) /\ j - Len(a) + i = j + 1
    BY <1>0, <1>1, <1>7
  <2>2. (a \o b)[j] = b[j - Len(a)]
    BY <2>1, <1>4, <1>5
  <2>3. b[j - Len(a)] = s[(j - Len(a)) + i]
    BY <2>1, <1>2
  <2> QED
    BY <2>1, <2>2, <2>3
<1> QED
  BY <1>3, <1>4, <1>5, <1>6, <1>7

(* A list has nothing twice; it has an element.                            *)
Distinct(s) == \A i, j \in DOMAIN s : s[i] = s[j] => i = j
Holds(s, e) == \E i \in DOMAIN s : s[i] = e

(* Removing the element at a position of a list that has nothing twice.    *)
LEMMA RemovingProperties ==
  ASSUME NEW S, NEW s \in Seq(S), NEW i \in DOMAIN s, Distinct(s)
  PROVE  /\ RemoveAt(s, i) \in Seq(S)
         /\ Distinct(RemoveAt(s, i))
         /\ \A x \in S : Holds(RemoveAt(s, i), x) <=> Holds(s, x) /\ x # s[i]
         /\ \A j \in DOMAIN RemoveAt(s, i) : Holds(s, RemoveAt(s, i)[j])
<1> DEFINE r == RemoveAt(s, i)
<1>1. /\ r \in Seq(S) /\ Len(r) = Len(s) - 1
      /\ \A j \in 1 .. Len(s) - 1 : r[j] = IF j < i THEN s[j] ELSE s[j + 1]
  BY RemoveAtProperties, SMTT(20)
<1> HIDE DEF r
<1>2. /\ Len(s) \in Nat /\ i \in Int /\ DOMAIN s = 1 .. Len(s)
      /\ DOMAIN r = 1 .. Len(s) - 1
  BY <1>1
<1>3. \A j \in DOMAIN r : \/ j < i /\ j \in DOMAIN s /\ r[j] = s[j]
                          \/ j >= i /\ j + 1 \in DOMAIN s /\ r[j] = s[j + 1]
  BY <1>1, <1>2
<1>4. \A k \in DOMAIN s : \/ k < i /\ k \in DOMAIN r /\ r[k] = s[k]
                          \/ k > i /\ k - 1 \in DOMAIN r /\ r[k - 1] = s[k]
                          \/ k = i
  <2>1. ASSUME NEW k \in DOMAIN s, k > i
        PROVE  k - 1 \in DOMAIN r /\ r[k - 1] = s[k]
    <3>1. k - 1 \in 1 .. Len(s) - 1 /\ ~(k - 1 < i) /\ (k - 1) + 1 = k
      BY <1>2, <2>1
    <3> QED
      BY <1>1, <1>2, <3>1
  <2> QED
    BY <1>1, <1>2, <2>1
<1>5. \A j \in DOMAIN r : \E k \in DOMAIN s : k # i /\ r[j] = s[k]
  <2>1. ASSUME NEW j \in DOMAIN r PROVE \E k \in DOMAIN s : k # i /\ r[j] = s[k]
    <3>1. CASE j < i
      BY <1>2, <1>3, <3>1
    <3>2. CASE j >= i
      <4>1. j + 1 \in DOMAIN s /\ j + 1 # i /\ r[j] = s[j + 1]
        BY <1>2, <1>3, <3>2
      <4> QED
        BY <4>1
    <3> QED
      BY <1>2, <3>1, <3>2
  <2> QED
    BY <2>1
<1>6. \A k \in DOMAIN s : k # i => \E j \in DOMAIN r : r[j] = s[k]
  BY <1>4
<1>7. Distinct(r)
  <2>1. ASSUME NEW j \in DOMAIN r, NEW k \in DOMAIN r, r[j] = r[k] PROVE j = k
    <3>1. CASE j < i /\ k < i
      BY <1>2, <1>3, <2>1, <3>1 DEF Distinct
    <3>2. CASE j >= i /\ k >= i
      <4>1. j + 1 \in DOMAIN s /\ k + 1 \in DOMAIN s /\ s[j + 1] = s[k + 1]
        BY <1>2, <1>3, <2>1, <3>2
      <4>2. j + 1 = k + 1
        BY <4>1 DEF Distinct
      <4> QED
        BY <1>2, <4>2
    <3>3. CASE j < i /\ k >= i
      <4>1. j \in DOMAIN s /\ k + 1 \in DOMAIN s /\ s[j] = s[k + 1]
        BY <1>2, <1>3, <2>1, <3>3
      <4>2. j = k + 1
        BY <4>1 DEF Distinct
      <4> QED
        BY <1>2, <3>3, <4>2
    <3>4. CASE j >= i /\ k < i
      <4>1. j + 1 \in DOMAIN s /\ k \in DOMAIN s /\ s[j + 1] = s[k]
        BY <1>2, <1>3, <2>1, <3>4
      <4>2. j + 1 = k
        BY <4>1 DEF Distinct
      <4> QED
        BY <1>2, <3>4, <4>2
    <3> QED
      BY <1>2, <3>1, <3>2, <3>3, <3>4
  <2> QED
    BY <2>1 DEF Distinct
<1>8. \A x \in S : Holds(r, x) <=> Holds(s, x) /\ x # s[i]
  <2>1. ASSUME NEW x \in S, Holds(r, x) PROVE Holds(s, x) /\ x # s[i]
    <3>1. PICK k \in DOMAIN s : k # i /\ x = s[k]
      BY <1>5, <2>1 DEF Holds
    <3> QED
      BY <3>1 DEF Holds, Distinct
  <2>2. ASSUME NEW x \in S, Holds(s, x), x # s[i] PROVE Holds(r, x)
    BY <1>6, <2>2 DEF Holds
  <2> QED
    BY <2>1, <2>2
<1>9. \A j \in DOMAIN r : Holds(s, r[j])
  BY <1>5 DEF Holds
<1> QED
  BY <1>1, <1>7, <1>8, <1>9 DEF r

(* A set of numbers that is not empty has a least one.                     *)
LEMMA MinProperties ==
  ASSUME NEW T, T \subseteq Nat, T # {}
  PROVE  Min(T) \in T /\ \A y \in T : Min(T) <= y
<1>1. PICK n \in T : \A m \in T : ~(<<m, n>> \in OpToRel(<, Nat))
  BY WFMin, NatLessThanWellFounded, Zenon
<1>2. \A m \in T : ~(m < n)
  BY <1>1, Zenon DEF OpToRel
<1>3. \A m \in T : n <= m
  BY <1>2
<1> QED
  BY <1>3 DEF Min

(* Removing an element by value, if it is there.                           *)
LEMMA RemoveFirstProperties ==
  ASSUME NEW S, NEW s \in Seq(S), NEW e \in S, Distinct(s)
  PROVE  /\ RemoveFirst(s, e) \in Seq(S)
         /\ Distinct(RemoveFirst(s, e))
         /\ \A x \in S : Holds(RemoveFirst(s, e), x) <=> Holds(s, x) /\ x # e
<1>1. DOMAIN s = 1 .. Len(s)
  OBVIOUS
<1>2. CASE \E i \in 1 .. Len(s) : s[i] = e
  <2> DEFINE I == {i \in 1 .. Len(s) : s[i] = e}
  <2>1. SelectInSeq(s, LAMBDA v : v = e) = Min(I)
    BY <1>2 DEF SelectInSeq
  <2>2. I \subseteq Nat /\ I # {}
    BY <1>2
  <2>3. Min(I) \in I
    BY <2>2, MinProperties
  <2>4. RemoveFirst(s, e) = RemoveAt(s, Min(I))
    BY <1>2, <2>1 DEF RemoveFirst
  <2>5. Min(I) \in DOMAIN s /\ s[Min(I)] = e
    BY <1>1, <2>3
  <2> HIDE DEF I
  <2> DEFINE m == Min(I)
  <2>6. m \in DOMAIN s /\ s[m] = e /\ RemoveFirst(s, e) = RemoveAt(s, m)
    BY <2>4, <2>5
  <2> HIDE DEF m
  <2>7. /\ RemoveAt(s, m) \in Seq(S)
        /\ Distinct(RemoveAt(s, m))
        /\ \A x \in S : Holds(RemoveAt(s, m), x) <=> Holds(s, x) /\ x # s[m]
    BY <2>6, RemovingProperties
  <2> QED
    BY <2>6, <2>7
<1>3. CASE ~ \E i \in 1 .. Len(s) : s[i] = e
  <2>1. RemoveFirst(s, e) = s
    BY <1>3 DEF RemoveFirst
  <2> QED
    BY <1>1, <1>3, <2>1 DEF Holds
<1> QED
  BY <1>2, <1>3

(* Putting an element that is not there behind a list.                     *)
LEMMA AppendingProperties ==
  ASSUME NEW S, NEW s \in Seq(S), NEW e \in S, Distinct(s), ~Holds(s, e)
  PROVE  /\ Append(s, e) \in Seq(S)
         /\ Distinct(Append(s, e))
         /\ \A x \in S : Holds(Append(s, e), x) <=> Holds(s, x) \/ x = e
<1> DEFINE a == Append(s, e)
<1>1. /\ a \in Seq(S) /\ Len(a) = Len(s) + 1
      /\ a[Len(s) + 1] = e /\ \A j \in 1 .. Len(s) : a[j] = s[j]
  BY AppendProperties
<1> HIDE DEF a
<1>2. Len(s) \in Nat /\ DOMAIN s = 1 .. Len(s) /\ DOMAIN a = 1 .. Len(s) + 1
  BY <1>1
<1>3. \A j \in DOMAIN s : s[j] # e
  BY DEF Holds
<1>4. Distinct(a)
  <2>1. ASSUME NEW i \in DOMAIN a, NEW j \in DOMAIN a, a[i] = a[j] PROVE i = j
    <3>1. CASE i \in DOMAIN s /\ j \in DOMAIN s
      BY <1>1, <1>2, <2>1, <3>1 DEF Distinct
    <3>2. CASE i = Len(s) + 1 \/ j = Len(s) + 1
      BY <1>1, <1>2, <1>3, <2>1, <3>2
    <3> QED
      BY <1>2, <3>1, <3>2
  <2> QED
    BY <2>1 DEF Distinct
<1>5. \A x \in S : Holds(a, x) <=> Holds(s, x) \/ x = e
  BY <1>1, <1>2 DEF Holds
<1> QED
  BY <1>1, <1>4, <1>5 DEF a
-----------------------------------------------------------------------------
(* TypeOK, TableExact and Checked together are inductive: taking an        *)
(* observer off the list needs a list that holds it once, and adding one   *)
(* needs a block that is not on it.                                        *)
IInv == TypeOK /\ TableExact /\ Checked

-----------------------------------------------------------------------------
(* A free block can be allocated (memb_alloc).                             *)
LEMMA AllocGivesFree ==
  ASSUME CoapAssumption, FreeBlocks # {}
  PROVE  memb_alloc \in Blocks /\ count[memb_alloc] = 0
<1>1. FreeBlocks \subseteq Nat
  BY DEF FreeBlocks, Blocks, CoapAssumption
<1>2. memb_alloc \in FreeBlocks
  BY <1>1, MinProperties DEF memb_alloc
<1> QED
  BY <1>2 DEF FreeBlocks

(* An observer that was found is on the list, its block allocated.         *)
LEMMA FoundIsListed ==
  ASSUME TypeOK, TableExact, NEW request, Found(request) # {}
  PROVE  LET i == Min(Found(request))
         IN  /\ i \in DOMAIN observers /\ observers[i] \in Blocks
             /\ count[observers[i]] = 1 /\ IsObserver(observers[i], request)
<1> DEFINE i == Min(Found(request))
<1>1. DOMAIN observers \subseteq Nat
  BY DEF TypeOK
<1>2. Found(request) \subseteq Nat
  BY <1>1 DEF Found
<1>3. i \in Found(request)
  BY <1>2, MinProperties
<1> HIDE DEF i
<1>4. i \in DOMAIN observers /\ IsObserver(observers[i], request)
  BY <1>3 DEF Found
<1>5. observers[i] \in Blocks
  BY <1>4 DEF TypeOK
<1>6. count[observers[i]] = 1
  BY <1>4, <1>5 DEF TableExact
<1> QED
  BY <1>4, <1>5, <1>6 DEF i

(* The table stays exact when a request refreshes an observer's token,     *)
(* adds an observer or takes one away.                                     *)
LEMMA RegisterKeepsTable ==
  ASSUME CoapAssumption, IInv, NEW c \in Clients, NEW w \in Requests,
         Register(request_of(c, w))
  PROVE  /\ observers' \in Seq(Blocks)
         /\ count' \in [Blocks -> Nat]
         /\ observer' \in [Blocks -> Observers]
         /\ timer' \in {"off", "running"}
         /\ TableExact'
         /\ observers' # <<>> => timer' = "running" \/ (timer' = timer /\ observers # <<>>)
         /\ timer' = "running" => observers' # <<>>
<1> DEFINE r == request_of(c, w)
<1> HIDE DEF r
<1>0. /\ TypeOK /\ TableExact /\ Checked
      /\ observers \in Seq(Blocks) /\ count \in [Blocks -> Nat]
      /\ observer \in [Blocks -> Observers]
      /\ timer \in {"off", "running"}
  BY DEF IInv, TypeOK
<1>1. /\ r.port \in {0} \cup {request.port : request \in Incomers}
      /\ r.addr \in {"::"} \cup {request.addr : request \in Incomers}
      /\ TokenOf(r) \in {Empty} \cup {TokenOf(request) : request \in Incomers}
      /\ NoOne \in Observers
  BY DEF r, Incomers, Observers, NoOne
<1>2. Distinct(observers)
  BY <1>0 DEF TableExact, Distinct
<1>3. \A b \in Blocks : Holds(observers, b) <=> count[b] = 1
  BY <1>0 DEF TableExact, Holds
<1>4. CASE Found(r) # {} /\ Refresh(observers[Min(Found(r))], r)
  <2> DEFINE b == observers[Min(Found(r))]
  <2>1. b \in Blocks
    BY <1>0, <1>4, FoundIsListed
  <2> HIDE DEF b
  <2>2. /\ observer' = [observer EXCEPT ![b] = [@ EXCEPT !.token = TokenOf(r)]]
        /\ UNCHANGED <<observers, count, timer>>
    BY <1>4 DEF Refresh, b
  <2>3. [observer[b] EXCEPT !.token = TokenOf(r)] \in Observers
    BY <1>0, <1>1, <2>1 DEF Observers
  <2>4. observer' \in [Blocks -> Observers]
    BY <1>0, <2>2, <2>3
  <2>5. \A a \in Blocks : /\ observer'[a].client_port = observer[a].client_port
                          /\ observer'[a].client_ipaddr = observer[a].client_ipaddr
    BY <1>0, <2>1, <2>2 DEF Observers
  <2>6. TableExact'
    BY <1>0, <2>2, <2>5 DEF TableExact
  <2> QED
    BY <1>0, <2>2, <2>4, <2>6 DEF Checked, Waiting, Places
<1>5. CASE Found(r) = {} /\ FreeBlocks # {} /\ rest_add_observer(memb_alloc, r, TokenOf(r))
  <2> DEFINE b == memb_alloc
             new == [client_port |-> r.port, client_ipaddr |-> r.addr, token |-> TokenOf(r)]
  <2>1. b \in Blocks /\ count[b] = 0
    BY <1>5, AllocGivesFree
  <2> HIDE DEF b
  <2>2. /\ observers' = Append(RemoveFirst(observers, b), b)
        /\ count' = [count EXCEPT ![b] = count[b] + 1]
        /\ observer' = [observer EXCEPT ![b] = new]
        /\ timer' = IF observers = <<>> THEN "running" ELSE timer
    BY <1>5 DEF rest_add_observer, list_add, list_remove, b
  <2>3. /\ RemoveFirst(observers, b) \in Seq(Blocks)
        /\ Distinct(RemoveFirst(observers, b))
        /\ \A x \in Blocks : Holds(RemoveFirst(observers, b), x) <=> Holds(observers, x) /\ x # b
    BY <1>0, <1>2, <2>1, RemoveFirstProperties
  <2>4. /\ observers' \in Seq(Blocks)
        /\ Distinct(observers')
        /\ \A x \in Blocks : Holds(observers', x) <=> Holds(RemoveFirst(observers, b), x) \/ x = b
    BY <2>1, <2>2, <2>3, AppendingProperties
  <2>5. new \in Observers
    BY <1>1 DEF Observers
  <2> HIDE DEF new
  <2>6. observer' \in [Blocks -> Observers]
    BY <1>0, <2>1, <2>2, <2>5
  <2>7. count' \in [Blocks -> Nat] /\ count'[b] = 1 /\ \A x \in Blocks \ {b} : count'[x] = count[x]
    BY <1>0, <2>1, <2>2
  <2>8. \A x \in Blocks : count'[x] = 1 <=> Holds(observers', x)
    BY <1>3, <2>1, <2>3, <2>4, <2>7
  <2>9. \A x \in Blocks : count[x] = 1 =>
          ~(observer[x].client_port = r.port /\ observer[x].client_ipaddr = r.addr)
    <3> SUFFICES ASSUME NEW x \in Blocks, count[x] = 1, IsObserver(x, r) PROVE FALSE
      BY DEF IsObserver
    <3>1. PICK i \in DOMAIN observers : observers[i] = x
      BY <1>3 DEF Holds
    <3>2. i \in Found(r)
      BY <3>1 DEF Found
    <3> QED
      BY <1>5, <3>2
  <2>10. observer'[b].client_port = r.port /\ observer'[b].client_ipaddr = r.addr
    BY <1>0, <2>1, <2>2 DEF new
  <2>11. \A x \in Blocks \ {b} : observer'[x] = observer[x]
    BY <1>0, <2>1, <2>2
  <2>12. \A x, y \in Blocks :
           count'[x] = 1 /\ count'[y] = 1
           /\ observer'[x].client_port = observer'[y].client_port
           /\ observer'[x].client_ipaddr = observer'[y].client_ipaddr
           => x = y
    <3> SUFFICES ASSUME NEW x \in Blocks, NEW y \in Blocks,
                        count'[x] = 1, count'[y] = 1,
                        observer'[x].client_port = observer'[y].client_port,
                        observer'[x].client_ipaddr = observer'[y].client_ipaddr
                 PROVE  x = y
      OBVIOUS
    <3>1. CASE x # b /\ y # b
      BY <1>0, <2>7, <2>11, <3>1 DEF TableExact
    <3>2. CASE x = b /\ y # b
      BY <2>7, <2>9, <2>10, <2>11, <3>2
    <3>3. CASE x # b /\ y = b
      BY <2>7, <2>9, <2>10, <2>11, <3>3
    <3> QED
      BY <3>1, <3>2, <3>3
  <2>13. \A x \in Blocks : count'[x] \in {0, 1}
    BY <1>0, <2>7 DEF TableExact
  <2>14. TableExact'
    BY <2>4, <2>8, <2>12, <2>13 DEF TableExact, Distinct, Holds
  <2>15. observers' # <<>>
    BY <2>2, <2>3
  <2> QED
    BY <1>0, <2>2, <2>4, <2>6, <2>7, <2>14, <2>15
<1>6. CASE Found(r) # {} /\ rest_remove_observer(observers[Min(Found(r))])
  <2> DEFINE b == observers[Min(Found(r))]
  <2>1. b \in Blocks /\ count[b] = 1
    BY <1>0, <1>6, FoundIsListed
  <2>2. observers # <<>>
    BY <1>0, <1>6, FoundIsListed
  <2> HIDE DEF b
  <2>3. /\ observers' = RemoveFirst(observers, b)
        /\ count' = [count EXCEPT ![b] = IF count[b] > 0 THEN count[b] - 1 ELSE 0]
        /\ observer' = [observer EXCEPT ![b] = NoOne]
        /\ timer' = IF observers' = <<>> THEN "off" ELSE timer
    BY <1>6 DEF rest_remove_observer, list_remove, memb_free, b
  <2>4. /\ observers' \in Seq(Blocks)
        /\ Distinct(observers')
        /\ \A x \in Blocks : Holds(observers', x) <=> Holds(observers, x) /\ x # b
    BY <1>0, <1>2, <2>1, <2>3, RemoveFirstProperties
  <2>5. observer' \in [Blocks -> Observers] /\ \A x \in Blocks \ {b} : observer'[x] = observer[x]
    BY <1>0, <1>1, <2>1, <2>3
  <2>6. count' \in [Blocks -> Nat] /\ count'[b] = 0 /\ \A x \in Blocks \ {b} : count'[x] = count[x]
    BY <1>0, <2>1, <2>3
  <2>a. \A x \in Blocks : count[x] \in {0, 1}
    BY <1>0 DEF TableExact
  <2>7. ASSUME NEW x \in Blocks
        PROVE  count'[x] \in {0, 1} /\ (count'[x] = 1 <=> Holds(observers', x))
    <3>1. Holds(observers', x) <=> Holds(observers, x) /\ x # b
      BY <2>4
    <3>2. CASE x = b
      BY <2>6, <3>1, <3>2
    <3>3. CASE x # b
      <4>1. count'[x] = count[x]
        BY <2>6, <3>3
      <4>2. count[x] = 1 <=> Holds(observers, x)
        BY <1>3
      <4> QED
        BY <2>a, <3>1, <3>3, <4>1, <4>2
    <3> QED
      BY <3>2, <3>3
  <2>8. \A x, y \in Blocks :
          count'[x] = 1 /\ count'[y] = 1
          /\ observer'[x].client_port = observer'[y].client_port
          /\ observer'[x].client_ipaddr = observer'[y].client_ipaddr
          => x = y
    <3>1. \A x \in Blocks : count'[x] = 1 => count[x] = 1 /\ observer'[x] = observer[x]
      BY <2>5, <2>6
    <3> QED
      BY <1>0, <3>1 DEF TableExact
  <2>9. TableExact'
    BY <2>4, <2>7, <2>8 DEF TableExact, Distinct, Holds
  <2> QED
    BY <1>0, <2>2, <2>3, <2>4, <2>5, <2>6, <2>9
<1>7. CASE UNCHANGED <<tableVars, timer>>
  <2>1. observers' = observers /\ count' = count /\ observer' = observer /\ timer' = timer
    BY <1>7 DEF tableVars
  <2>2. TableExact'
    BY <1>0, <2>1 DEF TableExact
  <2> QED
    BY <1>0, <2>1, <2>2 DEF Checked, Waiting, Places
<1>8. \/ Found(r) # {} /\ Refresh(observers[Min(Found(r))], r)
      \/ Found(r) = {} /\ FreeBlocks # {} /\ rest_add_observer(memb_alloc, r, TokenOf(r))
      \/ Found(r) # {} /\ rest_remove_observer(observers[Min(Found(r))])
      \/ UNCHANGED <<tableVars, timer>>
  <2>1. Register(r)
    BY DEF r
  <2>2. CASE HasOption(r, Observe) /\ Found(r) # {}
    BY <2>1, <2>2 DEF Register
  <2>3. CASE HasOption(r, Observe) /\ Found(r) = {} /\ FreeBlocks # {}
    BY <2>1, <2>3 DEF Register
  <2>4. CASE ~HasOption(r, Observe) /\ Found(r) # {}
    BY <2>1, <2>4 DEF Register
  <2>5. CASE \/ HasOption(r, Observe) /\ Found(r) = {} /\ FreeBlocks = {}
             \/ ~HasOption(r, Observe) /\ Found(r) = {}
    BY <2>1, <2>5 DEF Register
  <2> QED
    BY <2>2, <2>3, <2>4, <2>5
<1> QED
  BY <1>4, <1>5, <1>6, <1>7, <1>8

-----------------------------------------------------------------------------
(* Taking an event from the queue leaves the others in it, a timer's event *)
(* among them unless it is the one taken.                                  *)
LEMMA TakingAnEvent ==
  ASSUME TypeOK, queue # <<>>
  PROVE  /\ Tail(queue) \in Seq({"continue", "timer", "changed", "other"})
         /\ Len(Tail(queue)) = Len(queue) - 1
         /\ Head(queue) # "timer" /\ (\E k \in DOMAIN queue : queue[k] = "timer")
              => \E k \in DOMAIN Tail(queue) : Tail(queue)[k] = "timer"
<1>1. /\ queue \in Seq({"continue", "timer", "changed", "other"}) /\ Len(queue) \in Nat
      /\ DOMAIN queue = 1 .. Len(queue)
  BY DEF TypeOK
<1>2. /\ Tail(queue) \in Seq({"continue", "timer", "changed", "other"})
      /\ Len(Tail(queue)) = Len(queue) - 1
      /\ \A k \in 1 .. Len(queue) - 1 : Tail(queue)[k] = queue[k + 1]
  BY <1>1, HeadTailProperties
<1>3. ASSUME Head(queue) # "timer", NEW k \in DOMAIN queue, queue[k] = "timer"
      PROVE  \E j \in DOMAIN Tail(queue) : Tail(queue)[j] = "timer"
  <2>1. k # 1
    BY <1>1, <1>3
  <2>2. k - 1 \in 1 .. Len(queue) - 1 /\ (k - 1) + 1 = k
    BY <1>1, <2>1
  <2>3. Tail(queue)[k - 1] = "timer" /\ k - 1 \in DOMAIN Tail(queue)
    BY <1>1, <1>2, <1>3, <2>2
  <2> QED
    BY <2>3
<1> QED
  BY <1>2, <1>3

(* Posting loses no event that was in the queue, whether there is room or  *)
(* not.                                                                    *)
LEMMA PostingAnEvent ==
  ASSUME CoapAssumption,
         NEW q \in Seq({"continue", "timer", "changed", "other"}), Len(q) <= NumEvents,
         NEW ev \in {"continue", "timer", "changed", "other"}
  PROVE  /\ Post(q, ev) \in Seq({"continue", "timer", "changed", "other"})
         /\ Len(Post(q, ev)) <= NumEvents
         /\ \A k \in DOMAIN q : k \in DOMAIN Post(q, ev) /\ Post(q, ev)[k] = q[k]
         /\ Len(q) < NumEvents => Post(q, ev)[Len(q) + 1] = ev /\ Len(q) + 1 \in DOMAIN Post(q, ev)
<1>1. Len(q) \in Nat /\ DOMAIN q = 1 .. Len(q) /\ NumEvents \in Nat
  BY DEF CoapAssumption
<1>2. /\ Append(q, ev) \in Seq({"continue", "timer", "changed", "other"})
      /\ Len(Append(q, ev)) = Len(q) + 1
      /\ \A k \in 1 .. Len(q) : Append(q, ev)[k] = q[k]
      /\ Append(q, ev)[Len(q) + 1] = ev
  BY AppendProperties
<1>3. DOMAIN Append(q, ev) = 1 .. Len(q) + 1
  BY <1>2
<1>4. CASE Len(q) < NumEvents
  <2>1. Post(q, ev) = Append(q, ev)
    BY <1>4 DEF Post
  <2> QED
    BY <1>1, <1>2, <1>3, <1>4, <2>1
<1>5. CASE ~(Len(q) < NumEvents)
  BY <1>1, <1>5 DEF Post
<1> QED
  BY <1>4, <1>5
-----------------------------------------------------------------------------
(* The server starts with nobody on the list, every block free and the     *)
(* timer off.                                                              *)
LEMMA InitEstablishes == CoapAssumption /\ Init => IInv
<1> SUFFICES ASSUME CoapAssumption, Init PROVE IInv
  OBVIOUS
<1>1. NoOne \in Observers
  BY DEF NoOne, Observers
<1>2. queue \in Seq({"continue", "timer", "changed", "other"}) /\ Len(queue) <= NumEvents
  BY DEF Init, CoapAssumption
<1>0. late \in BOOLEAN
  BY DEF Init
<1>3. TypeOK
  <2>1. /\ observers \in Seq(Blocks)
        /\ count \in [Blocks -> Nat]
        /\ observer \in [Blocks -> Observers]
        /\ timer \in {"off", "running"}
        /\ outStr_buf \in {Empty, Tag}
        /\ told \subseteq Clients
    BY <1>1 DEF Init
  <2> QED
    BY <1>0, <1>2, <2>1 DEF TypeOK
<1>4. TableExact
  BY DEF Init, TableExact
<1>5. Checked
  BY DEF Init, Checked
<1> QED
  BY <1>3, <1>4, <1>5 DEF IInv

(* Each step keeps the invariant.                                          *)
LEMMA StepPreserves ==
  ASSUME CoapAssumption, IInv, [Next]_vars
  PROVE  IInv'
<1> DEFINE Ev == {"continue", "timer", "changed", "other"}
<1>0. /\ TypeOK /\ TableExact /\ Checked
      /\ observers \in Seq(Blocks) /\ count \in [Blocks -> Nat]
      /\ observer \in [Blocks -> Observers]
      /\ timer \in {"off", "running"}
      /\ queue \in Seq(Ev) /\ Len(queue) <= NumEvents
      /\ outStr_buf \in {Empty, Tag}
      /\ told \subseteq Clients
      /\ late \in BOOLEAN
  BY DEF IInv, TypeOK
<1>1. CASE Incoming
  <2>1. PICK c \in Clients, w \in Requests : handle_incoming_data(c, w)
    BY <1>1 DEF Incoming
  <2>2. UNCHANGED <<queue, outStr_buf, late>>
    BY <1>1 DEF Incoming
  <2>3. told' \subseteq Clients
    <3>1. told' = Believes(c, w, sent')
      BY <2>1 DEF handle_incoming_data
    <3>2. told' \in {told, told \cup {c}, told \ {c}}
      BY <3>1 DEF Believes
    <3> QED
      BY <1>0, <3>2
  <2>4. Register(request_of(c, w)) \/ UNCHANGED <<tableVars, timer>>
    BY <2>1 DEF handle_incoming_data
  <2>5. CASE Register(request_of(c, w))
    <3>1. /\ observers' \in Seq(Blocks)
          /\ count' \in [Blocks -> Nat]
          /\ observer' \in [Blocks -> Observers]
          /\ timer' \in {"off", "running"}
          /\ TableExact'
          /\ observers' # <<>> => timer' = "running" \/ (timer' = timer /\ observers # <<>>)
          /\ timer' = "running" => observers' # <<>>
      BY <2>5, RegisterKeepsTable
    <3>2. TypeOK'
      BY <1>0, <2>2, <2>3, <3>1 DEF TypeOK
    <3>3. Checked'
      BY <1>0, <2>2, <3>1 DEF Checked, Waiting, Places
    <3> QED
      BY <3>1, <3>2, <3>3 DEF IInv
  <2>6. CASE UNCHANGED <<tableVars, timer>>
    <3>1. /\ observers' = observers /\ count' = count /\ observer' = observer
          /\ timer' = timer /\ queue' = queue /\ outStr_buf' = outStr_buf /\ late' = late
      BY <2>2, <2>6 DEF tableVars
    <3>2. TypeOK'
      BY <1>0, <2>3, <3>1 DEF TypeOK
    <3>3. TableExact'
      BY <1>0, <3>1 DEF TableExact
    <3>4. Checked'
      BY <1>0, <3>1 DEF Checked, Waiting, Places
    <3> QED
      BY <3>2, <3>3, <3>4 DEF IInv
  <2> QED
    BY <2>4, <2>5, <2>6
<1>2. ASSUME observers' = observers, count' = count, observer' = observer,
             timer' \in {"off", "running"},
             queue' \in Seq(Ev), Len(queue') <= NumEvents,
             outStr_buf' \in {Empty, Tag}, told' = told, late' \in BOOLEAN,
             Checked'
      PROVE  IInv'
  <2>1. TypeOK'
    BY <1>0, <1>2 DEF TypeOK
  <2>2. TableExact'
    BY <1>0, <1>2 DEF TableExact
  <2> QED
    BY <1>2, <2>1, <2>2 DEF IInv
<1>3. CASE Take
  <2>0. told' = told /\ late' \in BOOLEAN
    BY <1>0, <1>3 DEF Take
  <2>1. CASE ManagerTimer
    <3>1. /\ queue # <<>> /\ Check
          /\ observers' = observers /\ count' = count /\ observer' = observer
          /\ outStr_buf' = outStr_buf
      BY <2>1 DEF ManagerTimer, Event, tableVars
    <3>2. Tail(queue) \in Seq(Ev) /\ Len(Tail(queue)) <= NumEvents
      BY <1>0, <3>1, TakingAnEvent DEF CoapAssumption
    <3>3. queue' \in Seq(Ev) /\ Len(queue') <= NumEvents
      BY <3>1, <3>2, PostingAnEvent DEF Check
    <3>4. timer' = IF observers # <<>> /\ timer = "off" THEN "running" ELSE timer
      BY <3>1 DEF Check, Due
    <3>5. Checked'
      BY <1>0, <3>1, <3>4 DEF Checked, Waiting, Places
    <3> QED
      BY <1>0, <1>2, <2>0, <3>1, <3>3, <3>4, <3>5
  <2>2. ASSUME queue # <<>>, Head(queue) # "timer", queue' = Tail(queue),
               observers' = observers, count' = count, observer' = observer, timer' = timer,
               outStr_buf' \in {Empty, Tag}
        PROVE  IInv'
    <3>1. /\ Tail(queue) \in Seq(Ev) /\ Len(Tail(queue)) <= NumEvents
          /\ (\E k \in DOMAIN queue : queue[k] = "timer")
               => \E k \in DOMAIN Tail(queue) : Tail(queue)[k] = "timer"
      BY <1>0, <2>2, TakingAnEvent DEF CoapAssumption
    <3>2. Checked'
      BY <1>0, <2>2, <3>1 DEF Checked, Waiting, Places
    <3> QED
      BY <1>0, <1>2, <2>0, <2>2, <3>1, <3>2
  <2>3. CASE ManagerResumes
    BY <1>0, <2>2, <2>3 DEF ManagerResumes, Event, tableVars
  <2>4. CASE ServerChanged
    <3>1. outStr_buf' \in {Empty, Tag}
      BY <1>0, <2>4 DEF ServerChanged, NotifyAll
    <3> QED
      BY <1>0, <2>2, <2>4, <3>1 DEF ServerChanged, Event, tableVars
  <2>5. CASE OtherTake
    BY <1>0, <2>2, <2>5 DEF OtherTake, Event, tableVars
  <2> QED
    BY <1>3, <2>1, <2>3, <2>4, <2>5 DEF Take
<1>4. CASE Expire
  <2>1. /\ timer = "running" /\ timer' = "off" /\ Len(queue) < NumEvents
        /\ queue' = Post(queue, "timer")
        /\ observers' = observers /\ count' = count /\ observer' = observer
        /\ outStr_buf' = outStr_buf /\ told' = told /\ late' \in BOOLEAN
    BY <1>0, <1>4 DEF Expire, Post, tableVars
  <2>2. /\ queue' \in Seq(Ev) /\ Len(queue') <= NumEvents
        /\ queue'[Len(queue) + 1] = "timer" /\ Len(queue) + 1 \in DOMAIN queue'
    BY <1>0, <2>1, PostingAnEvent
  <2>3. observers' # <<>>
    BY <1>0, <2>1 DEF Checked, Waiting, Places
  <2>4. timer' # "running"
    BY <2>1
  <2>5. \E k \in DOMAIN queue' : queue'[k] = "timer"
    BY <2>2
  <2>6. Checked'
    BY <2>3, <2>4, <2>5 DEF Checked, Waiting, Places
  <2> QED
    BY <1>0, <1>2, <2>1, <2>2, <2>6
<1>5. CASE NewTag
  <2>1. /\ observers' = observers /\ count' = count /\ observer' = observer
        /\ timer' = timer /\ queue' = queue /\ outStr_buf' = Tag
        /\ told' = told /\ late' \in BOOLEAN
    BY <1>0, <1>5 DEF NewTag, tableVars
  <2>2. Checked'
    BY <1>0, <2>1 DEF Checked, Waiting, Places
  <2> QED
    BY <1>0, <1>2, <2>1, <2>2
<1>6. CASE OtherPost
  <2>1. /\ Len(queue) < NumEvents /\ queue' = Post(queue, "other")
        /\ observers' = observers /\ count' = count /\ observer' = observer
        /\ timer' = timer /\ outStr_buf' = outStr_buf /\ told' = told /\ late' = late
    BY <1>6 DEF OtherPost, Post, tableVars
  <2>2. LET q == Post(queue, "other")
        IN  /\ q \in Seq(Ev) /\ Len(q) <= NumEvents
            /\ \A k \in DOMAIN queue : k \in DOMAIN q /\ q[k] = queue[k]
    BY <1>0, PostingAnEvent
  <2>3. Checked'
    BY <1>0, <2>1, <2>2 DEF Checked, Waiting, Places
  <2> QED
    BY <1>0, <1>2, <2>1, <2>2, <2>3
<1>7. CASE Leave \/ UNCHANGED vars
  <2>1. /\ observers' = observers /\ count' = count /\ observer' = observer
        /\ timer' = timer /\ queue' = queue /\ outStr_buf' = outStr_buf
        /\ told' = told /\ late' \in BOOLEAN
    BY <1>0, <1>7 DEF Leave, vars, tableVars
  <2>2. Checked'
    BY <1>0, <2>1 DEF Checked, Waiting, Places
  <2> QED
    BY <1>0, <1>2, <2>1, <2>2
<1> QED
  BY <1>1, <1>3, <1>4, <1>5, <1>6, <1>7 DEF Next

(* The inductive invariant holds in every state.                           *)
THEOREM Invariance == Spec => []IInv
<1>1. Init => IInv
  BY InitEstablishes, CoapAssumption
<1>2. IInv /\ [Next]_vars => IInv'
  BY StepPreserves, CoapAssumption
<1> QED
  BY <1>1, <1>2, PTL DEF Spec

(* The variables keep their types, the list of observers never an address  *)
(* that is not a block's: coap-server.c, rest.c.                           *)
THEOREM TypeCorrect == Spec => []TypeOK
<1>1. IInv => TypeOK
  BY DEF IInv
<1> QED
  BY <1>1, Invariance, PTL

(* The list of observers has each block that memb.c has handed out, once,  *)
(* and no block that is free; no client is on it twice, whatever it asks   *)
(* for and in whatever order: rest_add_observer() and                      *)
(* rest_remove_observer().                                                 *)
THEOREM TableIsExact == Spec => []TableExact
<1>1. IInv => TableExact
  BY DEF IInv
<1> QED
  BY <1>1, Invariance, PTL

(* The observed resource's timer runs or its event is in the queue, and it *)
(* runs for no resource that is not observed: rest_manager_process.        *)
THEOREM ObservedIsChecked == Spec => []Checked
<1>1. IInv => Checked
  BY DEF IInv
<1> QED
  BY <1>1, Invariance, PTL
-----------------------------------------------------------------------------
(* The numbers of up to three options add up as the code adds them up.     *)
Sums(s, k, c) == c = [i \in 0 .. k |-> IF i = 0 THEN 0 ELSE c[i - 1] + s[i]]

LEMMA SumOfThree ==
  ASSUME NEW s, NEW k \in 0 .. 3, \A i \in 1 .. k : s[i] \in Int
  PROVE  /\ k = 0 => SumTo(s, k) = 0
         /\ k = 1 => SumTo(s, k) = s[1]
         /\ k = 2 => SumTo(s, k) = s[1] + s[2]
         /\ k = 3 => SumTo(s, k) = s[1] + s[2] + s[3]
<1> DEFINE d == [i \in 0 .. k |-> IF i = 0 THEN 0 ELSE IF i = 1 THEN s[1]
                                  ELSE IF i = 2 THEN s[1] + s[2] ELSE s[1] + s[2] + s[3]]
           c == CHOOSE c : c = [i \in 0 .. k |-> IF i = 0 THEN 0 ELSE c[i - 1] + s[i]]
<1>1. Sums(s, k, d)
  <2>1. ASSUME NEW i \in 0 .. k, i # 0
        PROVE  d[i] = d[i - 1] + s[i]
    <3>1. i \in 1 .. 3 /\ i - 1 \in 0 .. k /\ 1 \in 1 .. k
      BY <2>1
    <3>2. CASE i = 1
      BY <3>1, <3>2
    <3>3. CASE i = 2
      BY <3>1, <3>3
    <3>4. CASE i = 3
      BY <3>1, <3>4
    <3> QED
      BY <3>1, <3>2, <3>3, <3>4
  <2>2. d[0] = 0
    OBVIOUS
  <2>3. d = [i \in 0 .. k |-> d[i]]
    OBVIOUS
  <2> HIDE DEF d
  <2>4. \A i \in 0 .. k : d[i] = IF i = 0 THEN 0 ELSE d[i - 1] + s[i]
    BY <2>1, <2>2
  <2> QED
    BY <2>3, <2>4, Zenon DEF Sums
<1>2. Sums(s, k, c)
  BY <1>1, Zenon DEF Sums
<1>3. SumTo(s, k) = c[k]
  BY DEF SumTo
<1> HIDE DEF c, d
<1>4. \A i \in 0 .. k : c[i] = IF i = 0 THEN 0 ELSE c[i - 1] + s[i]
  BY <1>2, Zenon DEF Sums
<1>5. c[0] = 0
  BY <1>4
<1>6. 1 <= k => c[1] = s[1]
  <2>1. HAVE 1 <= k
  <2>2. 1 \in 0 .. k /\ 1 \in 1 .. k
    BY <2>1
  <2>3. c[1] = c[1 - 1] + s[1]
    BY <1>4, <2>2
  <2> QED
    BY <1>5, <2>2, <2>3
<1>7. 2 <= k => c[2] = s[1] + s[2]
  <2>1. HAVE 2 <= k
  <2>2. 2 \in 0 .. k
    BY <2>1
  <2>3. c[2] = c[2 - 1] + s[2]
    BY <1>4, <2>2
  <2> QED
    BY <1>6, <2>1, <2>3
<1>8. k = 3 => c[3] = s[1] + s[2] + s[3]
  <2>1. HAVE k = 3
  <2>2. c[3] = c[3 - 1] + s[3]
    BY <1>4, <2>1
  <2> QED
    BY <1>7, <2>1, <2>2
<1> QED
  BY <1>3, <1>5, <1>6, <1>7, <1>8

(* A message of up to two options is read as it was written, as long as no *)
(* number needs more than four bits: parse_message() has the inverse of    *)
(* serialize_packet().  From the third option on it has not.               *)
Short(options, k, V) ==
  /\ options \in [1 .. k -> [n : 1 .. 15, value : V]]
  /\ k = 2 => options[1].n <= options[2].n

LEMMA WrittenIsRead ==
  ASSUME NEW m, NEW k \in 0 .. 2, NEW V, Short(m.options, k, V)
  PROVE  Numbered(serialize_packet(m)) = m.options
<1> DEFINE os == m.options
           ws == serialize_packet(m).options
           ns == Numbers(os)
           ds == Deltas(ws)
<1>1. DOMAIN os = 1 .. k /\ \A i \in 1 .. k : os[i] \in [n : 1 .. 15, value : V]
  BY DEF Short
<1>2. DOMAIN ns = 1 .. k /\ \A i \in 1 .. k : ns[i] = os[i].n /\ ns[i] \in 1 .. 15
  BY <1>1 DEF Numbers
<1>3. /\ DOMAIN ws = 1 .. k
      /\ \A i \in 1 .. k : /\ ws[i].delta = (os[i].n - SumTo(ns, i - 1)) % 16
                           /\ ws[i].value = os[i].value
  BY <1>1 DEF serialize_packet
<1>4. \A i \in 1 .. k : ds[i] = ws[i].delta
  BY <1>3 DEF Deltas
<1>5. Numbered(serialize_packet(m)) = [i \in 1 .. k |-> [n |-> SumTo(ds, i), value |-> ws[i].value]]
  BY <1>3 DEF Numbered
<1> HIDE DEF os, ws, ns, ds
<1>6. 1 <= k => ds[1] = os[1].n
  <2>1. HAVE 1 <= k
  <2>2. 1 \in 1 .. k /\ SumTo(ns, 1 - 1) = 0
    BY <2>1, SumOfThree
  <2>3. (os[1].n - 0) % 16 = os[1].n
    BY <1>1, <2>2
  <2> QED
    BY <1>3, <1>4, <2>2, <2>3
<1>7. k = 2 => ds[2] = os[2].n - os[1].n
  <2>1. HAVE k = 2
  <2>2. ns[1] \in Int
    BY <1>2, <2>1
  <2>3. SumTo(ns, 1) = ns[1]
    BY <2>2, SumOfThree
  <2>4. SumTo(ns, 2 - 1) = os[1].n
    BY <1>2, <2>1, <2>3
  <2>5. os[1].n <= os[2].n /\ os[1].n \in 1 .. 15 /\ os[2].n \in 1 .. 15
    BY <1>1, <2>1 DEF Short, os
  <2>6. (os[2].n - os[1].n) % 16 = os[2].n - os[1].n
    BY <2>5
  <2> QED
    BY <1>3, <1>4, <2>1, <2>4, <2>6
<1>8. \A i \in 1 .. k : SumTo(ds, i) = os[i].n
  <2> TAKE i \in 1 .. k
  <2>0. \A j \in 1 .. k : os[j].n \in Int
    BY <1>1
  <2>1. CASE i = 1
    <3>1. ds[1] \in Int
      BY <1>6, <2>0, <2>1
    <3> QED
      BY <1>6, <2>1, <3>1, SumOfThree
  <2>2. CASE i = 2
    <3>1. k = 2
      BY <2>2
    <3>2. ds[1] = os[1].n /\ ds[2] = os[2].n - os[1].n /\ os[1].n \in Int /\ os[2].n \in Int
      BY <1>6, <1>7, <2>0, <3>1
    <3>3. \A j \in 1 .. 2 : ds[j] \in Int
      BY <3>2
    <3>4. SumTo(ds, 2) = ds[1] + ds[2]
      BY <3>3, SumOfThree
    <3> QED
      BY <2>2, <3>2, <3>4
  <2> QED
    BY <2>1, <2>2
<1>9. \A i \in 1 .. k : os[i] = [n |-> SumTo(ds, i), value |-> ws[i].value]
  BY <1>1, <1>3, <1>8
<1>10. os = [i \in 1 .. k |-> os[i]]
  BY DEF Short, os
<1> QED
  BY <1>5, <1>9, <1>10 DEF os

(* What has the domain of a list is one.                                   *)
LEMMA ListOf ==
  ASSUME NEW k \in Nat, NEW s, s = [i \in 1 .. k |-> s[i]]
  PROVE  Len(s) = k /\ DOMAIN s = 1 .. k
<1> DEFINE T == {s[i] : i \in 1 .. k}
<1>1. s \in [1 .. k -> T]
  OBVIOUS
<1> HIDE DEF T
<1>2. s \in Seq(T)
  <2>1. s \in UNION {[1 .. n -> T] : n \in Nat}
    BY <1>1, Zenon
  <2>2. Seq(T) = UNION {[1 .. n -> T] : n \in Nat}
    BY SeqDef, Zenon
  <2> QED
    BY <2>1, <2>2, Zenon
<1>3. DOMAIN s = 1 .. k
  BY <1>1
<1> QED
  BY <1>2, <1>3, LenProperties

(* The parser finds the fields as they were, and no fault, where there are *)
(* up to three options and none of them is of the path.                    *)
LEMMA ParsedWithoutFault ==
  ASSUME NEW w, NEW k \in 0 .. 3, DOMAIN w.options = 1 .. k, w.cut = FALSE,
         \A i \in 1 .. k : Numbered(w)[i].n # Uri_Path
  PROVE  LET a == parse_message(w, 0)
         IN  /\ a.error = "NO_ERROR" /\ a.options = Numbered(w)
             /\ a.type = w.type /\ a.code = w.code /\ a.tid = w.tid /\ a.payload = w.payload
<1> DEFINE a == parse_message(w, 0)
           o == Numbered(w)
<1>1. DOMAIN o = 1 .. k /\ Len(o) = k
  <2>1. o = [i \in 1 .. k |-> o[i]]
    BY DEF Numbered
  <2> HIDE DEF o
  <2> QED
    BY <2>1, ListOf
<1>2. Path(o) = <<>>
  BY <1>1 DEF Path
<1>3. Allocates(0, SizeofOption * Len(o))
  BY <1>1 DEF Allocates, Even, SizeofOption, COAP_DATA_BUFF_SIZE
<1> HIDE DEF o
<1>4. a.error = Fault(FALSE, FALSE)
  BY <1>2, <1>3 DEF parse_message, o
<1>5. Fault(FALSE, FALSE) = "NO_ERROR"
  BY Zenon DEF Fault
<1>6. /\ a.options = o
      /\ a.type = w.type /\ a.code = w.code /\ a.tid = w.tid /\ a.payload = w.payload
  BY DEF parse_message, o
<1> QED
  BY <1>4, <1>5, <1>6 DEF o

LEMMA ReadWithoutFault ==
  ASSUME NEW m, NEW k \in 0 .. 2, NEW V, Short(m.options, k, V),
         \A i \in 1 .. k : m.options[i].n # Uri_Path
  PROVE  LET a == parse_message(serialize_packet(m), 0)
         IN  /\ a.error = "NO_ERROR" /\ a.options = m.options
             /\ a.type = m.type /\ a.code = m.code /\ a.tid = m.tid /\ a.payload = m.payload
<1> DEFINE w == serialize_packet(m)
<1>1. Numbered(w) = m.options
  BY WrittenIsRead
<1>2. /\ w.type = m.type /\ w.code = m.code /\ w.tid = m.tid /\ w.payload = m.payload
      /\ w.cut = FALSE
  BY DEF serialize_packet
<1>3. DOMAIN w.options = 1 .. k
  BY DEF serialize_packet, Short
<1> HIDE DEF w
<1>4. LET a == parse_message(w, 0)
      IN  /\ a.error = "NO_ERROR" /\ a.options = Numbered(w)
          /\ a.type = w.type /\ a.code = w.code /\ a.tid = w.tid /\ a.payload = w.payload
  <2>1. k \in 0 .. 3 /\ \A i \in 1 .. k : Numbered(w)[i].n # Uri_Path
    BY <1>1
  <2> QED
    BY <1>2, <1>3, <2>1, ParsedWithoutFault
<1> QED
  BY <1>1, <1>2, <1>4 DEF w

(* What options up to two are asked for.                                   *)
LEMMA OptionsOfNone ==
  ASSUME NEW m, m.options = <<>>, NEW n
  PROVE  ~HasOption(m, n)
BY DEF HasOption, Named

LEMMA OptionsOfOne ==
  ASSUME NEW m, NEW x, m.options = <<x>>, NEW n
  PROVE  /\ HasOption(m, n) <=> x.n = n
         /\ x.n = n => coap_get_option(m, n) = x.value
<1>1. Named(m, n) = IF x.n = n THEN {1} ELSE {}
  BY DEF Named
<1>2. Min({1}) = 1
  BY MinProperties
<1> QED
  BY <1>1, <1>2 DEF HasOption, coap_get_option

LEMMA OptionsOfTwo ==
  ASSUME NEW m, NEW x, NEW y, m.options = <<x, y>>, x.n # y.n, NEW n
  PROVE  /\ HasOption(m, n) <=> x.n = n \/ y.n = n
         /\ x.n = n => coap_get_option(m, n) = x.value
         /\ y.n = n => coap_get_option(m, n) = y.value
<1>1. /\ x.n = n => Named(m, n) = {1}
      /\ y.n = n => Named(m, n) = {2}
      /\ x.n # n /\ y.n # n => Named(m, n) = {}
  BY DEF Named
<1>2. Min({1}) = 1 /\ Min({2}) = 2
  BY MinProperties
<1> QED
  BY <1>1, <1>2 DEF HasOption, coap_get_option
-----------------------------------------------------------------------------
(* The setters of a packet (coap_set_option, coap_set_payload).            *)
Fields == {"type", "code", "tid", "options", "payload", "used"}

LEMMA SettingAnOption ==
  ASSUME NEW m, DOMAIN m = Fields, NEW n, NEW v
  PROVE  LET p == coap_set_option(m, n, v)
         IN  /\ DOMAIN p = Fields
             /\ p.type = m.type /\ p.code = m.code /\ p.tid = m.tid /\ p.payload = m.payload
             /\ IF Allocates(m.used, SizeofOption + v.len)
                THEN /\ p.used = m.used + Even(SizeofOption + v.len)
                     /\ p.options = InsertAt(m.options, Before(m.options, n), [n |-> n, value |-> v])
                ELSE p = m
BY DEF coap_set_option, Fields

LEMMA SettingThePayload ==
  ASSUME NEW m, DOMAIN m = Fields, NEW v
  PROVE  LET p == coap_set_payload(m, v)
         IN  /\ DOMAIN p = Fields
             /\ p.type = m.type /\ p.code = m.code /\ p.tid = m.tid /\ p.options = m.options
             /\ IF Allocates(m.used, v.len)
                THEN p.used = m.used + Even(v.len) /\ p.payload = v
                ELSE p = m
BY DEF coap_set_payload, Fields

(* An option goes before one with a greater number.                        *)
LEMMA InsertingAnOption ==
  ASSUME NEW o, NEW n \in Nat
  PROVE  /\ InsertAt(<<>>, Before(<<>>, n), o) = <<o>>
         /\ \A x : x.n \in Nat /\ x.n > n => InsertAt(<<x>>, Before(<<x>>, n), o) = <<o, x>>
<1>1. Before(<<>>, n) = 1
  <2>1. {i \in DOMAIN <<>> : <<>>[i].n > n} \cup {Len(<<>>) + 1} = {1}
    OBVIOUS
  <2>2. Min({1}) = 1
    BY MinProperties
  <2> QED
    BY <2>1, <2>2 DEF Before
<1>2. InsertAt(<<>>, 1, o) = <<o>>
  <2>1. SubSeq(<<>>, 1, 1 - 1) = <<>> /\ SubSeq(<<>>, 1, Len(<<>>)) = <<>>
    OBVIOUS
  <2>2. <<o>> \in Seq({o})
    OBVIOUS
  <2>3. (<<>> \o <<o>>) \o <<>> = <<o>>
    BY <2>2, ConcatEmptySeq
  <2> QED
    BY <2>1, <2>3, Zenon DEF InsertAt
<1>3. ASSUME NEW x, x.n \in Nat, x.n > n
      PROVE  InsertAt(<<x>>, Before(<<x>>, n), o) = <<o, x>>
  <2>1. {i \in DOMAIN <<x>> : <<x>>[i].n > n} \cup {Len(<<x>>) + 1} = {1, 2}
    BY <1>3
  <2>2. Min({1, 2}) = 1
    BY MinProperties
  <2>3. Before(<<x>>, n) = 1
    BY <2>1, <2>2 DEF Before
  <2>4. InsertAt(<<x>>, 1, o) = <<o, x>>
    <3>1. SubSeq(<<x>>, 1, 1 - 1) = <<>>
      OBVIOUS
    <3>2. SubSeq(<<x>>, 1, Len(<<x>>)) = <<x>>
      <4>1. <<x>> \in Seq({x})
        OBVIOUS
      <4> QED
        BY <4>1, SubSeqFull
    <3>3. (<<>> \o <<o>>) \o <<x>> = <<o, x>>
      <4>1. <<o>> \in Seq({o, x}) /\ x \in {o, x}
        OBVIOUS
      <4>2. <<>> \o <<o>> = <<o>> /\ <<o>> \o <<x>> = Append(<<o>>, x)
        BY <4>1, ConcatEmptySeq, AppendIsConcat
      <4>3. Append(<<o>>, x) = <<o, x>>
        <5>1. Append(<<o>>, x) \in Seq({o, x}) /\ <<o, x>> \in Seq({o, x})
          BY <4>1, AppendProperties
        <5>2. /\ Len(Append(<<o>>, x)) = 2 /\ Len(<<o, x>>) = 2
              /\ Append(<<o>>, x)[1] = o /\ Append(<<o>>, x)[2] = x
          BY <4>1, AppendProperties
        <5>3. \A i \in 1 .. 2 : Append(<<o>>, x)[i] = <<o, x>>[i]
          BY <5>2
        <5> QED
          BY <5>1, <5>2, <5>3, SeqEqual
      <4> QED
        BY <4>2, <4>3
    <3> QED
      BY <3>1, <3>2, <3>3, Zenon DEF InsertAt
  <2> QED
    BY <2>3, <2>4
<1> QED
  BY <1>1, <1>2, <1>3
-----------------------------------------------------------------------------
(* What the server answers.                                                *)

(* The request the server looks at is the message as it was parsed, with   *)
(* the endpoint it came from.                                              *)
LEMMA RequestIsParsed ==
  ASSUME NEW c, NEW w \in Requests
  PROVE  LET r == request_of(c, w)
             p == Parsed[w]
         IN  /\ r.addr = c.addr /\ r.port = UIP_HTONS(c.port)
             /\ r.error = p.error /\ r.type = p.type /\ r.code = p.code /\ r.tid = p.tid
             /\ r.options = p.options /\ r.url = p.url /\ r.used = p.used
             /\ p.type = w.type /\ p.code = w.code /\ p.tid = w.tid
<1>1. Parsed[w] = parse_message(w, SizeofPacket)
  BY DEF Parsed
<1>2. /\ DOMAIN Parsed[w] = {"error", "type", "code", "tid", "addr", "port", "options",
                             "payload", "url", "used"}
      /\ Parsed[w].type = w.type /\ Parsed[w].code = w.code /\ Parsed[w].tid = w.tid
  BY <1>1 DEF parse_message
<1> QED
  BY <1>2 DEF request_of

LEMMA SameOptions ==
  ASSUME NEW a, NEW b, a.options = b.options
  PROVE  /\ \A n : HasOption(a, n) <=> HasOption(b, n)
         /\ TokenOf(a) = TokenOf(b)
<1>1. \A n : Named(a, n) = Named(b, n)
  BY DEF Named
<1> QED
  BY <1>1 DEF HasOption, TokenOf, coap_get_option

(* The answer before the resource's handler has seen it (init_response).   *)
LEMMA PreparedAnswer ==
  ASSUME NEW r
  PROVE  LET m == init_response(r)
         IN  /\ DOMAIN m = Fields /\ m.options = <<>> /\ m.code = CONTENT_205
             /\ m.used = r.used + SizeofPacket /\ m.payload = Nothing
             /\ r.type = "CON" => m.type = "ACK"
             /\ m.type = "ACK" => m.tid = r.tid
<1> DEFINE q == [init_packet(r.used + SizeofPacket) EXCEPT !.code = CONTENT_205]
<1>1. /\ DOMAIN q = Fields /\ q.options = <<>> /\ q.code = CONTENT_205
      /\ q.used = r.used + SizeofPacket /\ q.type = "CON" /\ q.payload = Nothing
  BY DEF init_packet, Fields
<1>2. init_response(r) = CASE r.type = "CON" -> [q EXCEPT !.type = "ACK", !.tid = r.tid]
                           [] r.type = "NON" -> [q EXCEPT !.type = "NON", !.tid = OwnTid]
                           [] OTHER          -> q
  BY Zenon DEF init_response
<1> HIDE DEF q
<1>3. CASE r.type = "CON"
  <2>1. init_response(r) = [q EXCEPT !.type = "ACK", !.tid = r.tid]
    BY <1>2, <1>3, Zenon
  <2> QED
    BY <1>1, <1>3, <2>1 DEF Fields
<1>4. CASE r.type = "NON"
  <2>1. init_response(r) = [q EXCEPT !.type = "NON", !.tid = OwnTid]
    BY <1>2, <1>4, Zenon
  <2> QED
    BY <1>1, <1>4, <2>1 DEF Fields
<1>5. CASE r.type # "CON" /\ r.type # "NON"
  <2>1. init_response(r) = q
    BY <1>2, <1>5, Zenon
  <2> QED
    BY <1>1, <1>5, <2>1
<1> QED
  BY <1>3, <1>4, <1>5

(* What the buffer gives for the options and texts there are: an even      *)
(* number of bytes, one more than asked for at most.                       *)
LEMMA EvenSizes ==
  /\ \A n \in 0 .. 200 : Even(n) \in Nat /\ n <= Even(n) /\ Even(n) <= n + 1
  /\ \A n \in 0 .. 8 : Even(SizeofOption + n) \in 8 .. 16
  /\ \A n \in 0 .. 2 : Even(SizeofOption + n) \in 8 .. 10
  /\ Even(13) = 14 /\ Even(37) = 38
<1>1. \A n \in 0 .. 200 : Even(n) \in Nat /\ n <= Even(n) /\ Even(n) <= n + 1
  <2> TAKE n \in 0 .. 200
  <2>1. n % 2 \in {0, 1}
    OBVIOUS
  <2>2. n + (n % 2) \in 0 .. 255
    BY <2>1
  <2>3. (n + (n % 2)) % 256 = n + (n % 2)
    BY <2>2
  <2> QED
    BY <2>1, <2>3 DEF Even
<1>2. Even(16) = 16 /\ Even(10) = 10 /\ Even(13) = 14 /\ Even(37) = 38
  BY DEF Even
<1>3. \A n \in 0 .. 8 : Even(SizeofOption + n) \in 8 .. 16
  <2> TAKE n \in 0 .. 8
  <2>1. SizeofOption + n \in 0 .. 200 /\ SizeofOption + n = 8 + n
    BY DEF SizeofOption
  <2>2. Even(8 + n) \in Nat /\ 8 + n <= Even(8 + n) /\ Even(8 + n) <= 8 + n + 1
    BY <1>1, <2>1
  <2> QED
    BY <1>2, <2>1, <2>2
<1>4. \A n \in 0 .. 2 : Even(SizeofOption + n) \in 8 .. 10
  <2> TAKE n \in 0 .. 2
  <2>1. SizeofOption + n \in 0 .. 200 /\ SizeofOption + n = 8 + n
    BY DEF SizeofOption
  <2>2. Even(8 + n) \in Nat /\ 8 + n <= Even(8 + n) /\ Even(8 + n) <= 8 + n + 1
    BY <1>1, <2>1
  <2> QED
    BY <1>2, <2>1, <2>2
<1> QED
  BY <1>1, <1>2, <1>3, <1>4

(* What a request takes of the buffer: its packet, its options and, if it  *)
(* has one, its path.  Ten options leave 105 bytes, fifteen 65.            *)
LEMMA RequestTakes ==
  ASSUME NEW w \in Requests
  PROVE  LET p == Parsed[w]
         IN  /\ p.used \in Nat /\ p.used <= 190
             /\ Len(p.options) <= 10 => p.used <= 150
             /\ TokenOf(p).len \in 0 .. 8
<1> DEFINE p == Parsed[w]
           o == Numbered(w)
           u == UrlRoom(Path(o))
<1>1. PICK n \in 0 .. 15 : DOMAIN w.options = 1 .. n
  BY MessagesAssumption
<1>2. Len(o) = n
  <2>1. o = [i \in 1 .. n |-> o[i]]
    BY <1>1 DEF Numbered
  <2> HIDE DEF o
  <2> QED
    BY <2>1, ListOf
<1>3. p = parse_message(w, SizeofPacket)
  BY DEF Parsed
<1>4. p.used = SizeofPacket + SizeofOption * Len(o) + u /\ p.options = o
  BY <1>3 DEF parse_message
<1>5. u \in {0, 32}
  BY DEF UrlRoom, MAX_URI_PATH_LENGTH
<1>6. TokenOf(p).len \in 0 .. 8
  BY MessagesAssumption
<1> HIDE DEF p, o, u
<1>7. p.used = 38 + 8 * n + u
  BY <1>2, <1>4 DEF SizeofPacket, SizeofOption
<1> QED
  BY <1>2, <1>4, <1>5, <1>6, <1>7 DEF p

(* The token is the first option set.                                      *)
Echoed(r) ==
  IF HasOption(r, Token) THEN SetToken(init_response(r), TokenOf(r)) ELSE init_response(r)

LEMMA EchoedToken ==
  ASSUME NEW r, r.used \in Nat, r.used <= 190, TokenOf(r).len \in 0 .. 8
  PROVE  LET e == Echoed(r)
             m == init_response(r)
         IN  /\ DOMAIN e = Fields /\ e.type = m.type /\ e.code = CONTENT_205 /\ e.tid = m.tid
             /\ e.payload = Nothing
             /\ e.options = IF HasOption(r, Token) THEN <<[n |-> Token, value |-> TokenOf(r)]>>
                            ELSE <<>>
             /\ e.used \in Nat /\ e.used <= r.used + 54
<1> DEFINE m == init_response(r)
           e == Echoed(r)
<1>1. /\ DOMAIN m = Fields /\ m.options = <<>> /\ m.code = CONTENT_205
      /\ m.used = r.used + SizeofPacket /\ m.payload = Nothing
  BY PreparedAnswer
<1> HIDE DEF m
<1>2. m.used = r.used + 38 /\ Even(SizeofOption + TokenOf(r).len) \in 8 .. 16
  BY <1>1, EvenSizes DEF SizeofPacket
<1>3. CASE HasOption(r, Token)
  <2>1. e = coap_set_option(m, Token, TokenOf(r))
    BY <1>3 DEF Echoed, SetToken, m
  <2>2. InsertAt(<<>>, Before(<<>>, Token), [n |-> Token, value |-> TokenOf(r)])
          = <<[n |-> Token, value |-> TokenOf(r)]>>
    BY InsertingAnOption DEF Token
  <2>3. Allocates(m.used, SizeofOption + TokenOf(r).len)
    BY <1>2 DEF Allocates, COAP_DATA_BUFF_SIZE
  <2> HIDE DEF e
  <2>4. /\ DOMAIN e = Fields /\ e.type = m.type /\ e.code = m.code /\ e.tid = m.tid
        /\ e.payload = m.payload
        /\ e.used = m.used + Even(SizeofOption + TokenOf(r).len)
        /\ e.options = InsertAt(m.options, Before(m.options, Token), [n |-> Token, value |-> TokenOf(r)])
    BY <1>1, <2>1, <2>3, SettingAnOption
  <2>5. e.used \in Nat /\ e.used <= r.used + 54
    BY <1>2, <2>4
  <2> QED
    BY <1>1, <1>3, <2>2, <2>4, <2>5 DEF e, m
<1>4. CASE ~HasOption(r, Token)
  <2>1. e = m
    BY <1>4 DEF Echoed, m
  <2> QED
    BY <1>1, <1>2, <1>4, <2>1 DEF m
<1> QED
  BY <1>3, <1>4

(* Another option goes before the token.                                   *)
Options(n, v, token, has) ==
  IF has THEN <<[n |-> n, value |-> v], [n |-> Token, value |-> token]>>
         ELSE <<[n |-> n, value |-> v]>>

LEMMA OptionBeforeToken ==
  ASSUME NEW e, DOMAIN e = Fields, NEW token, NEW has \in BOOLEAN,
         e.options = IF has THEN <<[n |-> Token, value |-> token]>> ELSE <<>>,
         NEW n \in {Content_Type, Observe}, NEW v, Allocates(e.used, SizeofOption + v.len)
  PROVE  LET p == coap_set_option(e, n, v)
         IN  /\ DOMAIN p = Fields /\ p.type = e.type /\ p.code = e.code /\ p.tid = e.tid
             /\ p.payload = e.payload /\ p.used = e.used + Even(SizeofOption + v.len)
             /\ p.options = Options(n, v, token, has)
<1> DEFINE p == coap_set_option(e, n, v)
           o == [n |-> n, value |-> v]
           t == [n |-> Token, value |-> token]
<1>1. /\ DOMAIN p = Fields /\ p.type = e.type /\ p.code = e.code /\ p.tid = e.tid
      /\ p.payload = e.payload /\ p.used = e.used + Even(SizeofOption + v.len)
      /\ p.options = InsertAt(e.options, Before(e.options, n), o)
  BY SettingAnOption
<1> HIDE DEF p, o
<1>2. n \in Nat /\ t.n \in Nat /\ t.n > n
  BY DEF Content_Type, Observe, Token
<1> HIDE DEF t
<1>3. InsertAt(<<>>, Before(<<>>, n), o) = <<o>> /\ InsertAt(<<t>>, Before(<<t>>, n), o) = <<o, t>>
  BY <1>2, InsertingAnOption
<1>4. p.options = IF has THEN <<o, t>> ELSE <<o>>
  BY <1>1, <1>3 DEF t
<1> QED
  BY <1>1, <1>4 DEF Options, p, o, t

(* A token, an option or both, or none, make a message that is read as it  *)
(* was written, whose token is the one that was set.                       *)
LEMMA OptionsAreShort ==
  ASSUME NEW s, NEW token, NEW has \in BOOLEAN, NEW n \in {Content_Type, Observe}, NEW v,
         s.options = Options(n, v, token, has)
  PROVE  /\ \E k \in 0 .. 2 : Short(s.options, k, {v, token})
                                /\ \A i \in 1 .. k : s.options[i].n # Uri_Path
         /\ HasOption(s, n)
         /\ HasOption(s, Token) <=> has
         /\ has => coap_get_option(s, Token) = token
<1> DEFINE o == [n |-> n, value |-> v]
           t == [n |-> Token, value |-> token]
<1>0. /\ o \in [n : 1 .. 15, value : {v, token}] /\ t \in [n : 1 .. 15, value : {v, token}]
      /\ o.n = n /\ t.n = Token /\ t.value = token /\ n < Token /\ n \in Nat
      /\ n # Uri_Path /\ Token # Uri_Path /\ n # Token /\ Token \in Nat
  BY DEF Content_Type, Observe, Token, Uri_Path
<1>1. CASE has
  <2>1. s.options = <<o, t>>
    BY <1>1 DEF Options
  <2> HIDE DEF o, t
  <2>2. Short(s.options, 2, {v, token})
    BY <1>0, <2>1 DEF Short
  <2>3. \A i \in 1 .. 2 : s.options[i].n # Uri_Path
    BY <1>0, <2>1
  <2>4. /\ HasOption(s, n) /\ HasOption(s, Token)
        /\ coap_get_option(s, Token) = token
    BY <1>0, <2>1, OptionsOfTwo
  <2>5. \E k \in 0 .. 2 : Short(s.options, k, {v, token})
                            /\ \A i \in 1 .. k : s.options[i].n # Uri_Path
    <3>1. 2 \in 0 .. 2
      OBVIOUS
    <3> QED
      BY <2>2, <2>3, <3>1, Zenon
  <2> QED
    BY <1>1, <2>4, <2>5, Zenon
<1>2. CASE ~has
  <2>1. s.options = <<o>>
    BY <1>2 DEF Options
  <2> HIDE DEF o, t
  <2>2. Short(s.options, 1, {v, token})
    BY <1>0, <2>1 DEF Short
  <2>3. \A i \in 1 .. 1 : s.options[i].n # Uri_Path
    BY <1>0, <2>1
  <2>4. HasOption(s, n) /\ ~HasOption(s, Token)
    BY <1>0, <2>1, OptionsOfOne
  <2> QED
    BY <1>2, <2>2, <2>3, <2>4
<1> QED
  BY <1>1, <1>2

LEMMA TokenIsShort ==
  ASSUME NEW s, NEW token, NEW has \in BOOLEAN,
         s.options = IF has THEN <<[n |-> Token, value |-> token]>> ELSE <<>>
  PROVE  /\ \E k \in 0 .. 2 : Short(s.options, k, {token})
                                /\ \A i \in 1 .. k : s.options[i].n # Uri_Path
         /\ ~HasOption(s, Observe)
         /\ HasOption(s, Token) <=> has
         /\ has => coap_get_option(s, Token) = token
<1> DEFINE t == [n |-> Token, value |-> token]
<1>0. /\ t \in [n : 1 .. 15, value : {token}]
      /\ t.n = Token /\ t.value = token /\ Token # Uri_Path /\ Token # Observe
  BY DEF Observe, Token, Uri_Path
<1>1. CASE has
  <2>1. s.options = <<t>>
    BY <1>1
  <2> HIDE DEF t
  <2>2. Short(s.options, 1, {token})
    BY <1>0, <2>1 DEF Short
  <2>3. \A i \in 1 .. 1 : s.options[i].n # Uri_Path
    BY <1>0, <2>1
  <2>4. HasOption(s, Token) /\ ~HasOption(s, Observe) /\ coap_get_option(s, Token) = token
    BY <1>0, <2>1, OptionsOfOne
  <2> QED
    BY <1>1, <2>2, <2>3, <2>4
<1>2. CASE ~has
  <2>1. s.options = <<>>
    BY <1>2
  <2>2. Short(s.options, 0, {token})
    BY <2>1 DEF Short
  <2>3. \A n : ~HasOption(s, n)
    BY <2>1, OptionsOfNone
  <2> QED
    BY <1>2, <2>2, <2>3
<1> QED
  BY <1>1, <1>2

(* The resources are three, and each handler does what it does.            *)
Hi   == <<"hi">>
Core == <<".well-known", "core">>

LEMMA HandlersDo ==
  /\ Resources = {Hi, Core, Observable} /\ Resources \ {Observable} = {Hi, Core}
  /\ Hi # Observable /\ Core # Observable
  /\ Text(Hi).len = 13 /\ Text(Core).len = 37
  /\ \A m : /\ Handler(Hi, m) =
                 coap_set_payload(coap_set_option(m, Content_Type, Value(1, "plain")), Text(Hi))
            /\ Handler(Core, m) =
                 coap_set_option(coap_set_payload(m, Text(Core)), Content_Type, Value(1, "links"))
            /\ Handler(Observable, m) = m
<1>1. Hi # Core /\ Hi # Observable /\ Core # Observable
  BY DEF Hi, Core, Observable
<1>2. Resources = {Hi, Core, Observable}
  BY Zenon DEF Resources, Hi, Core, Observable
<1>3. Text(Hi) = Value(13, "Torrija here!") /\ Text(Core) = Value(37, "links")
  BY <1>1, Zenon DEF Text, Hi, Core
<1>4. Text(Hi).len = 13 /\ Text(Core).len = 37
  <2>1. \A len, is : Value(len, is).len = len
    BY DEF Value
  <2> QED
    BY <1>3, <2>1, ZenonT(20)
<1>5. ASSUME NEW m
      PROVE  /\ Handler(Hi, m) =
                  coap_set_payload(coap_set_option(m, Content_Type, Value(1, "plain")), Text(Hi))
             /\ Handler(Core, m) =
                  coap_set_option(coap_set_payload(m, Text(Core)), Content_Type, Value(1, "links"))
             /\ Handler(Observable, m) = m
  BY <1>1, Zenon DEF Handler, Hi, Core
<1> QED
  BY <1>1, <1>2, <1>4, <1>5

(* What is served has the token of the request, the mark of an observer if *)
(* it comes of the observable resource and its client is one, and the text *)
(* if it comes of another; it is read as it was written.                   *)
Readable(s) ==
  \E k \in 0 .. 2 : \E V : /\ Short(s.options, k, V)
                           /\ \A i \in 1 .. k : s.options[i].n # Uri_Path

LEMMA ServedAnswer ==
  ASSUME NEW r, r.used \in Nat, r.used <= 190, TokenOf(r).len \in 0 .. 8,
         Len(r.options) <= 10 => r.used <= 150,
         NEW bytes \in 0 .. 2, r.url \in Resources
  PROVE  LET m == init_response(r)
             s == Served(r, m, bytes)
         IN  /\ s.type = m.type /\ s.code = CONTENT_205 /\ s.tid = m.tid
             /\ Readable(s)
             /\ TokenOf(s) = TokenOf(r)
             /\ r.url = Observable => (HasOption(s, Observe) <=> Observes(r))
             /\ r.url # Observable =>
                  /\ s.payload \in {Text(r.url), Nothing}
                  /\ Len(r.options) <= 10 => s.payload = Text(r.url) /\ HasOption(s, Content_Type)
<1> DEFINE m == init_response(r)
           e == Echoed(r)
           s == Served(r, m, bytes)
           token == TokenOf(r)
           has == HasOption(r, Token)
<1>1. s = Handler(r.url, IF r.url = Observable /\ Observes(r) THEN SetObserve(e, bytes) ELSE e)
  BY Zenon DEF Served, Echoed
<1>2. has \in BOOLEAN
  BY Zenon DEF HasOption
<1>3. ASSUME NEW x, HasOption(x, Token) <=> has, has => coap_get_option(x, Token) = token
      PROVE  TokenOf(x) = token
  BY <1>3, Zenon DEF TokenOf
<1>4. /\ DOMAIN e = Fields /\ e.type = m.type /\ e.code = CONTENT_205 /\ e.tid = m.tid
      /\ e.payload = Nothing
      /\ e.options = IF has THEN <<[n |-> Token, value |-> token]>> ELSE <<>>
      /\ e.used \in Nat /\ e.used <= r.used + 54
  BY EchoedToken
<1> HIDE DEF m, e, s, token, has
<1>5. ASSUME NEW v, NEW n \in {Content_Type, Observe},
             s.options = Options(n, v, token, has)
      PROVE  Readable(s) /\ HasOption(s, n) /\ TokenOf(s) = token
  <2>1. /\ \E k \in 0 .. 2 : Short(s.options, k, {v, token})
                               /\ \A i \in 1 .. k : s.options[i].n # Uri_Path
        /\ HasOption(s, n)
        /\ HasOption(s, Token) <=> has
        /\ has => coap_get_option(s, Token) = token
    BY <1>2, <1>5, OptionsAreShort
  <2>2. TokenOf(s) = token
    BY <1>3, <2>1
  <2>3. Readable(s)
    BY <2>1, Zenon DEF Readable
  <2> QED
    BY <2>1, <2>2, <2>3
<1>6. ASSUME s.options = e.options
      PROVE  Readable(s) /\ ~HasOption(s, Observe) /\ TokenOf(s) = token
  <2>1. /\ \E k \in 0 .. 2 : Short(s.options, k, {token})
                               /\ \A i \in 1 .. k : s.options[i].n # Uri_Path
        /\ ~HasOption(s, Observe)
        /\ HasOption(s, Token) <=> has
        /\ has => coap_get_option(s, Token) = token
    BY <1>2, <1>4, <1>6, TokenIsShort
  <2>2. TokenOf(s) = token
    BY <1>3, <2>1
  <2>3. Readable(s)
    BY <2>1, Zenon DEF Readable
  <2> QED
    BY <2>1, <2>2, <2>3
<1>7. CASE r.url = Observable
  <2>1. CASE Observes(r)
    <3> DEFINE v == Value(bytes, "seconds")
    <3>1. s = coap_set_option(e, Observe, v)
      BY <1>1, <1>7, <2>1, HandlersDo, Zenon DEF SetObserve
    <3>2. v.len = bytes
      BY DEF Value
    <3> HIDE DEF v
    <3>3. Allocates(e.used, SizeofOption + v.len)
      <4>1. Even(SizeofOption + v.len) \in 8 .. 10
        BY <3>2, EvenSizes
      <4> QED
        BY <1>4, <4>1 DEF Allocates, COAP_DATA_BUFF_SIZE
    <3>4. /\ s.type = e.type /\ s.code = e.code /\ s.tid = e.tid
          /\ s.options = Options(Observe, v, token, has)
      BY <1>2, <1>4, <3>1, <3>3, OptionBeforeToken
    <3>5. Readable(s) /\ HasOption(s, Observe) /\ TokenOf(s) = token
      BY <1>5, <3>4
    <3> QED
      BY <1>4, <1>7, <2>1, <3>4, <3>5 DEF m, s, token
  <2>2. CASE ~Observes(r)
    <3>1. s = e
      BY <1>1, <1>7, <2>2, HandlersDo, Zenon
    <3>2. Readable(s) /\ ~HasOption(s, Observe) /\ TokenOf(s) = token
      BY <1>6, <3>1
    <3> QED
      BY <1>4, <1>7, <2>2, <3>1, <3>2 DEF m, s, token
  <2> QED
    BY <2>1, <2>2
<1>8. CASE r.url # Observable
  <2> DEFINE text == Text(r.url)
  <2>1. r.url \in {Hi, Core} /\ text.len \in {13, 37}
    BY <1>8, HandlersDo
  <2>2. s = Handler(r.url, e)
    BY <1>1, <1>8, Zenon
  <2>3. Even(text.len) \in Nat /\ Even(text.len) <= 38
    <3>1. CASE text.len = 13
      BY <3>1, EvenSizes
    <3>2. CASE text.len = 37
      BY <3>2, EvenSizes
    <3> QED
      BY <2>1, <3>1, <3>2
  <2>4. \A v : v.len = 1 => Even(SizeofOption + v.len) \in 8 .. 10
    BY EvenSizes
  <2> HIDE DEF text
  <2>5. ASSUME NEW v, s.type = e.type, s.code = e.code, s.tid = e.tid,
               s.options = Options(Content_Type, v, token, has) \/ s.options = e.options,
               s.payload \in {text, Nothing},
               Len(r.options) <= 10 =>
                 s.payload = text /\ s.options = Options(Content_Type, v, token, has)
        PROVE  /\ s.type = m.type /\ s.code = CONTENT_205 /\ s.tid = m.tid
               /\ Readable(s) /\ TokenOf(s) = token
               /\ s.payload \in {text, Nothing}
               /\ Len(r.options) <= 10 => s.payload = text /\ HasOption(s, Content_Type)
    <3>1. s.options = Options(Content_Type, v, token, has) =>
            Readable(s) /\ HasOption(s, Content_Type) /\ TokenOf(s) = token
      BY <1>5
    <3>2. s.options = e.options => Readable(s) /\ TokenOf(s) = token
      BY <1>6
    <3> QED
      BY <1>4, <2>5, <3>1, <3>2
  <2>6. CASE r.url = Hi
    <3> DEFINE v == Value(1, "plain")
               p == coap_set_option(e, Content_Type, v)
    <3>1. s = coap_set_payload(p, text)
      BY <2>2, <2>6, HandlersDo, Zenon DEF text
    <3>2. v.len = 1
      BY DEF Value
    <3> HIDE DEF v
    <3>3. /\ DOMAIN p = Fields /\ p.type = e.type /\ p.code = e.code /\ p.tid = e.tid
          /\ p.payload = Nothing
          /\ \/ /\ Allocates(e.used, SizeofOption + v.len)
                /\ p.used = e.used + Even(SizeofOption + v.len)
                /\ p.options = Options(Content_Type, v, token, has)
             \/ /\ ~Allocates(e.used, SizeofOption + v.len)
                /\ p.options = e.options
      <4>1. CASE Allocates(e.used, SizeofOption + v.len)
        BY <1>2, <1>4, <4>1, OptionBeforeToken
      <4>2. CASE ~Allocates(e.used, SizeofOption + v.len)
        <5>1. p = e
          BY <1>4, <4>2, SettingAnOption
        <5> QED
          BY <1>4, <4>2, <5>1
      <4> QED
        BY <4>1, <4>2
    <3> HIDE DEF p
    <3>4. /\ s.type = p.type /\ s.code = p.code /\ s.tid = p.tid /\ s.options = p.options
          /\ IF Allocates(p.used, text.len) THEN s.payload = text ELSE s = p
      BY <3>1, <3>3, SettingThePayload
    <3>5. s.payload \in {text, Nothing}
      BY <3>3, <3>4
    <3>6. ASSUME Len(r.options) <= 10
          PROVE  s.payload = text /\ s.options = Options(Content_Type, v, token, has)
      <4>1. e.used <= 204
        BY <1>4, <3>6
      <4>2. Allocates(e.used, SizeofOption + v.len)
        BY <1>4, <2>4, <3>2, <4>1 DEF Allocates, COAP_DATA_BUFF_SIZE
      <4>3. p.used \in Nat /\ p.used <= 214
        BY <1>4, <2>4, <3>2, <3>3, <4>1, <4>2
      <4>4. Allocates(p.used, text.len)
        BY <2>3, <4>3 DEF Allocates, COAP_DATA_BUFF_SIZE
      <4> QED
        BY <3>3, <3>4, <4>2, <4>4
    <3>7. s.options = Options(Content_Type, v, token, has) \/ s.options = e.options
      BY <3>3, <3>4
    <3> QED
      BY <1>8, <2>5, <3>3, <3>4, <3>5, <3>6, <3>7 DEF m, s, token, text
  <2>7. CASE r.url = Core
    <3> DEFINE v == Value(1, "links")
               p == coap_set_payload(e, text)
    <3>1. s = coap_set_option(p, Content_Type, v)
      BY <2>2, <2>7, HandlersDo, Zenon DEF text
    <3>2. v.len = 1
      BY DEF Value
    <3> HIDE DEF v
    <3>3. /\ DOMAIN p = Fields /\ p.type = e.type /\ p.code = e.code /\ p.tid = e.tid
          /\ p.options = e.options
          /\ IF Allocates(e.used, text.len) THEN p.used = e.used + Even(text.len) /\ p.payload = text
             ELSE p = e
      BY <1>4, SettingThePayload
    <3> HIDE DEF p
    <3>4. p.options = IF has THEN <<[n |-> Token, value |-> token]>> ELSE <<>>
      BY <1>4, <3>3
    <3>5. /\ s.type = p.type /\ s.code = p.code /\ s.tid = p.tid /\ s.payload = p.payload
          /\ IF Allocates(p.used, SizeofOption + v.len)
             THEN s.options = Options(Content_Type, v, token, has)
             ELSE s.options = e.options
      <4>1. CASE Allocates(p.used, SizeofOption + v.len)
        BY <1>2, <3>1, <3>3, <3>4, <4>1, OptionBeforeToken
      <4>2. CASE ~Allocates(p.used, SizeofOption + v.len)
        <5>1. s = p
          BY <3>1, <3>3, <4>2, SettingAnOption
        <5> QED
          BY <3>3, <4>2, <5>1
      <4> QED
        BY <4>1, <4>2
    <3>6. s.payload \in {text, Nothing}
      BY <1>4, <3>3, <3>5
    <3>7. ASSUME Len(r.options) <= 10
          PROVE  s.payload = text /\ s.options = Options(Content_Type, v, token, has)
      <4>1. e.used <= 204
        BY <1>4, <3>7
      <4>2. Allocates(e.used, text.len)
        BY <1>4, <2>3, <4>1 DEF Allocates, COAP_DATA_BUFF_SIZE
      <4>3. p.used \in Nat /\ p.used <= 242
        BY <1>4, <2>3, <3>3, <4>1, <4>2
      <4>4. Allocates(p.used, SizeofOption + v.len)
        BY <2>4, <3>2, <4>3 DEF Allocates, COAP_DATA_BUFF_SIZE
      <4> QED
        BY <3>3, <3>5, <4>2, <4>4
    <3>8. s.options = Options(Content_Type, v, token, has) \/ s.options = e.options
      BY <3>5
    <3> QED
      BY <1>8, <2>5, <3>3, <3>5, <3>6, <3>7, <3>8 DEF m, s, token, text
  <2> QED
    BY <2>1, <2>6, <2>7
<1> QED
  BY <1>7, <1>8

LEMMA ReadableIsRead ==
  ASSUME NEW s, Readable(s)
  PROVE  LET a == parse_message(serialize_packet(s), 0)
         IN  /\ a.error = "NO_ERROR" /\ a.options = s.options
             /\ a.type = s.type /\ a.code = s.code /\ a.tid = s.tid /\ a.payload = s.payload
<1>1. PICK k \in 0 .. 2 : \E V : /\ Short(s.options, k, V)
                                 /\ \A i \in 1 .. k : s.options[i].n # Uri_Path
  BY DEF Readable
<1>2. PICK V : Short(s.options, k, V) /\ \A i \in 1 .. k : s.options[i].n # Uri_Path
  BY <1>1
<1> QED
  BY <1>2, ReadWithoutFault

LEMMA NoOptionsIsReadable ==
  ASSUME NEW s, s.options = <<>>
  PROVE  Readable(s)
<1>1. Short(s.options, 0, {})
  BY DEF Short
<1>2. 0 \in 0 .. 2 /\ \A i \in 1 .. 0 : s.options[i].n # Uri_Path
  OBVIOUS
<1> QED
  BY <1>1, <1>2, Zenon DEF Readable

(* A request that is taken is served, or answered that it cannot be.       *)
Taken(r, w) == ErrorOf(r) = "NO_ERROR" /\ w.type # "ACK"

(* What the answer to a request that is taken says.                        *)
LEMMA TakenIsAnswered ==
  ASSUME NEW c \in Clients, NEW w \in Requests, Taken(request_of(c, w), w),
         NEW bytes \in ClockBytes
  PROVE  LET r == request_of(c, w)
             s == Response(r, init_response(r), bytes)
         IN  /\ Readable(s)
             /\ r.type = "CON" => s.type = "ACK"
             /\ s.type = "ACK" => s.tid = r.tid
             /\ IF IsServed(r)
                THEN /\ s.code = CONTENT_205
                     /\ TokenOf(s) = TokenOf(r)
                     /\ r.url = Observable => (HasOption(s, Observe) <=> Observes(r))
                     /\ r.url # Observable =>
                          /\ s.payload \in {Text(r.url), Nothing}
                          /\ Len(r.options) <= 10 =>
                               s.payload = Text(r.url) /\ HasOption(s, Content_Type)
                ELSE s.code # CONTENT_205
<1> DEFINE r == request_of(c, w)
           m == init_response(r)
           s == Response(r, m, bytes)
<1>1. /\ DOMAIN m = Fields /\ m.options = <<>>
      /\ r.type = "CON" => m.type = "ACK"
      /\ m.type = "ACK" => m.tid = r.tid
  BY PreparedAnswer
<1>2. CASE IsServed(r)
  <2>1. s = Served(r, m, bytes)
    BY <1>2, Zenon DEF Response, IsServed
  <2>2. r.url \in Resources
    BY <1>2 DEF IsServed
  <2>3. /\ r.used \in Nat /\ r.used <= 190 /\ TokenOf(r).len \in 0 .. 8
        /\ Len(r.options) <= 10 => r.used <= 150
        /\ bytes \in 0 .. 2
    <3>1. r.used = Parsed[w].used /\ r.options = Parsed[w].options
      BY RequestIsParsed
    <3> HIDE DEF r
    <3>2. TokenOf(r) = TokenOf(Parsed[w])
      BY <3>1, SameOptions
    <3> QED
      BY <3>1, <3>2, RequestTakes, MessagesAssumption
  <2> HIDE DEF r
  <2>5. LET z == Served(r, m, bytes)
        IN  /\ z.type = m.type /\ z.code = CONTENT_205 /\ z.tid = m.tid
            /\ Readable(z)
            /\ TokenOf(z) = TokenOf(r)
            /\ r.url = Observable => (HasOption(z, Observe) <=> Observes(r))
            /\ r.url # Observable =>
                 /\ z.payload \in {Text(r.url), Nothing}
                 /\ Len(r.options) <= 10 =>
                      z.payload = Text(r.url) /\ HasOption(z, Content_Type)
    BY <2>2, <2>3, ServedAnswer DEF m
  <2> HIDE DEF m, s
  <2> QED
    BY <1>1, <1>2, <2>1, <2>5 DEF r, s, m
<1>3. CASE ~IsServed(r)
  <2> HIDE DEF r, m
  <2>1. s = [m EXCEPT !.code = NOT_FOUND_404] \/ s = [m EXCEPT !.code = METHOD_NOT_ALLOWED_405]
    BY <1>3, Zenon DEF Response, IsServed
  <2>2. /\ s.options = <<>> /\ s.type = m.type /\ s.tid = m.tid
        /\ s.code \in {NOT_FOUND_404, METHOD_NOT_ALLOWED_405}
    BY <1>1, <2>1 DEF Fields
  <2>3. s.code # CONTENT_205
    BY <2>2 DEF CONTENT_205, NOT_FOUND_404, METHOD_NOT_ALLOWED_405
  <2> HIDE DEF s
  <2>4. Readable(s)
    BY <2>2, NoOptionsIsReadable
  <2> QED
    BY <1>1, <1>3, <2>2, <2>3, <2>4 DEF r, m, s
<1> QED
  BY <1>2, <1>3

(* What the answer to a message with an error says (fill_error_packet).    *)
LEMMA ErrorIsAnswered ==
  ASSUME NEW error, NEW tid
  PROVE  LET s == fill_error_packet(error, tid)
         IN  Readable(s) /\ s.type = "ACK" /\ s.tid = tid /\ s.code # CONTENT_205
<1> DEFINE s == fill_error_packet(error, tid)
<1>1. /\ s.options = <<>> /\ s.type = "ACK" /\ s.tid = tid
      /\ s.code \in {BAD_REQUEST_400, INTERNAL_SERVER_ERROR_500}
  BY DEF fill_error_packet, init_packet
<1> HIDE DEF s
<1>2. Readable(s)
  BY <1>1, NoOptionsIsReadable
<1>3. s.code # CONTENT_205
  BY <1>1 DEF CONTENT_205, BAD_REQUEST_400, INTERNAL_SERVER_ERROR_500
<1> QED
  BY <1>1, <1>2, <1>3 DEF s
-----------------------------------------------------------------------------
(* What a step of the server does with a message (handle_incoming_data).   *)
LEMMA MessageIsHandled ==
  ASSUME NEW c \in Clients, NEW w \in Requests, handle_incoming_data(c, w)
  PROVE  LET r == request_of(c, w)
         IN  /\ w.type = "ACK" => sent' = <<>>
             /\ Taken(r, w) => \E bytes \in ClockBytes :
                  sent' = <<Answer(c, w, Response(r, init_response(r), bytes))>>
             /\ w.type # "ACK" /\ ~Taken(r, w) =>
                  sent' = <<Answer(c, w, fill_error_packet(ErrorOf(r), w.tid))>>
             /\ IF Taken(r, w) /\ IsServed(r) /\ r.url = Observable
                THEN Register(r)
                ELSE UNCHANGED <<tableVars, timer>>
             /\ told' = Believes(c, w, sent')
<1> DEFINE r == request_of(c, w)
           is == \E bytes \in ClockBytes :
             sent' = CASE w.type = "ACK" -> <<>>
                       [] Taken(r, w)    -> <<Answer(c, w, Response(r, init_response(r), bytes))>>
                       [] OTHER          -> <<Answer(c, w, fill_error_packet(ErrorOf(r), w.tid))>>
<1>1. is
  BY Zenon DEF handle_incoming_data, Taken
<1>2. PICK bytes \in ClockBytes :
             sent' = CASE w.type = "ACK" -> <<>>
                       [] Taken(r, w)    -> <<Answer(c, w, Response(r, init_response(r), bytes))>>
                       [] OTHER          -> <<Answer(c, w, fill_error_packet(ErrorOf(r), w.tid))>>
  BY <1>1, Zenon
<1>3. Taken(r, w) => w.type # "ACK"
  BY Zenon DEF Taken
<1>4. w.type = "ACK" => sent' = <<>>
  BY <1>2, <1>3, Zenon
<1>5. Taken(r, w) => \E b \in ClockBytes :
        sent' = <<Answer(c, w, Response(r, init_response(r), b))>>
  BY <1>2, <1>3, Zenon
<1>6. w.type # "ACK" /\ ~Taken(r, w) =>
        sent' = <<Answer(c, w, fill_error_packet(ErrorOf(r), w.tid))>>
  BY <1>2, Zenon
<1>7. IF Taken(r, w) /\ IsServed(r) /\ r.url = Observable
      THEN Register(r)
      ELSE UNCHANGED <<tableVars, timer>>
  BY Zenon DEF handle_incoming_data, Taken
<1>8. told' = Believes(c, w, sent')
  BY Zenon DEF handle_incoming_data
<1> QED
  BY <1>4, <1>5, <1>6, <1>7, <1>8, Zenon

(* What Answered says of an answer x to w.                                 *)
Right(w, x) ==
  LET request == Parsed[w]
      answer  == parse_message(x, 0)
  IN  /\ answer.error = "NO_ERROR"
      /\ answer.type = "ACK" => answer.tid = request.tid
      /\ request.type = "CON" => answer.type = "ACK"
      /\ answer.code = CONTENT_205 =>
           /\ TokenOf(answer) = TokenOf(request)
           /\ request.url # Observable =>
                /\ answer.payload \in {Text(request.url), Nothing}
                /\ Len(request.options) <= 10 =>
                     answer.payload = Text(request.url) /\ HasOption(answer, Content_Type)

LEMMA TakenIsRight ==
  ASSUME NEW c \in Clients, NEW w \in Requests, Taken(request_of(c, w), w),
         NEW bytes \in ClockBytes
  PROVE  Right(w, Answer(c, w, Response(request_of(c, w), init_response(request_of(c, w)), bytes)).w)
<1> DEFINE r == request_of(c, w)
           s == Response(r, init_response(r), bytes)
           a == parse_message(serialize_packet(s), 0)
           p == Parsed[w]
<1>1. /\ Readable(s)
      /\ r.type = "CON" => s.type = "ACK"
      /\ s.type = "ACK" => s.tid = r.tid
      /\ s.code = CONTENT_205 =>
           /\ TokenOf(s) = TokenOf(r)
           /\ r.url # Observable =>
                /\ s.payload \in {Text(r.url), Nothing}
                /\ Len(r.options) <= 10 =>
                     s.payload = Text(r.url) /\ HasOption(s, Content_Type)
  BY TakenIsAnswered
<1>2. r.type = p.type /\ r.tid = p.tid /\ r.url = p.url /\ r.options = p.options
  BY RequestIsParsed
<1> HIDE DEF r, s, p
<1>3. TokenOf(r) = TokenOf(p)
  BY <1>2, SameOptions
<1>4. /\ a.error = "NO_ERROR" /\ a.options = s.options
      /\ a.type = s.type /\ a.code = s.code /\ a.tid = s.tid /\ a.payload = s.payload
  BY <1>1, ReadableIsRead
<1> HIDE DEF a
<1>5. TokenOf(a) = TokenOf(s) /\ (HasOption(a, Content_Type) <=> HasOption(s, Content_Type))
  BY <1>4, SameOptions
<1>6. Answer(c, w, s).w = serialize_packet(s)
  BY DEF Answer
<1>7. /\ a.error = "NO_ERROR"
      /\ a.type = "ACK" => a.tid = p.tid
      /\ p.type = "CON" => a.type = "ACK"
      /\ a.code = CONTENT_205 =>
           /\ TokenOf(a) = TokenOf(p)
           /\ p.url # Observable =>
                /\ a.payload \in {Text(p.url), Nothing}
                /\ Len(p.options) <= 10 =>
                     a.payload = Text(p.url) /\ HasOption(a, Content_Type)
  BY <1>1, <1>2, <1>3, <1>4, <1>5, Zenon
<1>8. Right(w, serialize_packet(s))
  BY <1>7, Zenon DEF Right, a, p
<1> QED
  BY <1>6, <1>8, Zenon DEF s, r

LEMMA ErrorIsRight ==
  ASSUME NEW c \in Clients, NEW w \in Requests, NEW error
  PROVE  Right(w, Answer(c, w, fill_error_packet(error, w.tid)).w)
<1> DEFINE s == fill_error_packet(error, w.tid)
           a == parse_message(serialize_packet(s), 0)
           p == Parsed[w]
<1>1. Readable(s) /\ s.type = "ACK" /\ s.tid = w.tid /\ s.code # CONTENT_205
  BY ErrorIsAnswered
<1>2. p.tid = w.tid
  BY RequestIsParsed
<1> HIDE DEF s
<1>3. /\ a.error = "NO_ERROR" /\ a.type = s.type /\ a.code = s.code /\ a.tid = s.tid
  BY <1>1, ReadableIsRead
<1>4. Answer(c, w, s).w = serialize_packet(s)
  BY DEF Answer
<1>5. Right(w, serialize_packet(s))
  BY <1>1, <1>2, <1>3, Zenon DEF Right
<1> QED
  BY <1>4, <1>5, Zenon DEF s

(* Each step leaves right answers in what is sent.                         *)
LEMMA AnsweredStep ==
  ASSUME Answered, [Next]_vars
  PROVE  Answered'
<1>1. Answered' = \A k \in DOMAIN sent' : sent'[k].re # <<>> => Right(sent'[k].re[1], sent'[k].w)
  BY Zenon DEF Answered, Right
<1>2. Answered = \A k \in DOMAIN sent : sent[k].re # <<>> => Right(sent[k].re[1], sent[k].w)
  BY Zenon DEF Answered, Right
<1>3. ASSUME sent' = sent
      PROVE  Answered'
  BY <1>1, <1>2, <1>3
<1>4. ASSUME sent' = <<>>
      PROVE  Answered'
  BY <1>1, <1>4
<1>5. ASSUME NEW c \in Clients, NEW w \in Requests, NEW m, sent' = <<Answer(c, w, m)>>,
             Right(w, Answer(c, w, m).w)
      PROVE  Answered'
  <2> DEFINE x == Answer(c, w, m)
  <2>1. x.re = <<w>> /\ x.re[1] = w
    BY DEF Answer
  <2> HIDE DEF x
  <2>2. sent' = <<x>> /\ Right(w, x.w)
    BY <1>5 DEF x
  <2>3. \A k \in DOMAIN sent' : k = 1 /\ sent'[k] = x
    BY <2>2
  <2> QED
    BY <1>1, <2>1, <2>2, <2>3
<1>6. CASE Incoming
  <2>1. PICK c \in Clients, w \in Requests : handle_incoming_data(c, w)
    BY <1>6 DEF Incoming
  <2> DEFINE r == request_of(c, w)
  <2>2. /\ w.type = "ACK" => sent' = <<>>
        /\ Taken(r, w) => \E bytes \in ClockBytes :
             sent' = <<Answer(c, w, Response(r, init_response(r), bytes))>>
        /\ w.type # "ACK" /\ ~Taken(r, w) =>
             sent' = <<Answer(c, w, fill_error_packet(ErrorOf(r), w.tid))>>
    BY <2>1, MessageIsHandled
  <2>3. CASE w.type = "ACK"
    BY <1>4, <2>2, <2>3
  <2>4. CASE Taken(r, w)
    <3>1. PICK bytes \in ClockBytes :
            sent' = <<Answer(c, w, Response(r, init_response(r), bytes))>>
      BY <2>2, <2>4
    <3>2. Right(w, Answer(c, w, Response(r, init_response(r), bytes)).w)
      BY <2>4, TakenIsRight
    <3> QED
      BY <1>5, <3>1, <3>2
  <2>5. CASE w.type # "ACK" /\ ~Taken(r, w)
    <3>1. Right(w, Answer(c, w, fill_error_packet(ErrorOf(r), w.tid)).w)
      BY ErrorIsRight
    <3> QED
      BY <1>5, <2>2, <2>5, <3>1
  <2> QED
    BY <2>3, <2>4, <2>5
<1>7. CASE ServerChanged
  <2>1. PICK bytes \in ClockBytes, found \in [DOMAIN observers -> Junk] :
          sent' = [k \in DOMAIN observers |->
                     [to |-> Endpoint(observer[observers[k]]), re |-> <<>>,
                      w  |-> serialize_packet(Notification(k, bytes, found[k]))]]
    BY <1>7 DEF ServerChanged, NotifyAll
  <2>2. \A k \in DOMAIN sent' : sent'[k].re = <<>>
    BY <2>1
  <2> QED
    BY <1>1, <2>2
<1>8. CASE Leave
  BY <1>4, <1>8 DEF Leave
<1>9. CASE ManagerTimer \/ ManagerResumes \/ OtherTake \/ Expire \/ NewTag \/ OtherPost
           \/ UNCHANGED vars
  BY <1>3, <1>9 DEF ManagerTimer, ManagerResumes, OtherTake, Expire, NewTag, OtherPost, vars
<1> QED
  BY <1>6, <1>7, <1>8, <1>9 DEF Next, Take

(* Every request is answered with its own message id and token, for any    *)
(* clients and requests, and with the resource's text where it had ten     *)
(* options or fewer; a client can read the answer, since it has two        *)
(* options at most: handle_incoming_data(), allocate_buffer(),             *)
(* serialize_packet() and parse_message().                                 *)
THEOREM AnsweredRight == Spec => []Answered
<1>1. Init => Answered
  BY DEF Init, Answered
<1>2. Answered /\ [Next]_vars => Answered'
  BY AnsweredStep
<1> QED
  BY <1>1, <1>2, PTL DEF Spec
-----------------------------------------------------------------------------
(* The observers' table and its clients.                                   *)

(* Swapping the bytes of a port twice gives the port (UIP_HTONS).          *)
LEMMA SwappingTwice ==
  ASSUME NEW port \in Nat, port < 65536
  PROVE  /\ UIP_HTONS(port) \in Nat /\ UIP_HTONS(port) < 65536
         /\ UIP_HTONS(UIP_HTONS(port)) = port
<1> DEFINE a == port % 256
           b == port \div 256
<1>1. /\ a \in Nat /\ b \in Nat /\ a < 256 /\ b < 256
      /\ port = b * 256 + a
  OBVIOUS
<1> HIDE DEF a, b
<1>2. UIP_HTONS(port) = a * 256 + b
  BY DEF UIP_HTONS, a, b
<1>3. /\ a * 256 + b \in Nat /\ a * 256 + b < 65536
      /\ (a * 256 + b) % 256 = b /\ (a * 256 + b) \div 256 = a
  BY <1>1
<1> QED
  BY <1>1, <1>2, <1>3 DEF UIP_HTONS

(* Where the observers in n allocated blocks are told.                     *)
Ends(n, o) == {Endpoint(o[b]) : b \in {x \in Blocks : n[x] = 1}}

LEMMA ListedEnds ==
  ASSUME NEW l \in Seq(Blocks), NEW n, NEW o,
         \A b \in Blocks : n[b] = 1 <=> \E i \in DOMAIN l : l[i] = b
  PROVE  {Endpoint(o[b]) : b \in ToSet(l)} = Ends(n, o)
<1>1. \A i \in DOMAIN l : l[i] \in Blocks
  OBVIOUS
<1>2. ToSet(l) = {x \in Blocks : n[x] = 1}
  BY <1>1 DEF ToSet
<1> QED
  BY <1>2, Zenon DEF Ends

(* A port that is kept has sixteen bits.                                   *)
LEMMA KeptPort ==
  ASSUME NEW o \in [Blocks -> Observers], NEW b \in Blocks
  PROVE  o[b].client_port \in Nat /\ o[b].client_port < 65536
<1> DEFINE port == o[b].client_port
<1>1. \A x \in Clients : x.port \in Nat /\ x.port < 65536
  BY MessagesAssumption
<1>2. port \in {0} \cup {request.port : request \in Incomers}
  BY DEF Observers
<1> HIDE DEF port
<1>3. CASE port = 0
  BY <1>3 DEF port
<1>4. CASE port # 0
  <2>1. PICK x \in Clients, v \in Requests : port = request_of(x, v).port
    BY <1>2, <1>4 DEF Incomers
  <2>2. port = UIP_HTONS(x.port)
    BY <2>1, RequestIsParsed
  <2> QED
    BY <1>1, <2>2, SwappingTwice DEF port
<1> QED
  BY <1>3, <1>4

(* An observer is found by the endpoint it is told at.                     *)
LEMMA ObserverIsClient ==
  ASSUME NEW c \in Clients, NEW w \in Requests,
         NEW o \in [Blocks -> Observers], NEW b \in Blocks
  PROVE  Endpoint(o[b]) = c <=>
           /\ o[b].client_port = request_of(c, w).port
           /\ o[b].client_ipaddr = request_of(c, w).addr
<1> DEFINE port == o[b].client_port
           addr == o[b].client_ipaddr
<1>1. \A x \in Clients : x.port \in Nat /\ x.port < 65536
  BY MessagesAssumption
<1>2. port \in Nat /\ port < 65536
  BY KeptPort
<1>3. Endpoint(o[b]) = [addr |-> addr, port |-> UIP_HTONS(port)]
  BY DEF Endpoint
<1>4. request_of(c, w).addr = c.addr /\ request_of(c, w).port = UIP_HTONS(c.port)
  BY RequestIsParsed
<1> HIDE DEF port, addr
<1>5. c = [addr |-> c.addr, port |-> c.port]
  BY MessagesAssumption
<1>6. [addr |-> addr, port |-> UIP_HTONS(port)] = [addr |-> c.addr, port |-> c.port]
        <=> addr = c.addr /\ UIP_HTONS(port) = c.port
  OBVIOUS
<1>7. UIP_HTONS(port) = c.port <=> port = UIP_HTONS(c.port)
  <2>1. UIP_HTONS(UIP_HTONS(port)) = port
    BY <1>2, SwappingTwice
  <2>2. UIP_HTONS(UIP_HTONS(c.port)) = c.port
    BY <1>1, SwappingTwice
  <2> QED
    BY <2>1, <2>2, Zenon
<1>8. Endpoint(o[b]) = c <=> addr = c.addr /\ port = UIP_HTONS(c.port)
  BY <1>3, <1>5, <1>6, <1>7, Zenon
<1> QED
  BY <1>4, <1>8, Zenon DEF port, addr

(* A request changes the table as it changes what its client was told.     *)
LEMMA RegisterTells ==
  ASSUME CoapAssumption, IInv, NEW c \in Clients, NEW w \in Requests,
         Register(request_of(c, w))
  PROVE  Ends(count', observer') =
           IF Observes(request_of(c, w))
           THEN Ends(count, observer) \cup {c} ELSE Ends(count, observer) \ {c}
<1> DEFINE r == request_of(c, w)
<1>0. /\ TypeOK /\ TableExact
      /\ observers \in Seq(Blocks) /\ count \in [Blocks -> Nat]
      /\ observer \in [Blocks -> Observers]
  BY DEF IInv, TypeOK
<1>1. \A b \in Blocks : Endpoint(observer[b]) = c <=> IsObserver(b, r)
  <2> TAKE b \in Blocks
  <2>1. Endpoint(observer[b]) = c <=>
           /\ observer[b].client_port = request_of(c, w).port
           /\ observer[b].client_ipaddr = request_of(c, w).addr
    BY <1>0, ObserverIsClient
  <2> QED
    BY <2>1, Zenon DEF IsObserver
<1>2. \A b \in Blocks : count[b] = 1 <=> \E i \in DOMAIN observers : observers[i] = b
  BY <1>0 DEF TableExact
<1>3. \A a, b \in Blocks : count[a] = 1 /\ count[b] = 1 /\ IsObserver(a, r) /\ IsObserver(b, r) => a = b
  BY <1>0 DEF TableExact, IsObserver
<1>4. Found(r) = {} => \A b \in Blocks : count[b] = 1 => ~IsObserver(b, r)
  BY <1>2 DEF Found
<1>5. Found(r) # {} =>
        LET b == observers[Min(Found(r))]
        IN  b \in Blocks /\ count[b] = 1 /\ IsObserver(b, r)
  BY <1>0, FoundIsListed
<1>6. r.addr = c.addr /\ UIP_HTONS(r.port) = c.port /\ c = [addr |-> c.addr, port |-> c.port]
  <2>1. c.port \in Nat /\ c.port < 65536 /\ c = [addr |-> c.addr, port |-> c.port]
    BY MessagesAssumption
  <2>2. r.addr = c.addr /\ r.port = UIP_HTONS(c.port)
    BY RequestIsParsed
  <2>3. UIP_HTONS(UIP_HTONS(c.port)) = c.port
    BY <2>1, SwappingTwice
  <2> QED
    BY <2>1, <2>2, <2>3
<1>7. Register(r)
  OBVIOUS
<1> HIDE DEF r
<1>8. CASE HasOption(r, Observe) /\ Found(r) # {}
  <2> DEFINE b == observers[Min(Found(r))]
  <2>1. b \in Blocks /\ count[b] = 1 /\ IsObserver(b, r)
    BY <1>5, <1>8
  <2>2. Refresh(b, r)
    BY <1>7, <1>8 DEF Register
  <2> HIDE DEF b
  <2>3. count' = count /\ observer' = [observer EXCEPT ![b] = [@ EXCEPT !.token = TokenOf(r)]]
    BY <2>2 DEF Refresh
  <2>4. \A x \in Blocks : Endpoint(observer'[x]) = Endpoint(observer[x])
    <3>1. \A x \in Blocks : /\ observer'[x].client_port = observer[x].client_port
                            /\ observer'[x].client_ipaddr = observer[x].client_ipaddr
      BY <1>0, <2>1, <2>3 DEF Observers
    <3> QED
      BY <3>1 DEF Endpoint
  <2>5. Ends(count', observer') = Ends(count, observer)
    BY <2>3, <2>4 DEF Ends
  <2>6. c \in Ends(count, observer)
    BY <1>1, <2>1 DEF Ends
  <2>7. Observes(r)
    BY <1>8 DEF Observes
  <2> QED
    BY <2>5, <2>6, <2>7 DEF r
<1>9. CASE HasOption(r, Observe) /\ Found(r) = {} /\ FreeBlocks # {}
  <2> DEFINE b == memb_alloc
             new == [client_port |-> r.port, client_ipaddr |-> r.addr, token |-> TokenOf(r)]
  <2>1. b \in Blocks /\ count[b] = 0
    BY <1>9, AllocGivesFree
  <2>2. rest_add_observer(b, r, TokenOf(r))
    BY <1>7, <1>9 DEF Register
  <2> HIDE DEF b
  <2>3. count' = [count EXCEPT ![b] = count[b] + 1] /\ observer' = [observer EXCEPT ![b] = new]
    BY <2>2 DEF rest_add_observer
  <2>4. /\ count'[b] = 1 /\ observer'[b] = new
        /\ \A x \in Blocks \ {b} : count'[x] = count[x] /\ observer'[x] = observer[x]
    BY <1>0, <2>1, <2>3
  <2>5. Endpoint(new) = c
    BY <1>6 DEF Endpoint
  <2> HIDE DEF new
  <2>6. Ends(count', observer') = Ends(count, observer) \cup {c}
    BY <2>1, <2>4, <2>5 DEF Ends
  <2>7. Observes(r)
    BY <1>9 DEF Observes
  <2> QED
    BY <2>6, <2>7 DEF r
<1>10. CASE ~HasOption(r, Observe) /\ Found(r) # {}
  <2> DEFINE b == observers[Min(Found(r))]
  <2>1. b \in Blocks /\ count[b] = 1 /\ IsObserver(b, r)
    BY <1>5, <1>10
  <2>2. rest_remove_observer(b)
    BY <1>7, <1>10 DEF Register
  <2> HIDE DEF b
  <2>3. /\ count' = [count EXCEPT ![b] = IF count[b] > 0 THEN count[b] - 1 ELSE 0]
        /\ observer' = [observer EXCEPT ![b] = NoOne]
    BY <2>2 DEF rest_remove_observer, memb_free
  <2>4. /\ count'[b] = 0
        /\ \A x \in Blocks \ {b} : count'[x] = count[x] /\ observer'[x] = observer[x]
    BY <1>0, <2>1, <2>3
  <2>5. \A x \in Blocks : count[x] = 1 => (Endpoint(observer[x]) = c <=> x = b)
    BY <1>1, <1>3, <2>1
  <2>6. Ends(count', observer') = Ends(count, observer) \ {c}
    BY <2>1, <2>4, <2>5 DEF Ends
  <2>7. ~Observes(r)
    BY <1>10 DEF Observes
  <2> QED
    BY <2>6, <2>7 DEF r
<1>11. CASE Found(r) = {} /\ (~HasOption(r, Observe) \/ FreeBlocks = {})
  <2>1. UNCHANGED <<tableVars, timer>>
    BY <1>7, <1>11 DEF Register
  <2>2. count' = count /\ observer' = observer
    BY <2>1 DEF tableVars
  <2>3. c \notin Ends(count, observer)
    BY <1>1, <1>4, <1>11 DEF Ends
  <2>4. ~Observes(r)
    BY <1>11 DEF Observes
  <2> QED
    BY <2>2, <2>3, <2>4 DEF r
<1> QED
  BY <1>8, <1>9, <1>10, <1>11
(* A client believes what its answer says of it: one that has an answer    *)
(* of the resource, if it finds the mark of an observer.                   *)
LEMMA BelievesOne ==
  ASSUME NEW c \in Clients, NEW w \in Requests, NEW s
  PROVE  Believes(c, w, <<Answer(c, w, s)>>) =
           IF w.code = GET /\ s.code = CONTENT_205 /\ Parsed[w].url = Observable
           THEN IF HasOption(parse_message(serialize_packet(s), 0), Observe)
                THEN told \cup {c} ELSE told \ {c}
           ELSE told
<1> DEFINE x == Answer(c, w, s)
           sees == HasOption(parse_message(serialize_packet(s), 0), Observe)
<1>1. x.w = serialize_packet(s) /\ x.w.code = s.code
  BY DEF Answer, serialize_packet
<1>2. HasOption(parse_message(x.w, 0), Observe) <=> sees
  BY <1>1
<1> HIDE DEF x, sees
<1>3. \A k \in DOMAIN <<x>> : k = 1
  OBVIOUS
<1>4. 1 \in DOMAIN <<x>> /\ <<x>>[1] = x
  OBVIOUS
<1>5. (\E k \in DOMAIN <<x>> : <<x>>[k].w.code = CONTENT_205 /\ Parsed[w].url = Observable)
        <=> s.code = CONTENT_205 /\ Parsed[w].url = Observable
  BY <1>1, <1>3, <1>4, Zenon
<1>6. Believes(c, w, <<x>>) =
        IF w.code = GET /\ s.code = CONTENT_205 /\ Parsed[w].url = Observable
        THEN IF sees THEN told \cup {c} ELSE told \ {c}
        ELSE told
  BY <1>2, <1>4, <1>5, Zenon DEF Believes
<1> QED
  BY <1>6 DEF x, sees

(* A message changes what its client was told when it changes the table.   *)
LEMMA MessageTells ==
  ASSUME NEW c \in Clients, NEW w \in Requests, handle_incoming_data(c, w)
  PROVE  LET r == request_of(c, w)
         IN  \/ /\ Register(r)
                /\ told' = IF Observes(r) THEN told \cup {c} ELSE told \ {c}
             \/ /\ UNCHANGED <<tableVars, timer>>
                /\ told' = told
<1> DEFINE r == request_of(c, w)
<1>1. /\ w.type = "ACK" => sent' = <<>>
      /\ Taken(r, w) => \E bytes \in ClockBytes :
           sent' = <<Answer(c, w, Response(r, init_response(r), bytes))>>
      /\ w.type # "ACK" /\ ~Taken(r, w) =>
           sent' = <<Answer(c, w, fill_error_packet(ErrorOf(r), w.tid))>>
      /\ IF Taken(r, w) /\ IsServed(r) /\ r.url = Observable
         THEN Register(r)
         ELSE UNCHANGED <<tableVars, timer>>
      /\ told' = Believes(c, w, sent')
  BY MessageIsHandled
<1>2. r.url = Parsed[w].url /\ r.code = w.code
  BY RequestIsParsed
<1>3. CASE w.type = "ACK"
  <2>1. sent' = <<>> /\ ~Taken(r, w)
    BY <1>1, <1>3 DEF Taken
  <2>2. \A k \in DOMAIN sent' : FALSE
    BY <2>1
  <2>3. told' = told
    BY <1>1, <2>2, Zenon DEF Believes
  <2> QED
    BY <1>1, <2>1, <2>3, Zenon
<1>4. CASE Taken(r, w)
  <2>1. PICK bytes \in ClockBytes :
          sent' = <<Answer(c, w, Response(r, init_response(r), bytes))>>
    BY <1>1, <1>4
  <2> DEFINE s == Response(r, init_response(r), bytes)
             a == parse_message(serialize_packet(s), 0)
  <2>2. /\ Readable(s)
        /\ IF IsServed(r)
           THEN /\ s.code = CONTENT_205
                /\ r.url = Observable => (HasOption(s, Observe) <=> Observes(r))
           ELSE s.code # CONTENT_205
    BY <1>4, TakenIsAnswered
  <2>3. sent' = <<Answer(c, w, s)>>
    BY <2>1
  <2> HIDE DEF r, s
  <2>4. a.options = s.options
    BY <2>2, ReadableIsRead
  <2> HIDE DEF a
  <2>5. HasOption(a, Observe) <=> HasOption(s, Observe)
    BY <2>4, SameOptions
  <2>6. told' = IF w.code = GET /\ s.code = CONTENT_205 /\ Parsed[w].url = Observable
                THEN IF HasOption(a, Observe) THEN told \cup {c} ELSE told \ {c}
                ELSE told
    BY <1>1, <2>3, BelievesOne DEF a
  <2>7. CASE IsServed(r) /\ r.url = Observable
    <3>1. w.code = GET
      BY <1>2, <2>7 DEF IsServed, Methods
    <3>2. told' = IF Observes(r) THEN told \cup {c} ELSE told \ {c}
      BY <1>2, <2>2, <2>5, <2>6, <2>7, <3>1
    <3>3. Register(r)
      BY <1>1, <1>4, <2>7, Zenon
    <3> QED
      BY <3>2, <3>3, Zenon DEF r
  <2>8. CASE ~(IsServed(r) /\ r.url = Observable)
    <3>1. told' = told
      BY <1>2, <2>2, <2>6, <2>8
    <3>2. UNCHANGED <<tableVars, timer>>
      BY <1>1, <2>8, Zenon
    <3> QED
      BY <3>1, <3>2, Zenon DEF r
  <2> QED
    BY <2>7, <2>8
<1>5. CASE w.type # "ACK" /\ ~Taken(r, w)
  <2> DEFINE s == fill_error_packet(ErrorOf(r), w.tid)
  <2>1. sent' = <<Answer(c, w, s)>>
    BY <1>1, <1>5
  <2>2. s.code # CONTENT_205
    BY ErrorIsAnswered
  <2> HIDE DEF s
  <2>3. told' = told
    BY <1>1, <2>1, <2>2, BelievesOne
  <2>4. UNCHANGED <<tableVars, timer>>
    BY <1>1, <1>5, Zenon
  <2> QED
    BY <2>3, <2>4, Zenon
<1> QED
  BY <1>3, <1>4, <1>5

(* Each step keeps the clients that were told the ends of the table.       *)
LEMMA EndsStep ==
  ASSUME CoapAssumption, IInv, told = Ends(count, observer), [Next]_vars
  PROVE  told' = Ends(count', observer')
<1>1. CASE Incoming
  <2>1. PICK c \in Clients, w \in Requests : handle_incoming_data(c, w)
    BY <1>1 DEF Incoming
  <2> DEFINE r == request_of(c, w)
  <2>2. \/ /\ Register(r)
           /\ told' = IF Observes(r) THEN told \cup {c} ELSE told \ {c}
        \/ /\ UNCHANGED <<tableVars, timer>>
           /\ told' = told
    BY <2>1, MessageTells
  <2>3. Register(r) => Ends(count', observer') =
           IF Observes(r) THEN Ends(count, observer) \cup {c} ELSE Ends(count, observer) \ {c}
    BY RegisterTells
  <2>4. UNCHANGED <<tableVars, timer>> => Ends(count', observer') = Ends(count, observer)
    BY DEF tableVars
  <2> QED
    BY <2>2, <2>3, <2>4
<1>2. CASE Take
  <2>1. UNCHANGED tableVars /\ told' = told
    BY <1>2 DEF Take, ManagerTimer, ManagerResumes, ServerChanged, OtherTake, tableVars
  <2> QED
    BY <2>1 DEF tableVars
<1>3. CASE Expire \/ NewTag \/ OtherPost \/ Leave \/ UNCHANGED vars
  <2>1. UNCHANGED tableVars /\ told' = told
    BY <1>3 DEF Expire, NewTag, OtherPost, Leave, vars
  <2> QED
    BY <2>1 DEF tableVars
<1> QED
  BY <1>1, <1>2, <1>3 DEF Next

(* For any clients, blocks and requests:                                   *)
(* the observers' table is exact and has the clients that were told so in  *)
(* an answer, each at its own endpoint, and no other, whatever the order   *)
(* of registrations (rest_invoke_restful_service, rest_add_observer,       *)
(* rest_remove_observer).                                                  *)
THEOREM TableIsWhatWasTold == Spec => []Agreed
<1> USE CoapAssumption
<1> DEFINE I == IInv /\ told = Ends(count, observer)
<1>1. Init => I
  <2> SUFFICES ASSUME Init PROVE I
    OBVIOUS
  <2>1. \A b \in Blocks : count[b] # 1
    BY DEF Init
  <2>2. told = {}
    BY DEF Init
  <2>3. Ends(count, observer) = {}
    BY <2>1 DEF Ends
  <2> QED
    BY <2>2, <2>3, InitEstablishes
<1>2. I /\ [Next]_vars => I'
  BY StepPreserves, EndsStep
<1>3. I => Agreed
  <2> SUFFICES ASSUME I PROVE Agreed
    OBVIOUS
  <2>1. observers \in Seq(Blocks) /\ TableExact
    BY DEF IInv, TypeOK
  <2>2. \A b \in Blocks : count[b] = 1 <=> \E i \in DOMAIN observers : observers[i] = b
    BY <2>1 DEF TableExact
  <2>3. {Endpoint(observer[b]) : b \in ToSet(observers)} = Ends(count, observer)
    BY <2>1, <2>2, ListedEnds
  <2> QED
    BY <2>1, <2>3 DEF Agreed
<1> QED
  BY <1>1, <1>2, <1>3, PTL DEF Spec
-----------------------------------------------------------------------------
(* The announcement of a change.                                           *)

(* A change that is announced in time, one announcement at most of it, has *)
(* its text still, and the timer runs, or nobody observes.                 *)
Ev     == {"continue", "timer", "changed", "other"}
Ats(q) == {k \in DOMAIN q : q[k] = "changed"}

ChangeTold ==
  ~late /\ Ats(queue) # {} =>
    /\ \A i, j \in Ats(queue) : i = j
    /\ outStr_buf = Tag
    /\ timer = "running" \/ observers = <<>>

(* The announcements in a queue when an event is taken, or one is added.   *)
LEMMA AtsOfTail ==
  ASSUME NEW q \in Seq(Ev), q # <<>>
  PROVE  /\ \A k \in Ats(Tail(q)) : k + 1 \in Ats(q) /\ k \in Nat
         /\ Head(q) = "changed" => 1 \in Ats(q) /\ \A k \in Ats(Tail(q)) : k + 1 # 1
<1>1. Len(q) \in Nat /\ Len(q) > 0 /\ DOMAIN q = 1 .. Len(q) /\ Head(q) = q[1]
  OBVIOUS
<1>2. /\ Tail(q) \in Seq(Ev) /\ Len(Tail(q)) = Len(q) - 1
      /\ \A k \in 1 .. Len(q) - 1 : Tail(q)[k] = q[k + 1]
  BY <1>1, HeadTailProperties
<1>3. DOMAIN Tail(q) = 1 .. Len(q) - 1
  BY <1>2
<1>4. \A k \in 1 .. Len(q) - 1 : k + 1 \in 1 .. Len(q) /\ k + 1 # 1 /\ k \in Nat
  BY <1>1
<1>5. 1 \in 1 .. Len(q)
  BY <1>1
<1> QED
  BY <1>1, <1>2, <1>3, <1>4, <1>5 DEF Ats

LEMMA AtsOfAppend ==
  ASSUME NEW q \in Seq(Ev), NEW ev \in Ev
  PROVE  Ats(Append(q, ev)) = IF ev = "changed" THEN Ats(q) \cup {Len(q) + 1} ELSE Ats(q)
<1>1. Len(q) \in Nat /\ DOMAIN q = 1 .. Len(q)
  OBVIOUS
<1>2. /\ Append(q, ev) \in Seq(Ev) /\ Len(Append(q, ev)) = Len(q) + 1
      /\ \A k \in 1 .. Len(q) : Append(q, ev)[k] = q[k]
      /\ Append(q, ev)[Len(q) + 1] = ev
  BY AppendProperties
<1>3. DOMAIN Append(q, ev) = (1 .. Len(q)) \cup {Len(q) + 1}
  BY <1>1, <1>2
<1> QED
  BY <1>1, <1>2, <1>3 DEF Ats

(* Each step keeps it.                                                     *)
LEMMA ChangeStep ==
  ASSUME CoapAssumption, IInv, ChangeTold, [Next]_vars
  PROVE  ChangeTold'
<1>0. /\ queue \in Seq(Ev) /\ outStr_buf \in {Empty, Tag} /\ late \in BOOLEAN
      /\ timer \in {"off", "running"}
  BY DEF IInv, TypeOK, Ev
<1>1. ASSUME ~late' => ~late, Ats(queue') \subseteq Ats(queue),
             outStr_buf' = outStr_buf \/ outStr_buf' = Tag,
             observers' # <<>> => timer' = "running" \/ (timer' = timer /\ observers # <<>>)
      PROVE  ChangeTold'
  <2> SUFFICES ASSUME ~late', Ats(queue') # {}
               PROVE  /\ \A i, j \in Ats(queue') : i = j
                      /\ outStr_buf' = Tag
                      /\ timer' = "running" \/ observers' = <<>>
    BY DEF ChangeTold
  <2>1. ~late /\ Ats(queue) # {}
    BY <1>1
  <2>2. /\ \A i, j \in Ats(queue) : i = j
        /\ outStr_buf = Tag
        /\ timer = "running" \/ observers = <<>>
    BY <2>1 DEF ChangeTold
  <2> QED
    BY <1>1, <2>2
<1>2. ASSUME Ats(queue') = {}
      PROVE  ChangeTold'
  BY <1>2 DEF ChangeTold
<1>3. ASSUME queue # <<>>, queue' = Tail(queue), late' = late
      PROVE  /\ Head(queue) = "changed" /\ ~late => Ats(queue') = {}
             /\ ~late => \A i, j \in Ats(queue') : i = j
             /\ Ats(queue') # {} => Ats(queue) # {}
  <2>1. /\ \A k \in Ats(queue') : k + 1 \in Ats(queue) /\ k \in Nat
        /\ Head(queue) = "changed" => 1 \in Ats(queue) /\ \A k \in Ats(queue') : k + 1 # 1
    BY <1>0, <1>3, AtsOfTail
  <2>2. ~late => \A i, j \in Ats(queue) : i = j
    BY DEF ChangeTold
  <2>3. ASSUME ~late, NEW i \in Ats(queue'), NEW j \in Ats(queue')
        PROVE  i = j
    <3>1. i + 1 = j + 1 /\ i \in Nat /\ j \in Nat
      BY <2>1, <2>2, <2>3
    <3> QED
      BY <3>1
  <2> QED
    BY <2>1, <2>2, <2>3
<1>4. ASSUME queue # <<>>, queue' = Tail(queue), late' = late,
             outStr_buf' = outStr_buf, timer' = timer, observers' = observers
      PROVE  ChangeTold'
  <2> SUFFICES ASSUME ~late, Ats(queue') # {}
               PROVE  /\ \A i, j \in Ats(queue') : i = j
                      /\ outStr_buf' = Tag
                      /\ timer' = "running" \/ observers' = <<>>
    BY <1>4 DEF ChangeTold
  <2>1. (\A i, j \in Ats(queue') : i = j) /\ Ats(queue) # {}
    BY <1>3, <1>4
  <2> QED
    BY <1>4, <2>1 DEF ChangeTold
<1>5. CASE Incoming
  <2>1. PICK c \in Clients, w \in Requests : handle_incoming_data(c, w)
    BY <1>5 DEF Incoming
  <2>2. UNCHANGED <<queue, outStr_buf, late>>
    BY <1>5 DEF Incoming
  <2>3. Register(request_of(c, w)) \/ UNCHANGED <<tableVars, timer>>
    BY <2>1 DEF handle_incoming_data
  <2>4. observers' # <<>> => timer' = "running" \/ (timer' = timer /\ observers # <<>>)
    <3>1. CASE Register(request_of(c, w))
      BY <3>1, RegisterKeepsTable
    <3>2. CASE UNCHANGED <<tableVars, timer>>
      BY <3>2 DEF tableVars
    <3> QED
      BY <2>3, <3>1, <3>2
  <2> QED
    BY <1>1, <2>2, <2>4
<1>6. CASE Take
  <2>0. late' = late
    BY <1>6 DEF Take
  <2>1. CASE ManagerTimer
    <3>1. /\ queue # <<>> /\ Check /\ observers' = observers /\ outStr_buf' = outStr_buf
      BY <2>1 DEF ManagerTimer, Event, tableVars
    <3>2. CASE Due /\ outStr_buf # Empty
      <4> SUFFICES ASSUME ~late
                   PROVE  /\ \A i, j \in Ats(queue') : i = j
                          /\ outStr_buf' = Tag
                          /\ timer' = "running" \/ observers' = <<>>
        BY <2>0 DEF ChangeTold
      <4>1. Ats(queue) = {}
        BY <1>0, <3>2 DEF ChangeTold, Due
      <4>2. Ats(Tail(queue)) = {}
        BY <1>0, <3>1, <4>1, AtsOfTail
      <4>3. Tail(queue) \in Seq(Ev)
        BY <1>0, <3>1
      <4>4. queue' = Post(Tail(queue), "changed")
        BY <3>1, <3>2 DEF Check
      <4>5. Ats(Append(Tail(queue), "changed")) = {Len(Tail(queue)) + 1}
        BY <4>2, <4>3, AtsOfAppend DEF Ev
      <4>6. \A i, j \in Ats(queue') : i = j
        BY <4>2, <4>4, <4>5 DEF Post
      <4>7. timer' = "running"
        BY <3>1, <3>2 DEF Check
      <4> QED
        BY <1>0, <3>1, <3>2, <4>6, <4>7
    <3>3. CASE ~(Due /\ outStr_buf # Empty)
      <4>1. queue' = Tail(queue) /\ (timer' = timer \/ timer' = "running")
        BY <3>1, <3>3 DEF Check
      <4> SUFFICES ASSUME ~late, Ats(queue') # {}
                   PROVE  /\ \A i, j \in Ats(queue') : i = j
                          /\ outStr_buf' = Tag
                          /\ timer' = "running" \/ observers' = <<>>
        BY <2>0 DEF ChangeTold
      <4>2. (\A i, j \in Ats(queue') : i = j) /\ Ats(queue) # {}
        BY <1>3, <2>0, <3>1, <4>1
      <4> QED
        BY <3>1, <4>1, <4>2 DEF ChangeTold
    <3> QED
      BY <3>2, <3>3
  <2>2. CASE ManagerResumes \/ OtherTake
    BY <1>4, <2>0, <2>2 DEF ManagerResumes, OtherTake, Event, tableVars
  <2>3. CASE ServerChanged
    <3>1. queue # <<>> /\ Head(queue) = "changed" /\ queue' = Tail(queue)
      BY <2>3 DEF ServerChanged, Event
    <3>2. ~late => Ats(queue') = {}
      BY <1>3, <2>0, <3>1
    <3> QED
      BY <2>0, <3>2 DEF ChangeTold
  <2> QED
    BY <1>6, <2>1, <2>2, <2>3 DEF Take
<1>7. CASE Expire
  <2>1. late' = (late \/ Ats(queue) # {}) /\ queue' = Append(queue, "timer")
    BY <1>7 DEF Expire, Waiting, Places, Ats
  <2>2. Ats(queue') = Ats(queue)
    BY <1>0, <2>1, AtsOfAppend DEF Ev
  <2> QED
    BY <2>1, <2>2 DEF ChangeTold
<1>8. CASE NewTag
  BY <1>1, <1>8 DEF NewTag, tableVars
<1>9. CASE OtherPost
  <2>1. queue' = Append(queue, "other")
    BY <1>9 DEF OtherPost
  <2>2. Ats(queue') = Ats(queue)
    BY <1>0, <2>1, AtsOfAppend DEF Ev
  <2> QED
    BY <1>1, <1>9, <2>2 DEF OtherPost, tableVars
<1>10. CASE Leave
  <2>1. /\ late' = (late /\ Ats(queue) # {})
        /\ queue' = queue /\ timer' = timer /\ outStr_buf' = outStr_buf /\ observers' = observers
    BY <1>10 DEF Leave, Waiting, Places, Ats, tableVars
  <2>2. CASE Ats(queue) = {}
    BY <1>2, <2>1, <2>2
  <2>3. CASE Ats(queue) # {}
    <3>1. late' <=> late
      BY <2>1, <2>3
    <3> QED
      BY <1>1, <2>1, <3>1
  <2> QED
    BY <2>2, <2>3
<1>11. CASE UNCHANGED vars
  BY <1>1, <1>11 DEF vars, tableVars
<1> QED
  BY <1>5, <1>6, <1>7, <1>8, <1>9, <1>10, <1>11 DEF Next

-----------------------------------------------------------------------------
(* What a notification says.                                               *)

(* The token goes behind the option of the observation, and the content's  *)
(* type before both.                                                       *)
LEMMA InsertingLast ==
  ASSUME NEW o, NEW n \in Nat, NEW x, x.n \in Nat, x.n <= n
  PROVE  InsertAt(<<x>>, Before(<<x>>, n), o) = <<x, o>>
<1>1. {i \in DOMAIN <<x>> : <<x>>[i].n > n} \cup {Len(<<x>>) + 1} = {2}
  OBVIOUS
<1>2. Before(<<x>>, n) = 2
  BY <1>1, MinProperties DEF Before
<1>3. SubSeq(<<x>>, 1, 2 - 1) = <<x>> /\ SubSeq(<<x>>, 2, Len(<<x>>)) = <<>>
  <2>1. <<x>> \in Seq({x}) /\ Len(<<x>>) = 1
    OBVIOUS
  <2>2. SubSeq(<<x>>, 1, Len(<<x>>)) = <<x>>
    BY <2>1, SubSeqFull, Zenon
  <2>3. SubSeq(<<x>>, 2, 1) = <<>>
    BY SubSeqEmpty
  <2> QED
    BY <2>1, <2>2, <2>3
<1>4. (<<x>> \o <<o>>) \o <<>> = <<x, o>>
  <2> DEFINE V == {x, o}
             p == <<x>>
             q == <<o>>
             r == <<x, o>>
  <2>1. p \in Seq(V) /\ q \in Seq(V) /\ r \in Seq(V) /\ Len(p) = 1 /\ Len(q) = 1 /\ Len(r) = 2
    OBVIOUS
  <2>2. r[1] = p[1] /\ r[2] = q[1]
    OBVIOUS
  <2> HIDE DEF V, p, q, r
  <2>3. r \o <<>> = r
    BY <2>1, ConcatEmptySeq
  <2>4. /\ p \o q \in Seq(V) /\ Len(p \o q) = Len(p) + Len(q)
        /\ \A i \in 1 .. Len(p) + Len(q) : (p \o q)[i] = IF i <= Len(p) THEN p[i] ELSE q[i - Len(p)]
    BY <2>1, ConcatProperties
  <2>5. \A i \in 1 .. 2 : (p \o q)[i] = r[i]
    BY <2>1, <2>2, <2>4
  <2>6. p \o q = r
    BY <2>1, <2>4, <2>5, SeqEqual
  <2> QED
    BY <2>3, <2>6 DEF p, q, r
<1> QED
  BY <1>2, <1>3, <1>4, Zenon DEF InsertAt

LEMMA InsertingBeforeTwo ==
  ASSUME NEW o, NEW n \in Nat, NEW x, x.n \in Nat, x.n > n, NEW y, y.n \in Nat, y.n > n
  PROVE  InsertAt(<<x, y>>, Before(<<x, y>>, n), o) = <<o, x, y>>
<1>1. {i \in DOMAIN <<x, y>> : <<x, y>>[i].n > n} \cup {Len(<<x, y>>) + 1} = {1, 2, 3}
  OBVIOUS
<1>2. Before(<<x, y>>, n) = 1
  BY <1>1, MinProperties DEF Before
<1>3. SubSeq(<<x, y>>, 1, 1 - 1) = <<>> /\ SubSeq(<<x, y>>, 1, Len(<<x, y>>)) = <<x, y>>
  <2>1. <<x, y>> \in Seq({x, y})
    OBVIOUS
  <2>2. SubSeq(<<x, y>>, 1, Len(<<x, y>>)) = <<x, y>>
    BY <2>1, SubSeqFull, Zenon
  <2>3. SubSeq(<<x, y>>, 1, 0) = <<>>
    BY SubSeqEmpty
  <2> QED
    BY <2>2, <2>3
<1>4. (<<>> \o <<o>>) \o <<x, y>> = <<o, x, y>>
  <2> DEFINE V == {o, x, y}
             p == <<o>>
             q == <<x, y>>
             r == <<o, x, y>>
  <2>1. p \in Seq(V) /\ q \in Seq(V) /\ r \in Seq(V) /\ Len(p) = 1 /\ Len(q) = 2 /\ Len(r) = 3
    OBVIOUS
  <2>2. r[1] = p[1] /\ r[2] = q[1] /\ r[3] = q[2]
    OBVIOUS
  <2> HIDE DEF V, p, q, r
  <2>3. <<>> \o p = p
    BY <2>1, ConcatEmptySeq
  <2>4. /\ p \o q \in Seq(V) /\ Len(p \o q) = Len(p) + Len(q)
        /\ \A i \in 1 .. Len(p) + Len(q) : (p \o q)[i] = IF i <= Len(p) THEN p[i] ELSE q[i - Len(p)]
    BY <2>1, ConcatProperties
  <2>5. \A i \in 1 .. 3 : (p \o q)[i] = r[i]
    BY <2>1, <2>2, <2>4
  <2>6. p \o q = r
    BY <2>1, <2>4, <2>5, SeqEqual
  <2> QED
    BY <2>3, <2>6 DEF p, q, r
<1> QED
  BY <1>2, <1>3, <1>4, Zenon DEF InsertAt

(* The token an observer is kept with has up to eight bytes.               *)
LEMMA KeptToken ==
  ASSUME NEW o \in Observers
  PROVE  o.token.len \in 0 .. 8
<1>1. o.token \in {Empty} \cup {TokenOf(request) : request \in Incomers}
  BY DEF Observers
<1>2. CASE o.token = Empty
  BY <1>2 DEF Empty, Value
<1>3. CASE o.token \in {TokenOf(request) : request \in Incomers}
  <2>1. PICK c \in Clients, w \in Requests : o.token = TokenOf(request_of(c, w))
    BY <1>3 DEF Incomers
  <2>2. TokenOf(request_of(c, w)) = TokenOf(Parsed[w])
    BY RequestIsParsed, SameOptions
  <2>3. TokenOf(Parsed[w]).len \in 0 .. 8
    BY MessagesAssumption
  <2> QED
    BY <2>1, <2>2, <2>3
<1> QED
  BY <1>1, <1>2, <1>3

(* The three options, or two, of a notification as they were set.          *)
Announced(ct, seconds, token) ==
  IF token.len > 0
  THEN <<[n |-> Content_Type, value |-> ct], [n |-> Observe, value |-> seconds],
         [n |-> Token, value |-> token]>>
  ELSE <<[n |-> Content_Type, value |-> ct], [n |-> Observe, value |-> seconds]>>

(* The parser reads the third as another of the kind of the second:        *)
(* serialize_packet() takes the sum of the numbers before it for the       *)
(* number of the one before it.                                            *)
LEMMA AnnouncedIsMisread ==
  ASSUME NEW m, NEW ct, NEW seconds, NEW token, token.len \in Nat,
         m.options = Announced(ct, seconds, token)
  PROVE  LET a == parse_message(serialize_packet(m), 0)
         IN  /\ a.error = "NO_ERROR" /\ a.payload = m.payload
             /\ Numbers(a.options) = <<Content_Type, Observe>> \o
                  (IF token.len > 0 THEN <<Observe>> ELSE <<>>)
<1> DEFINE k  == IF token.len > 0 THEN 3 ELSE 2
           w  == serialize_packet(m)
           os == m.options
           ns == Numbers(os)
           ds == Deltas(w.options)
<1>1. k \in 2 .. 3 /\ DOMAIN os = 1 .. k
  <2>1. CASE token.len > 0
    <3>1. os = <<[n |-> Content_Type, value |-> ct], [n |-> Observe, value |-> seconds],
                 [n |-> Token, value |-> token]>>
      BY <2>1, Zenon DEF Announced
    <3>2. k = 3
      BY <2>1
    <3> HIDE DEF os, k
    <3> QED
      BY <3>1, <3>2
  <2>2. CASE ~(token.len > 0)
    <3>1. os = <<[n |-> Content_Type, value |-> ct], [n |-> Observe, value |-> seconds]>>
      BY <2>2, Zenon DEF Announced
    <3>2. k = 2
      BY <2>2
    <3> HIDE DEF os, k
    <3> QED
      BY <3>1, <3>2
  <2> QED
    BY <2>1, <2>2
<1>2. os[1].n = 1 /\ os[2].n = 10 /\ (k = 3 => os[3].n = 11)
  BY DEF Announced, Content_Type, Observe, Token
<1>3. ns[1] = 1 /\ ns[2] = 10 /\ (k = 3 => ns[3] = 11)
  BY <1>1, <1>2 DEF Numbers
<1>4. /\ DOMAIN w.options = 1 .. k /\ w.cut = FALSE /\ w.payload = m.payload
      /\ \A i \in 1 .. k : w.options[i].delta = (os[i].n - SumTo(ns, i - 1)) % 16
  BY <1>1 DEF serialize_packet
<1>5. \A i \in 1 .. k : ds[i] = w.options[i].delta
  BY <1>4 DEF Deltas
<1>6. Numbered(w) = [i \in 1 .. k |-> [n |-> SumTo(ds, i), value |-> w.options[i].value]]
  BY <1>4 DEF Numbered
<1> HIDE DEF w, os, ns, ds, k
<1>7. SumTo(ns, 0) = 0 /\ SumTo(ns, 1) = 1 /\ SumTo(ns, 2) = 11
  <2>1. SumTo(ns, 0) = 0
    BY SumOfThree
  <2>2. SumTo(ns, 1) = ns[1]
    <3>1. \A i \in 1 .. 1 : ns[i] \in Int
      BY <1>3
    <3> QED
      BY <3>1, SumOfThree
  <2>3. SumTo(ns, 2) = ns[1] + ns[2]
    <3>1. \A i \in 1 .. 2 : ns[i] \in Int
      BY <1>3
    <3> QED
      BY <3>1, SumOfThree
  <2> QED
    BY <1>3, <2>1, <2>2, <2>3
<1>8. ds[1] = 1 /\ ds[2] = 9 /\ (k = 3 => ds[3] = 0)
  <2>1. ds[1] = (1 - SumTo(ns, 0)) % 16 /\ ds[2] = (10 - SumTo(ns, 1)) % 16
    BY <1>1, <1>2, <1>4, <1>5
  <2>2. k = 3 => ds[3] = (11 - SumTo(ns, 2)) % 16
    BY <1>1, <1>2, <1>4, <1>5
  <2> QED
    BY <1>7, <2>1, <2>2
<1>9. SumTo(ds, 1) = 1 /\ SumTo(ds, 2) = 10 /\ (k = 3 => SumTo(ds, 3) = 10)
  <2>1. SumTo(ds, 1) = ds[1]
    <3>1. \A i \in 1 .. 1 : ds[i] \in Int
      BY <1>8
    <3> QED
      BY <3>1, SumOfThree
  <2>2. SumTo(ds, 2) = ds[1] + ds[2]
    <3>1. \A i \in 1 .. 2 : ds[i] \in Int
      BY <1>8
    <3> QED
      BY <3>1, SumOfThree
  <2>3. k = 3 => SumTo(ds, 3) = ds[1] + ds[2] + ds[3]
    <3>1. k = 3 => \A i \in 1 .. 3 : ds[i] \in Int
      BY <1>8
    <3> QED
      BY <3>1, SumOfThree
  <2> QED
    BY <1>8, <2>1, <2>2, <2>3
<1>10. /\ DOMAIN Numbered(w) = 1 .. k
       /\ Numbered(w)[1].n = 1 /\ Numbered(w)[2].n = 10 /\ (k = 3 => Numbered(w)[3].n = 10)
  BY <1>1, <1>6, <1>9
<1>11. \A i \in 1 .. k : Numbered(w)[i].n # Uri_Path
  BY <1>1, <1>10 DEF Uri_Path
<1>12. LET a == parse_message(w, 0)
       IN  a.error = "NO_ERROR" /\ a.options = Numbered(w) /\ a.payload = w.payload
  <2>1. k \in 0 .. 3
    BY <1>1
  <2> QED
    BY <1>4, <1>11, <2>1, ParsedWithoutFault
<1>13. Numbers(Numbered(w)) = IF k = 3 THEN <<1, 10, 10>> ELSE <<1, 10>>
  <2>1. Numbers(Numbered(w)) = [i \in 1 .. k |-> Numbered(w)[i].n]
    BY <1>10 DEF Numbers
  <2>2. CASE k = 3
    <3>1. \A i \in 1 .. 3 : Numbered(w)[i].n = <<1, 10, 10>>[i]
      BY <1>10, <2>2
    <3>2. <<1, 10, 10>> = [i \in 1 .. 3 |-> <<1, 10, 10>>[i]]
      OBVIOUS
    <3> QED
      BY <2>1, <2>2, <3>1, <3>2
  <2>3. CASE k = 2
    <3>1. \A i \in 1 .. 2 : Numbered(w)[i].n = <<1, 10>>[i]
      BY <1>10, <2>3
    <3>2. <<1, 10>> = [i \in 1 .. 2 |-> <<1, 10>>[i]]
      OBVIOUS
    <3> QED
      BY <2>1, <2>3, <3>1, <3>2
  <2> QED
    BY <1>1, <2>2, <2>3
<1>14. <<1, 10>> \o <<10>> = <<1, 10, 10>> /\ <<1, 10>> \o <<>> = <<1, 10>>
  <2> DEFINE p == <<1, 10>>
             q == <<10>>
             r == <<1, 10, 10>>
  <2>1. p \in Seq(Nat) /\ q \in Seq(Nat) /\ r \in Seq(Nat) /\ Len(p) = 2 /\ Len(q) = 1 /\ Len(r) = 3
    OBVIOUS
  <2>2. r[1] = p[1] /\ r[2] = p[2] /\ r[3] = q[1]
    OBVIOUS
  <2> HIDE DEF p, q, r
  <2>3. p \o <<>> = p
    BY <2>1, ConcatEmptySeq
  <2>4. /\ p \o q \in Seq(Nat) /\ Len(p \o q) = Len(p) + Len(q)
        /\ \A i \in 1 .. Len(p) + Len(q) : (p \o q)[i] = IF i <= Len(p) THEN p[i] ELSE q[i - Len(p)]
    BY <2>1, ConcatProperties
  <2>5. Len(p \o q) = 3 /\ \A i \in 1 .. 3 : (p \o q)[i] = r[i]
    BY <2>1, <2>2, <2>4
  <2>6. p \o q = r
    BY <2>1, <2>4, <2>5, SeqEqual
  <2> QED
    BY <2>3, <2>6 DEF p, q, r
<1>15. Numbers(Numbered(w)) = <<Content_Type, Observe>> \o (IF token.len > 0 THEN <<Observe>> ELSE <<>>)
  <2>1. Content_Type = 1 /\ Observe = 10
    BY DEF Content_Type, Observe
  <2>2. CASE token.len > 0
    <3>1. k = 3
      BY <2>2 DEF k
    <3> QED
      BY <1>13, <1>14, <2>1, <2>2, <3>1, Zenon
  <2>3. CASE ~(token.len > 0)
    <3>1. k # 3
      BY <2>3 DEF k
    <3> QED
      BY <1>13, <1>14, <2>1, <2>3, <3>1, Zenon
  <2> QED
    BY <2>2, <2>3
<1> QED
  BY <1>4, <1>12, <1>15 DEF w

(* What an observer is told, read by its client: the text if there is one  *)
(* to hand out, which there is for the first on the list only.             *)
LEMMA NotificationIsRead ==
  ASSUME IInv, NEW k \in DOMAIN observers, NEW bytes \in ClockBytes, NEW found \in Junk
  PROVE  LET a     == parse_message(serialize_packet(Notification(k, bytes, found)), 0)
             token == observer[observers[k]].token
         IN  /\ a.error = "NO_ERROR"
             /\ a.payload = get_rfid_data(IF k = 1 THEN outStr_buf ELSE Empty, found)
             /\ Numbers(a.options) = <<Content_Type, Observe>> \o
                  (IF token.len > 0 THEN <<Observe>> ELSE <<>>)
<1> DEFINE o    == observer[observers[k]]
           t    == o.token
           text == get_rfid_data(IF k = 1 THEN outStr_buf ELSE Empty, found)
           sec  == Value(bytes, "seconds")
           ct   == Value(1, "plain")
           so   == [n |-> Observe, value |-> sec]
           st   == [n |-> Token, value |-> t]
           sc   == [n |-> Content_Type, value |-> ct]
           m0 == [init_packet(SizeofPacket) EXCEPT !.code = CONTENT_205, !.tid = OwnTid]
           m1 == coap_set_option(m0, Observe, sec)
           m2 == IF t.len > 0 THEN coap_set_option(m1, Token, t) ELSE m1
           m3 == coap_set_option(m2, Content_Type, ct)
           m4 == coap_set_payload(m3, text)
<1>1. t.len \in 0 .. 8
  <2>1. observers \in Seq(Blocks) /\ observer \in [Blocks -> Observers]
    BY DEF IInv, TypeOK
  <2>2. o \in Observers
    BY <2>1
  <2> QED
    BY <2>2, KeptToken
<1>2. Notification(k, bytes, found) = m4
  BY Zenon DEF Notification, rfid_observable_response_generator, SetObserve, SetToken
<1>3. text.len \in 0 .. 100
  <2>1. text \in {Tag, found}
    <3>1. outStr_buf \in {Empty, Tag}
      BY DEF IInv, TypeOK
    <3> QED
      BY <3>1 DEF get_rfid_data
  <2>2. Tag.len \in 1 .. 49 /\ found.len \in 0 .. 100
    BY MessagesAssumption
  <2> QED
    BY <2>1, <2>2
<1>4. sec.len \in 0 .. 2 /\ ct.len = 1
  BY MessagesAssumption DEF Value
<1>5. DOMAIN m0 = Fields /\ m0.used = 38 /\ m0.options = <<>>
  BY DEF init_packet, Fields, SizeofPacket
<1>6. so.n = 10 /\ st.n = 11 /\ sc.n = 1
  BY DEF Content_Type, Observe, Token
<1> HIDE DEF o, t, text, sec, ct, so, st, sc, m0
<1>7. DOMAIN m1 = Fields /\ m1.used \in 46 .. 48 /\ m1.options = <<so>>
  <2>1. Even(SizeofOption + sec.len) \in 8 .. 10
    BY <1>4, EvenSizes
  <2>2. Allocates(m0.used, SizeofOption + sec.len)
    BY <1>5, <2>1 DEF Allocates, COAP_DATA_BUFF_SIZE
  <2> HIDE DEF m1
  <2>3. /\ DOMAIN m1 = Fields /\ m1.used = m0.used + Even(SizeofOption + sec.len)
        /\ m1.options = InsertAt(<<>>, Before(<<>>, Observe), [n |-> Observe, value |-> sec])
    BY <1>5, <2>2, SettingAnOption DEF m1
  <2>4. m1.options = <<so>>
    BY <2>3, InsertingAnOption DEF Observe, so
  <2>5. m1.used \in 46 .. 48
    BY <1>5, <2>1, <2>3
  <2> QED
    BY <2>3, <2>4, <2>5
<1> HIDE DEF m1
<1>8. /\ DOMAIN m2 = Fields /\ m2.used \in 46 .. 64
      /\ m2.options = IF t.len > 0 THEN <<so, st>> ELSE <<so>>
  <2>1. CASE t.len > 0
    <3> DEFINE m == coap_set_option(m1, Token, t)
    <3>1. Even(SizeofOption + t.len) \in 8 .. 16
      BY <1>1, EvenSizes
    <3>2. Allocates(m1.used, SizeofOption + t.len)
      BY <1>7, <3>1 DEF Allocates, COAP_DATA_BUFF_SIZE
    <3>3. /\ DOMAIN m = Fields /\ m.used = m1.used + Even(SizeofOption + t.len)
          /\ m.options = InsertAt(<<so>>, Before(<<so>>, Token), st)
      BY <1>7, <3>2, SettingAnOption DEF st
    <3> HIDE DEF m
    <3>4. m.options = <<so, st>>
      BY <1>6, <3>3, InsertingLast DEF Token
    <3>5. m2 = m
      BY <2>1 DEF m
    <3> QED
      BY <1>7, <2>1, <3>1, <3>3, <3>4, <3>5
  <2>2. CASE ~(t.len > 0)
    <3>1. m2 = m1
      BY <2>2
    <3> QED
      BY <1>7, <2>2, <3>1
  <2> QED
    BY <2>1, <2>2
<1> HIDE DEF m2
<1>9. /\ DOMAIN m3 = Fields /\ m3.used \in 54 .. 74
      /\ m3.options = IF t.len > 0 THEN <<sc, so, st>> ELSE <<sc, so>>
  <2>1. Even(SizeofOption + ct.len) \in 8 .. 10
    BY <1>4, EvenSizes
  <2>2. Allocates(m2.used, SizeofOption + ct.len)
    BY <1>8, <2>1 DEF Allocates, COAP_DATA_BUFF_SIZE
  <2>3. /\ DOMAIN m3 = Fields /\ m3.used = m2.used + Even(SizeofOption + ct.len)
        /\ m3.options = InsertAt(m2.options, Before(m2.options, Content_Type), sc)
    BY <1>8, <2>2, SettingAnOption DEF sc
  <2> HIDE DEF m3
  <2>4. /\ Content_Type \in Nat /\ so.n \in Nat /\ st.n \in Nat
        /\ so.n > Content_Type /\ st.n > Content_Type
    BY <1>6 DEF Content_Type
  <2>5. InsertAt(<<so>>, Before(<<so>>, Content_Type), sc) = <<sc, so>>
    BY <2>4, InsertingAnOption, Zenon
  <2>6. InsertAt(<<so, st>>, Before(<<so, st>>, Content_Type), sc) = <<sc, so, st>>
    BY <2>4, InsertingBeforeTwo, SMTT(30)
  <2>7. m3.options = IF t.len > 0 THEN <<sc, so, st>> ELSE <<sc, so>>
    BY <1>8, <2>3, <2>5, <2>6
  <2> QED
    BY <1>8, <2>1, <2>3, <2>7
<1> HIDE DEF m3
<1>10. m4.payload = text /\ m4.options = Announced(ct, sec, t)
  <2>1. Even(text.len) \in Nat /\ Even(text.len) <= 101
    BY <1>3, EvenSizes
  <2>2. Allocates(m3.used, text.len)
    BY <1>9, <2>1 DEF Allocates, COAP_DATA_BUFF_SIZE
  <2>3. m4.payload = text /\ m4.options = m3.options
    BY <1>9, <2>2, SettingThePayload
  <2> QED
    BY <1>9, <2>3, Zenon DEF Announced, sc, so, st
<1> HIDE DEF m4
<1>11. LET a == parse_message(serialize_packet(m4), 0)
       IN  /\ a.error = "NO_ERROR" /\ a.payload = m4.payload
           /\ Numbers(a.options) = <<Content_Type, Observe>> \o
                (IF t.len > 0 THEN <<Observe>> ELSE <<>>)
  BY <1>1, <1>10, AnnouncedIsMisread
<1> QED
  BY <1>2, <1>10, <1>11 DEF t, o, text

(* Two that observe have two endpoints.                                    *)
LEMMA EndpointsDiffer ==
  ASSUME IInv, NEW i \in DOMAIN observers, NEW j \in DOMAIN observers,
         Endpoint(observer[observers[i]]) = Endpoint(observer[observers[j]])
  PROVE  i = j
<1> DEFINE a == observers[i]
           b == observers[j]
<1>1. /\ observers \in Seq(Blocks) /\ observer \in [Blocks -> Observers]
      /\ TableExact
  BY DEF IInv, TypeOK
<1>2. a \in Blocks /\ b \in Blocks
  BY <1>1
<1>3. count[a] = 1 /\ count[b] = 1
  BY <1>1, <1>2 DEF TableExact
<1>4. observer[a].client_ipaddr = observer[b].client_ipaddr
  BY DEF Endpoint
<1>5. observer[a].client_port = observer[b].client_port
  <2>1. \A x \in Blocks : observer[x].client_port \in Nat /\ observer[x].client_port < 65536
    BY <1>1, KeptPort
  <2>2. UIP_HTONS(observer[a].client_port) = UIP_HTONS(observer[b].client_port)
    BY DEF Endpoint
  <2>3. /\ UIP_HTONS(UIP_HTONS(observer[a].client_port)) = observer[a].client_port
        /\ UIP_HTONS(UIP_HTONS(observer[b].client_port)) = observer[b].client_port
    BY <1>2, <2>1, SwappingTwice
  <2> QED
    BY <2>2, <2>3
<1>6. a = b
  <2>1. \A x, y \in Blocks :
          /\ count[x] = 1 /\ count[y] = 1
          /\ observer[x].client_port = observer[y].client_port
          /\ observer[x].client_ipaddr = observer[y].client_ipaddr
          => x = y
    BY <1>1, Zenon DEF TableExact
  <2> HIDE DEF a, b
  <2> QED
    BY <1>2, <1>3, <1>4, <1>5, <2>1
<1> QED
  BY <1>1, <1>6 DEF TableExact

(* What is sent when a change is announced, or by any other step.          *)
LEMMA DeliveryStep ==
  ASSUME CoapAssumption, IInv, Agreed, ChangeTold, TagDelivered, [Next]_vars
  PROVE  TagDelivered'
<1>1. ASSUME sent' = <<>>
      PROVE  TagDelivered'
  BY <1>1 DEF TagDelivered
<1>2. ASSUME sent = <<>>, sent' = sent
      PROVE  TagDelivered'
  BY <1>1, <1>2
<1>3. CASE sent = <<>> /\ Incoming
  <2>1. PICK c \in Clients, w \in Requests : handle_incoming_data(c, w)
    BY <1>3 DEF Incoming
  <2>2. sent' = <<>> \/ \E m : sent' = <<Answer(c, w, m)>>
    BY <2>1, MessageIsHandled
  <2>3. ASSUME NEW m, sent' = <<Answer(c, w, m)>>
        PROVE  TagDelivered'
    <3> DEFINE x == Answer(c, w, m)
    <3>1. x.re = <<w>>
      BY DEF Answer
    <3> HIDE DEF x
    <3>2. sent' = <<x>>
      BY <2>3 DEF x
    <3>3. \A k \in DOMAIN sent' : sent'[k] = x
      BY <3>2
    <3>4. x.re # <<>>
      BY <3>1
    <3> QED
      BY <3>3, <3>4 DEF TagDelivered
  <2> QED
    BY <1>1, <2>2, <2>3
<1>4. CASE sent = <<>> /\ ServerChanged /\ UNCHANGED <<told, late>>
  <2>1. PICK bytes \in ClockBytes, found \in [DOMAIN observers -> Junk] :
          sent' = [k \in DOMAIN observers |->
                     [to |-> Endpoint(observer[observers[k]]), re |-> <<>>,
                      w  |-> serialize_packet(Notification(k, bytes, found[k]))]]
    BY <1>4 DEF ServerChanged, NotifyAll
  <2>2. /\ DOMAIN sent' = DOMAIN observers
        /\ \A k \in DOMAIN observers :
             /\ sent'[k].to = Endpoint(observer[observers[k]])
             /\ sent'[k].w = serialize_packet(Notification(k, bytes, found[k]))
    BY <2>1
  <2>3. observers' = observers /\ observer' = observer /\ told' = told /\ late' = late
    BY <1>4 DEF ServerChanged, tableVars
  <2>4. {sent'[k].to : k \in DOMAIN sent'} = told'
    <3>1. {sent'[k].to : k \in DOMAIN sent'} = {Endpoint(observer[observers[k]]) : k \in DOMAIN observers}
      BY <2>2
    <3>2. {Endpoint(observer[observers[k]]) : k \in DOMAIN observers}
            = {Endpoint(observer[b]) : b \in ToSet(observers)}
      BY DEF ToSet
    <3> QED
      BY <2>3, <3>1, <3>2 DEF Agreed
  <2>5. \A i, j \in DOMAIN sent' : sent'[i].to = sent'[j].to => i = j
    BY <2>2, EndpointsDiffer
  <2>6. ~late /\ observers # <<>> => outStr_buf = Tag
    <3>1. queue \in Seq(Ev) /\ queue # <<>> /\ Head(queue) = "changed"
      BY <1>4 DEF IInv, TypeOK, Ev, ServerChanged, Event
    <3>2. Ats(queue) # {}
      BY <3>1, AtsOfTail
    <3> QED
      BY <3>2 DEF ChangeTold
  <2>7. ASSUME NEW k \in DOMAIN sent'
        PROVE  LET read  == parse_message(sent'[k].w, 0)
                   token == observer[observers[k]].token
               IN  /\ read.error = "NO_ERROR"
                   /\ read.payload = Tag => k = 1
                   /\ ~late /\ k = 1 => read.payload = Tag
                   /\ Numbers(read.options) = <<Content_Type, Observe>> \o
                        (IF token.len > 0 THEN <<Observe>> ELSE <<>>)
    <3> DEFINE read  == parse_message(sent'[k].w, 0)
               token == observer[observers[k]].token
               text  == get_rfid_data(IF k = 1 THEN outStr_buf ELSE Empty, found[k])
    <3>1. k \in DOMAIN observers /\ found[k] \in Junk
      BY <2>1, <2>2, <2>7
    <3>2. /\ read.error = "NO_ERROR" /\ read.payload = text
          /\ Numbers(read.options) = <<Content_Type, Observe>> \o
               (IF token.len > 0 THEN <<Observe>> ELSE <<>>)
      BY <2>2, <3>1, NotificationIsRead
    <3> HIDE DEF read, token
    <3>3. Tag \notin Junk /\ Tag.len # 0
      BY MessagesAssumption
    <3>4. Empty.len = 0
      BY DEF Empty, Value
    <3>5. k # 1 => text = found[k]
      BY DEF get_rfid_data
    <3>6. k = 1 /\ outStr_buf = Tag => text = Tag
      BY <3>3, <3>4 DEF get_rfid_data
    <3>7. k = 1 => observers # <<>>
      BY <3>1
    <3> HIDE DEF text
    <3>8. read.payload = Tag => k = 1
      BY <3>1, <3>2, <3>3, <3>5
    <3>9. ~late /\ k = 1 => read.payload = Tag
      BY <2>6, <3>2, <3>6, <3>7
    <3> QED
      BY <3>2, <3>8, <3>9 DEF read, token
  <2> QED
    BY <2>3, <2>4, <2>5, <2>7, Zenon DEF TagDelivered
<1>5. CASE sent = <<>> /\ (ManagerTimer \/ ManagerResumes \/ OtherTake \/ Expire \/ NewTag \/ OtherPost)
  BY <1>2, <1>5 DEF ManagerTimer, ManagerResumes, OtherTake, Expire, NewTag, OtherPost
<1>6. CASE Leave
  BY <1>1, <1>6 DEF Leave
<1>7. CASE UNCHANGED vars
  BY <1>7 DEF TagDelivered, vars, tableVars
<1> QED
  BY <1>3, <1>4, <1>5, <1>6, <1>7 DEF Next, Take

(* For any clients, blocks, queue and requests: a change is announced once *)
(* to each client that was told that it observes and to no other; nobody   *)
(* but the first on the list gets the tag, who does unless the timer ran   *)
(* out again before the change was announced; and a token comes as an      *)
(* Observe option (rest_manager_process, coap_server, get_rfid_data,       *)
(* serialize_packet).                                                      *)
THEOREM ChangesAreDelivered == Spec => []TagDelivered
<1> DEFINE I == IInv /\ ChangeTold /\ TagDelivered
<1>1. Init => I
  <2> SUFFICES ASSUME Init PROVE I
    OBVIOUS
  <2>1. Ats(queue) = {}
    BY DEF Init, Ats
  <2>2. ChangeTold
    BY <2>1 DEF ChangeTold
  <2>3. observers = <<>> /\ sent = <<>>
    BY DEF Init
  <2>4. TagDelivered
    BY <2>3 DEF TagDelivered
  <2> QED
    BY <2>2, <2>4, InitEstablishes, CoapAssumption
<1>2. I /\ Agreed /\ [Next]_vars => I'
  BY StepPreserves, ChangeStep, DeliveryStep, CoapAssumption
<1>3. I => TagDelivered
  OBVIOUS
<1>4. Spec => []Agreed
  BY TableIsWhatWasTold
<1> HIDE DEF I
<1> QED
  BY <1>1, <1>2, <1>3, <1>4, PTL DEF Spec
=============================================================================
