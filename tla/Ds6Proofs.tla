----------------------------- MODULE Ds6Proofs -----------------------------
(***************************************************************************)
(* What is proved of module Ds6, for any routers and prefixes and any size *)
(* of the tables: no table lists an address twice, a pass writes one       *)
(* packet at most, an address is preferred only after a grant, and an      *)
(* eviction takes nothing that was granted.                                *)
(***************************************************************************)
EXTENDS Ds6, Integers, FiniteSetTheorems, WellFoundedInduction, TLAPS

(* A set of numbers that is not empty has a least one.                     *)
LEMMA LeastExists ==
  ASSUME NEW T, T \subseteq Nat, T # {}
  PROVE  \E n \in T : \A m \in T : n <= m
<1>1. PICK n \in T : \A m \in T : ~(<<m, n>> \in OpToRel(<, Nat))
  BY WFMin, NatLessThanWellFounded, Zenon
<1>2. \A m \in T : ~(m < n)
  BY <1>1, Zenon DEF OpToRel
<1> QED
  BY <1>2

(* A set of slots that is not empty has a first and a last one.            *)
LEMMA Extremes ==
  ASSUME NEW N \in Nat, NEW S, S \subseteq 1 .. N, S # {}
  PROVE  /\ \E k \in S : \A j \in S : k <= j
         /\ \E k \in S : \A j \in S : j <= k
<1>1. S \subseteq Nat
  OBVIOUS
<1>2. \E k \in S : \A j \in S : k <= j
  BY <1>1, LeastExists
<1> DEFINE T == {N - k : k \in S}
<1>3. T \subseteq Nat /\ T # {}
  <2>1. \A k \in S : N - k \in Nat
    OBVIOUS
  <2> QED
    BY <2>1
<1>4. \E m \in T : \A y \in T : m <= y
  <2> HIDE DEF T
  <2> QED
    BY <1>3, LeastExists
<1>5. PICK k \in S : \A y \in T : N - k <= y
  BY <1>4
<1>6. \A j \in S : j <= k
  <2> TAKE j \in S
  <2>1. N - k <= N - j
    BY <1>5
  <2> QED
    BY <2>1
<1> QED
  BY <1>2, <1>6
-----------------------------------------------------------------------------
(* The records of the tables, as TypeOK has them.                          *)
Reg == [used : BOOLEAN, state : {"gc", "registered", "unregister"},
        addr : 0 .. AddrNb, defrt : 0 .. DefrtNb, count : 0 .. MaxUnicast]
Defrt == [used : BOOLEAN, ip : Router \cup {Nowhere}]
Addr == [used : BOOLEAN, ip : Address, preferred : BOOLEAN]

(* Where a pass may still send, it has not yet written anything, and       *)
(* between two passes the buffer is free.                                  *)
BufferFree ==
  /\ pc \in {"regs", "lifetimes", "routers"} /\ allow => out = <<>>
  /\ pc \notin {"regs", "lifetimes", "routers", "output"} => out = <<>>

(* Together inductive; where a packet is written depends on the place of   *)
(* the handler, and that a search is complete on there being no second     *)
(* entry.                                                                  *)
IInv ==
  TypeOK /\ IsFiniteSet(nbr) /\ Unique /\ OnePacket /\ BufferFree /\ PreferredGranted
-----------------------------------------------------------------------------
(* The tables.                                                             *)

(* The loop over a table finds the first or the last of the entries it     *)
(* looks for, when there is one.                                           *)
LEMMA FirstAndFinal ==
  ASSUME NEW N \in Nat, NEW S, S \subseteq 1 .. N, S # {}
  PROVE  First(S) \in S /\ Final(S) \in S
BY Extremes DEF First, Final

(* A lookup gives an entry in use that has the address, or 0 when there is *)
(* none.                                                                   *)
LEMMA LookupFinds ==
  ASSUME NEW N \in Nat, NEW table, DOMAIN table = 1 .. N, NEW ip
  PROVE  /\ Lookup(table, ip) \in 0 .. N
         /\ Lookup(table, ip) = 0 <=> Found(table, ip) = {}
         /\ Lookup(table, ip) # 0 => Lookup(table, ip) \in Found(table, ip)
<1>1. Found(table, ip) \subseteq 1 .. N
  BY DEF Found, Used
<1>2. CASE Found(table, ip) = {}
  BY <1>2 DEF Lookup
<1>3. CASE Found(table, ip) # {}
  <2>1. First(Found(table, ip)) \in Found(table, ip)
    BY <1>1, <1>3, FirstAndFinal
  <2>2. Lookup(table, ip) = First(Found(table, ip))
    BY <1>3 DEF Lookup
  <2> HIDE DEF Lookup
  <2> QED
    BY <1>1, <1>3, <2>1, <2>2
<1> QED
  BY <1>2, <1>3

(* No two entries in use have one address; Unique says it of two tables.   *)
NoneTwice(table) == \A j, k \in Used(table) : table[j].ip = table[k].ip => j = k

(* Freeing entries leaves the others, and what each holds.                 *)
LEMMA ReleaseDefrt ==
  ASSUME NEW table \in [1 .. DefrtNb -> Defrt], NEW S
  PROVE  /\ Release(table, S) \in [1 .. DefrtNb -> Defrt]
         /\ \A k \in 1 .. DefrtNb : Release(table, S)[k].ip = table[k].ip
         /\ Used(Release(table, S)) = Used(table) \ S
<1>1. \A k \in 1 .. DefrtNb :
        LET e == [table[k] EXCEPT !.used = @ /\ k \notin S]
        IN  e \in Defrt /\ e.ip = table[k].ip /\ (e.used <=> table[k].used /\ k \notin S)
  BY DEF Defrt
<1>2. DOMAIN Release(table, S) = 1 .. DefrtNb
  BY DEF Release
<1>3. \A k \in 1 .. DefrtNb : Release(table, S)[k] = [table[k] EXCEPT !.used = @ /\ k \notin S]
  BY DEF Release
<1>4. Release(table, S) \in [1 .. DefrtNb -> Defrt]
  BY <1>1 DEF Release
<1> QED
  BY <1>1, <1>2, <1>3, <1>4 DEF Used

(* The same of the addresses, of which it leaves the state as well.        *)
LEMMA ReleaseAddr ==
  ASSUME NEW table \in [1 .. AddrNb -> Addr], NEW S
  PROVE  /\ Release(table, S) \in [1 .. AddrNb -> Addr]
         /\ \A k \in 1 .. AddrNb : /\ Release(table, S)[k].ip = table[k].ip
                                   /\ Release(table, S)[k].preferred = table[k].preferred
         /\ Used(Release(table, S)) = Used(table) \ S
<1>1. \A k \in 1 .. AddrNb :
        LET e == [table[k] EXCEPT !.used = @ /\ k \notin S]
        IN  /\ e \in Addr /\ e.ip = table[k].ip /\ e.preferred = table[k].preferred
            /\ e.used <=> table[k].used /\ k \notin S
  BY DEF Addr
<1>2. DOMAIN Release(table, S) = 1 .. AddrNb
  BY DEF Release
<1>3. \A k \in 1 .. AddrNb : Release(table, S)[k] = [table[k] EXCEPT !.used = @ /\ k \notin S]
  BY DEF Release
<1>4. Release(table, S) \in [1 .. AddrNb -> Addr]
  BY <1>1 DEF Release
<1> QED
  BY <1>1, <1>2, <1>3, <1>4 DEF Used

(* What is done to the registrations keeps their type.                     *)
LEMMA RegistrationTypes ==
  ASSUME NEW table \in [1 .. RegNb -> Reg], NEW S, NEW p,
         NEW a \in 0 .. AddrNb, NEW d \in 0 .. DefrtNb
  PROVE  /\ Release(table, S) \in [1 .. RegNb -> Reg]
         /\ Forget(table, p) \in [1 .. RegNb -> Reg]
         /\ reg_cleanup_defrt(table, d) \in [1 .. RegNb -> Reg]
         /\ reg_cleanup_addr(table, a) \in [1 .. RegNb -> Reg]
         /\ reg_add(table, a, d) \in [1 .. RegNb -> Reg]
<1>0. /\ RegNb \in Nat /\ AddrNb \in Nat /\ DefrtNb \in Nat /\ MaxUnicast \in Nat
      /\ DOMAIN table = 1 .. RegNb
  BY SizesAssumption
<1>1. ASSUME NEW T PROVE Release(table, T) \in [1 .. RegNb -> Reg]
  <2>1. \A k \in 1 .. RegNb : [table[k] EXCEPT !.used = @ /\ k \notin T] \in Reg
    BY DEF Reg
  <2> QED
    BY <2>1 DEF Release
<1>2. Forget(table, p) \in [1 .. RegNb -> Reg]
  <2>1. Blank \in Reg
    BY <1>0 DEF Blank, Reg
  <2> QED
    BY <2>1 DEF Forget
<1>3. reg_cleanup_addr(table, a) \in [1 .. RegNb -> Reg]
  <2>1. \A k \in 1 .. RegNb : /\ [table[k] EXCEPT !.state = "unregister"] \in Reg
                              /\ [table[k] EXCEPT !.used = FALSE] \in Reg
    BY DEF Reg
  <2> QED
    BY <2>1 DEF reg_cleanup_addr
<1>4. reg_add(table, a, d) \in [1 .. RegNb -> Reg]
  <2> DEFINE new == [used |-> TRUE, state |-> "gc", addr |-> a, defrt |-> d, count |-> 0]
             gc == {k \in Used(table) : table[k].state = "gc"}
  <2>1. new \in Reg
    BY <1>0 DEF Reg
  <2>2. reg_add(table, a, d) \in {table, [table EXCEPT ![First(Spare(table))] = new],
                                         [table EXCEPT ![Final(gc)] = new]}
    BY DEF reg_add
  <2> QED
    BY <2>1, <2>2
<1> QED
  BY <1>1, <1>2, <1>3, <1>4 DEF reg_cleanup_defrt
-----------------------------------------------------------------------------
(* What a step may do to the addresses: free some, take a new prefix that  *)
(* has none yet, or grant one.                                             *)
LEMMA AddrStep ==
  ASSUME TypeOK, [Next]_vars
  PROVE  \/ addr' = addr
         \/ \E S : addr' = Release(addr, S)
         \/ /\ ra.prefix \in Prefix /\ Lookup(addr, ra.prefix) = 0 /\ Spare(addr) # {}
            /\ addr' = addr_add(ra.prefix)
         \/ \E s \in net : /\ Found(addr, s.src) # {}
                           /\ addr' = [addr EXCEPT ![Lookup(addr, s.src)].preferred = TRUE]
                           /\ granted' = granted \cup {s.src}
<1>1. CASE Pass
  BY <1>1 DEF Pass, RegExpire, RegRetry, RegGiveUp, RegIssue, RegSkip, ExpireAddrs, ExpireRouters, Output, tableVars
<1>2. CASE Ra
  <2>1. CASE RaPrefix
    <3>1. ra.prefix # Nowhere => ra.prefix \in Prefix
      BY DEF TypeOK, Advert, NoRa
    <3> QED
      BY <2>1, <3>1 DEF RaPrefix
  <2> QED
    BY <1>2, <2>1 DEF Ra, RaRouter, RaRegister, RaDone, tableVars
<1>3. CASE \E s \in net : NaInput(s)
  <2>1. PICK s \in net : NaInput(s)
    BY <1>3
  <2>2. CASE NaSuccess(s)
    BY <2>2 DEF NaSuccess, NaAnswer, Answer
  <2> QED
    BY <2>1, <2>2 DEF NaInput, NaUnregistered, NaIgnored, NaDuplicate, NaFull
<1>4. CASE \E m \in Advert : RaInput(m)
  BY <1>4 DEF RaInput, RaKnown, RaNewNeighbor, RaEvict, Received
<1>5. CASE \/ Periodic \/ Lose \/ UNCHANGED vars
           \/ \E a \in Used(addr) \cup {0} : NsInput(a)
           \/ \E r \in Router : NaNotRouter(r)
  BY <1>5 DEF Periodic, Lose, NsInput, NaNotRouter, tableVars, vars
<1> QED
  BY <1>1, <1>2, <1>3, <1>4, <1>5 DEF Next

(* What a step may do to the default routers: free some, or what an        *)
(* advertisement says.                                                     *)
LEMMA DefrtStep ==
  ASSUME TypeOK, [Next]_vars
  PROVE  \/ defrt' = defrt
         \/ \E S : defrt' = Release(defrt, S)
         \/ pc = "router" /\ defrt' = Advertised
<1>1. CASE Pass
  BY <1>1 DEF Pass, RegExpire, RegRetry, RegGiveUp, RegIssue, RegSkip, ExpireAddrs, ExpireRouters, Output, tableVars
<1>2. CASE Ra
  BY <1>2 DEF Ra, RaPrefix, RaRouter, RaRegister, RaDone, tableVars
<1>3. CASE \E s \in net : NaInput(s)
  BY <1>3 DEF NaInput, NaUnregistered, NaAnswer, NaSuccess, NaIgnored, NaDuplicate, NaFull, Answer
<1>4. CASE \E m \in Advert : RaInput(m)
  BY <1>4 DEF RaInput, RaKnown, RaNewNeighbor, RaEvict, Received
<1>5. CASE \E r \in Router : NaNotRouter(r)
  BY <1>5 DEF NaNotRouter
<1>6. CASE Periodic \/ Lose \/ UNCHANGED vars \/ \E a \in Used(addr) \cup {0} : NsInput(a)
  BY <1>6 DEF Periodic, Lose, NsInput, tableVars, vars
<1> QED
  BY <1>1, <1>2, <1>3, <1>4, <1>5, <1>6 DEF Next

(* What a step may do to the neighbors: lose some, add one while there is  *)
(* room, or put one in the place of another.                               *)
LEMMA NbrStep ==
  ASSUME TypeOK, [Next]_vars
  PROVE  \/ nbr' \subseteq nbr
         \/ \E m \in Advert : /\ m.from \notin nbr /\ Cardinality(nbr) < NbrNb
                              /\ nbr' = nbr \cup {m.from}
         \/ \E m \in Advert : \E n \in nbr : m.from \notin nbr /\ RaEvict(m, n)
<1>1. CASE Pass
  BY <1>1 DEF Pass, RegExpire, RegRetry, RegGiveUp, RegIssue, RegSkip, ExpireAddrs, ExpireRouters, Output, tableVars
<1>2. CASE Ra
  BY <1>2 DEF Ra, RaPrefix, RaRouter, RaRegister, RaDone, tableVars
<1>3. CASE \E s \in net : NaInput(s)
  BY <1>3 DEF NaInput, NaUnregistered, NaAnswer, NaSuccess, NaIgnored, NaDuplicate, NaFull, Answer
<1>4. CASE \E m \in Advert : RaInput(m)
  <2>1. PICK m \in Advert : RaInput(m)
    BY <1>4
  <2>2. CASE \E n \in nbr : RaEvict(m, n)
    BY <2>2 DEF RaEvict
  <2> QED
    BY <2>1, <2>2 DEF RaInput, RaKnown, RaNewNeighbor
<1>5. CASE \E r \in Router : NaNotRouter(r)
  BY <1>5 DEF NaNotRouter
<1>6. CASE Periodic \/ Lose \/ UNCHANGED vars \/ \E a \in Used(addr) \cup {0} : NsInput(a)
  BY <1>6 DEF Periodic, Lose, NsInput, tableVars, vars
<1> QED
  BY <1>1, <1>2, <1>3, <1>4, <1>5, <1>6 DEF Next

(* The router list after an advertisement: a router it withdraws is gone,  *)
(* and one it announces is listed once.                                    *)
LEMMA AdvertisedKeeps ==
  ASSUME TypeOK
  PROVE  /\ Advertised \in [1 .. DefrtNb -> Defrt]
         /\ NoneTwice(defrt) => NoneTwice(Advertised)
<1>0. /\ defrt \in [1 .. DefrtNb -> Defrt] /\ DOMAIN defrt = 1 .. DefrtNb /\ DefrtNb \in Nat
      /\ ra.from \in Router \cup {Nowhere}
  BY SizesAssumption DEF TypeOK, Defrt, Advert, NoRa
<1> DEFINE d == Lookup(defrt, ra.from)
           k == Final(Spare(defrt))
           new == [used |-> TRUE, ip |-> ra.from]
<1>1. Release(defrt, {d}) \in [1 .. DefrtNb -> Defrt] /\ (NoneTwice(defrt) => NoneTwice(Release(defrt, {d})))
  BY <1>0, ReleaseDefrt DEF NoneTwice, Used
<1>2. d = 0 => \A j \in Used(defrt) : defrt[j].ip # ra.from
  BY <1>0, LookupFinds DEF Found
<1>3. ASSUME Spare(defrt) # {}
      PROVE  k \in 1 .. DefrtNb /\ k \notin Used(defrt)
  BY <1>0, <1>3, FirstAndFinal DEF Spare
<1>4. ASSUME d = 0, Spare(defrt) # {}
      PROVE  /\ defrt_add(defrt, ra.from) \in [1 .. DefrtNb -> Defrt]
             /\ NoneTwice(defrt) => NoneTwice(defrt_add(defrt, ra.from))
  <2> HIDE DEF k
  <2>1. defrt_add(defrt, ra.from) = [defrt EXCEPT ![k] = new]
    BY DEF defrt_add, k
  <2>2. new \in Defrt /\ k \in 1 .. DefrtNb
    BY <1>0, <1>3, <1>4 DEF Defrt
  <2>3. [defrt EXCEPT ![k] = new] \in [1 .. DefrtNb -> Defrt]
    BY <1>0, <2>2
  <2>4. NoneTwice(defrt) => NoneTwice([defrt EXCEPT ![k] = new])
    BY <1>0, <1>2, <1>4, <2>2 DEF NoneTwice, Used
  <2> QED
    BY <2>1, <2>3, <2>4
<1> QED
  BY <1>0, <1>1, <1>4 DEF Advertised

(* The address list after a new prefix.                                    *)
LEMMA AddrAddKeeps ==
  ASSUME TypeOK, NEW ip \in Prefix, Lookup(addr, ip) = 0, Spare(addr) # {}
  PROVE  /\ Final(Spare(addr)) \in 1 .. AddrNb
         /\ addr_add(ip) = [addr EXCEPT ![Final(Spare(addr))] =
                              [used |-> TRUE, ip |-> ip, preferred |-> FALSE]]
         /\ addr_add(ip) \in [1 .. AddrNb -> Addr]
         /\ \A j \in Used(addr) : addr[j].ip # ip
<1>0. addr \in [1 .. AddrNb -> Addr] /\ DOMAIN addr = 1 .. AddrNb /\ AddrNb \in Nat
  BY SizesAssumption DEF TypeOK, Addr
<1>1. Final(Spare(addr)) \in 1 .. AddrNb
  BY <1>0, FirstAndFinal DEF Spare
<1>2. [used |-> TRUE, ip |-> ip, preferred |-> FALSE] \in Addr
  BY DEF Addr, Address
<1>3. addr_add(ip) \in [1 .. AddrNb -> Addr]
  BY <1>0, <1>2 DEF addr_add
<1>4. \A j \in Used(addr) : addr[j].ip # ip
  BY <1>0, LookupFinds DEF Found
<1> QED
  BY <1>1, <1>3, <1>4 DEF addr_add
-----------------------------------------------------------------------------
(* Each step keeps the type of the default routers, ...                    *)
LEMMA DefrtTyped ==
  ASSUME TypeOK, [Next]_vars
  PROVE  defrt' \in [1 .. DefrtNb -> Defrt]
<1>1. defrt \in [1 .. DefrtNb -> Defrt]
  BY DEF TypeOK, Defrt
<1> QED
  BY <1>1, DefrtStep, AdvertisedKeeps, ReleaseDefrt

(* ... of the addresses, ...                                               *)
LEMMA AddrTyped ==
  ASSUME TypeOK, [Next]_vars
  PROVE  addr' \in [1 .. AddrNb -> Addr]
<1>1. addr \in [1 .. AddrNb -> Addr] /\ DOMAIN addr = 1 .. AddrNb /\ AddrNb \in Nat
  BY SizesAssumption DEF TypeOK, Addr
<1>2. ASSUME NEW s \in net, Found(addr, s.src) # {}
      PROVE  [addr EXCEPT ![Lookup(addr, s.src)].preferred = TRUE] \in [1 .. AddrNb -> Addr]
  <2>1. Lookup(addr, s.src) \in 1 .. AddrNb
    BY <1>1, <1>2, LookupFinds DEF Found, Used
  <2>2. \A k \in 1 .. AddrNb : [addr[k] EXCEPT !.preferred = TRUE] \in Addr
    BY <1>1 DEF Addr
  <2> QED
    BY <1>1, <2>1, <2>2
<1>3. CASE \E S : addr' = Release(addr, S)
  BY <1>1, <1>3, ReleaseAddr
<1>4. CASE /\ ra.prefix \in Prefix /\ Lookup(addr, ra.prefix) = 0 /\ Spare(addr) # {}
           /\ addr' = addr_add(ra.prefix)
  BY <1>4, AddrAddKeeps
<1> QED
  BY <1>1, <1>2, <1>3, <1>4, AddrStep

(* ... of the registrations, ...                                           *)
LEMMA RegTyped ==
  ASSUME TypeOK, [Next]_vars
  PROVE  reg' \in [1 .. RegNb -> Reg]
<1>0. /\ reg \in [1 .. RegNb -> Reg] /\ at \in 1 .. RegNb /\ progress \in 0 .. RegNb
      /\ last \in 0 .. AddrNb /\ MaxUnicast \in Nat /\ RegNb \in Nat
  BY SizesAssumption DEF TypeOK, Reg
<1>1. ASSUME NEW table \in [1 .. RegNb -> Reg], NEW S
      PROVE  Release(table, S) \in [1 .. RegNb -> Reg]
  <2>1. 0 \in 0 .. AddrNb /\ 0 \in 0 .. DefrtNb
    BY SizesAssumption
  <2> QED
    BY <2>1, RegistrationTypes
<1>2. ASSUME NEW table \in [1 .. RegNb -> Reg], NEW p
      PROVE  Forget(table, p) \in [1 .. RegNb -> Reg]
  <2>1. 0 \in 0 .. AddrNb /\ 0 \in 0 .. DefrtNb
    BY SizesAssumption
  <2> QED
    BY <2>1, RegistrationTypes
<1>3. ASSUME NEW table \in [1 .. RegNb -> Reg], NEW d
      PROVE  reg_cleanup_defrt(table, d) \in [1 .. RegNb -> Reg]
  BY <1>1 DEF reg_cleanup_defrt
<1>4. [reg EXCEPT ![at].count = More(@)] \in [1 .. RegNb -> Reg]
  <2>1. [reg[at] EXCEPT !.count = More(@)] \in Reg
    BY <1>0 DEF Reg, More
  <2> QED
    BY <1>0, <2>1
<1>5. CASE Pass
  <2>1. CASE RegExpire
    BY <1>0, <1>1, <1>2, <2>1 DEF RegExpire
  <2>2. CASE RegGiveUp
    BY <1>0, <1>1, <1>2, <1>3, <2>2 DEF RegGiveUp
  <2>3. CASE RegRetry \/ RegIssue
    BY <1>4, <2>3 DEF RegRetry, RegIssue
  <2> QED
    BY <1>0, <1>5, <2>1, <2>2, <2>3 DEF Pass, RegSkip, ExpireAddrs, ExpireRouters, Output, tableVars
<1>6. CASE Ra
  <2>1. CASE RaRouter
    <3>1. defrt' \in [1 .. DefrtNb -> Defrt]
      BY DefrtTyped
    <3>2. DefrtNb \in Nat /\ DOMAIN defrt' = 1 .. DefrtNb
      BY <3>1, SizesAssumption
    <3>3. Lookup(defrt', ra.from) \in 0 .. DefrtNb
      BY <3>2, LookupFinds
    <3>4. reg_add(reg, last, Lookup(defrt', ra.from)) \in [1 .. RegNb -> Reg]
      BY <1>0, <3>3, RegistrationTypes
    <3> QED
      BY <1>0, <2>1, <3>4 DEF RaRouter
  <2>2. CASE RaRegister
    <3>1. PICK d \in IF Unasked = {} THEN {0} ELSE Unasked : reg' = reg_add(reg, last, d)
      BY <2>2 DEF RaRegister
    <3>2. d \in 0 .. DefrtNb
      BY <3>1, SizesAssumption DEF Unasked, Used, TypeOK
    <3> QED
      BY <1>0, <3>1, <3>2, RegistrationTypes
  <2> QED
    BY <1>0, <1>6, <2>1, <2>2 DEF Ra, RaPrefix, RaDone, tableVars
<1>7. CASE \E s \in net : NaInput(s)
  <2>1. PICK s \in net : NaInput(s)
    BY <1>7
  <2>2. CASE NaSuccess(s)
    <3>1. progress \in 1 .. RegNb
      BY <1>0, <2>2 DEF NaSuccess, NaAnswer, Answer
    <3> DEFINE mid == [reg EXCEPT ![progress].state = "registered"]
    <3>2. \A e \in Reg : [e EXCEPT !.state = "registered"] \in Reg
      BY <1>0 DEF Reg
    <3>3. \A e \in Reg : [e EXCEPT !.count = 0] \in Reg
      BY <1>0, SMTT(20) DEF Reg
    <3>4. mid \in [1 .. RegNb -> Reg]
      BY <1>0, <3>1, <3>2
    <3>5. [mid EXCEPT ![progress].count = 0] \in [1 .. RegNb -> Reg]
      BY <3>1, <3>3, <3>4
    <3>6. reg' = Forget([mid EXCEPT ![progress].count = 0], 0)
      BY <2>2 DEF NaSuccess
    <3> QED
      BY <1>2, <3>5, <3>6
  <2>3. CASE NaDuplicate(s)
    <3>1. DOMAIN addr = 1 .. AddrNb /\ AddrNb \in Nat
      BY SizesAssumption DEF TypeOK
    <3>2. Lookup(addr, s.src) \in 0 .. AddrNb
      BY <3>1, LookupFinds
    <3>3. 0 \in 0 .. DefrtNb
      BY SizesAssumption
    <3>4. reg_cleanup_addr(reg, Lookup(addr, s.src)) \in [1 .. RegNb -> Reg]
      BY <1>0, <3>2, <3>3, RegistrationTypes
    <3> QED
      BY <1>2, <2>3, <3>4 DEF NaDuplicate
  <2>4. CASE NaUnregistered(s) \/ NaFull(s)
    BY <1>0, <1>1, <1>2, <2>4 DEF NaUnregistered, NaFull
  <2> QED
    BY <1>0, <2>1, <2>2, <2>3, <2>4 DEF NaInput, NaIgnored
<1>8. CASE \E m \in Advert : RaInput(m)
  <2>1. PICK m \in Advert : RaInput(m)
    BY <1>8
  <2>2. ASSUME NEW n, RaEvict(m, n) PROVE reg' \in [1 .. RegNb -> Reg]
    BY <1>0, <1>2, <1>3, <2>2 DEF RaEvict
  <2> QED
    BY <1>0, <2>1, <2>2 DEF RaInput, RaKnown, RaNewNeighbor
<1>9. CASE \E r \in Router : NaNotRouter(r)
  BY <1>0, <1>2, <1>3, <1>9 DEF NaNotRouter
<1>10. CASE Periodic \/ Lose \/ UNCHANGED vars \/ \E a \in Used(addr) \cup {0} : NsInput(a)
  BY <1>0, <1>10 DEF Periodic, Lose, NsInput, tableVars, vars
<1> QED
  BY <1>5, <1>6, <1>7, <1>8, <1>9, <1>10 DEF Next

(* ... of the neighbors, of which there are never more than places, ...    *)
LEMMA NbrTyped ==
  ASSUME TypeOK, IsFiniteSet(nbr), [Next]_vars
  PROVE  nbr' \subseteq Router /\ IsFiniteSet(nbr') /\ Cardinality(nbr') <= NbrNb
<1>0. /\ nbr \subseteq Router /\ Cardinality(nbr) \in Nat /\ Cardinality(nbr) <= NbrNb
      /\ NbrNb \in Nat
  BY FS_CardinalityType, SizesAssumption DEF TypeOK
<1>1. CASE nbr' \subseteq nbr
  <2>1. IsFiniteSet(nbr') /\ Cardinality(nbr') <= Cardinality(nbr)
    BY <1>1, FS_Subset
  <2>2. Cardinality(nbr') \in Nat
    BY <2>1, FS_CardinalityType
  <2> QED
    BY <1>0, <1>1, <2>1, <2>2
<1>2. CASE \E m \in Advert : m.from \notin nbr /\ Cardinality(nbr) < NbrNb
                             /\ nbr' = nbr \cup {m.from}
  <2>1. PICK m \in Advert : m.from \notin nbr /\ Cardinality(nbr) < NbrNb
                             /\ nbr' = nbr \cup {m.from}
    BY <1>2
  <2>2. m.from \in Router
    BY DEF Advert
  <2>3. IsFiniteSet(nbr') /\ Cardinality(nbr') = Cardinality(nbr) + 1
    BY <2>1, FS_AddElement
  <2> QED
    BY <1>0, <2>1, <2>2, <2>3
<1>3. CASE \E m \in Advert : \E n \in nbr : m.from \notin nbr /\ RaEvict(m, n)
  <2>1. PICK m \in Advert, n \in nbr : m.from \notin nbr /\ RaEvict(m, n)
    BY <1>3
  <2>2. m.from \in Router /\ nbr' = (nbr \ {n}) \cup {m.from}
    BY <2>1 DEF Advert, RaEvict
  <2>3. IsFiniteSet(nbr \ {n}) /\ Cardinality(nbr \ {n}) = Cardinality(nbr) - 1
    BY FS_RemoveElement
  <2>4. IsFiniteSet(nbr') /\ Cardinality(nbr') = Cardinality(nbr \ {n}) + 1
    BY <2>1, <2>2, <2>3, FS_AddElement
  <2> QED
    BY <1>0, <2>2, <2>3, <2>4
<1> QED
  BY <1>1, <1>2, <1>3, NbrStep

(* The variables beside the tables.                                        *)
RestOK ==
  /\ progress \in 0 .. RegNb
  /\ last \in 0 .. AddrNb
  /\ pc \in {"idle", "regs", "lifetimes", "routers", "output", "prefix", "router", "register"}
  /\ at \in 1 .. RegNb /\ allow \in BOOLEAN
  /\ out \in Seq(Solicit \cup {RS})
  /\ ra \in Advert \cup {NoRa} /\ todo \in Nat
  /\ net \subseteq Solicit /\ granted \subseteq Address

(* ... and of all that is no table.                                        *)
LEMMA RestTyped ==
  ASSUME TypeOK, [Next]_vars
  PROVE  RestOK'
<1>0. /\ RestOK /\ RegNb \in Nat \ {0} /\ AddrNb \in Nat /\ DefrtNb \in Nat
      /\ DOMAIN addr = 1 .. AddrNb /\ DOMAIN defrt = 1 .. DefrtNb
      /\ DOMAIN reg = 1 .. RegNb /\ reg \in [1 .. RegNb -> Reg]
  BY SizesAssumption DEF TypeOK, RestOK, Reg
<1>1. Append(out, RS) \in Seq(Solicit \cup {RS})
  BY <1>0 DEF RestOK
<1>2. ASSUME NEW unreg \in BOOLEAN
      PROVE  Ask(unreg) \in Seq(Solicit \cup {RS})
  <2>1. reg[at].addr \in 0 .. AddrNb /\ reg[at].defrt \in 0 .. DefrtNb
    BY <1>0 DEF Reg, RestOK
  <2>2. IpOf(addr, reg[at].addr) \in Address
    BY <2>1, <1>0 DEF IpOf, TypeOK, Address
  <2>3. IpOf(defrt, reg[at].defrt) \in Router \cup {Nowhere}
    BY <2>1, <1>0, SMTT(20) DEF IpOf, TypeOK
  <2>4. [kind |-> "ns", src |-> IpOf(addr, reg[at].addr),
         dst |-> IpOf(defrt, reg[at].defrt), unreg |-> unreg] \in Solicit \cup {RS}
    BY <2>2, <2>3 DEF Solicit
  <2> QED
    BY <1>0, <2>4 DEF Ask, RestOK
<1>3. \A ip : Lookup(addr, ip) \in 0 .. AddrNb
  BY <1>0, LookupFinds
<1>4. ASSUME NextReg PROVE at' \in 1 .. RegNb /\ pc' \in {"regs", "lifetimes"}
                           /\ UNCHANGED <<ra, todo, last, net, granted>>
  BY <1>0, <1>4 DEF NextReg, RestOK, raVars, envVars
<1>5. CASE Pass
  <2>1. CASE RegExpire \/ RegSkip
    BY <1>0, <1>4, <2>1 DEF RegExpire, RegSkip, RestOK, tableVars
  <2>2. CASE RegRetry
    <3>1. Ask(FALSE) \in Seq(Solicit \cup {RS})
      BY <1>2
    <3>2. NextReg /\ out' = Ask(FALSE) /\ allow' = FALSE /\ progress' = progress
      BY <2>2 DEF RegRetry
    <3> QED
      BY <1>0, <1>4, <3>1, <3>2 DEF RestOK
  <2>3. CASE RegGiveUp
    <3>1. NextReg /\ SendRs /\ allow' = FALSE /\ progress' = 0
      BY <2>3 DEF RegGiveUp
    <3>2. at' \in 1 .. RegNb /\ pc' \in {"regs", "lifetimes"}
          /\ UNCHANGED <<ra, todo, last, net, granted>>
      BY <1>4, <3>1
    <3>3. out' \in Seq(Solicit \cup {RS})
      BY <1>0, <1>1, <3>1 DEF SendRs, RestOK
    <3>4. progress' \in 0 .. RegNb
      BY <1>0, <3>1
    <3> QED
      BY <1>0, <3>1, <3>2, <3>3, <3>4 DEF RestOK
  <2>4. CASE RegIssue
    <3>1. Ask(reg[at].state = "unregister") \in Seq(Solicit \cup {RS})
      BY <1>2
    <3>2. NextReg /\ out' = Ask(reg[at].state = "unregister") /\ allow' = FALSE /\ progress' = at
      BY <2>4 DEF RegIssue
    <3>3. at' \in 1 .. RegNb /\ pc' \in {"regs", "lifetimes"}
          /\ UNCHANGED <<ra, todo, last, net, granted>>
      BY <1>4, <3>2
    <3>4. progress' \in 0 .. RegNb
      BY <1>0, <3>2 DEF RestOK
    <3>5. out' \in Seq(Solicit \cup {RS})
      BY <3>1, <3>2
    <3> QED
      BY <1>0, <3>2, <3>3, <3>4, <3>5 DEF RestOK
  <2>5. CASE ExpireAddrs \/ ExpireRouters
    BY <1>0, <1>1, <2>5 DEF ExpireAddrs, ExpireRouters, SendRs, RestOK, raVars, envVars
  <2>6. CASE Output
    <3>1. out # <<>> /\ out[1].kind = "ns" => out[1] \in Solicit
      <4>1. out # <<>> => out[1] \in Solicit \cup {RS}
        BY <1>0 DEF RestOK
      <4> QED
        BY <4>1 DEF RS
    <3>2. net' \subseteq Solicit
      BY <1>0, <2>6, <3>1 DEF Output, RestOK
    <3> QED
      BY <1>0, <2>6, <3>2 DEF Output, RestOK, raVars, tableVars
  <2> QED
    BY <1>5, <2>1, <2>2, <2>3, <2>4, <2>5, <2>6 DEF Pass
<1>6. CASE Ra
  <2>1. CASE RaPrefix
    <3>1. Spare(addr) # {} => Final(Spare(addr)) \in 0 .. AddrNb
      <4>1. Spare(addr) \subseteq 1 .. AddrNb
        BY <1>0 DEF Spare
      <4> QED
        BY <1>0, <4>1, FirstAndFinal
    <3>2. last' \in 0 .. AddrNb /\ todo' \in Nat
      BY <1>0, <1>3, <2>1, <3>1 DEF RaPrefix, RestOK
    <3> QED
      BY <1>0, <2>1, <3>2 DEF RaPrefix, RestOK, passVars, envVars
  <2>2. CASE RaRouter
    <3>1. Used(defrt') \subseteq 1 .. DefrtNb
      BY DefrtTyped DEF Used
    <3>2. Cardinality(Used(defrt')) \in Nat
      <4>1. IsFiniteSet(1 .. DefrtNb)
        BY <1>0, FS_Interval
      <4>2. IsFiniteSet(Used(defrt'))
        BY <3>1, <4>1, FS_Subset
      <4> QED
        BY <4>2, FS_CardinalityType
    <3>3. todo' \in Nat
      BY <1>0, <2>2, <3>2, SizesAssumption DEF RaRouter, Least, RestOK
    <3> QED
      BY <1>0, <2>2, <3>3 DEF RaRouter, RestOK, passVars, envVars
  <2>3. CASE RaRegister
    BY <1>0, <2>3 DEF RaRegister, RestOK, passVars, envVars
  <2>4. CASE RaDone
    BY <1>0, <2>4 DEF RaDone, RestOK, passVars, envVars, tableVars
  <2> QED
    BY <1>6, <2>1, <2>2, <2>3, <2>4 DEF Ra
<1>7. CASE \E s \in net : NaInput(s)
  <2>1. PICK s \in net : NaInput(s)
    BY <1>7
  <2>2. s.src \in Address
    BY <1>0, <2>1 DEF RestOK, Solicit
  <2>3. Answer(s)
    BY <2>1 DEF NaInput, NaUnregistered, NaAnswer, NaSuccess, NaIgnored, NaDuplicate, NaFull
  <2>4. UNCHANGED <<pc, at, allow, out, ra, todo, net>>
    BY <2>3 DEF Answer, passVars, raVars
  <2>5. progress' \in {0, progress} /\ last' \in {0, Lookup(addr, s.src)}
        /\ granted' \in {granted, granted \cup {s.src}}
    BY <2>1 DEF NaInput, NaUnregistered, NaAnswer, NaSuccess, NaIgnored, NaDuplicate, NaFull
  <2> QED
    BY <1>0, <1>3, <2>2, <2>4, <2>5 DEF RestOK
<1>8. CASE \E m \in Advert : RaInput(m)
  <2>1. PICK m \in Advert : Received(m)
    BY <1>8 DEF RaInput, RaKnown, RaNewNeighbor, RaEvict
  <2> QED
    BY <1>0, <2>1 DEF Received, RestOK, passVars
<1>9. CASE \E a \in Used(addr) \cup {0} : NsInput(a)
  <2>1. PICK a \in Used(addr) \cup {0} : NsInput(a)
    BY <1>9
  <2>2. a \in 0 .. AddrNb
    BY <1>0 DEF Used
  <2> QED
    BY <1>0, <2>1, <2>2 DEF NsInput, RestOK, tableVars, passVars, raVars
<1>10. CASE \E r \in Router : NaNotRouter(r)
  BY <1>0, <1>10 DEF NaNotRouter, RestOK, passVars, raVars
<1>11. CASE Periodic
  BY <1>0, <1>11 DEF Periodic, RestOK, tableVars, raVars, envVars
<1>12. CASE Lose
  BY <1>0, <1>12 DEF Lose, RestOK, tableVars, passVars, raVars
<1>13. CASE UNCHANGED vars
  BY <1>0, <1>13 DEF RestOK, tableVars, passVars, raVars, envVars, vars
<1> QED
  BY <1>5, <1>6, <1>7, <1>8, <1>9, <1>10, <1>11, <1>12, <1>13 DEF Next

(* TypeOK is kept.                                                         *)
LEMMA TypesKept ==
  ASSUME TypeOK, IsFiniteSet(nbr), [Next]_vars
  PROVE  TypeOK' /\ IsFiniteSet(nbr')
<1>1. /\ defrt' \in [1 .. DefrtNb -> Defrt] /\ addr' \in [1 .. AddrNb -> Addr]
      /\ reg' \in [1 .. RegNb -> Reg]
  BY DefrtTyped, AddrTyped, RegTyped
<1>2. nbr' \subseteq Router /\ IsFiniteSet(nbr') /\ Cardinality(nbr') <= NbrNb /\ RestOK'
  BY NbrTyped, RestTyped
<1> QED
  BY <1>1, <1>2 DEF TypeOK, Defrt, Addr, Reg, RestOK
-----------------------------------------------------------------------------
(* The properties.                                                         *)

(* Where the buffer is written it was free: the pass may still send only   *)
(* when it has not, and every message finds the buffer free.               *)
LEMMA BufferKept ==
  ASSUME TypeOK, BufferFree, OnePacket, [Next]_vars
  PROVE  BufferFree' /\ OnePacket'
<1> DEFINE Asleep == pc \notin {"regs", "lifetimes", "routers", "output"}
<1>0. /\ out \in Seq(Solicit \cup {RS}) /\ Len(<<>>) = 0
      BY DEF TypeOK
<1>1. ASSUME UNCHANGED out, ~allow', NextReg PROVE BufferFree' /\ OnePacket'
  BY <1>1 DEF BufferFree, OnePacket, NextReg
<1>2. ASSUME pc \in {"regs", "lifetimes", "routers"}, allow, ~allow',
             SendRs \/ \E unreg : out' = Ask(unreg),
             pc' \in {"regs", "lifetimes", "routers", "output"}
      PROVE  BufferFree' /\ OnePacket'
  <2>1. out = <<>>
    BY <1>2 DEF BufferFree
  <2>2. out' = out \/ \E e : out' = Append(out, e)
    BY <1>2 DEF SendRs, Ask
  <2>3. Len(out') <= 1
    <3>1. CASE out' = out
      BY <1>0, <2>1, <3>1
    <3>2. ASSUME NEW e, out' = Append(out, e) PROVE Len(out') = 1
      BY <2>1, <3>2
    <3> QED
      BY <2>2, <3>1, <3>2
  <2> QED
    BY <1>2, <2>3 DEF BufferFree, OnePacket
<1>3. ASSUME pc \in {"regs", "lifetimes", "routers"}, UNCHANGED <<out, allow>>,
             pc' \in {"regs", "lifetimes", "routers", "output"}
      PROVE  BufferFree' /\ OnePacket'
  BY <1>3 DEF BufferFree, OnePacket
<1>4. CASE Pass
  <2>1. CASE RegExpire \/ RegSkip
    BY <1>3, <2>1 DEF RegExpire, RegSkip, Visiting, NextReg
  <2>2. CASE RegRetry
    BY <1>2, <2>2 DEF RegRetry, Visiting, NextReg
  <2>3. CASE RegGiveUp
    BY <1>2, <2>3 DEF RegGiveUp, Visiting, NextReg
  <2>4. CASE RegIssue
    BY <1>2, <2>4 DEF RegIssue, Visiting, NextReg
  <2>5. CASE ExpireAddrs \/ ExpireRouters
    <3>1. CASE allow /\ SendRs /\ ~allow'
      BY <1>2, <2>5, <3>1 DEF ExpireAddrs, ExpireRouters
    <3>2. CASE UNCHANGED <<out, allow>>
      BY <1>3, <2>5, <3>2 DEF ExpireAddrs, ExpireRouters
    <3> QED
      BY <2>5, <3>1, <3>2 DEF ExpireAddrs, ExpireRouters
  <2>6. CASE Output
    BY <1>0, <2>6 DEF Output, BufferFree, OnePacket
  <2> QED
    BY <1>4, <2>1, <2>2, <2>3, <2>4, <2>5, <2>6 DEF Pass
<1>5. ASSUME Asleep, UNCHANGED out, pc' \notin {"lifetimes", "routers", "output"}
      PROVE  BufferFree' /\ OnePacket'
  BY <1>5 DEF BufferFree, OnePacket
<1>6. CASE Ra
  BY <1>5, <1>6 DEF Ra, RaPrefix, RaRouter, RaRegister, RaDone, passVars
<1>7. CASE \E s \in net : NaInput(s)
  <2>1. PICK s \in net : Answer(s)
    BY <1>7 DEF NaInput, NaUnregistered, NaAnswer, NaSuccess, NaIgnored, NaDuplicate, NaFull
  <2> QED
    BY <1>5, <2>1 DEF Answer, passVars
<1>8. CASE \E m \in Advert : RaInput(m)
  <2>1. PICK m \in Advert : Received(m)
    BY <1>8 DEF RaInput, RaKnown, RaNewNeighbor, RaEvict
  <2> QED
    BY <1>5, <2>1 DEF Received, Arrives, passVars
<1>9. CASE Periodic \/ Lose \/ (\E a \in Used(addr) \cup {0} : NsInput(a))
           \/ \E r \in Router : NaNotRouter(r)
  BY <1>5, <1>9 DEF Periodic, Lose, NsInput, NaNotRouter, Arrives, passVars
<1>10. CASE UNCHANGED vars
  BY <1>10 DEF BufferFree, OnePacket, vars, passVars
<1> QED
  BY <1>4, <1>6, <1>7, <1>8, <1>9, <1>10 DEF Next

(* Unique is kept: an entry is only added when the search for its address, *)
(* over the whole table, has found none.                                   *)
LEMMA UniqueKept ==
  ASSUME TypeOK, Unique, [Next]_vars
  PROVE  Unique'
<1>0. /\ defrt \in [1 .. DefrtNb -> Defrt] /\ addr \in [1 .. AddrNb -> Addr]
      /\ DOMAIN addr = 1 .. AddrNb /\ AddrNb \in Nat
      /\ NoneTwice(defrt) /\ NoneTwice(addr)
  BY SizesAssumption DEF TypeOK, Defrt, Addr, Unique, NoneTwice
<1>1. NoneTwice(defrt')
  <2>1. CASE \E S : defrt' = Release(defrt, S)
    <3>1. Used(defrt) \subseteq 1 .. DefrtNb
      BY <1>0 DEF Used
    <3>2. PICK S : defrt' = Release(defrt, S)
      BY <2>1
    <3>3. Used(defrt') = Used(defrt) \ S /\ \A k \in 1 .. DefrtNb : defrt'[k].ip = defrt[k].ip
      <4>1. defrt \in [1 .. DefrtNb -> Defrt]
        BY <1>0
      <4>2. /\ Used(Release(defrt, S)) = Used(defrt) \ S
            /\ \A k \in 1 .. DefrtNb : Release(defrt, S)[k].ip = defrt[k].ip
        BY <4>1, ReleaseDefrt, Zenon
      <4> QED
        BY <3>2, <4>2
    <3> QED
      BY <1>0, <3>1, <3>3 DEF NoneTwice
  <2> QED
    BY <1>0, <2>1, DefrtStep, AdvertisedKeeps
<1>2. NoneTwice(addr')
  <2>1. CASE \E S : addr' = Release(addr, S)
    BY <1>0, <2>1, ReleaseAddr DEF NoneTwice, Used
  <2>2. CASE /\ ra.prefix \in Prefix /\ Lookup(addr, ra.prefix) = 0 /\ Spare(addr) # {}
             /\ addr' = addr_add(ra.prefix)
    <3> DEFINE k == Final(Spare(addr))
    <3>1. /\ k \in 1 .. AddrNb
          /\ addr' = [addr EXCEPT ![k] = [used |-> TRUE, ip |-> ra.prefix, preferred |-> FALSE]]
          /\ \A j \in Used(addr) : addr[j].ip # ra.prefix
      BY <2>2, AddrAddKeeps
    <3> HIDE DEF k
    <3> QED
      BY <1>0, <3>1 DEF NoneTwice, Used
  <2>3. CASE \E s \in net : /\ Found(addr, s.src) # {}
                            /\ addr' = [addr EXCEPT ![Lookup(addr, s.src)].preferred = TRUE]
    <3>1. PICK s \in net : addr' = [addr EXCEPT ![Lookup(addr, s.src)].preferred = TRUE]
      BY <2>3
    <3>2. \A k \in 1 .. AddrNb : addr'[k].ip = addr[k].ip /\ addr'[k].used = addr[k].used
      BY <1>0, <3>1 DEF Addr
    <3>3. DOMAIN addr' = 1 .. AddrNb
      BY <1>0, <3>1
    <3> QED
      BY <1>0, <3>2, <3>3 DEF NoneTwice, Used
  <2> QED
    BY <1>0, <2>1, <2>2, <2>3, AddrStep
<1> QED
  BY <1>1, <1>2 DEF Unique, NoneTwice

(* granted only grows.                                                     *)
LEMMA GrantedGrows ==
  ASSUME TypeOK, [Next]_vars
  PROVE  granted \subseteq granted'
<1>1. CASE Pass
  BY <1>1 DEF Pass, RegExpire, RegRetry, RegGiveUp, RegIssue, RegSkip, NextReg, ExpireAddrs, ExpireRouters, Output, envVars
<1>2. CASE Ra
  BY <1>2 DEF Ra, RaPrefix, RaRouter, RaRegister, RaDone, envVars
<1>3. CASE \E s \in net : NaInput(s)
  BY <1>3 DEF NaInput, NaUnregistered, NaAnswer, NaSuccess, NaIgnored, NaDuplicate, NaFull
<1>4. CASE \E m \in Advert : RaInput(m)
  BY <1>4 DEF RaInput, RaKnown, RaNewNeighbor, RaEvict, Received
<1>5. CASE \E r \in Router : NaNotRouter(r)
  BY <1>5 DEF NaNotRouter
<1>6. CASE Periodic \/ Lose \/ UNCHANGED vars \/ \E a \in Used(addr) \cup {0} : NsInput(a)
  BY <1>6 DEF Periodic, Lose, NsInput, envVars, vars
<1> QED
  BY <1>1, <1>2, <1>3, <1>4, <1>5, <1>6 DEF Next

(* PreferredGranted is kept: a slot that is reused starts without the      *)
(* state of the address that had it before.                                *)
LEMMA PreferredKept ==
  ASSUME TypeOK, PreferredGranted, [Next]_vars
  PROVE  PreferredGranted'
<1>0. /\ addr \in [1 .. AddrNb -> Addr] /\ DOMAIN addr = 1 .. AddrNb /\ AddrNb \in Nat
      /\ granted \subseteq granted'
  BY GrantedGrows, SizesAssumption DEF TypeOK, Addr
<1>1. CASE addr' = addr
  BY <1>0, <1>1 DEF PreferredGranted
<1>2. CASE \E S : addr' = Release(addr, S)
  BY <1>0, <1>2, ReleaseAddr DEF PreferredGranted, Used
<1>3. CASE /\ ra.prefix \in Prefix /\ Lookup(addr, ra.prefix) = 0 /\ Spare(addr) # {}
           /\ addr' = addr_add(ra.prefix)
  <2> DEFINE k == Final(Spare(addr))
  <2>1. /\ k \in 1 .. AddrNb
        /\ addr' = [addr EXCEPT ![k] = [used |-> TRUE, ip |-> ra.prefix, preferred |-> FALSE]]
    BY <1>3, AddrAddKeeps
  <2> HIDE DEF k
  <2> QED
    BY <1>0, <2>1 DEF PreferredGranted, Used
<1>4. CASE \E s \in net : /\ Found(addr, s.src) # {}
                          /\ addr' = [addr EXCEPT ![Lookup(addr, s.src)].preferred = TRUE]
                          /\ granted' = granted \cup {s.src}
  <2>1. PICK s \in net : /\ Found(addr, s.src) # {}
                         /\ addr' = [addr EXCEPT ![Lookup(addr, s.src)].preferred = TRUE]
                         /\ granted' = granted \cup {s.src}
    BY <1>4
  <2> DEFINE k == Lookup(addr, s.src)
  <2>2. k \in 1 .. AddrNb /\ addr[k].ip = s.src
    BY <1>0, <2>1, LookupFinds DEF Found, Used
  <2> HIDE DEF k
  <2>3. addr' = [addr EXCEPT ![k].preferred = TRUE]
    BY <2>1 DEF k
  <2>4. /\ DOMAIN addr' = 1 .. AddrNb
        /\ \A j \in 1 .. AddrNb : addr'[j].ip = addr[j].ip /\ addr'[j].used = addr[j].used
        /\ \A j \in 1 .. AddrNb : j # k => addr'[j] = addr[j]
    BY <1>0, <2>3 DEF Addr
  <2> SUFFICES ASSUME NEW j \in 1 .. AddrNb, addr'[j].used,
                      addr'[j].preferred, addr'[j].ip # LinkLocal
               PROVE  addr'[j].ip \in granted'
    BY <2>4 DEF PreferredGranted, Used
  <2>5. CASE j = k
    BY <2>1, <2>2, <2>4, <2>5
  <2>6. CASE j # k
    <3>1. j \in Used(addr) /\ addr[j].preferred /\ addr[j].ip # LinkLocal
      BY <1>0, <2>4, <2>6 DEF Used
    <3> QED
      BY <1>0, <2>4, <3>1 DEF PreferredGranted
  <2> QED
    BY <2>5, <2>6
<1> QED
  BY <1>1, <1>2, <1>3, <1>4, AddrStep

(* What the eviction of n may not do.                                      *)
Spares(n) ==
  /\ Found(defrt', n) = {}
  /\ \A k \in Used(reg) : reg[k].state # "gc" =>
       /\ reg'[k] = reg[k]
       /\ reg[k].defrt \in Used(defrt) =>
            reg[k].defrt \in Used(defrt') /\ IpOf(defrt, reg[k].defrt) # n

(* An eviction takes the router of the neighbor that goes, and the         *)
(* registrations with it, none of which was granted or is to be taken      *)
(* back.                                                                   *)
LEMMA EvictionFrees ==
  ASSUME TypeOK, Unique, NEW m \in Advert, NEW n \in nbr, RaEvict(m, n)
  PROVE  Spares(n)
<1> DEFINE d == Lookup(defrt, n)
<1>0. /\ defrt \in [1 .. DefrtNb -> Defrt] /\ DOMAIN defrt = 1 .. DefrtNb /\ DefrtNb \in Nat
      /\ NoneTwice(defrt)
  BY SizesAssumption DEF TypeOK, Defrt, Unique, NoneTwice
<1>1. /\ defrt' = Release(defrt, {d})
      /\ reg' = Forget(reg_cleanup_defrt(reg, d), progress)
      /\ \A k \in With(reg, d) : reg[k].state = "gc"
  BY DEF RaEvict, is_nbr_garbage_collectible
<1>2. Found(defrt, n) \subseteq {d}
  <2>1. d = 0 => Found(defrt, n) = {}
    BY <1>0, LookupFinds
  <2>2. d # 0 => d \in Found(defrt, n)
    BY <1>0, LookupFinds
  <2> QED
    BY <1>0, <2>1, <2>2 DEF Found, NoneTwice
<1> HIDE DEF d
<1>3. Used(defrt') = Used(defrt) \ {d} /\ \A k \in 1 .. DefrtNb : defrt'[k].ip = defrt[k].ip
  BY <1>0, <1>1, ReleaseDefrt
<1>4. Found(defrt', n) = {}
  <2>1. Used(defrt) \subseteq 1 .. DefrtNb
    BY <1>0 DEF Used
  <2> QED
    BY <1>2, <1>3, <2>1 DEF Found
<1>5. ASSUME NEW k \in Used(reg), reg[k].state # "gc" PROVE reg'[k] = reg[k]
  <2>1. k \in 1 .. RegNb /\ reg \in [1 .. RegNb -> Reg] /\ reg[k].used
    BY <1>5 DEF TypeOK, Used, Reg
  <2>2. k \notin With(reg, d)
    BY <1>1, <1>5
  <2>3. Release(reg, With(reg, d))[k] = reg[k]
    BY <2>1, <2>2 DEF Release, Reg
  <2>4. k \in DOMAIN Release(reg, With(reg, d))
    BY <2>1 DEF Release
  <2>5. Forget(Release(reg, With(reg, d)), progress)[k] = Release(reg, With(reg, d))[k]
    <3> DEFINE t == Release(reg, With(reg, d))
    <3>1. k \in DOMAIN t /\ t[k].used
      BY <2>1, <2>3, <2>4
    <3> HIDE DEF t
    <3>2. Forget(t, progress)[k] = t[k]
      BY <3>1 DEF Forget
    <3> QED
      BY <3>2 DEF t
  <2> QED
    BY <1>1, <2>3, <2>5 DEF reg_cleanup_defrt
<1>6. ASSUME NEW k \in Used(reg), reg[k].state # "gc", reg[k].defrt \in Used(defrt)
      PROVE  reg[k].defrt \in Used(defrt') /\ IpOf(defrt, reg[k].defrt) # n
  <2>1. reg[k].defrt # d
    BY <1>1, <1>6 DEF With
  <2>2. reg[k].defrt # 0
    BY <1>0, <1>6 DEF Used
  <2>3. IpOf(defrt, reg[k].defrt) = n => reg[k].defrt \in Found(defrt, n)
    BY <1>6, <2>2 DEF Found, IpOf
  <2> QED
    BY <1>2, <1>3, <1>6, <2>1, <2>3
<1> QED
  BY <1>4, <1>5, <1>6 DEF Spares
-----------------------------------------------------------------------------
(* The host starts with its link-local address and nothing else.           *)
LEMMA InitEstablishes == Init => IInv
<1> SUFFICES ASSUME Init PROVE IInv
  OBVIOUS
<1>1. TypeOK
  BY SizesAssumption, FS_EmptySet DEF Init, TypeOK, Address, Blank
<1>2. IsFiniteSet(nbr)
  BY FS_EmptySet DEF Init
<1>3. Unique
  BY SizesAssumption DEF Init, Unique, Used
<1>4. OnePacket /\ BufferFree
  BY DEF Init, OnePacket, BufferFree
<1>5. PreferredGranted
  BY DEF Init, PreferredGranted, Used
<1> QED
  BY <1>1, <1>2, <1>3, <1>4, <1>5 DEF IInv

(* The inductive invariant holds in every state.                           *)
THEOREM Invariance == Spec => []IInv
<1>1. Init => IInv
  BY InitEstablishes
<1>2. IInv /\ [Next]_vars => IInv'
  BY TypesKept, UniqueKept, BufferKept, PreferredKept DEF IInv
<1> QED
  BY <1>1, <1>2, PTL DEF Spec

(* The tables keep their sizes and the pointers between them point into    *)
(* them, whatever is advertised, expires or is answered: uip-ds6.c, uip-   *)
(* nd6.c.                                                                  *)
THEOREM TypeCorrect == Spec => []TypeOK
<1>1. IInv => TypeOK
  BY DEF IInv
<1> QED
  BY <1>1, Invariance, PTL

(* No router and no address is listed twice, with any number of slots:     *)
(* uip_ds6_list_loop() and its callers.                                    *)
THEOREM NoneListedTwice == Spec => []Unique
<1>1. IInv => Unique
  BY DEF IInv
<1> QED
  BY <1>1, Invariance, PTL

(* A pass of uip_ds6_periodic() writes one packet at most, so that none    *)
(* overwrites another before it is sent.                                   *)
THEOREM OnePacketAPass == Spec => []OnePacket
<1>1. IInv => OnePacket
  BY DEF IInv
<1> QED
  BY <1>1, Invariance, PTL

(* An autoconfigured address is used as source only after some router has  *)
(* granted that address: uip_nd6_na_input().                               *)
THEOREM PreferredIsGranted == Spec => []PreferredGranted
<1>1. IInv => PreferredGranted
  BY DEF IInv
<1> QED
  BY <1>1, Invariance, PTL

(* An eviction in uip_ds6_nbr_add() neither loses nor changes a            *)
(* registration that was granted, wherever its router is by then, and one  *)
(* whose router is listed keeps that router and its neighbor entry.        *)
THEOREM EvictionSparesGranted == Spec => EvictionSpares
<1> DEFINE A == \A n \in nbr \ nbr' : ~(nbr' \subseteq nbr) => Spares(n)
<1>1. IInv /\ [Next]_vars => [A]_vars
  <2> SUFFICES ASSUME IInv, [Next]_vars PROVE A
    OBVIOUS
  <2> SUFFICES ASSUME NEW n \in nbr \ nbr', ~(nbr' \subseteq nbr)
               PROVE  Spares(n)
    OBVIOUS
  <2>1. PICK m \in Advert, l \in nbr : m.from \notin nbr /\ RaEvict(m, l)
    BY NbrStep DEF IInv
  <2>2. n = l
    BY <2>1 DEF RaEvict
  <2> QED
    BY <2>1, <2>2, EvictionFrees DEF IInv
<1> HIDE DEF A
<1>2. Spec => [][A]_vars
  BY <1>1, Invariance, PTL DEF Spec
<1> QED
  BY <1>2 DEF EvictionSpares, A, Spares
=============================================================================
