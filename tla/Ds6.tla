------------------------------- MODULE Ds6 -------------------------------
(***************************************************************************)
(* Neighbor discovery of a 6LoWPAN host (uip-ds6.c, uip-nd6.c): the        *)
(* default routers, their neighbor cache entries, the addresses            *)
(* autoconfigured from router advertisements, and the registration of each *)
(* address with each router by a Neighbor Solicitation that carries an     *)
(* Address Registration Option (ARO).                                      *)
(*                                                                         *)
(* Entries point at one another by slot, as in the code, and a slot that   *)
(* is not in use keeps what it held: 0 is the null pointer.  How long a    *)
(* lifetime is does not matter here; when one has run out is a choice of   *)
(* the pass that looks at it.  The prefix and context tables are not       *)
(* kept: all they do here is to have, perhaps, the least lifetime.         *)
(***************************************************************************)
EXTENDS Naturals, Sequences, FiniteSets

CONSTANTS
  Router,       \* link-local addresses of routers
  Prefix,       \* prefixes the routers advertise; one address each
  LinkLocal,    \* the address of this host that is never registered on purpose
  Nowhere,      \* what is read through a null pointer
  DefrtNb, AddrNb, RegNb, NbrNb,   \* table sizes
  RegsPerAddr,  \* UIP_DS6_REGS_PER_ADDR
  MaxUnicast,   \* UIP_ND6_MAX_UNICAST_SOLICIT
  MaxNet,       \* bound: solicitations the network holds at once
  MaxMsgs       \* bound: messages received, answers aside

ASSUME SizesAssumption ==
  /\ DefrtNb \in Nat \ {0} /\ AddrNb \in Nat \ {0} /\ RegNb \in Nat \ {0}
  /\ NbrNb \in Nat \ {0} /\ RegsPerAddr \in Nat /\ MaxNet \in Nat /\ MaxMsgs \in Nat
  /\ MaxUnicast \in Nat \ {0}
ASSUME NamesAssumption ==
  LinkLocal \notin Prefix /\ Nowhere \notin Prefix \cup Router \cup {LinkLocal}

VARIABLES
  defrt,     \* uip_ds6_defrt_list
  nbr,       \* addresses in uip_ds6_nbr_cache
  addr,      \* uip_ds6_if.addr_list
  reg,       \* uip_ds6_reg_list
  progress,  \* uip_ds6_if.registration_in_progress
  last,      \* the pointer addr of uip-nd6.c, which outlives the message
  pc, at,    \* where the handler in execution stands, and its loop index
  allow,     \* allow_output
  out,       \* packets this pass wrote into uip_buf
  ra,        \* the router advertisement in execution
  todo,      \* registrations it has still to create
  net,       \* solicitations with ARO a router may still answer
  granted,   \* addresses some router has granted so far
  msgs       \* messages received so far

tableVars == <<defrt, nbr, addr, reg, progress>>
passVars  == <<at, allow, out>>
envVars   == <<net, granted, msgs>>
raVars   == <<ra, todo>>
vars == <<tableVars, last, pc, passVars, raVars, envVars>>

Address == Prefix \cup {LinkLocal, Nowhere}
Solicit == [kind : {"ns"}, src : Address, dst : Router \cup {Nowhere},
            unreg : BOOLEAN]
RS == [kind |-> "rs"]
\* An advertisement: from, with a router lifetime, a prefix to configure.
Advert == [from : Router, life : BOOLEAN, prefix : Prefix \cup {Nowhere}]
NoRa == [from |-> Nowhere, life |-> FALSE, prefix |-> Nowhere]

Blank == [used |-> FALSE, state |-> "gc", addr |-> 0, defrt |-> 0, count |-> 0]

\* Every table is zeroed; uip_ds6_init then configures the link-local address.
Init ==
  /\ defrt = [d \in 1 .. DefrtNb |->
                [used |-> FALSE, ip |-> Nowhere]]
  /\ nbr = {}
  /\ addr = [a \in 1 .. AddrNb |-> IF a = AddrNb
                THEN [used |-> TRUE, ip |-> LinkLocal, preferred |-> TRUE]
                ELSE [used |-> FALSE, ip |-> Nowhere, preferred |-> FALSE]]
  /\ reg = [k \in 1 .. RegNb |-> Blank]
  /\ progress = 0 /\ last = 0
  /\ pc = "idle" /\ at = 1 /\ allow = TRUE /\ out = <<>>
  /\ ra = NoRa /\ todo = 0
  /\ net = {} /\ granted = {} /\ msgs = 0

-----------------------------------------------------------------------------
(* The tables: uip_ds6_list_loop and what is built on it.                  *)

Used(table) == {k \in DOMAIN table : table[k].used}
First(S) == CHOOSE k \in S : \A j \in S : k <= j
Final(S) == CHOOSE k \in S : \A j \in S : j <= k

BadFound(table, ip) ==      \* stops at the first slot that is free
  {k \in Used(table) : table[k].ip = ip /\ \A j \in 1 .. k : j \in Used(table)}
Found(table, ip) == {k \in Used(table) : table[k].ip = ip}
Lookup(table, ip) == IF Found(table, ip) = {} THEN 0 ELSE First(Found(table, ip))
Spare(table) == DOMAIN table \ Used(table)   \* FREESPACE takes the last one

IpOf(table, k) == IF k = 0 THEN Nowhere ELSE table[k].ip
Release(table, S) == [k \in DOMAIN table |->
                        [table[k] EXCEPT !.used = @ /\ k \notin S]]

defrt_add(table, ip) ==
  [table EXCEPT ![Final(Spare(table))] =
     [used |-> TRUE, ip |-> ip]]

BadAddrAdd(ip) ==           \* leaves the state of whoever had the slot before
  [addr EXCEPT ![Final(Spare(addr))].used = TRUE, ![Final(Spare(addr))].ip = ip]
addr_add(ip) ==
  [addr EXCEPT ![Final(Spare(addr))] =
     [used |-> TRUE, ip |-> ip, preferred |-> FALSE]]

(* Registrations. *)
With(table, d) == {k \in Used(table) : table[k].defrt = d}
For(table, a) == {k \in Used(table) : table[k].addr = a}

\* The first slot that is free, or else the last one that may be collected.
reg_add(table, a, d) ==
  LET free == Spare(table)
      gc == {k \in Used(table) : table[k].state = "gc"}
      Put(k) == [table EXCEPT ![k] =
                   [used |-> TRUE, state |-> "gc", addr |-> a, defrt |-> d, count |-> 0]]
  IN  IF free # {} THEN Put(First(free)) ELSE IF gc # {} THEN Put(Final(gc)) ELSE table

\* reg_rm: nobody reads an entry that is not in use but through p, which may
\* still point there; what the others held is forgotten.
Forget(table, p) ==
  [k \in DOMAIN table |-> IF table[k].used \/ k = p THEN table[k] ELSE Blank]

reg_cleanup_defrt(table, d) == Release(table, With(table, d))

reg_cleanup_addr(table, a) ==
  [k \in DOMAIN table |->
     IF k \notin For(table, a) THEN table[k]
     ELSE IF table[k].state = "registered" THEN [table[k] EXCEPT !.state = "unregister"]
     ELSE [table[k] EXCEPT !.used = FALSE]]

BadCollectible(n) == TRUE
is_nbr_garbage_collectible(n) ==
  \A k \in With(reg, Lookup(defrt, n)) : reg[k].state = "gc"

-----------------------------------------------------------------------------
(* uip_ds6_periodic: one pass over every table.                            *)

Periodic ==
  /\ pc = "idle"
  /\ pc' = "regs" /\ at' = 1 /\ allow' = TRUE
  /\ UNCHANGED <<tableVars, last, out, raVars, envVars>>

\* Going on to the next registration, or to the other tables after the last one.
NextReg ==
  /\ at' = IF at = RegNb THEN 1 ELSE at + 1
  /\ pc' = IF at = RegNb THEN "lifetimes" ELSE "regs"
  /\ UNCHANGED <<raVars, last, envVars>>

Visiting == pc = "regs" /\ reg[at].used
Ask(unreg) == Append(out, [kind |-> "ns", src |-> IpOf(addr, reg[at].addr),
                           dst |-> IpOf(defrt, reg[at].defrt), unreg |-> unreg])

\* uip_ds6_send_rs writes a solicitation unless one was sent a moment ago.
SendRs == out' \in {out, Append(out, RS)}
More(n) == IF n < MaxUnicast THEN n + 1 ELSE n  \* compared with MaxUnicast only

RegExpire ==
  /\ Visiting
  /\ reg' = Forget(Release(reg, {at}), progress)
  /\ NextReg
  /\ UNCHANGED <<defrt, nbr, addr, progress, allow, out>>

RegRetry ==
  /\ Visiting /\ allow /\ progress = at
  /\ reg[at].count < MaxUnicast
  /\ reg' = [reg EXCEPT ![at].count = More(@)]
  /\ out' = Ask(FALSE)
  /\ allow' = FALSE
  /\ NextReg
  /\ UNCHANGED <<defrt, nbr, addr, progress>>

\* The router is gone: it goes, and its neighbor entry and registrations.
RegGiveUp ==
  /\ Visiting /\ allow /\ progress = at
  /\ reg[at].count >= MaxUnicast
  /\ nbr' = nbr \ {IpOf(defrt, reg[at].defrt)}
  /\ defrt' = Release(defrt, {reg[at].defrt})
  /\ reg' = Forget(reg_cleanup_defrt(Release(reg, {at}), reg[at].defrt), 0)
  /\ SendRs
  /\ progress' = 0
  /\ allow' = FALSE
  /\ NextReg
  /\ UNCHANGED addr

\* New ones, ones to take back, and granted ones in the second half of their
\* lifetime.
RegIssue ==
  /\ Visiting /\ allow /\ progress = 0
  /\ progress' = at
  /\ reg' = [reg EXCEPT ![at].count = More(@)]
  /\ out' = Ask(reg[at].state = "unregister")
  /\ allow' = FALSE
  /\ NextReg
  /\ UNCHANGED <<defrt, nbr, addr>>

RegSkip ==
  /\ pc = "regs"
  /\ \/ ~reg[at].used
     \/ ~allow
     \/ progress # 0
     \/ reg[at].state = "registered"
  /\ NextReg
  /\ UNCHANGED <<tableVars, allow, out>>

BadExpireAddrs ==           \* leaves allow_output as it was
  /\ pc = "lifetimes" /\ pc' = "routers"
  /\ \E S \in SUBSET {a \in Used(addr) : addr[a].ip # LinkLocal} :
       addr' = Release(addr, S)
  /\ IF allow /\ Used(defrt) = {} THEN SendRs ELSE UNCHANGED out
  /\ UNCHANGED <<defrt, nbr, reg, progress, last, at, allow, raVars, envVars>>
\* Addresses whose lifetime is over; their registrations stay.  A host without
\* a default router then solicits one, if the pass may still send.
ExpireAddrs ==
  /\ pc = "lifetimes" /\ pc' = "routers"
  /\ \E S \in SUBSET {a \in Used(addr) : addr[a].ip # LinkLocal} :
       addr' = Release(addr, S)
  /\ IF allow /\ Used(defrt) = {} THEN SendRs /\ allow' = FALSE ELSE UNCHANGED <<out, allow>>
  /\ UNCHANGED <<defrt, nbr, reg, progress, last, at, raVars, envVars>>

\* Routers whose lifetime is over; their registrations stay too.  The host
\* solicits well before the least of all lifetimes ends, if it still may.
ExpireRouters ==
  /\ pc = "routers" /\ pc' = "output"
  /\ \E S \in SUBSET Used(defrt) : defrt' = Release(defrt, S)
  /\ \/ allow /\ SendRs /\ allow' = FALSE
     \/ UNCHANGED <<out, allow>>
  /\ UNCHANGED <<nbr, addr, reg, progress, last, at, raVars, envVars>>

\* tcpip_ipv6_output after the pass.  A solicitation may get lost.
Output ==
  /\ pc = "output" /\ pc' = "idle"
  /\ out' = <<>>
  /\ \/ UNCHANGED net
     \/ /\ out # <<>> /\ out[1].kind = "ns" /\ Cardinality(net) < MaxNet
        /\ out[1].src # Nowhere /\ out[1].dst # Nowhere
        /\ net' = net \cup {out[1]}
  /\ UNCHANGED <<tableVars, last, at, allow, raVars, granted, msgs>>

Pass ==
  \/ RegExpire \/ RegRetry \/ RegGiveUp \/ RegIssue \/ RegSkip
  \/ ExpireAddrs \/ ExpireRouters \/ Output

-----------------------------------------------------------------------------
(* Messages.  tcpip_process handles one at a time, between two passes.     *)

Arrives == pc = "idle" /\ msgs < MaxMsgs /\ msgs' = msgs + 1

\* uip_nd6_ns_input leaves the address it looked for behind.
NsInput(a) ==
  /\ Arrives
  /\ last' = a
  /\ UNCHANGED <<tableVars, pc, passVars, raVars, net, granted>>

\* An advertisement whose R flag is clear: the sender is no router any more.
\* What send_rs writes is discarded with the message.
NaNotRouter(r) ==
  LET d == Lookup(defrt, r)
  IN  /\ Arrives
      /\ nbr' = nbr \ {r}
      /\ IF d = 0 THEN UNCHANGED <<defrt, reg>>
         ELSE defrt' = Release(defrt, {d}) /\ reg' = Forget(reg_cleanup_defrt(reg, d), progress)
      /\ UNCHANGED <<addr, progress, last, pc, passVars, raVars, net, granted>>

\* An answer to solicitation s reaches its ARO: there is a registration in
\* progress, not necessarily the one the answer is for.
Answer(s) ==
  /\ pc = "idle"
  /\ Found(addr, s.src) # {} /\ s.dst \in nbr /\ progress # 0
  /\ UNCHANGED <<defrt, nbr, pc, passVars, raVars, net, msgs>>

NaUnregistered(s) ==
  /\ Answer(s)
  /\ s.unreg /\ reg[progress].state = "unregister"
  /\ reg' = Forget(Release(reg, {progress}), progress)
  /\ last' = 0
  /\ UNCHANGED <<addr, progress, granted>>

NaAnswer(s) ==
  /\ Answer(s)
  /\ ~(s.unreg /\ reg[progress].state = "unregister")
  /\ last' = Lookup(addr, s.src)

NaSuccess(s) ==
  /\ NaAnswer(s)
  /\ reg[progress].addr = Lookup(addr, s.src)
  /\ addr' = [addr EXCEPT ![Lookup(addr, s.src)].preferred = TRUE]
  /\ reg' = Forget([reg EXCEPT ![progress].state = "registered", ![progress].count = 0], 0)
  /\ progress' = 0
  /\ granted' = granted \cup {s.src}

\* A success for another address than the one in progress.
NaIgnored(s) ==
  /\ NaAnswer(s)
  /\ reg[progress].addr # Lookup(addr, s.src)
  /\ UNCHANGED <<addr, reg, progress, granted>>

NaDuplicate(s) ==
  /\ NaAnswer(s)
  /\ addr' = Release(addr, {Lookup(addr, s.src)})
  /\ reg' = Forget(reg_cleanup_addr(reg, Lookup(addr, s.src)), 0)
  /\ progress' = 0
  /\ UNCHANGED granted

NaFull(s) ==
  /\ NaAnswer(s)
  /\ reg' = Forget(Release(reg, {progress}), 0)
  /\ progress' = 0
  /\ UNCHANGED <<addr, granted>>

NaInput(s) ==
  NaUnregistered(s) \/ NaSuccess(s) \/ NaIgnored(s) \/ NaDuplicate(s) \/ NaFull(s)

\* A solicitation, or its answer, is lost for good.
Lose ==
  /\ pc = "idle"
  /\ \E s \in net : net' = net \ {s}
  /\ UNCHANGED <<tableVars, last, pc, passVars, raVars, granted, msgs>>

(* uip_nd6_ra_input, option by option.                                     *)

Received(m) ==
  /\ Arrives /\ pc' = "prefix"
  /\ ra' = m
  /\ UNCHANGED <<addr, progress, last, passVars, todo, net, granted>>

\* No source link-layer address, or a neighbor already known, or no room.
RaKnown(m, llao) ==
  /\ Received(m)
  /\ ~llao \/ m.from \in nbr \/ Cardinality(nbr) >= NbrNb
  /\ UNCHANGED <<nbr, defrt, reg>>

RaNewNeighbor(m) ==
  /\ Received(m)
  /\ m.from \notin nbr /\ Cardinality(nbr) < NbrNb
  /\ nbr' = nbr \cup {m.from}
  /\ UNCHANGED <<defrt, reg>>

\* uip_ds6_nbr_add makes room: n goes, and its router and registrations.
RaEvict(m, n) ==
  /\ Received(m)
  /\ m.from \notin nbr /\ Cardinality(nbr) >= NbrNb
  /\ is_nbr_garbage_collectible(n)
  /\ nbr' = (nbr \ {n}) \cup {m.from}
  /\ defrt' = Release(defrt, {Lookup(defrt, n)})
  /\ reg' = Forget(reg_cleanup_defrt(reg, Lookup(defrt, n)), progress)

RaInput(m) ==
  \/ \E llao \in BOOLEAN : RaKnown(m, llao)
  \/ RaNewNeighbor(m)
  \/ \E n \in nbr : RaEvict(m, n)

\* new_addr is set even when the address list is full and addr is null; it is
\* kept in todo, which NewAddr turns into the number of registrations.
RaPrefix ==
  /\ pc = "prefix" /\ pc' = "router"
  /\ LET a == Lookup(addr, ra.prefix)
     IN  IF ra.prefix = Nowhere THEN UNCHANGED <<addr, last, todo>>
         ELSE IF a # 0 THEN last' = a /\ UNCHANGED <<addr, todo>>
         ELSE /\ todo' = 1
              /\ IF Spare(addr) = {} THEN last' = 0 /\ UNCHANGED addr
                 ELSE last' = Final(Spare(addr)) /\ addr' = addr_add(ra.prefix)
  /\ UNCHANGED <<defrt, nbr, reg, progress, passVars, ra, envVars>>

\* The new router list.
Advertised ==
  LET d == Lookup(defrt, ra.from)
  IN  IF ~ra.life THEN Release(defrt, {d})
      ELSE IF d # 0 \/ Spare(defrt) = {} THEN defrt ELSE defrt_add(defrt, ra.from)
NewDefrt == Lookup(defrt, ra.from) = 0 /\ Lookup(Advertised, ra.from) # 0

Least(m, n) == IF m < n THEN m ELSE n

RaRouter ==
  /\ pc = "router"
  /\ defrt' = Advertised
  /\ IF todo = 1
     THEN /\ todo' = Least(Cardinality(Used(defrt')), RegsPerAddr)
          /\ pc' = "register"
          /\ UNCHANGED <<reg, ra>>
     ELSE /\ reg' = IF NewDefrt /\ last # 0
                    THEN reg_add(reg, last, Lookup(defrt', ra.from)) ELSE reg
          /\ pc' = "idle" /\ ra' = NoRa
          /\ UNCHANGED todo
  /\ UNCHANGED <<nbr, addr, progress, last, passVars, envVars>>

\* uip_ds6_defrt_choose_min_reg: any router the address is not registered
\* with; how many registrations each has only decides which one comes first.
Unasked == {d \in Used(defrt) : For(reg, last) \cap With(reg, d) = {}}

RaRegister ==
  /\ pc = "register" /\ todo > 0
  /\ \E d \in IF Unasked = {} THEN {0} ELSE Unasked : reg' = reg_add(reg, last, d)
  /\ todo' = todo - 1
  /\ UNCHANGED <<defrt, nbr, addr, progress, last, pc, passVars, ra, envVars>>

RaDone ==
  /\ pc = "register" /\ todo = 0
  /\ pc' = "idle" /\ ra' = NoRa
  /\ UNCHANGED <<tableVars, last, passVars, todo, envVars>>

Ra == RaPrefix \/ RaRouter \/ RaRegister \/ RaDone

-----------------------------------------------------------------------------
Next ==
  \/ Periodic
  \/ Pass \/ Ra \/ Lose
  \/ \E a \in Used(addr) \cup {0} : NsInput(a)
  \/ \E r \in Router : NaNotRouter(r)
  \/ \E s \in net : NaInput(s)
  \/ \E m \in Advert : RaInput(m)

Spec == Init /\ [][Next]_vars

-----------------------------------------------------------------------------
TypeOK ==
  /\ defrt \in [1 .. DefrtNb -> [used : BOOLEAN, ip : Router \cup {Nowhere}]]
  /\ nbr \subseteq Router /\ Cardinality(nbr) <= NbrNb
  /\ addr \in [1 .. AddrNb -> [used : BOOLEAN, ip : Address, preferred : BOOLEAN]]
  /\ reg \in [1 .. RegNb -> [used : BOOLEAN, state : {"gc", "registered", "unregister"},
                             addr : 0 .. AddrNb, defrt : 0 .. DefrtNb,
                             count : 0 .. MaxUnicast]]
  /\ progress \in 0 .. RegNb
  /\ last \in 0 .. AddrNb
  /\ pc \in {"idle", "regs", "lifetimes", "routers", "output",
             "prefix", "router", "register"}
  /\ at \in 1 .. RegNb /\ allow \in BOOLEAN
  /\ out \in Seq(Solicit \cup {RS})
  /\ ra \in Advert \cup {NoRa} /\ todo \in Nat
  /\ net \subseteq Solicit /\ granted \subseteq Address

\* No table lists an address twice: every search goes on past the free slots,
\* so a slot freed in front of an entry never gets a second copy of it.
Unique ==
  /\ \A j, k \in Used(defrt) : defrt[j].ip = defrt[k].ip => j = k
  /\ \A j, k \in Used(addr) : addr[j].ip = addr[k].ip => j = k

\* A pass writes uip_buf once at most, whatever its loops find to send and
\* whichever of them sends first: a second packet would overwrite the first
\* before it is sent.  The timer of the solicitations is not needed for it.
OnePacket == Len(out) <= 1

\* The host uses an autoconfigured address as source only if some router has
\* granted that very address, even when slots are freed and reused.
PreferredGranted ==
  \A a \in Used(addr) :
    addr[a].preferred /\ addr[a].ip # LinkLocal => addr[a].ip \in granted

\* When a neighbor n makes room for another, no registration that was granted,
\* or is to be taken back, is lost or changed with it, and one whose router is
\* listed keeps that router and does not lose its neighbor entry either; n is
\* listed as a router no more.  Of a registration whose router was withdrawn or
\* has expired the code keeps the entry and may evict the neighbor.
EvictionSpares ==
  [][\A n \in nbr \ nbr' : ~(nbr' \subseteq nbr) =>
       /\ Found(defrt', n) = {}
       /\ \A k \in Used(reg) : reg[k].state # "gc" =>
            /\ reg'[k] = reg[k]
            /\ reg[k].defrt \in Used(defrt) =>
                 reg[k].defrt \in Used(defrt') /\ IpOf(defrt, reg[k].defrt) # n]_vars

=============================================================================
