----------------------------- MODULE RfidProofs -----------------------------
(***************************************************************************)
(* Proofs about the tag reader: its types, that its two threads never wait *)
(* for each other, and that neither waits for a chip that is done.         *)
(***************************************************************************)
EXTENDS Rfid, SequenceTheorems, TLAPS

(* The for loop goes round only while slots are left. *)
SlotLeft == tpc = "next" => slot < MaxSlot

IInv == TypeOK /\ NotStranded /\ SlotLeft

-----------------------------------------------------------------------------
(* What process_post() does to the queue, full or not. *)
LEMMA PostType ==
  ASSUME NEW q \in Seq(Event), Len(q) <= NumEvents, NEW e \in Event
  PROVE  /\ Post(q, e) \in Seq(Event)
         /\ Len(Post(q, e)) <= NumEvents
         /\ \A p : Has(q, p) => Has(Post(q, e), p)
  BY RfidAssumption DEF Post, Has

LEMMA PostHas ==
  ASSUME NEW q \in Seq(Event), Len(q) < NumEvents, NEW e \in Event,
         e.ev = "continue"
  PROVE  Has(Post(q, e), e.p)
<1>1. Post(q, e) = Append(q, e) /\ Len(q) \in Nat
  BY RfidAssumption DEF Post
<1>2. Len(Append(q, e)) = Len(q) + 1 /\ Append(q, e)[Len(q) + 1] = e
  OBVIOUS
<1>3. Len(q) + 1 \in 1 .. Len(Append(q, e))
  BY <1>1, <1>2
<1> QED
  BY <1>1, <1>2, <1>3 DEF Has

LEMMA AppendHas ==
  ASSUME NEW q \in Seq(Event), NEW e \in Event
  PROVE  \A p : Has(q, p) => Has(Append(q, e), p)
  BY DEF Has

(* Taking the oldest event. *)
LEMMA TailType ==
  ASSUME NEW q \in Seq(Event), q # <<>>, Len(q) <= NumEvents
  PROVE  /\ Tail(q) \in Seq(Event)
         /\ Len(Tail(q)) < NumEvents
         /\ Head(q) \in Event
  BY RfidAssumption

LEMMA TailHas ==
  ASSUME NEW q \in Seq(Event), q # <<>>, NEW p,
         Has(q, p), ~(Head(q).p = p /\ Head(q).ev = "continue")
  PROVE  Has(Tail(q), p)
<1>1. PICK k \in 1 .. Len(q) : q[k].p = p /\ q[k].ev = "continue"
  BY DEF Has
<1>2. k # 1
  BY <1>1
<1>3. k - 1 \in 1 .. Len(Tail(q)) /\ Tail(q)[k - 1] = q[k]
  BY <1>2
<1> QED
  BY <1>1, <1>3 DEF Has

LEMMA ContinueType ==
  ASSUME NEW p \in {"find", "tagit", "other"},
         NEW by \in {"find", "tagit", "isr", "etimer", "other"}
  PROVE  /\ Continue(p, by) \in Event
         /\ Continue(p, by).ev = "continue"
         /\ Continue(p, by).p = p
  BY DEF Continue, Event

-----------------------------------------------------------------------------
LEMMA InitIInv == Init => IInv
<1> SUFFICES ASSUME Init PROVE TypeOK /\ NotStranded /\ SlotLeft
  BY DEF IInv
<1>1. queue \in Seq(Event) /\ Len(queue) <= NumEvents
  BY RfidAssumption DEF Init
<1>2. TypeOK
  <2>1. slot \in 1 .. MaxSlot /\ others \in 0 .. MaxOther
    BY RfidAssumption DEF Init
  <2>2. /\ timer \in [Timers -> {"unset", "running", "expired"}]
        /\ status \subseteq Flags /\ Register \subseteq Flags
    BY DEF Init, Timers
  <2>3. /\ found \in BOOLEAN /\ RXErrorFlag \in BOOLEAN /\ flag \in BOOLEAN
        /\ ie \in BOOLEAN /\ isr \in BOOLEAN /\ lost \in BOOLEAN
        /\ missed \in BOOLEAN /\ hurried \in BOOLEAN
    BY DEF Init
  <2> QED
    BY <1>1, <2>1, <2>2, <2>3 DEF Init, TypeOK
<1>3. NotStranded
  BY DEF Init, NotStranded
<1> QED
  BY <1>2, <1>3 DEF Init, SlotLeft
(* One lemma per action or group of actions that treat the queue alike. *)

LEMMA ExpireStep ==
  ASSUME IInv, NEW t \in Timers, Expire(t)
  PROVE  IInv'
<1> USE DEF IInv
<1>1. /\ queue' \in Seq(Event)
      /\ Len(queue') <= NumEvents
      /\ \A p : Has(queue, p) => Has(queue', p)
  <2> DEFINE e == [p |-> Owner[t], ev |-> "timer", by |-> "etimer"]
  <2>1. e \in Event
    BY DEF Owner, Timers, Event
  <2>2. queue' = Append(queue, e) /\ queue \in Seq(Event) /\ Len(queue) < NumEvents
    BY RfidAssumption DEF Expire, Full, TypeOK
  <2> HIDE DEF e
  <2> QED
    BY <2>1, <2>2, AppendHas, RfidAssumption
<1>2. TypeOK'
  <2>1. slot' \in 1 .. MaxSlot /\ others' \in 0 .. MaxOther
    BY RfidAssumption DEF TypeOK, Expire, findVars, tagitVars, chipVars, irqVars, historyVars
  <2>2. /\ timer' \in [Timers -> {"unset", "running", "expired"}]
        /\ fpc' \in {"first", "second", "done"}
        /\ tpc' \in {"idle", "txtest", "txwait", "first", "slottest", "slotwait",
                      "slotdone", "next", "finish"}
        /\ i_reg' \in {"busy", "none", "collision", "sid"}
        /\ job' \in {"none", "tx", "slot", "receiving"}
        /\ status' \subseteq Flags
        /\ Register' \subseteq Flags
    BY DEF TypeOK, Timers, Expire, findVars, tagitVars, chipVars, irqVars, historyVars
  <2>3. /\ found' \in BOOLEAN /\ RXErrorFlag' \in BOOLEAN /\ flag' \in BOOLEAN
        /\ ie' \in BOOLEAN /\ isr' \in BOOLEAN /\ lost' \in BOOLEAN
        /\ missed' \in BOOLEAN /\ hurried' \in BOOLEAN
    BY DEF TypeOK, Expire, findVars, tagitVars, chipVars, irqVars, historyVars
  <2> QED
    BY <1>1, <2>1, <2>2, <2>3 DEF TypeOK
<1>3. NotStranded'
  BY <1>1 DEF NotStranded, Expire, findVars, tagitVars, chipVars, irqVars, historyVars
<1>4. SlotLeft'
  BY DEF SlotLeft, TypeOK, Expire, findVars, tagitVars, chipVars, irqVars, historyVars
<1> QED
  BY <1>2, <1>3, <1>4

LEMMA OtherPostStep ==
  ASSUME IInv, OtherPost
  PROVE  IInv'
<1> USE DEF IInv
<1>1. /\ queue' \in Seq(Event)
      /\ Len(queue') <= NumEvents
      /\ \A p : Has(queue, p) => Has(queue', p)
  <2>1. queue' = Append(queue, Continue("other", "other")) /\ queue \in Seq(Event)
        /\ Len(queue) < NumEvents
    BY RfidAssumption DEF OtherPost, Full, TypeOK
  <2> QED
    BY <2>1, ContinueType, AppendHas, RfidAssumption
<1>2. TypeOK'
  <2>1. slot' \in 1 .. MaxSlot /\ others' \in 0 .. MaxOther
    BY RfidAssumption DEF TypeOK, OtherPost, findVars, tagitVars, chipVars, irqVars, historyVars
  <2>2. /\ timer' \in [Timers -> {"unset", "running", "expired"}]
        /\ fpc' \in {"first", "second", "done"}
        /\ tpc' \in {"idle", "txtest", "txwait", "first", "slottest", "slotwait",
                      "slotdone", "next", "finish"}
        /\ i_reg' \in {"busy", "none", "collision", "sid"}
        /\ job' \in {"none", "tx", "slot", "receiving"}
        /\ status' \subseteq Flags
        /\ Register' \subseteq Flags
    BY DEF TypeOK, Timers, OtherPost, findVars, tagitVars, chipVars, irqVars, historyVars
  <2>3. /\ found' \in BOOLEAN /\ RXErrorFlag' \in BOOLEAN /\ flag' \in BOOLEAN
        /\ ie' \in BOOLEAN /\ isr' \in BOOLEAN /\ lost' \in BOOLEAN
        /\ missed' \in BOOLEAN /\ hurried' \in BOOLEAN
    BY DEF TypeOK, OtherPost, findVars, tagitVars, chipVars, irqVars, historyVars
  <2> QED
    BY <1>1, <2>1, <2>2, <2>3 DEF TypeOK
<1>3. NotStranded'
  BY <1>1 DEF NotStranded, OtherPost, findVars, tagitVars, chipVars, irqVars, historyVars
<1>4. SlotLeft'
  BY DEF SlotLeft, TypeOK, OtherPost, findVars, tagitVars, chipVars, irqVars, historyVars
<1> QED
  BY <1>2, <1>3, <1>4

LEMMA OtherTakeStep ==
  ASSUME IInv, OtherTake
  PROVE  IInv'
<1> USE DEF IInv
<1>1. /\ queue' \in Seq(Event)
      /\ Len(queue') <= NumEvents
      /\ Has(queue, "find") => Has(queue', "find")
      /\ Has(queue, "tagit") => Has(queue', "tagit")
  <2>1. queue \in Seq(Event) /\ Len(queue) <= NumEvents
    BY DEF TypeOK
  <2>2. /\ queue # <<>> /\ queue' = Tail(queue)
        /\ Head(queue).p = "other"
    BY DEF OtherTake
  <2> QED
    BY <2>1, <2>2, RfidAssumption, TailHas
<1>2. TypeOK'
  <2>1. slot' \in 1 .. MaxSlot /\ others' \in 0 .. MaxOther
    BY RfidAssumption DEF TypeOK, OtherTake, findVars, tagitVars, chipVars, irqVars, historyVars
  <2>2. /\ timer' \in [Timers -> {"unset", "running", "expired"}]
        /\ fpc' \in {"first", "second", "done"}
        /\ tpc' \in {"idle", "txtest", "txwait", "first", "slottest", "slotwait",
                      "slotdone", "next", "finish"}
        /\ i_reg' \in {"busy", "none", "collision", "sid"}
        /\ job' \in {"none", "tx", "slot", "receiving"}
        /\ status' \subseteq Flags
        /\ Register' \subseteq Flags
    BY DEF TypeOK, Timers, OtherTake, findVars, tagitVars, chipVars, irqVars, historyVars
  <2>3. /\ found' \in BOOLEAN /\ RXErrorFlag' \in BOOLEAN /\ flag' \in BOOLEAN
        /\ ie' \in BOOLEAN /\ isr' \in BOOLEAN /\ lost' \in BOOLEAN
        /\ missed' \in BOOLEAN /\ hurried' \in BOOLEAN
    BY DEF TypeOK, OtherTake, findVars, tagitVars, chipVars, irqVars, historyVars
  <2> QED
    BY <1>1, <2>1, <2>2, <2>3 DEF TypeOK
<1>3. NotStranded'
  BY <1>1 DEF NotStranded, OtherTake, findVars, tagitVars, chipVars, irqVars, historyVars
<1>4. SlotLeft'
  BY DEF SlotLeft, TypeOK, OtherTake, findVars, tagitVars, chipVars, irqVars, historyVars
<1> QED
  BY <1>2, <1>3, <1>4

LEMMA FindIgnoreStep ==
  ASSUME IInv, FindIgnore
  PROVE  IInv'
<1> USE DEF IInv
<1>1. /\ queue' \in Seq(Event)
      /\ Len(queue') <= NumEvents
      /\ fpc = "done" /\ Has(queue, "find") => Has(queue', "find")
      /\ Has(queue, "tagit") => Has(queue', "tagit")
  <2>1. queue \in Seq(Event) /\ Len(queue) <= NumEvents
    BY DEF TypeOK
  <2>2. /\ queue # <<>> /\ queue' = Tail(queue)
        /\ Head(queue).p = "find" /\ (fpc = "done" => Head(queue).ev # "continue")
    BY DEF FindIgnore, FindEvent
  <2> QED
    BY <2>1, <2>2, RfidAssumption, TailHas
<1>2. TypeOK'
  <2>1. slot' \in 1 .. MaxSlot /\ others' \in 0 .. MaxOther
    BY RfidAssumption DEF TypeOK, FindIgnore, findVars, tagitVars, chipVars, irqVars, historyVars
  <2>2. /\ timer' \in [Timers -> {"unset", "running", "expired"}]
        /\ fpc' \in {"first", "second", "done"}
        /\ tpc' \in {"idle", "txtest", "txwait", "first", "slottest", "slotwait",
                      "slotdone", "next", "finish"}
        /\ i_reg' \in {"busy", "none", "collision", "sid"}
        /\ job' \in {"none", "tx", "slot", "receiving"}
        /\ status' \subseteq Flags
        /\ Register' \subseteq Flags
    BY DEF TypeOK, Timers, FindIgnore, findVars, tagitVars, chipVars, irqVars, historyVars
  <2>3. /\ found' \in BOOLEAN /\ RXErrorFlag' \in BOOLEAN /\ flag' \in BOOLEAN
        /\ ie' \in BOOLEAN /\ isr' \in BOOLEAN /\ lost' \in BOOLEAN
        /\ missed' \in BOOLEAN /\ hurried' \in BOOLEAN
    BY DEF TypeOK, FindIgnore, findVars, tagitVars, chipVars, irqVars, historyVars
  <2> QED
    BY <1>1, <2>1, <2>2, <2>3 DEF TypeOK
<1>3. NotStranded'
  BY <1>1 DEF NotStranded, FindIgnore, findVars, tagitVars, chipVars, irqVars, historyVars
<1>4. SlotLeft'
  BY DEF SlotLeft, TypeOK, FindIgnore, findVars, tagitVars, chipVars, irqVars, historyVars
<1> QED
  BY <1>2, <1>3, <1>4

LEMMA FindHalfStep ==
  ASSUME IInv, FindHalf
  PROVE  IInv'
<1> USE DEF IInv
<1>1. /\ queue' \in Seq(Event)
      /\ Len(queue') <= NumEvents
  <2>1. queue \in Seq(Event) /\ Len(queue) <= NumEvents
    BY DEF TypeOK
  <2>2. queue # <<>> /\ queue' = Tail(queue)
    BY DEF FindHalf, FindEvent
  <2> QED
    BY <2>1, <2>2, RfidAssumption
<1>2. TypeOK'
  <2>1. slot' \in 1 .. MaxSlot /\ others' \in 0 .. MaxOther
    BY RfidAssumption DEF TypeOK, FindHalf, findVars, tagitVars, chipVars, irqVars, historyVars
  <2>2. /\ timer' \in [Timers -> {"unset", "running", "expired"}]
        /\ fpc' \in {"first", "second", "done"}
        /\ tpc' \in {"idle", "txtest", "txwait", "first", "slottest", "slotwait",
                      "slotdone", "next", "finish"}
        /\ i_reg' \in {"busy", "none", "collision", "sid"}
        /\ job' \in {"none", "tx", "slot", "receiving"}
        /\ status' \subseteq Flags
        /\ Register' \subseteq Flags
    BY DEF TypeOK, Timers, FindHalf, findVars, tagitVars, chipVars, irqVars, historyVars
  <2>3. /\ found' \in BOOLEAN /\ RXErrorFlag' \in BOOLEAN /\ flag' \in BOOLEAN
        /\ ie' \in BOOLEAN /\ isr' \in BOOLEAN /\ lost' \in BOOLEAN
        /\ missed' \in BOOLEAN /\ hurried' \in BOOLEAN
    BY DEF TypeOK, FindHalf, findVars, tagitVars, chipVars, irqVars, historyVars
  <2> QED
    BY <1>1, <2>1, <2>2, <2>3 DEF TypeOK
<1>3. NotStranded'
  BY DEF NotStranded, FindHalf
<1>4. SlotLeft'
  BY DEF SlotLeft, TypeOK, FindHalf, findVars, tagitVars, chipVars, irqVars, historyVars
<1> QED
  BY <1>2, <1>3, <1>4

LEMMA FindAskStep ==
  ASSUME IInv, FindAsk
  PROVE  IInv'
<1> USE DEF IInv
<1>1. /\ queue' \in Seq(Event)
      /\ Len(queue') <= NumEvents
      /\ Has(queue', "tagit")
  <2>1. /\ Tail(queue) \in Seq(Event)
        /\ Len(Tail(queue)) < NumEvents
    BY TailType DEF FindAsk, FindEvent, TypeOK
  <2>2. queue' = Post(Tail(queue), Continue("tagit", "find"))
    BY DEF FindAsk
  <2>3. /\ Continue("tagit", "find") \in Event
        /\ Continue("tagit", "find").ev = "continue"
        /\ Continue("tagit", "find").p = "tagit"
    BY ContinueType
  <2>4. Len(Tail(queue)) <= NumEvents
    BY <2>1, RfidAssumption
  <2> QED
    BY <2>1, <2>2, <2>3, <2>4, PostType, PostHas
<1>2. TypeOK'
  <2>1. slot' \in 1 .. MaxSlot /\ others' \in 0 .. MaxOther
    BY RfidAssumption DEF TypeOK, FindAsk, findVars, tagitVars, chipVars, irqVars, historyVars
  <2>2. /\ timer' \in [Timers -> {"unset", "running", "expired"}]
        /\ fpc' \in {"first", "second", "done"}
        /\ tpc' \in {"idle", "txtest", "txwait", "first", "slottest", "slotwait",
                      "slotdone", "next", "finish"}
        /\ i_reg' \in {"busy", "none", "collision", "sid"}
        /\ job' \in {"none", "tx", "slot", "receiving"}
        /\ status' \subseteq Flags
        /\ Register' \subseteq Flags
    BY DEF TypeOK, Timers, FindAsk, findVars, tagitVars, chipVars, irqVars, historyVars
  <2>3. /\ found' \in BOOLEAN /\ RXErrorFlag' \in BOOLEAN /\ flag' \in BOOLEAN
        /\ ie' \in BOOLEAN /\ isr' \in BOOLEAN /\ lost' \in BOOLEAN
        /\ missed' \in BOOLEAN /\ hurried' \in BOOLEAN
    BY DEF TypeOK, FindAsk, findVars, tagitVars, chipVars, irqVars, historyVars
  <2> QED
    BY <1>1, <2>1, <2>2, <2>3 DEF TypeOK
<1>3. NotStranded'
  BY <1>1 DEF NotStranded
<1>4. SlotLeft'
  BY DEF SlotLeft, TypeOK, FindAsk, findVars, tagitVars, chipVars, irqVars, historyVars
<1> QED
  BY <1>2, <1>3, <1>4

LEMMA FindDoneStep ==
  ASSUME IInv, FindDone
  PROVE  IInv'
<1> USE DEF IInv
<1>1. /\ queue' \in Seq(Event)
      /\ Len(queue') <= NumEvents
  <2>1. queue \in Seq(Event) /\ Len(queue) <= NumEvents
    BY DEF TypeOK
  <2>2. queue # <<>> /\ queue' = Tail(queue)
    BY DEF FindDone, FindEvent
  <2> QED
    BY <2>1, <2>2, RfidAssumption
<1>2. TypeOK'
  <2>1. slot' \in 1 .. MaxSlot /\ others' \in 0 .. MaxOther
    BY RfidAssumption DEF TypeOK, FindDone, findVars, tagitVars, chipVars, irqVars, historyVars
  <2>2. /\ timer' \in [Timers -> {"unset", "running", "expired"}]
        /\ fpc' \in {"first", "second", "done"}
        /\ tpc' \in {"idle", "txtest", "txwait", "first", "slottest", "slotwait",
                      "slotdone", "next", "finish"}
        /\ i_reg' \in {"busy", "none", "collision", "sid"}
        /\ job' \in {"none", "tx", "slot", "receiving"}
        /\ status' \subseteq Flags
        /\ Register' \subseteq Flags
    BY DEF TypeOK, Timers, FindDone, findVars, tagitVars, chipVars, irqVars, historyVars
  <2>3. /\ found' \in BOOLEAN /\ RXErrorFlag' \in BOOLEAN /\ flag' \in BOOLEAN
        /\ ie' \in BOOLEAN /\ isr' \in BOOLEAN /\ lost' \in BOOLEAN
        /\ missed' \in BOOLEAN /\ hurried' \in BOOLEAN
    BY DEF TypeOK, FindDone, findVars, tagitVars, chipVars, irqVars, historyVars
  <2> QED
    BY <1>1, <2>1, <2>2, <2>3 DEF TypeOK
<1>3. NotStranded'
  BY DEF NotStranded, FindDone
<1>4. SlotLeft'
  BY DEF SlotLeft, TypeOK, FindDone, findVars, tagitVars, chipVars, irqVars, historyVars
<1> QED
  BY <1>2, <1>3, <1>4

LEMMA TagitIgnoreStep ==
  ASSUME IInv, TagitIgnore
  PROVE  IInv'
<1> USE DEF IInv
<1>1. /\ queue' \in Seq(Event)
      /\ Len(queue') <= NumEvents
      /\ Has(queue, "find") => Has(queue', "find")
      /\ Has(queue, "tagit") => Has(queue', "tagit")
  <2>1. queue \in Seq(Event) /\ Len(queue) <= NumEvents
    BY DEF TypeOK
  <2>2. /\ queue # <<>> /\ queue' = Tail(queue)
        /\ Head(queue).p = "tagit" /\ Head(queue).ev # "continue"
    BY DEF TagitIgnore, TagitEvent
  <2> QED
    BY <2>1, <2>2, RfidAssumption, TailHas
<1>2. TypeOK'
  <2>1. slot' \in 1 .. MaxSlot /\ others' \in 0 .. MaxOther
    BY RfidAssumption DEF TypeOK, TagitIgnore, findVars, tagitVars, chipVars, irqVars, historyVars
  <2>2. /\ timer' \in [Timers -> {"unset", "running", "expired"}]
        /\ fpc' \in {"first", "second", "done"}
        /\ tpc' \in {"idle", "txtest", "txwait", "first", "slottest", "slotwait",
                      "slotdone", "next", "finish"}
        /\ i_reg' \in {"busy", "none", "collision", "sid"}
        /\ job' \in {"none", "tx", "slot", "receiving"}
        /\ status' \subseteq Flags
        /\ Register' \subseteq Flags
    BY DEF TypeOK, Timers, TagitIgnore, findVars, tagitVars, chipVars, irqVars, historyVars
  <2>3. /\ found' \in BOOLEAN /\ RXErrorFlag' \in BOOLEAN /\ flag' \in BOOLEAN
        /\ ie' \in BOOLEAN /\ isr' \in BOOLEAN /\ lost' \in BOOLEAN
        /\ missed' \in BOOLEAN /\ hurried' \in BOOLEAN
    BY DEF TypeOK, TagitIgnore, findVars, tagitVars, chipVars, irqVars, historyVars
  <2> QED
    BY <1>1, <2>1, <2>2, <2>3 DEF TypeOK
<1>3. NotStranded'
  BY <1>1 DEF NotStranded, TagitIgnore, findVars, tagitVars, chipVars, irqVars, historyVars
<1>4. SlotLeft'
  BY DEF SlotLeft, TypeOK, TagitIgnore, findVars, tagitVars, chipVars, irqVars, historyVars
<1> QED
  BY <1>2, <1>3, <1>4

LEMMA BeginStep ==
  ASSUME IInv, Begin
  PROVE  IInv'
<1> USE DEF IInv
<1>1. /\ queue' \in Seq(Event)
      /\ Len(queue') <= NumEvents
  <2>1. queue \in Seq(Event) /\ Len(queue) <= NumEvents
    BY DEF TypeOK
  <2>2. queue # <<>> /\ queue' = Tail(queue)
    BY DEF Begin, TagitEvent
  <2> QED
    BY <2>1, <2>2, RfidAssumption
<1>2. TypeOK'
  <2>1. slot' \in 1 .. MaxSlot /\ others' \in 0 .. MaxOther
    BY RfidAssumption DEF TypeOK, Begin, findVars, tagitVars, chipVars, irqVars, historyVars
  <2>2. /\ timer' \in [Timers -> {"unset", "running", "expired"}]
        /\ fpc' \in {"first", "second", "done"}
        /\ tpc' \in {"idle", "txtest", "txwait", "first", "slottest", "slotwait",
                      "slotdone", "next", "finish"}
        /\ i_reg' \in {"busy", "none", "collision", "sid"}
        /\ job' \in {"none", "tx", "slot", "receiving"}
        /\ status' \subseteq Flags
        /\ Register' \subseteq Flags
    BY DEF TypeOK, Timers, Begin, findVars, tagitVars, chipVars, irqVars, historyVars
  <2>3. /\ found' \in BOOLEAN /\ RXErrorFlag' \in BOOLEAN /\ flag' \in BOOLEAN
        /\ ie' \in BOOLEAN /\ isr' \in BOOLEAN /\ lost' \in BOOLEAN
        /\ missed' \in BOOLEAN /\ hurried' \in BOOLEAN
    BY DEF TypeOK, Begin, findVars, tagitVars, chipVars, irqVars, historyVars
  <2> QED
    BY <1>1, <2>1, <2>2, <2>3 DEF TypeOK
<1>3. NotStranded'
  BY DEF NotStranded, Begin
<1>4. SlotLeft'
  BY DEF SlotLeft, TypeOK, Begin, findVars, tagitVars, chipVars, irqVars, historyVars
<1> QED
  BY <1>2, <1>3, <1>4

LEMMA WakeStep ==
  ASSUME IInv, NEW at \in {"txwait", "slotwait"}, NEW test \in {"txtest", "slottest"},
         Wake(at, test)
  PROVE  IInv'
<1> USE DEF IInv
<1>1. /\ queue' \in Seq(Event)
      /\ Len(queue') <= NumEvents
  <2>1. queue \in Seq(Event) /\ Len(queue) <= NumEvents
    BY DEF TypeOK
  <2>2. queue # <<>> /\ queue' = Tail(queue)
    BY DEF Wake, TagitEvent
  <2> QED
    BY <2>1, <2>2, RfidAssumption
<1>2. TypeOK'
  <2>1. slot' \in 1 .. MaxSlot /\ others' \in 0 .. MaxOther
    BY RfidAssumption DEF TypeOK, Wake, findVars, tagitVars, chipVars, irqVars, historyVars
  <2>2. /\ timer' \in [Timers -> {"unset", "running", "expired"}]
        /\ fpc' \in {"first", "second", "done"}
        /\ tpc' \in {"idle", "txtest", "txwait", "first", "slottest", "slotwait",
                      "slotdone", "next", "finish"}
        /\ i_reg' \in {"busy", "none", "collision", "sid"}
        /\ job' \in {"none", "tx", "slot", "receiving"}
        /\ status' \subseteq Flags
        /\ Register' \subseteq Flags
    BY DEF TypeOK, Timers, Wake, findVars, tagitVars, chipVars, irqVars, historyVars
  <2>3. /\ found' \in BOOLEAN /\ RXErrorFlag' \in BOOLEAN /\ flag' \in BOOLEAN
        /\ ie' \in BOOLEAN /\ isr' \in BOOLEAN /\ lost' \in BOOLEAN
        /\ missed' \in BOOLEAN /\ hurried' \in BOOLEAN
    BY DEF TypeOK, Wake, findVars, tagitVars, chipVars, irqVars, historyVars
  <2> QED
    BY <1>1, <2>1, <2>2, <2>3 DEF TypeOK
<1>3. NotStranded'
  BY DEF NotStranded, Wake
<1>4. SlotLeft'
  BY DEF SlotLeft, TypeOK, Wake, findVars, tagitVars, chipVars, irqVars, historyVars
<1> QED
  BY <1>2, <1>3, <1>4

LEMMA TestStep ==
  ASSUME IInv, NEW at, NEW wait \in {"txwait", "slotwait"},
         NEW next \in {"first", "slotdone"}, Test(at, wait, next)
  PROVE  IInv'
<1> USE DEF IInv
<1>1. queue' = queue /\ queue' \in Seq(Event) /\ Len(queue') <= NumEvents
  BY DEF TypeOK, Test

<1>2. TypeOK'
  <2>1. slot' \in 1 .. MaxSlot /\ others' \in 0 .. MaxOther
    BY RfidAssumption DEF TypeOK, Test, findVars, tagitVars, chipVars, irqVars, historyVars
  <2>2. /\ timer' \in [Timers -> {"unset", "running", "expired"}]
        /\ fpc' \in {"first", "second", "done"}
        /\ tpc' \in {"idle", "txtest", "txwait", "first", "slottest", "slotwait",
                      "slotdone", "next", "finish"}
        /\ i_reg' \in {"busy", "none", "collision", "sid"}
        /\ job' \in {"none", "tx", "slot", "receiving"}
        /\ status' \subseteq Flags
        /\ Register' \subseteq Flags
    BY DEF TypeOK, Timers, Test, findVars, tagitVars, chipVars, irqVars, historyVars
  <2>3. /\ found' \in BOOLEAN /\ RXErrorFlag' \in BOOLEAN /\ flag' \in BOOLEAN
        /\ ie' \in BOOLEAN /\ isr' \in BOOLEAN /\ lost' \in BOOLEAN
        /\ missed' \in BOOLEAN /\ hurried' \in BOOLEAN
    BY DEF TypeOK, Test, findVars, tagitVars, chipVars, irqVars, historyVars
  <2> QED
    BY <1>1, <2>1, <2>2, <2>3 DEF TypeOK
<1>3. NotStranded'
  BY DEF NotStranded, Test
<1>4. SlotLeft'
  BY DEF SlotLeft, TypeOK, Test, findVars, tagitVars, chipVars, irqVars, historyVars
<1> QED
  BY <1>2, <1>3, <1>4

LEMMA ArmStep ==
  ASSUME IInv, NEW at, NEW i \in 1 .. MaxSlot, Arm(at, i)
  PROVE  IInv'
<1> USE DEF IInv
<1>1. queue' = queue /\ queue' \in Seq(Event) /\ Len(queue') <= NumEvents
  BY DEF TypeOK, Arm

<1>2. TypeOK'
  <2>1. slot' \in 1 .. MaxSlot /\ others' \in 0 .. MaxOther
    BY RfidAssumption DEF TypeOK, Arm, findVars, tagitVars, chipVars, irqVars, historyVars
  <2>2. /\ timer' \in [Timers -> {"unset", "running", "expired"}]
        /\ fpc' \in {"first", "second", "done"}
        /\ tpc' \in {"idle", "txtest", "txwait", "first", "slottest", "slotwait",
                      "slotdone", "next", "finish"}
        /\ i_reg' \in {"busy", "none", "collision", "sid"}
        /\ job' \in {"none", "tx", "slot", "receiving"}
        /\ status' \subseteq Flags
        /\ Register' \subseteq Flags
    BY DEF TypeOK, Timers, Arm, findVars, tagitVars, chipVars, irqVars, historyVars
  <2>3. /\ found' \in BOOLEAN /\ RXErrorFlag' \in BOOLEAN /\ flag' \in BOOLEAN
        /\ ie' \in BOOLEAN /\ isr' \in BOOLEAN /\ lost' \in BOOLEAN
        /\ missed' \in BOOLEAN /\ hurried' \in BOOLEAN
    BY DEF TypeOK, Arm, findVars, tagitVars, chipVars, irqVars, historyVars
  <2> QED
    BY <1>1, <2>1, <2>2, <2>3 DEF TypeOK
<1>3. NotStranded'
  BY DEF NotStranded, Arm
<1>4. SlotLeft'
  BY DEF SlotLeft, TypeOK, Arm, findVars, tagitVars, chipVars, irqVars, historyVars
<1> QED
  BY <1>2, <1>3, <1>4

LEMMA SlotDoneStep ==
  ASSUME IInv, SlotDone
  PROVE  IInv'
<1> USE DEF IInv
<1>1. queue' = queue /\ queue' \in Seq(Event) /\ Len(queue') <= NumEvents
  BY DEF TypeOK, SlotDone

<1>2. TypeOK'
  <2>1. slot' \in 1 .. MaxSlot /\ others' \in 0 .. MaxOther
    BY RfidAssumption DEF TypeOK, SlotDone, findVars, tagitVars, chipVars, irqVars, historyVars
  <2>2. /\ timer' \in [Timers -> {"unset", "running", "expired"}]
        /\ fpc' \in {"first", "second", "done"}
        /\ tpc' \in {"idle", "txtest", "txwait", "first", "slottest", "slotwait",
                      "slotdone", "next", "finish"}
        /\ i_reg' \in {"busy", "none", "collision", "sid"}
        /\ job' \in {"none", "tx", "slot", "receiving"}
        /\ status' \subseteq Flags
        /\ Register' \subseteq Flags
    BY DEF TypeOK, Timers, SlotDone, findVars, tagitVars, chipVars, irqVars, historyVars
  <2>3. /\ found' \in BOOLEAN /\ RXErrorFlag' \in BOOLEAN /\ flag' \in BOOLEAN
        /\ ie' \in BOOLEAN /\ isr' \in BOOLEAN /\ lost' \in BOOLEAN
        /\ missed' \in BOOLEAN /\ hurried' \in BOOLEAN
    BY DEF TypeOK, SlotDone, findVars, tagitVars, chipVars, irqVars, historyVars
  <2> QED
    BY <1>1, <2>1, <2>2, <2>3 DEF TypeOK
<1>3. NotStranded'
  BY DEF NotStranded, SlotDone
<1>4. SlotLeft'
  BY DEF SlotLeft, TypeOK, SlotDone, findVars, tagitVars, chipVars, irqVars, historyVars
<1> QED
  BY <1>2, <1>3, <1>4

LEMMA FinishStep ==
  ASSUME IInv, Finish
  PROVE  IInv'
<1> USE DEF IInv
<1>1. /\ queue' \in Seq(Event)
      /\ Len(queue') <= NumEvents
      /\ Len(queue) < NumEvents => Has(queue', "find")
  BY PostType, PostHas, ContinueType DEF Finish, TypeOK
<1>2. TypeOK'
  <2>1. slot' \in 1 .. MaxSlot /\ others' \in 0 .. MaxOther
    BY RfidAssumption DEF TypeOK, Finish, findVars, tagitVars, chipVars, irqVars, historyVars
  <2>2. /\ timer' \in [Timers -> {"unset", "running", "expired"}]
        /\ fpc' \in {"first", "second", "done"}
        /\ tpc' \in {"idle", "txtest", "txwait", "first", "slottest", "slotwait",
                      "slotdone", "next", "finish"}
        /\ i_reg' \in {"busy", "none", "collision", "sid"}
        /\ job' \in {"none", "tx", "slot", "receiving"}
        /\ status' \subseteq Flags
        /\ Register' \subseteq Flags
    BY DEF TypeOK, Timers, Finish, findVars, tagitVars, chipVars, irqVars, historyVars
  <2>3. /\ found' \in BOOLEAN /\ RXErrorFlag' \in BOOLEAN /\ flag' \in BOOLEAN
        /\ ie' \in BOOLEAN /\ isr' \in BOOLEAN /\ lost' \in BOOLEAN
        /\ missed' \in BOOLEAN /\ hurried' \in BOOLEAN
    BY DEF TypeOK, Finish, findVars, tagitVars, chipVars, irqVars, historyVars
  <2> QED
    BY <1>1, <2>1, <2>2, <2>3 DEF TypeOK
<1>3. NotStranded'
  <2>1. ~lost' => ~Full
    BY DEF Finish
  <2>2. ~Full => Len(queue) < NumEvents
    BY RfidAssumption DEF Full, TypeOK
  <2> QED
    BY <1>1, <2>1, <2>2 DEF NotStranded
<1>4. SlotLeft'
  BY DEF SlotLeft, TypeOK, Finish, findVars, tagitVars, chipVars, irqVars, historyVars
<1> QED
  BY <1>2, <1>3, <1>4

LEMMA IsrReadStep ==
  ASSUME IInv, IsrRead
  PROVE  IInv'
<1> USE DEF IInv
<1>1. queue' = queue /\ queue' \in Seq(Event) /\ Len(queue') <= NumEvents
  BY DEF TypeOK, IsrRead

<1>2. TypeOK'
  <2>1. slot' \in 1 .. MaxSlot /\ others' \in 0 .. MaxOther
    BY RfidAssumption DEF TypeOK, IsrRead, findVars, tagitVars, chipVars, irqVars, historyVars
  <2>2. /\ timer' \in [Timers -> {"unset", "running", "expired"}]
        /\ fpc' \in {"first", "second", "done"}
        /\ tpc' \in {"idle", "txtest", "txwait", "first", "slottest", "slotwait",
                      "slotdone", "next", "finish"}
        /\ i_reg' \in {"busy", "none", "collision", "sid"}
        /\ job' \in {"none", "tx", "slot", "receiving"}
        /\ status' \subseteq Flags
        /\ Register' \subseteq Flags
    BY DEF TypeOK, Timers, IsrRead, findVars, tagitVars, chipVars, irqVars, historyVars
  <2>3. /\ found' \in BOOLEAN /\ RXErrorFlag' \in BOOLEAN /\ flag' \in BOOLEAN
        /\ ie' \in BOOLEAN /\ isr' \in BOOLEAN /\ lost' \in BOOLEAN
        /\ missed' \in BOOLEAN /\ hurried' \in BOOLEAN
    BY DEF TypeOK, IsrRead, findVars, tagitVars, chipVars, irqVars, historyVars
  <2> QED
    BY <1>1, <2>1, <2>2, <2>3 DEF TypeOK
<1>3. NotStranded'
  BY DEF NotStranded, IsrRead, findVars, tagitVars, chipVars, irqVars, historyVars
<1>4. SlotLeft'
  BY DEF SlotLeft, TypeOK, IsrRead, findVars, tagitVars, chipVars, irqVars, historyVars
<1> QED
  BY <1>2, <1>3, <1>4

LEMMA IsrHandleStep ==
  ASSUME IInv, IsrHandle
  PROVE  IInv'
<1> USE DEF IInv
<1>1. /\ queue' \in Seq(Event)
      /\ Len(queue') <= NumEvents
      /\ \A p : Has(queue, p) => Has(queue', p)
  BY PostType, ContinueType DEF IsrHandle, TypeOK
<1>2. TypeOK'
  <2>1. slot' \in 1 .. MaxSlot /\ others' \in 0 .. MaxOther
    BY RfidAssumption DEF TypeOK, IsrHandle, Handle, NineBytes, Reread, Verdict, findVars, tagitVars, chipVars, irqVars, historyVars
  <2>2. /\ timer' \in [Timers -> {"unset", "running", "expired"}]
        /\ fpc' \in {"first", "second", "done"}
        /\ tpc' \in {"idle", "txtest", "txwait", "first", "slottest", "slotwait",
                      "slotdone", "next", "finish"}
        /\ i_reg' \in {"busy", "none", "collision", "sid"}
        /\ job' \in {"none", "tx", "slot", "receiving"}
        /\ status' \subseteq Flags
        /\ Register' \subseteq Flags
    BY DEF TypeOK, Timers, IsrHandle, Handle, NineBytes, Reread, Verdict, findVars, tagitVars, chipVars, irqVars, historyVars
  <2>3. /\ found' \in BOOLEAN /\ RXErrorFlag' \in BOOLEAN /\ flag' \in BOOLEAN
        /\ ie' \in BOOLEAN /\ isr' \in BOOLEAN /\ lost' \in BOOLEAN
        /\ missed' \in BOOLEAN /\ hurried' \in BOOLEAN
    BY DEF TypeOK, IsrHandle, Handle, NineBytes, Reread, Verdict, findVars, tagitVars, chipVars, irqVars, historyVars
  <2> QED
    BY <1>1, <2>1, <2>2, <2>3 DEF TypeOK
<1>3. NotStranded'
  BY <1>1 DEF NotStranded, IsrHandle, findVars, tagitVars, chipVars, irqVars, historyVars
<1>4. SlotLeft'
  BY DEF SlotLeft, TypeOK, IsrHandle, Handle, NineBytes, Reread, Verdict, findVars, tagitVars, chipVars, irqVars, historyVars
<1> QED
  BY <1>2, <1>3, <1>4

LEMMA RaiseStep ==
  ASSUME IInv, NEW bits \in SUBSET Flags,
         NEW next \in {"none", "slot", "receiving"}, Raise(bits, next)
  PROVE  IInv'
<1> USE DEF IInv
<1>1. queue' = queue /\ queue' \in Seq(Event) /\ Len(queue') <= NumEvents
  BY DEF TypeOK, Raise

<1>2. TypeOK'
  <2>1. slot' \in 1 .. MaxSlot /\ others' \in 0 .. MaxOther
    BY RfidAssumption DEF TypeOK, Raise, findVars, tagitVars, chipVars, irqVars, historyVars
  <2>2. /\ timer' \in [Timers -> {"unset", "running", "expired"}]
        /\ fpc' \in {"first", "second", "done"}
        /\ tpc' \in {"idle", "txtest", "txwait", "first", "slottest", "slotwait",
                      "slotdone", "next", "finish"}
        /\ i_reg' \in {"busy", "none", "collision", "sid"}
        /\ job' \in {"none", "tx", "slot", "receiving"}
        /\ status' \subseteq Flags
        /\ Register' \subseteq Flags
    BY DEF TypeOK, Timers, Raise, findVars, tagitVars, chipVars, irqVars, historyVars
  <2>3. /\ found' \in BOOLEAN /\ RXErrorFlag' \in BOOLEAN /\ flag' \in BOOLEAN
        /\ ie' \in BOOLEAN /\ isr' \in BOOLEAN /\ lost' \in BOOLEAN
        /\ missed' \in BOOLEAN /\ hurried' \in BOOLEAN
    BY DEF TypeOK, Raise, findVars, tagitVars, chipVars, irqVars, historyVars
  <2> QED
    BY <1>1, <2>1, <2>2, <2>3 DEF TypeOK
<1>3. NotStranded'
  BY DEF NotStranded, Raise, findVars, tagitVars, chipVars, irqVars, historyVars
<1>4. SlotLeft'
  BY DEF SlotLeft, TypeOK, Raise, findVars, tagitVars, chipVars, irqVars, historyVars
<1> QED
  BY <1>2, <1>3, <1>4

LEMMA StutterStep == IInv /\ UNCHANGED vars => IInv'
<1> SUFFICES ASSUME IInv, UNCHANGED vars PROVE IInv'
  OBVIOUS
<1> USE DEF vars, findVars, tagitVars, chipVars, irqVars, historyVars
<1>1. TypeOK'
  BY DEF IInv, TypeOK
<1>2. NotStranded'
  BY DEF IInv, NotStranded
<1> QED
  BY <1>1, <1>2 DEF IInv, SlotLeft

LEMMA NextIInv == IInv /\ [Next]_vars => IInv'
<1> SUFFICES ASSUME IInv, [Next]_vars PROVE IInv'
  OBVIOUS
<1>1. CASE \E t \in Timers : Expire(t)
  BY <1>1, ExpireStep
<1>2. CASE OtherPost \/ OtherTake
  BY <1>2, OtherPostStep, OtherTakeStep
<1>3. CASE Find
  BY <1>3, FindIgnoreStep, FindHalfStep, FindAskStep, FindDoneStep DEF Find
<1>4. CASE Tagit
  <2>1. CASE TagitIgnore \/ Begin \/ SlotDone \/ Finish
    BY <2>1, TagitIgnoreStep, BeginStep, SlotDoneStep, FinishStep
  <2>2. CASE TxTest \/ SlotTest
    BY <2>2, TestStep DEF TxTest, SlotTest
  <2>3. CASE TxWake \/ SlotWake
    BY <2>3, WakeStep DEF TxWake, SlotWake
  <2>4. CASE FirstSlot
    BY <2>4, ArmStep, RfidAssumption DEF FirstSlot
  <2>5. CASE NextSlot
    <3>1. slot + 1 \in 1 .. MaxSlot
      BY <2>5, RfidAssumption DEF NextSlot, Arm, IInv, SlotLeft, TypeOK
    <3> QED
      BY <2>5, <3>1, ArmStep DEF NextSlot
  <2> QED
    BY <1>4, <2>1, <2>2, <2>3, <2>4, <2>5 DEF Tagit
<1>5. CASE Isr
  BY <1>5, IsrReadStep, IsrHandleStep DEF Isr
<1>6. CASE Chip
  BY <1>6, RaiseStep DEF Chip, TxEnd, Silence, Collide, NineIn, BadBits, ReplyEnd, Flags
<1>7. CASE UNCHANGED vars
  BY <1>7, StutterStep
<1> QED
  BY <1>1, <1>2, <1>3, <1>4, <1>5, <1>6, <1>7 DEF Next

(* The types of the tag reader's state. *)
THEOREM TypeCorrect == Spec => []TypeOK
<1>1. IInv => TypeOK
  BY DEF IInv
<1> QED
  BY <1>1, InitIInv, NextIInv, PTL DEF Spec

(* The two threads never wait for each other (rfid-processes.c:142-145 and *)
(* 166, 294), for any queue length, number of slots and replies: the       *)
(* request always finds room, because the event that woke the thread left  *)
(* it, and an inventory that has begun ends with a post.                   *)
THEOREM NeverStranded == Spec => []NotStranded
<1>1. IInv => NotStranded
  BY DEF IInv
<1> QED
  BY <1>1, InitIInv, NextIInv, PTL DEF Spec

-----------------------------------------------------------------------------
(* A status from which the handler concludes that the slot is over; and    *)
(* what it makes of the one it has read, r, with s raised since: it        *)
(* concludes, or s is left to be read, from which it will.                 *)
Goes(s)  == {"crc", "fifo"} \subseteq s /\ "col" \notin s
Heard(s) == ~Goes(s) /\ s # {"tx", "fifo"}
Settles(r, s) ==
  \/ Goes(r) /\ s # {}
  \/ Heard(r) /\ (r = {"rx", "fifo"} => s \in {{}, {"rx"}, {"rx", "crc"}})

(* As long as no report was missed: a raised status is an interrupt to     *)
(* come, the chip is given work before i_reg is set busy for it, and what  *)
(* is raised and read of a reply that has ended is settled; so once the    *)
(* chip is done the interrupt that says so is to come.                     *)
AInv ==
  ~missed =>
    /\ flag <=> status # {}
    /\ tpc # "idle" => ie
    /\ tpc = "idle" => ~ie /\ ~isr /\ status = {}
    /\ tpc \in {"txtest", "txwait", "first", "next"} => job # "none"
    /\ job = "tx" => tpc \in {"txtest", "txwait"} /\ ~isr /\ status = {} /\ i_reg = "busy"
    /\ job = "slot" /\ tpc \notin {"txtest", "txwait"} => ~isr /\ status = {}
    /\ job = "receiving" =>
         /\ status \in {{}, {"rx", "fifo"}, {"crc", "fifo"}}
         /\ isr => status = {} /\ Register \in {{"rx", "fifo"}, {"crc", "fifo"}}
    /\ job = "none" => Heard(status) /\ (isr => Settles(Register, status))
    /\ tpc \in {"slottest", "slotwait"} /\ i_reg = "busy" /\ job = "none" => flag \/ isr

(* The handler takes i_reg off 0x01 or leaves a status to be read.         *)
LEMMA HandleConcludes ==
  ASSUME Handle, Settles(Register, status)
  PROVE  i_reg' # "busy" \/ (status # {} /\ UNCHANGED <<status, flag>>)
<1>1. CASE Goes(Register)
  <2>1. Register # {"tx", "fifo"} /\ Register # {"rx", "fifo"} /\ "col" \notin Register
    BY <1>1 DEF Goes
  <2>2. {"crc", "fifo"} \subseteq Register
    BY <1>1 DEF Goes
  <2>3. UNCHANGED <<status, flag>>
    BY <2>1, <2>2 DEF Handle
  <2>4. status # {}
    BY <1>1 DEF Settles, Heard
  <2> QED
    BY <2>3, <2>4
<1>2. CASE Heard(Register) /\ Register = {"rx", "fifo"}
  <2>1. status \in {{}, {"rx"}, {"rx", "crc"}}
    BY <1>2 DEF Settles, Goes
  <2>2. NineBytes
    BY <1>2 DEF Handle
  <2> QED
    BY <2>1, <2>2 DEF NineBytes
<1>3. CASE Heard(Register) /\ Register # {"rx", "fifo"}
  <2>1. Register # {"tx", "fifo"} /\ ~("col" \notin Register /\ {"crc", "fifo"} \subseteq Register)
    BY <1>3 DEF Heard, Goes
  <2>2. i_reg' = Verdict(Register)
    BY <1>3, <2>1 DEF Handle
  <2>3. Verdict(Register) # "busy"
    BY DEF Verdict
  <2> QED
    BY <2>2, <2>3
<1> QED
  BY <1>1, <1>2, <1>3 DEF Settles

(* What becomes of status and flag.                                        *)
LEMMA HandleStatus ==
  ASSUME Handle, flag <=> status # {}
  PROVE  /\ flag' <=> status' # {}
         /\ status' = {} \/ UNCHANGED <<status, flag>>
BY DEF Handle, NineBytes, Reread

(* Whatever the chip raises, there is an interrupt to come for it.         *)
LEMMA RaiseAwaited ==
  ASSUME TypeOK, AInv, Chip
  PROVE  AInv'
<1> SUFFICES ASSUME ~missed' PROVE AInv'
  BY DEF AInv
<1> USE DEF tagitVars
<1>1. ASSUME NEW bits, NEW next, Raise(bits, next), bits # {}
      PROVE  /\ ~missed /\ ~Missed(bits) /\ flag' /\ status' = status \cup bits /\ status' # {}
             /\ job' = next
             /\ UNCHANGED <<tpc, i_reg, ie, isr, Register>>
  BY <1>1 DEF AInv, Raise
<1>2. CASE TxEnd
  BY <1>1, <1>2 DEF TxEnd, AInv
<1>3. ASSUME Replying, NEW bits, ~Missed(bits) PROVE tpc \in {"slottest", "slotwait"}
  BY <1>3 DEF Replying, Missed
<1>4. ASSUME NEW bits, job = "slot", bits \in {{"rx", "fifo"}, {"crc", "fifo"}}, Raise(bits, "receiving")
      PROVE  AInv'
  <2>1. Replying
    BY <1>4 DEF Replying
  <2>2. bits # {}
    BY <1>4
  <2>3. tpc \in {"slottest", "slotwait"} /\ ~isr /\ status = {}
    BY <1>1, <1>3, <1>4, <2>1, <2>2 DEF AInv
  <2>4. status' = bits
    BY <1>1, <1>4, <2>2, <2>3
  <2> QED
    BY <1>1, <1>4, <2>2, <2>3, <2>4 DEF AInv
<1>5. ASSUME NEW bits, Replying, bits \in {{"nores"}, {"col"}, {"rx"}, {"rx", "crc"}}, Raise(bits, "none"),
             bits = {"nores"} => job = "slot"
      PROVE  AInv'
  <2>1. bits # {} /\ bits # {"crc", "fifo"} /\ "tx" \notin bits /\ "fifo" \notin bits
    BY <1>5
  <2>2. tpc \in {"slottest", "slotwait"} /\ ~missed /\ ~Missed(bits)
    BY <1>1, <1>3, <1>5, <2>1
  <2>3. status \in {{}, {"rx", "fifo"}, {"crc", "fifo"}}
    BY <1>5, <2>2 DEF AInv, Replying
  <2>4. Heard(status')
    <3>1. ~Goes(status')
      BY <1>1, <1>5, <2>1, <2>2, <2>3 DEF Goes, Missed
    <3>2. "tx" \notin status'
      BY <1>1, <1>5, <2>1, <2>3
    <3> QED
      BY <3>1, <3>2 DEF Heard
  <2>5. ASSUME isr PROVE Settles(Register', status')
    <3>1. job = "receiving" /\ status = {} /\ Register \in {{"rx", "fifo"}, {"crc", "fifo"}}
      BY <1>5, <2>2, <2>5 DEF AInv, Replying
    <3>2. status' = bits /\ Register' = Register
      BY <1>1, <1>5, <2>1, <3>1
    <3>3. CASE Register = {"crc", "fifo"}
      BY <2>1, <3>2, <3>3 DEF Settles, Goes
    <3>4. CASE Register = {"rx", "fifo"}
      <4>1. bits # {"col"} /\ bits # {"nores"}
        BY <1>5, <2>2, <2>5, <3>1, <3>4 DEF Missed
      <4>2. Heard({"rx", "fifo"})
        BY DEF Heard, Goes
      <4> QED
        BY <1>5, <3>2, <3>4, <4>1, <4>2 DEF Settles
    <3> QED
      BY <3>1, <3>3, <3>4
  <2> QED
    BY <1>1, <1>5, <2>1, <2>2, <2>4, <2>5 DEF AInv
<1>6. CASE Silence
  BY <1>5, <1>6 DEF Silence
<1>7. CASE Collide
  BY <1>5, <1>7 DEF Collide
<1>8. CASE NineIn \/ BadBits
  BY <1>4, <1>8 DEF NineIn, BadBits
<1>9. CASE ReplyEnd
  BY <1>5, <1>9 DEF ReplyEnd
<1> QED
  BY <1>2, <1>6, <1>7, <1>8, <1>9 DEF Chip

(* Each step keeps this.                                                   *)
LEMMA NextAwaited ==
  ASSUME TypeOK, AInv, [Next]_vars
  PROVE  AInv'
<1> USE DEF findVars, tagitVars, chipVars, irqVars, historyVars
<1>1. CASE (\E t \in Timers : Expire(t)) \/ OtherPost \/ OtherTake
  BY <1>1 DEF AInv, Expire, OtherPost, OtherTake
<1>2. CASE Find
  <2>1. CASE FindIgnore \/ FindHalf \/ FindAsk
    BY <2>1 DEF AInv, FindIgnore, FindHalf, FindAsk
  <2>2. CASE FindDone
    <3>1. ~missed => status = {}
      BY <2>2 DEF AInv, FindDone, FindEvent, MainLoop, CpuFree
    <3> QED
      BY <2>2, <3>1 DEF AInv, FindDone
  <2> QED
    BY <1>2, <2>1, <2>2 DEF Find
<1>3. CASE Tagit
  <2>1. CASE TagitIgnore
    BY <2>1 DEF AInv, TagitIgnore
  <2>2. CASE Begin
    BY <2>2 DEF AInv, Begin, TagitEvent
  <2>3. CASE TxTest \/ SlotTest
    BY <2>3 DEF AInv, TxTest, SlotTest, Test, CpuFree
  <2>4. CASE TxWake \/ SlotWake
    BY <2>4 DEF AInv, TxWake, SlotWake, Wake, TagitEvent, MainLoop, CpuFree
  <2>5. CASE FirstSlot \/ NextSlot
    BY <2>5 DEF AInv, FirstSlot, NextSlot, Arm, CpuFree
  <2>6. CASE SlotDone
    BY <2>6 DEF AInv, SlotDone, CpuFree
  <2>7. CASE Finish
    BY <2>7 DEF AInv, Finish, CpuFree
  <2> QED
    BY <1>3, <2>1, <2>2, <2>3, <2>4, <2>5, <2>6, <2>7 DEF Tagit
<1>4. CASE IsrRead
  <2>1. Register' = status /\ status' = {} /\ isr' /\ flag /\ ~flag' /\ ie
    BY <1>4 DEF IsrRead
  <2>2. UNCHANGED <<tpc, job, i_reg, ie, missed>>
    BY <1>4 DEF IsrRead
  <2>3. \A s : Heard(s) => Settles(s, {})
    BY DEF Settles
  <2>4. Heard({})
    BY DEF Heard, Goes
  <2> QED
    BY <2>1, <2>2, <2>3, <2>4 DEF AInv
<1>5. CASE IsrHandle
  <2>1. Handle /\ isr /\ ~isr' /\ UNCHANGED <<tpc, job, ie, missed>>
    BY <1>5 DEF IsrHandle
  <2>2. ~missed => (flag' <=> status' # {}) /\ (status' = {} \/ UNCHANGED <<status, flag>>)
    BY <2>1, HandleStatus DEF AInv
  <2>3. ~missed /\ job = "none" => i_reg' # "busy" \/ (status # {} /\ UNCHANGED <<status, flag>>)
    BY <2>1, HandleConcludes DEF AInv
  <2>4. Heard({})
    BY DEF Heard, Goes
  <2> QED
    BY <2>1, <2>2, <2>3, <2>4 DEF AInv
<1>6. CASE Chip
  BY <1>6, RaiseAwaited
<1>7. CASE UNCHANGED vars
  BY <1>7 DEF vars, AInv
<1> QED
  BY <1>1, <1>2, <1>3, <1>4, <1>5, <1>6, <1>7 DEF Next, Isr

(* A thread that waits for i_reg to change waits for a chip at work or for *)
(* an interrupt that will be taken, unless a report came that              *)
(* tagit_inventory_request() and InterruptHandlerReader() do not provide   *)
(* for; for any number of slots, the chip reporting at any time.           *)
THEOREM AlwaysAwaited == Spec => []Awaited
<1>1. Init => AInv
  <2>1. Heard({})
    BY DEF Heard, Goes
  <2> QED
    BY <2>1 DEF Init, AInv
<1>2. TypeOK /\ AInv /\ [Next]_vars => AInv'
  BY NextAwaited
<1>3. AInv => Awaited
  BY DEF AInv, Awaited
<1> QED
  BY <1>1, <1>2, <1>3, TypeCorrect, PTL DEF Spec
=============================================================================
