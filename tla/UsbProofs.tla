----------------------------- MODULE UsbProofs -----------------------------
(***************************************************************************)
(* What is proved of the serial line (modules UsbCdc and UsbConsole), for  *)
(* any packet sizes and any texts: what goes through the two buffers of    *)
(* each direction is neither lost, repeated nor put out of order, a read   *)
(* gets all it asks for, and the parts of the command line are printed     *)
(* whole.                                                                  *)
(***************************************************************************)
EXTENDS UsbConsole, SequenceTheorems, TLAPS

(* The first n of a sequence, and the rest.                                *)
LEMMA TakeAndDrop ==
  ASSUME NEW S, NEW s \in Seq(S), NEW n \in Nat
  PROVE  /\ First(s, n) \in Seq(S)
         /\ Len(First(s, n)) = Least(Len(s), n)
         /\ \A i \in 1 .. Least(Len(s), n) : First(s, n)[i] = s[i]
         /\ After(s, n) \in Seq(S)
         /\ Len(After(s, n)) = IF n <= Len(s) THEN Len(s) - n ELSE 0
         /\ \A i \in 1 .. Len(s) - n : After(s, n)[i] = s[n + i]
<1>0. Len(s) \in Nat /\ \A i \in 1 .. Len(s) : s[i] \in S
  OBVIOUS
<1>1. Least(Len(s), n) \in 0 .. Len(s)
  BY <1>0 DEF Least
<1>2. \A i \in 1 .. Least(Len(s), n) : s[i] \in S
  BY <1>0, <1>1
<1>3. /\ First(s, n) \in Seq(S)
      /\ Len(First(s, n)) = Least(Len(s), n)
      /\ \A i \in 1 .. Least(Len(s), n) : First(s, n)[i] = s[i]
  <2> DEFINE m == Least(Len(s), n)
  <2>1. m \in Nat /\ 1 \in Int /\ \A i \in 1 .. m : s[i] \in S
    BY <1>1, <1>2
  <2> HIDE DEF m
  <2>2. /\ SubSeq(s, 1, m) \in Seq(S)
        /\ Len(SubSeq(s, 1, m)) = IF 1 <= m THEN m - 1 + 1 ELSE 0
        /\ \A i \in 1 .. m - 1 + 1 : SubSeq(s, 1, m)[i] = s[1 + i - 1]
    BY <2>1, SubSeqProperties
  <2>3. Len(SubSeq(s, 1, m)) = m /\ \A i \in 1 .. m : SubSeq(s, 1, m)[i] = s[i]
    BY <2>1, <2>2
  <2> QED
    BY <2>2, <2>3 DEF First, m
<1>4. \A i \in n + 1 .. Len(s) : s[i] \in S
  BY <1>0
<1>5. /\ After(s, n) \in Seq(S)
      /\ Len(After(s, n)) = IF n + 1 <= Len(s) THEN Len(s) - (n + 1) + 1 ELSE 0
      /\ \A i \in 1 .. Len(s) - (n + 1) + 1 : After(s, n)[i] = s[n + 1 + i - 1]
  BY <1>0, <1>4, SubSeqProperties DEF After
<1>6. /\ Len(After(s, n)) = IF n <= Len(s) THEN Len(s) - n ELSE 0
      /\ \A i \in 1 .. Len(s) - n : After(s, n)[i] = s[n + i]
  BY <1>0, <1>5
<1> QED
  BY <1>3, <1>5, <1>6

(* What is left when no more is taken than there is.                       *)
LEMMA Rest ==
  ASSUME NEW S, NEW s \in Seq(S), NEW n \in 0 .. Len(s)
  PROVE  /\ After(s, n) \in Seq(S)
         /\ Len(After(s, n)) = Len(s) - n
         /\ \A i \in 1 .. Len(s) - n : After(s, n)[i] = s[n + i]
<1>1. Len(s) \in Nat /\ n \in Nat /\ n <= Len(s)
  OBVIOUS
<1>2. /\ After(s, n) \in Seq(S)
      /\ Len(After(s, n)) = IF n <= Len(s) THEN Len(s) - n ELSE 0
      /\ \A i \in 1 .. Len(s) - n : After(s, n)[i] = s[n + i]
  BY <1>1, TakeAndDrop
<1> QED
  BY <1>1, <1>2
-----------------------------------------------------------------------------
(* Input: the buffer read from comes first, and holds what follows what    *)
(* was received; the host fills the other next, unless it holds something  *)
(* too.                                                                    *)
InType ==
  /\ outbuf \in [Buffers -> Seq(Byte)]
  /\ outHost \in Buffers /\ outCur \in Buffers
  /\ typed \in 0 .. MaxTyped /\ seen \in 0 .. typed
  /\ want \in Nat

Holds(cur, oth, from, to) ==
  /\ Len(cur) + Len(oth) = to - from
  /\ \A i \in 1 .. Len(cur) : cur[i].id = from + i
  /\ \A i \in 1 .. Len(oth) : oth[i].id = from + Len(cur) + i
  /\ oth # <<>> => cur # <<>>

Turn(cur, oth, x) == IF cur # <<>> /\ oth = <<>> THEN 1 - x ELSE x

InInv ==
  /\ InType
  /\ Holds(outbuf[outCur], outbuf[1 - outCur], seen, typed)
  /\ outHost = Turn(outbuf[outCur], outbuf[1 - outCur], outCur)
  /\ pc = "receive" /\ bus = "up" => want > 0 /\ want <= typed - seen

(* What a step may do to the input.                                        *)
LEMMA InputStep ==
  ASSUME [Next]_vars, want \in Nat
  PROVE  \/ UNCHANGED outVars
         \/ HostSends /\ UNCHANGED conVars
         \/ USB_reset /\ UNCHANGED conVars
         \/ /\ pc = "receive" /\ bus = "up" /\ pc' # "receive" /\ want' = 0
            /\ USBCDC_receiveData(want) /\ UNCHANGED <<outHost, typed>>
<1>1. CASE Main
  <2>1. CASE Receive
    BY <2>1 DEF Receive, outVars
  <2> QED
    BY <1>1, <2>1 DEF Main, PollStart, Count, CountDone, Send, PollDone, ClientContinue,
       ClientPrint, TagPrint, Put, PrintSend, cdcVars, outVars
<1>2. CASE (Host \/ Isr \/ BusBack) /\ UNCHANGED conVars
  BY <1>2 DEF Host, HostCollects, USB_suspend, Isr, IsrOut, IsrIn, BusBack, BusUp, outVars
<1>3. CASE UNCHANGED vars
  BY <1>3 DEF vars, cdcVars
<1> QED
  BY <1>1, <1>2, <1>3 DEF Next

(* A packet goes into the buffer that is read next, or into the other one. *)
LEMMA HostSendsKeeps ==
  ASSUME InInv, HostSends, UNCHANGED conVars
  PROVE  InInv'
<1> DEFINE A == outbuf[outCur]
           B == outbuf[1 - outCur]
<1>0. /\ outCur \in {0, 1} /\ outHost \in {0, 1} /\ outbuf \in [{0, 1} -> Seq(Byte)]
      /\ typed \in Nat /\ typed <= MaxTyped /\ seen \in Nat /\ seen <= typed
      /\ Holds(A, B, seen, typed) /\ outHost = Turn(A, B, outCur)
      /\ A \in Seq(Byte) /\ B \in Seq(Byte) /\ Len(A) \in Nat /\ Len(B) \in Nat
      /\ MaxTyped \in Nat /\ OutMax \in Nat
  BY SizesAssumption DEF InInv, InType, Buffers
<1>1. PICK n \in 1 .. Least(OutMax, MaxTyped - typed), cr \in BOOLEAN :
        /\ outbuf' = [outbuf EXCEPT ![outHost] =
                       [i \in 1 .. n |-> [id |-> typed + i, cr |-> cr /\ i = n]]]
        /\ typed' = typed + n
  BY DEF HostSends
<1> DEFINE new == [i \in 1 .. n |-> [id |-> typed + i, cr |-> cr /\ i = n]]
<1>2. n \in Nat \ {0} /\ typed + n <= MaxTyped
  BY <1>0, <1>1 DEF Least
<1>3. new \in Seq(Byte) /\ Len(new) = n /\ \A i \in 1 .. n : new[i].id = typed + i
  <2>1. \A i \in 1 .. n : [id |-> typed + i, cr |-> cr /\ i = n] \in Byte
    BY <1>0, <1>2 DEF Byte
  <2>2. new \in [1 .. n -> Byte]
    BY <2>1
  <2>3. new \in Seq(Byte)
    BY <1>2, <2>2
  <2> QED
    BY <1>2, <2>2, <2>3
<1>4. outHost' = 1 - outHost /\ outCur' = outCur /\ seen' = seen /\ outbuf[outHost] = <<>>
  BY DEF HostSends
<1> HIDE DEF new
<1>5. outbuf' = [outbuf EXCEPT ![outHost] = new]
  BY <1>1 DEF new
<1>6. InType'
  <2>1. outbuf' \in [{0, 1} -> Seq(Byte)]
    BY <1>0, <1>3, <1>5
  <2>2. outHost' \in {0, 1} /\ outCur' \in {0, 1}
    BY <1>0, <1>4
  <2>3. typed' \in 0 .. MaxTyped /\ seen' \in 0 .. typed'
    BY <1>0, <1>1, <1>2, <1>4
  <2>4. want' \in Nat
    BY DEF InInv, InType, conVars
  <2> QED
    BY <2>1, <2>2, <2>3, <2>4 DEF InType, Buffers
<1>7. Holds(outbuf'[outCur'], outbuf'[1 - outCur'], seen', typed')
      /\ outHost' = Turn(outbuf'[outCur'], outbuf'[1 - outCur'], outCur')
  <2>1. CASE outHost = outCur
    <3>1. A = <<>> /\ B = <<>>
      BY <1>0, <1>4, <2>1 DEF Holds
    <3>2. outbuf'[outCur'] = new /\ outbuf'[1 - outCur'] = <<>>
      BY <1>0, <1>4, <1>5, <2>1, <3>1
    <3>3. seen = typed
      BY <1>0, <3>1 DEF Holds
    <3>4. Holds(new, <<>>, seen', typed') /\ outHost' = Turn(new, <<>>, outCur')
      BY <1>0, <1>1, <1>2, <1>3, <1>4, <2>1, <3>3 DEF Holds, Turn
    <3> QED
      BY <3>2, <3>4
  <2>2. CASE outHost # outCur
    <3>1. A # <<>> /\ B = <<>> /\ outHost = 1 - outCur
      BY <1>0, <2>2 DEF Turn
    <3>2. outbuf'[outCur'] = A /\ outbuf'[1 - outCur'] = new
      BY <1>0, <1>4, <1>5, <2>2, <3>1
    <3>3. Len(A) = typed - seen
      BY <1>0, <3>1 DEF Holds
    <3> HIDE DEF A, B
    <3>4. \A i \in 1 .. Len(A) : A[i].id = seen' + i
      BY <1>0, <1>4 DEF Holds
    <3>5. \A i \in 1 .. Len(new) : new[i].id = seen' + Len(A) + i
      <4>1. ASSUME NEW i \in 1 .. n PROVE typed + i = seen + Len(A) + i
        BY <1>0, <1>2, <3>3
      <4> QED
        BY <1>3, <1>4, <4>1
    <3>6. Len(A) + Len(new) = typed' - seen'
      BY <1>0, <1>1, <1>2, <1>3, <1>4, <3>3, SMTT(20)
    <3>7. new # <<>>
      BY <1>2, <1>3
    <3>8. outHost' = Turn(A, new, outCur')
      BY <1>0, <1>4, <3>1, <3>7 DEF Turn
    <3>9. Holds(A, new, seen', typed')
      BY <3>1, <3>4, <3>5, <3>6 DEF Holds
    <3> QED
      BY <3>2, <3>8, <3>9
  <2> QED
    BY <2>1, <2>2
<1>8. pc' = pc /\ bus' = bus /\ want' = want
  BY DEF HostSends, conVars
<1>9. typed' - seen' >= typed - seen /\ want \in Nat
  BY <1>0, <1>1, <1>2, <1>4 DEF InInv, InType
<1>10. pc' = "receive" /\ bus' = "up" => want' > 0 /\ want' <= typed' - seen'
  <2>1. pc = "receive" /\ bus = "up" => want > 0 /\ want <= typed - seen
    BY DEF InInv
  <2>2. typed' - seen' \in Int /\ typed - seen \in Int
    BY <1>0, <1>1, <1>2, <1>4
  <2> QED
    BY <1>8, <1>9, <2>1, <2>2
<1> QED
  BY <1>6, <1>7, <1>10 DEF InInv

(* What a read takes from either buffer: all it asks for.                  *)
LEMMA WhatIsTaken ==
  ASSUME InInv, want > 0, want <= typed - seen
  PROVE  LET A == outbuf[outCur]
             B == outbuf[1 - outCur]
         IN  /\ FromCurrent(want) \in 1 .. Len(A) /\ FromOther(want) \in 0 .. Len(B)
             /\ FromCurrent(want) + FromOther(want) = want
             /\ UsedUp(want) <=> FromCurrent(want) = Len(A)
             /\ FromOther(want) > 0 => FromCurrent(want) = Len(A)
<1> DEFINE A == outbuf[outCur]
           B == outbuf[1 - outCur]
<1>1. /\ A \in Seq(Byte) /\ B \in Seq(Byte) /\ want \in Nat
      /\ typed \in Nat /\ seen \in Nat /\ Holds(A, B, seen, typed)
  BY SizesAssumption DEF InInv, InType, Buffers
<1>2. Len(A) \in Nat /\ Len(B) \in Nat /\ (A = <<>> <=> Len(A) = 0) /\ (B = <<>> <=> Len(B) = 0)
  BY <1>1
<1>4. FromCurrent(want) = Least(want, Len(A))
  BY DEF FromCurrent
<1>5. FromOther(want) = IF UsedUp(want) THEN Least(want - FromCurrent(want), Len(B)) ELSE 0
  BY DEF FromOther
<1>6. UsedUp(want) <=> FromCurrent(want) > 0 /\ FromCurrent(want) = Len(A)
  BY DEF UsedUp
<1> HIDE DEF A, B
<1>3. Len(A) + Len(B) = typed - seen /\ Len(A) > 0
  <2>1. Len(A) + Len(B) = typed - seen /\ (B # <<>> => A # <<>>)
    BY <1>1 DEF Holds
  <2> QED
    BY <1>1, <1>2, <2>1
<1> DEFINE Fits == /\ FromCurrent(want) \in 1 .. Len(A) /\ FromOther(want) \in 0 .. Len(B)
                   /\ FromCurrent(want) + FromOther(want) = want
                   /\ UsedUp(want) <=> FromCurrent(want) = Len(A)
                   /\ FromOther(want) > 0 => FromCurrent(want) = Len(A)
<1>7. ASSUME want < Len(A) PROVE Fits
  <2>1. FromCurrent(want) = want /\ ~UsedUp(want)
    BY <1>1, <1>2, <1>4, <1>6, <1>7 DEF Least
  <2> QED
    BY <1>1, <1>2, <1>3, <1>5, <1>6, <1>7, <2>1
<1>8. ASSUME ~(want < Len(A)) PROVE Fits
  <2>1. FromCurrent(want) = Len(A) /\ UsedUp(want)
    BY <1>1, <1>2, <1>3, <1>4, <1>6, <1>8 DEF Least
  <2>2. FromOther(want) = want - Len(A)
    BY <1>1, <1>2, <1>3, <1>5, <1>8, <2>1 DEF Least
  <2> QED
    BY <1>1, <1>2, <1>3, <1>6, <1>8, <2>1, <2>2
<1> QED
  BY <1>7, <1>8 DEF A, B

(* A read empties one buffer, or that and a part of the other.             *)
LEMMA ReadKeeps ==
  ASSUME InInv, pc = "receive", bus = "up", USBCDC_receiveData(want),
         UNCHANGED <<outHost, typed>>, pc' # "receive", want' \in Nat
  PROVE  InInv'
<1> DEFINE A == outbuf[outCur]
           B == outbuf[1 - outCur]
           a == FromCurrent(want)
           b == FromOther(want)
<1>1. /\ A \in Seq(Byte) /\ B \in Seq(Byte) /\ outCur \in {0, 1} /\ outHost \in {0, 1}
      /\ typed \in Nat /\ typed <= MaxTyped /\ seen \in Nat /\ seen <= typed
      /\ Holds(A, B, seen, typed) /\ outHost = Turn(A, B, outCur) /\ want \in Nat
      /\ want > 0 /\ want <= typed - seen
  BY SizesAssumption DEF InInv, InType, Buffers
<1>2. /\ a \in 1 .. Len(A) /\ b \in 0 .. Len(B) /\ a + b = want
      /\ UsedUp(want) <=> a = Len(A)
      /\ b > 0 => a = Len(A)
  BY <1>1, WhatIsTaken
<1>3. /\ outbuf' = [x \in Buffers |-> IF x = outCur THEN After(outbuf[x], a) ELSE After(outbuf[x], b)]
      /\ outCur' = IF UsedUp(want) /\ (b = 0 \/ b < Len(B)) THEN 1 - outCur ELSE outCur
      /\ seen' = seen + a + b
  BY DEF USBCDC_receiveData
<1> HIDE DEF a, b
<1>4. /\ Len(A) \in Nat /\ Len(B) \in Nat /\ (A = <<>> <=> Len(A) = 0) /\ (B = <<>> <=> Len(B) = 0)
      /\ a \in Nat /\ b \in Nat
  BY <1>1, <1>2
<1> DEFINE rA == After(A, a)
           rB == After(B, b)
<1>5. /\ rA \in Seq(Byte) /\ Len(rA) = Len(A) - a /\ \A i \in 1 .. Len(A) - a : rA[i] = A[a + i]
      /\ rB \in Seq(Byte) /\ Len(rB) = Len(B) - b /\ \A i \in 1 .. Len(B) - b : rB[i] = B[b + i]
  <2> HIDE DEF A, B
  <2>1. /\ rA \in Seq(Byte) /\ Len(rA) = Len(A) - a
        /\ \A i \in 1 .. Len(A) - a : rA[i] = A[a + i]
    <3>1. A \in Seq(Byte) /\ a \in 0 .. Len(A)
      BY <1>1, <1>2, <1>4
    <3> QED
      BY <3>1, Rest
  <2>2. /\ rB \in Seq(Byte) /\ Len(rB) = Len(B) - b
        /\ \A i \in 1 .. Len(B) - b : rB[i] = B[b + i]
    <3>1. B \in Seq(Byte) /\ b \in 0 .. Len(B)
      BY <1>1, <1>2, <1>4
    <3> QED
      BY <3>1, Rest
  <2> QED
    BY <2>1, <2>2
<1>6. outbuf'[outCur] = rA /\ outbuf'[1 - outCur] = rB
  BY <1>1, <1>3 DEF Buffers
<1> HIDE DEF rA, rB
<1>7. outbuf' \in [{0, 1} -> Seq(Byte)]
  BY <1>1, <1>3, <1>5, <1>6, SMTT(20) DEF Buffers
<1>8. /\ \A i \in 1 .. Len(A) : A[i].id = seen + i
      /\ \A i \in 1 .. Len(B) : B[i].id = seen + Len(A) + i
      /\ Len(A) + Len(B) = typed - seen
  BY <1>1 DEF Holds
<1>9. /\ rA = <<>> <=> Len(rA) = 0
      /\ rB = <<>> <=> Len(rB) = 0
  BY <1>5
<1> HIDE DEF A, B
<1>10. Holds(outbuf'[outCur'], outbuf'[1 - outCur'], seen', typed')
       /\ outHost' = Turn(outbuf'[outCur'], outbuf'[1 - outCur'], outCur')
  <2>1. CASE a # Len(A)
    <3>1. outCur' = outCur /\ b = 0
      BY <1>2, <1>3, <1>4, <2>1
    <3>2. \A i \in 1 .. Len(rA) : rA[i].id = seen' + i
      <4> SUFFICES ASSUME NEW i \in 1 .. Len(rA) PROVE rA[i].id = seen' + i
        OBVIOUS
      <4>1. rA[i] = A[a + i] /\ a + i \in 1 .. Len(A)
        BY <1>4, <1>5
      <4> QED
        BY <1>1, <1>3, <1>4, <1>8, <3>1, <4>1
    <3>3. \A i \in 1 .. Len(rB) : rB[i].id = seen' + Len(rA) + i
      <4> SUFFICES ASSUME NEW i \in 1 .. Len(rB) PROVE rB[i].id = seen' + Len(rA) + i
        OBVIOUS
      <4>1. rB[i] = B[i] /\ i \in 1 .. Len(B)
        BY <1>4, <1>5, <3>1
      <4> QED
        BY <1>1, <1>3, <1>4, <1>5, <1>8, <3>1, <4>1
    <3>4. Len(rA) + Len(rB) = typed' - seen' /\ rA # <<>>
      BY <1>1, <1>2, <1>3, <1>4, <1>5, <1>8, <1>9, <2>1, <3>1
    <3>5. rB = <<>> <=> B = <<>>
      BY <1>4, <1>5, <1>9, <3>1
    <3>6. A # <<>>
      BY <1>2, <1>4
    <3> QED
      BY <1>1, <1>6, <3>1, <3>2, <3>3, <3>4, <3>5, <3>6 DEF Holds, Turn
  <2>2. CASE a = Len(A) /\ (b = 0 \/ b < Len(B))
    <3>1. outCur' = 1 - outCur /\ rA = <<>> /\ outCur = 1 - outCur'
      BY <1>1, <1>2, <1>3, <1>4, <1>5, <1>9, <2>2
    <3>2. \A i \in 1 .. Len(rB) : rB[i].id = seen' + i
      <4> SUFFICES ASSUME NEW i \in 1 .. Len(rB) PROVE rB[i].id = seen' + i
        OBVIOUS
      <4>1. rB[i] = B[b + i] /\ b + i \in 1 .. Len(B)
        BY <1>4, <1>5
      <4>2. B[b + i].id = seen + Len(A) + (b + i)
        BY <1>8, <4>1
      <4>3. seen' = seen + Len(A) + b
        BY <1>3, <2>2
      <4> QED
        BY <1>1, <1>4, <4>1, <4>2, <4>3, SMTT(20)
    <3>3. Len(rB) + Len(rA) = typed' - seen'
      BY <1>1, <1>3, <1>4, <1>5, <1>8, <2>2
    <3>4. Holds(rB, rA, seen', typed')
      <4>1. Len(rA) = 0
        BY <1>9, <3>1
      <4> QED
        BY <3>1, <3>2, <3>3, <4>1 DEF Holds
    <3>5. outHost' = Turn(rB, rA, outCur')
      <4>1. rB = <<>> <=> B = <<>>
        BY <1>4, <1>5, <1>9, <2>2
      <4>2. A # <<>>
        BY <1>2, <1>4
      <4> QED
        BY <1>1, <3>1, <4>1, <4>2 DEF Turn
    <3> QED
      BY <1>6, <3>1, <3>4, <3>5
  <2>3. CASE a = Len(A) /\ ~(b = 0 \/ b < Len(B))
    <3>1. outCur' = outCur /\ b = Len(B) /\ B # <<>>
      BY <1>2, <1>3, <1>4, <2>3
    <3>2. rA = <<>> /\ rB = <<>> /\ Len(rA) = 0 /\ Len(rB) = 0
      BY <1>4, <1>5, <1>9, <2>3, <3>1
    <3>3. typed' = typed /\ seen' = typed
      BY <1>1, <1>3, <1>4, <1>8, <2>3, <3>1
    <3>4. seen' \in Nat /\ outHost' = outCur
      BY <1>1, <1>3, <1>4, <3>1 DEF Turn
    <3>5. Holds(rA, rB, seen', typed')
      <4>1. Len(rA) + Len(rB) = typed' - seen'
        <5>1. Len(rA) = 0 /\ Len(rB) = 0
          BY <3>2
        <5>2. typed' - seen' = 0
          BY <1>1, <3>3
        <5> QED
          BY <5>1, <5>2
      <4>2. 1 .. Len(rA) = {} /\ 1 .. Len(rB) = {}
        BY <3>2
      <4> QED
        BY <3>2, <4>1, <4>2 DEF Holds
    <3> QED
      BY <1>6, <3>1, <3>2, <3>4, <3>5 DEF Turn
  <2> QED
    BY <2>1, <2>2, <2>3
<1>11. /\ outCur' \in {0, 1} /\ outHost' \in {0, 1} /\ typed' \in 0 .. MaxTyped
       /\ seen' \in 0 .. typed'
  BY <1>1, <1>2, <1>3, <1>4
<1> QED
  BY <1>7, <1>10, <1>11 DEF InInv, InType, Buffers

(* A reset of the bus gives up what waits.                                 *)
LEMMA ResetKeeps ==
  ASSUME InInv, USB_reset, UNCHANGED conVars
  PROVE  InInv'
<1>1. /\ outbuf' = Empty /\ outHost' = 0 /\ outCur' = 0 /\ seen' = typed /\ typed' = typed
      /\ bus' = "down" /\ want' = want
  BY DEF USB_reset, conVars
<1>2. typed \in 0 .. MaxTyped /\ typed \in Nat /\ want \in Nat
  BY SizesAssumption DEF InInv, InType
<1>3. outbuf' \in [{0, 1} -> Seq(Byte)] /\ outbuf'[0] = <<>> /\ outbuf'[1] = <<>>
  BY <1>1 DEF Empty, Buffers
<1>4. Holds(outbuf'[outCur'], outbuf'[1 - outCur'], seen', typed')
  <2>1. Len(outbuf'[0]) = 0 /\ Len(outbuf'[1]) = 0
    BY <1>3
  <2>2. 1 .. Len(outbuf'[0]) = {} /\ 1 .. Len(outbuf'[1]) = {}
    BY <2>1
  <2>3. 0 + 0 = typed - typed
    BY <1>2
  <2> QED
    BY <1>1, <1>3, <2>1, <2>2, <2>3 DEF Holds
<1>5. outHost' = Turn(outbuf'[outCur'], outbuf'[1 - outCur'], outCur')
  BY <1>1, <1>3 DEF Turn
<1> QED
  BY <1>1, <1>2, <1>3, <1>4, <1>5 DEF InInv, InType, Buffers

(* Of what else the loop and the interrupt do, only the count of the       *)
(* console's loop matters: it asks for what is there.                      *)
LEMMA OthersKeep ==
  ASSUME InInv, [Next]_vars, UNCHANGED outVars
  PROVE  InInv'
<1>1. /\ outbuf' = outbuf /\ outHost' = outHost /\ outCur' = outCur /\ typed' = typed /\ seen' = seen
  BY DEF outVars
<1>2. ASSUME pc' = pc, want' = want, (bus' = bus \/ pc # "receive" \/ bus' # "up")
      PROVE  InInv'
  BY <1>1, <1>2 DEF InInv, InType
<1>3. ASSUME pc' # "receive", want' \in Nat
      PROVE  InInv'
  BY <1>1, <1>3 DEF InInv, InType
<1>4. want \in Nat
  BY DEF InInv, InType
<1>5. CASE Count
  <2>1. /\ (want' = Len(outbuf[0]) + Len(outbuf[1]) /\ want' > 0) \/ (bus # "up" /\ want' = 0)
        /\ want' = USBCDC_bytesInUSBBuffer /\ bus' = bus
    BY <1>5 DEF Count, More, USBCDC_bytesInUSBBuffer, cdcVars
  <2>2. Len(outbuf[0]) + Len(outbuf[1]) = typed - seen
    <3>1. /\ typed \in Int /\ seen \in Int
          /\ outCur \in {0, 1} /\ Len(outbuf[0]) \in Nat /\ Len(outbuf[1]) \in Nat
          /\ Holds(outbuf[outCur], outbuf[1 - outCur], seen, typed)
      BY SizesAssumption DEF InInv, InType, Buffers
    <3>2. Len(outbuf[outCur]) + Len(outbuf[1 - outCur]) = typed - seen
      BY <3>1 DEF Holds
    <3>3. \/ outbuf[outCur] = outbuf[0] /\ outbuf[1 - outCur] = outbuf[1]
          \/ outbuf[outCur] = outbuf[1] /\ outbuf[1 - outCur] = outbuf[0]
      BY <3>1
    <3> DEFINE x == Len(outbuf[0])
               y == Len(outbuf[1])
               p == Len(outbuf[outCur])
               q == Len(outbuf[1 - outCur])
    <3>4. (p = x /\ q = y) \/ (p = y /\ q = x)
      BY <3>3
    <3>5. p + q = typed - seen /\ x \in Nat /\ y \in Nat
      BY <3>1, <3>2
    <3> HIDE DEF x, y, p, q
    <3>6. x + y = p + q
      BY <3>4, <3>5
    <3> QED
      BY <3>5, <3>6 DEF x, y
  <2> DEFINE total == Len(outbuf[0]) + Len(outbuf[1])
  <2>3. typed \in Int /\ seen \in Int /\ Len(outbuf[0]) + Len(outbuf[1]) \in Nat
    BY SizesAssumption DEF InInv, InType, Buffers
  <2>4. want' \in Nat /\ (bus = "up" => want' > 0 /\ want' <= typed - seen)
    <3>1. total = typed - seen /\ total \in Nat
      BY <2>2, <2>3
    <3>2. (want' = total /\ want' > 0) \/ (bus # "up" /\ want' = 0)
      BY <2>1
    <3> HIDE DEF total
    <3>3. want' \in Nat /\ (bus = "up" => want' > 0 /\ want' <= total)
      BY <3>1, <3>2
    <3> QED
      BY <3>1, <3>3
  <2> QED
    BY <1>1, <2>1, <2>4 DEF InInv, InType
<1>6. CASE Receive
  BY <1>3, <1>6 DEF Receive
<1>7. CASE PollStart \/ CountDone \/ PollDone \/ ClientPrint \/ TagPrint \/ PrintSend
  BY <1>3, <1>4, <1>7 DEF PollStart, CountDone, PollDone, ClientPrint, TagPrint, Put, PrintSend
<1>8. CASE Send \/ ClientContinue
  BY <1>2, <1>8 DEF Send, ClientContinue
<1>9. CASE (Host \/ Isr \/ BusBack) /\ UNCHANGED conVars
  <2>1. pc' = pc /\ want' = want
    BY <1>9 DEF conVars
  <2>2. bus' = bus \/ pc # "receive" \/ bus' # "up"
    BY <1>9 DEF Host, HostSends, HostCollects, USB_suspend, USB_reset, Isr, IsrOut, IsrIn, BusBack
  <2> QED
    BY <1>2, <2>1, <2>2
<1>10. CASE UNCHANGED vars
  BY <1>2, <1>10 DEF vars, cdcVars, conVars
<1> QED
  BY <1>5, <1>6, <1>7, <1>8, <1>9, <1>10 DEF Next, Main

(* The input is as InInv says in every state.                              *)
LEMMA InputInvariance == Spec => []InInv
<1>1. Init => InInv
  <2> SUFFICES ASSUME Init PROVE InInv
    OBVIOUS
  <2>1. /\ outbuf = Empty /\ outHost = 0 /\ outCur = 0 /\ seen = 0 /\ typed = 0 /\ want = 0 /\ pc = "idle"
    BY DEF Init, CdcInit
  <2>2. outbuf \in [{0, 1} -> Seq(Byte)] /\ outbuf[0] = <<>> /\ outbuf[1] = <<>>
    BY <2>1 DEF Empty, Buffers
  <2>3. Len(outbuf[0]) = 0 /\ Len(outbuf[1]) = 0
    BY <2>2
  <2>4. 1 .. Len(outbuf[0]) = {} /\ 1 .. Len(outbuf[1]) = {} /\ 0 + 0 = 0 - 0
    BY <2>3
  <2>5. Holds(outbuf[outCur], outbuf[1 - outCur], seen, typed)
    BY <2>1, <2>2, <2>3, <2>4 DEF Holds
  <2>6. outHost = Turn(outbuf[outCur], outbuf[1 - outCur], outCur)
    BY <2>1, <2>2 DEF Turn
  <2> QED
    BY SizesAssumption, <2>1, <2>2, <2>5, <2>6 DEF InInv, InType, Buffers
<1>2. InInv /\ [Next]_vars => InInv'
  <2> SUFFICES ASSUME InInv, [Next]_vars PROVE InInv'
    OBVIOUS
  <2>1. want \in Nat
    BY DEF InInv, InType
  <2> QED
    BY <2>1, InputStep, HostSendsKeeps, ReadKeeps, ResetKeeps, OthersKeep
<1> QED
  BY <1>1, <1>2, PTL DEF Spec

(* The host's bytes wait in the two buffers, all of them and in order,     *)
(* where the reader comes to them (USBCDC_receiveData(), whichever buffers *)
(* the packets were put in).                                               *)
THEOREM InputIsWhole == Spec => []InputWhole
<1>1. InInv => InputWhole
  <2> SUFFICES ASSUME InInv PROVE InputWhole
    OBVIOUS
  <2> DEFINE A == outbuf[outCur]
             B == outbuf[1 - outCur]
  <2>1. /\ A \in Seq(Byte) /\ B \in Seq(Byte) /\ Holds(A, B, seen, typed) /\ seen \in Int /\ typed \in Int
    BY SizesAssumption DEF InInv, InType, Buffers
  <2>2. Unread = A \o B
    BY DEF Unread
  <2> HIDE DEF A, B
  <2>3. /\ Unread \in Seq(Byte) /\ Len(Unread) = Len(A) + Len(B) /\ Len(A) \in Nat /\ Len(B) \in Nat
        /\ \A i \in 1 .. Len(A) + Len(B) : Unread[i] = IF i <= Len(A) THEN A[i] ELSE B[i - Len(A)]
    BY <2>1, <2>2, ConcatProperties
  <2>4. Len(Unread) = typed - seen
    BY <2>1, <2>3 DEF Holds
  <2>5. ASSUME NEW i \in 1 .. Len(Unread) PROVE Unread[i].id = seen + i
    <3>1. CASE i <= Len(A)
      BY <2>1, <2>3, <3>1 DEF Holds
    <3>2. CASE i > Len(A)
      <4> DEFINE j == i - Len(A)
      <4>1. j \in 1 .. Len(B) /\ Unread[i] = B[j] /\ i = Len(A) + j
        BY <2>3, <3>2
      <4> HIDE DEF j
      <4>2. B[j].id = seen + Len(A) + j
        BY <2>1, <4>1 DEF Holds
      <4> QED
        BY <2>1, <2>3, <4>1, <4>2
    <3> QED
      BY <2>3, <3>1, <3>2
  <2>6. Unread # <<>> => A # <<>>
    <3>1. Unread # <<>> => Len(A) > 0 \/ Len(B) > 0
      BY <2>3
    <3>2. (Len(A) > 0 => A # <<>>) /\ (Len(B) > 0 => B # <<>>)
      BY <2>1
    <3> QED
      BY <2>1, <3>1, <3>2 DEF Holds
  <2> QED
    BY <2>4, <2>5, <2>6 DEF InputWhole, A
<1> QED
  BY <1>1, InputInvariance, PTL

(* A read of the console's loop.                                           *)
LEMMA ReceivedType ==
  ASSUME InInv, pc = "receive", bus = "up"
  PROVE  Received(want) \in Seq(Byte) /\ Len(Received(want)) = want
<1> DEFINE A == outbuf[outCur]
           B == outbuf[1 - outCur]
           a == FromCurrent(want)
           b == FromOther(want)
<1>1. A \in Seq(Byte) /\ B \in Seq(Byte) /\ want > 0 /\ want <= typed - seen
  BY DEF InInv, InType, Buffers
<1>2. a \in 1 .. Len(A) /\ b \in 0 .. Len(B) /\ a + b = want
  BY <1>1, WhatIsTaken
<1>3. Received(want) = SubSeq(A, 1, a) \o SubSeq(B, 1, b)
  BY DEF Received
<1> HIDE DEF A, B, a, b
<1>4. /\ a \in Nat /\ b \in Nat /\ a <= Len(A) /\ b <= Len(B) /\ Len(A) \in Nat /\ Len(B) \in Nat
  BY <1>1, <1>2
<1>5. /\ \A i \in 1 .. a : A[i] \in Byte
      /\ \A i \in 1 .. b : B[i] \in Byte
  BY <1>1, <1>4
<1>6. SubSeq(A, 1, a) \in Seq(Byte) /\ Len(SubSeq(A, 1, a)) = IF 1 <= a THEN a - 1 + 1 ELSE 0
  BY <1>1, <1>4, <1>5, SubSeqProperties
<1>7. SubSeq(B, 1, b) \in Seq(Byte) /\ Len(SubSeq(B, 1, b)) = IF 1 <= b THEN b - 1 + 1 ELSE 0
  BY <1>1, <1>4, <1>5, SubSeqProperties
<1>8. Len(SubSeq(A, 1, a)) = a /\ Len(SubSeq(B, 1, b)) = b
  BY <1>4, <1>6, <1>7
<1>9. Received(want) \in Seq(Byte) /\ Len(Received(want)) = a + b
  BY <1>3, <1>6, <1>7, <1>8, ConcatProperties
<1> QED
  BY <1>2, <1>9

(* The console's loop gets every byte it asks for, so that the interrupt   *)
(* is never left with a receive operation to complete (receiveData() in    *)
(* usb_cdc.c; see NoneOpen).                                               *)
THEOREM NoneIsOpen == Spec => []NoneOpen
<1>1. InInv => NoneOpen
  BY ReceivedType DEF NoneOpen
<1> QED
  BY <1>1, InputInvariance, PTL
-----------------------------------------------------------------------------
(* Output: A and B are the buffers in the order the host collects them, C  *)
(* is what is still to be copied, and o what the host is owed.  W are the  *)
(* memories that may have been given up or written anew too early.         *)
May(x, W) == IF x[1] \in W THEN {x, Junk} ELSE {x}

Carried(A, B, C, o, W) ==
  /\ Len(A) + Len(B) + Len(C) = Len(o)
  /\ \A i \in 1 .. Len(A) : A[i] \in May(o[i], W)
  /\ \A i \in 1 .. Len(B) : B[i] \in May(o[Len(A) + i], W)
  /\ \A i \in 1 .. Len(C) : C[i] \in May(o[Len(A) + Len(B) + i], W)
  /\ B # <<>> => A # <<>>

(* The host collects the buffer that comes first.                          *)
LEMMA Collected ==
  ASSUME NEW A \in Seq(Item), NEW B \in Seq(Item), NEW C \in Seq(Item), NEW o \in Seq(Item),
         NEW W, Carried(A, B, C, o, W), NEW N \in Seq(Item), Len(N) = 0
  PROVE  After(o, Len(A)) \in Seq(Item) /\ Carried(B, N, C, After(o, Len(A)), W)
<1>1. /\ Len(A) \in Nat /\ Len(B) \in Nat /\ Len(C) \in Nat /\ Len(o) \in Nat
      /\ Len(A) + Len(B) + Len(C) = Len(o) /\ N = <<>>
  BY DEF Carried
<1>2. Len(A) \in 0 .. Len(o)
  BY <1>1
<1> DEFINE p == After(o, Len(A))
<1>3. p \in Seq(Item) /\ Len(p) = Len(o) - Len(A) /\ \A i \in 1 .. Len(o) - Len(A) : p[i] = o[Len(A) + i]
  BY <1>2, Rest
<1> HIDE DEF p
<1>4. ASSUME NEW i \in 1 .. Len(B) PROVE B[i] \in May(p[i], W)
  <2>1. B[i] \in May(o[Len(A) + i], W)
    BY DEF Carried
  <2>2. p[i] = o[Len(A) + i]
    BY <1>1, <1>3
  <2> QED
    BY <2>1, <2>2
<1>5. ASSUME NEW i \in 1 .. Len(C) PROVE C[i] \in May(p[Len(B) + Len(N) + i], W)
  <2>1. C[i] \in May(o[Len(A) + Len(B) + i], W)
    BY DEF Carried
  <2>2. p[Len(B) + i] = o[Len(A) + (Len(B) + i)]
    BY <1>1, <1>3
  <2>3. Len(A) + (Len(B) + i) = Len(A) + Len(B) + i /\ Len(B) + Len(N) + i = Len(B) + i
    BY <1>1
  <2> QED
    BY <2>1, <2>2, <2>3
<1>6. Len(B) + Len(N) + Len(C) = Len(p)
  BY <1>1, <1>3
<1>7. 1 .. Len(N) = {}
  OBVIOUS
<1>8. Carried(B, N, C, p, W)
  BY <1>1, <1>4, <1>5, <1>6, <1>7 DEF Carried
<1> QED
  BY <1>3, <1>8 DEF p

(* A packet goes into the buffer that comes first, or into the second.     *)
LEMMA Packed ==
  ASSUME NEW A \in Seq(Item), NEW B \in Seq(Item), NEW C \in Seq(Item), NEW o \in Seq(Item),
         NEW W, Len(B) = 0, Carried(A, B, C, o, W), NEW n \in Nat
  PROVE  /\ First(C, n) \in Seq(Item) /\ After(C, n) \in Seq(Item)
         /\ A # <<>> => Carried(A, First(C, n), After(C, n), o, W)
         /\ A = <<>> => Carried(First(C, n), A, After(C, n), o, W)
<1> DEFINE F == First(C, n)
           R == After(C, n)
<1>1. /\ F \in Seq(Item) /\ Len(F) = Least(Len(C), n) /\ \A i \in 1 .. Least(Len(C), n) : F[i] = C[i]
      /\ R \in Seq(Item) /\ Len(R) = IF n <= Len(C) THEN Len(C) - n ELSE 0
      /\ \A i \in 1 .. Len(C) - n : R[i] = C[n + i]
  BY TakeAndDrop
<1> HIDE DEF F, R
<1>2. /\ Len(A) \in Nat /\ Len(C) \in Nat /\ Len(o) \in Nat /\ Len(A) + Len(C) = Len(o)
      /\ \A i \in 1 .. Len(A) : A[i] \in May(o[i], W)
      /\ \A i \in 1 .. Len(C) : C[i] \in May(o[Len(A) + i], W)
  <2>1. /\ Len(A) + Len(B) + Len(C) = Len(o)
        /\ \A i \in 1 .. Len(A) : A[i] \in May(o[i], W)
        /\ \A i \in 1 .. Len(C) : C[i] \in May(o[Len(A) + Len(B) + i], W)
    BY DEF Carried
  <2>2. \A i \in 1 .. Len(C) : Len(A) + Len(B) + i = Len(A) + i
    OBVIOUS
  <2> QED
    BY <2>1, <2>2
<1>3. Len(F) \in Nat /\ Len(R) \in Nat /\ Len(F) + Len(R) = Len(C)
  <2>1. Len(F) = IF Len(C) < n THEN Len(C) ELSE n
    BY <1>1 DEF Least
  <2>2. CASE Len(C) < n
    <3>1. Len(F) = Len(C) /\ Len(R) = 0
      BY <1>1, <1>2, <2>1, <2>2
    <3> QED
      BY <1>2, <3>1
  <2>3. CASE ~(Len(C) < n)
    <3>1. Len(F) = n /\ Len(R) = Len(C) - n
      BY <1>1, <1>2, <2>1, <2>3
    <3> QED
      BY <1>2, <2>3, <3>1
  <2> QED
    BY <2>2, <2>3
<1>4. \A i \in 1 .. Len(F) : F[i] \in May(o[Len(A) + i], W)
  <2> SUFFICES ASSUME NEW i \in 1 .. Len(F) PROVE F[i] \in May(o[Len(A) + i], W)
    OBVIOUS
  <2>1. F[i] = C[i] /\ i \in 1 .. Len(C)
    BY <1>1, <1>2, <1>3
  <2> QED
    BY <1>2, <2>1
<1>5. \A i \in 1 .. Len(R) : R[i] \in May(o[Len(A) + Len(F) + i], W)
  <2> SUFFICES ASSUME NEW i \in 1 .. Len(R) PROVE R[i] \in May(o[Len(A) + Len(F) + i], W)
    OBVIOUS
  <2>1. n <= Len(C) /\ Len(R) = Len(C) - n /\ Len(F) = n
    BY <1>1, <1>2, <1>3
  <2>2. R[i] = C[n + i] /\ n + i \in 1 .. Len(C)
    BY <1>1, <1>2, <2>1
  <2>3. C[n + i] \in May(o[Len(A) + (n + i)], W)
    BY <1>2, <2>2
  <2>4. Len(A) + (n + i) = Len(A) + Len(F) + i
    BY <1>2, <2>1
  <2> QED
    BY <2>2, <2>3, <2>4
<1>6. ASSUME A # <<>> PROVE Carried(A, F, R, o, W)
  <2>0. Len(A) \in Nat /\ Len(C) \in Nat /\ Len(A) + Len(C) = Len(o)
    BY <1>2
  <2>1. Len(A) + Len(F) + Len(R) = Len(o)
    BY <1>3, <2>0
  <2> QED
    BY <1>2, <1>4, <1>5, <1>6, <2>1 DEF Carried
<1>7. ASSUME A = <<>> PROVE Carried(F, A, R, o, W)
  <2>1. Len(A) = 0 /\ 1 .. Len(A) = {}
    BY <1>7
  <2>2. Len(F) + Len(A) + Len(R) = Len(o)
    BY <1>2, <1>3, <2>1
  <2>3. /\ \A i \in 1 .. Len(F) : Len(A) + i = i
        /\ \A i \in 1 .. Len(R) : Len(A) + Len(F) + i = Len(F) + Len(A) + i
    BY <1>3, <2>1
  <2>4. \A i \in 1 .. Len(F) : F[i] \in May(o[i], W)
    BY <1>4, <2>3
  <2>5. \A i \in 1 .. Len(R) : R[i] \in May(o[Len(F) + Len(A) + i], W)
    BY <1>5, <2>3
  <2> QED
    BY <1>7, <2>1, <2>2, <2>4, <2>5 DEF Carried
<1> QED
  BY <1>1, <1>6, <1>7 DEF F, R

(* A text is handed over when nothing is left of the one before.           *)
LEMMA Handed ==
  ASSUME NEW A \in Seq(Item), NEW B \in Seq(Item), NEW C \in Seq(Item), NEW o \in Seq(Item),
         NEW W, Len(C) = 0, Carried(A, B, C, o, W), NEW s \in Seq(Item)
  PROVE  o \o s \in Seq(Item) /\ Carried(A, B, s, o \o s, W)
<1> DEFINE p == o \o s
<1>1. /\ p \in Seq(Item) /\ Len(p) = Len(o) + Len(s)
      /\ \A i \in 1 .. Len(o) + Len(s) : p[i] = IF i <= Len(o) THEN o[i] ELSE s[i - Len(o)]
  BY ConcatProperties
<1> HIDE DEF p
<1>2. /\ Len(A) \in Nat /\ Len(B) \in Nat /\ Len(o) \in Nat /\ Len(s) \in Nat /\ Len(A) + Len(B) = Len(o)
      /\ \A i \in 1 .. Len(A) : A[i] \in May(o[i], W)
      /\ \A i \in 1 .. Len(B) : B[i] \in May(o[Len(A) + i], W)
      /\ B # <<>> => A # <<>>
  BY DEF Carried
<1>3. \A i \in 1 .. Len(o) : p[i] = o[i]
  BY <1>1, <1>2
<1>4. \A i \in 1 .. Len(A) : A[i] \in May(p[i], W)
  BY <1>2, <1>3
<1>5. \A i \in 1 .. Len(B) : B[i] \in May(p[Len(A) + i], W)
  <2>1. \A i \in 1 .. Len(B) : Len(A) + i \in 1 .. Len(o)
    BY <1>2
  <2> QED
    BY <1>2, <1>3, <2>1
<1>6. \A i \in 1 .. Len(s) : s[i] \in May(p[Len(A) + Len(B) + i], W)
  <2> SUFFICES ASSUME NEW i \in 1 .. Len(s) PROVE s[i] = p[Len(A) + Len(B) + i]
    BY DEF May
  <2> DEFINE j == Len(A) + Len(B) + i
  <2>1. j \in 1 .. Len(o) + Len(s) /\ ~(j <= Len(o)) /\ j - Len(o) = i
    <3> DEFINE x == Len(A)
               y == Len(B)
               z == Len(o)
               w == Len(s)
    <3>1. x \in Nat /\ y \in Nat /\ z \in Nat /\ w \in Nat /\ x + y = z /\ i \in 1 .. w
      BY <1>2
    <3> HIDE DEF x, y, z, w
    <3>2. x + y + i \in 1 .. z + w /\ ~(x + y + i <= z) /\ x + y + i - z = i
      BY <3>1
    <3> QED
      BY <3>2 DEF x, y, z, w
  <2> HIDE DEF j
  <2>2. p[j] = s[i]
    BY <1>1, <2>1
  <2> QED
    BY <2>2 DEF j
<1>7. Len(A) + Len(B) + Len(s) = Len(p)
  BY <1>1, <1>2
<1>8. Carried(A, B, s, p, W)
  BY <1>2, <1>4, <1>5, <1>6, <1>7 DEF Carried
<1> QED
  BY <1>1, <1>8 DEF p

(* Memory is given up or written anew before it was copied.                *)
LEMMA Spoilt ==
  ASSUME NEW A \in Seq(Item), NEW B \in Seq(Item), NEW C \in Seq(Item), NEW o \in Seq(Item),
         NEW W, Carried(A, B, C, o, W), NEW D \in Seq(Item), Len(D) = Len(C),
         \A i \in 1 .. Len(C) : D[i] \in May(C[i], W)
  PROVE  Carried(A, B, D, o, W)
<1>1. \A i \in 1 .. Len(C) : C[i] \in May(o[Len(A) + Len(B) + i], W)
  BY DEF Carried
<1>2. ASSUME NEW i \in 1 .. Len(C)
      PROVE  D[i] \in May(o[Len(A) + Len(B) + i], W)
  <2> DEFINE x == o[Len(A) + Len(B) + i]
  <2>1. C[i] \in May(x, W) /\ D[i] \in May(C[i], W)
    BY <1>1
  <2> HIDE DEF x
  <2> QED
    BY <2>1 DEF May, x
<1> QED
  BY <1>2 DEF Carried
-----------------------------------------------------------------------------
(* What waits for the host, and what the loop is about to send.            *)
Spoils == IF troubles = 0 THEN Memory \ {"line"} ELSE Memory

OutInv ==
  /\ inbuf \in [Buffers -> Seq(Item)] /\ inHost \in Buffers /\ inCur \in Buffers
  /\ left \in Seq(Item) /\ owed \in Seq(Item)
  /\ Carried(inbuf[inHost], inbuf[1 - inHost], left, owed, Spoils)
  /\ inCur = Turn(inbuf[inHost], inbuf[1 - inHost], inHost)

SayInv ==
  /\ piece \in Seq(Byte) /\ todo \in Seq(Seq(Item))
  /\ pc = "print" => Len(todo) = 1

(* Before the first trouble the bus is there.  What is left to be copied   *)
(* is part of the command line only while the handler has a text to send   *)
(* after it, and its last text is none: by the time the line is cleared,   *)
(* that one has waited for it.                                             *)
NoLine(s) == \A i \in DOMAIN s : s[i][1] # "line"
LineInv ==
  /\ troubles \in Nat /\ (troubles = 0 => bus = "up")
  /\ todo # <<>> => NoLine(todo[Len(todo)])
  /\ troubles = 0 => NoLine(left) \/ (pc = "send" /\ todo # <<>>)

(* The echo and the report are texts.                                      *)
LEMMA TextsTyped ==
  ASSUME SayInv
  PROVE  Echo(piece) \in Seq(Item) /\ Texts(Report) \in Seq(Seq(Item))
<1>1. Echo(piece) \in Seq(Item)
  <2>1. Len(piece) \in Nat /\ DOMAIN piece = 1 .. Len(piece) /\ \A i \in 1 .. Len(piece) : piece[i] \in Byte
    BY DEF SayInv
  <2>2. \A i \in 1 .. Len(piece) : <<"stack", piece[i].id>> \in Item
    BY <2>1, SizesAssumption DEF Byte, Item, Memory
  <2>3. Echo(piece) \in [1 .. Len(piece) -> Item]
    BY <2>1, <2>2 DEF Echo
  <2> QED
    BY <2>1, <2>3
<1>2. Texts(Report) \in Seq(Seq(Item))
  <2>1. <<"const", 0>> \in Item /\ <<"line", 0>> \in Item
    BY SizesAssumption DEF Item, Memory
  <2>2. Report \in Seq(Item)
    BY <2>1 DEF Report
  <2>3. Len(Report) \in Nat /\ DOMAIN Report = 1 .. Len(Report)
        /\ \A i \in 1 .. Len(Report) : <<Report[i]>> \in Seq(Item)
    BY <2>2
  <2> QED
    BY <2>3 DEF Texts
<1> QED
  BY <1>1, <1>2

(* What the loop is about to send is texts, and it has one when it prints. *)
LEMMA SayKeeps ==
  ASSUME InInv, SayInv, [Next]_vars
  PROVE  SayInv'
<1>1. CASE CountDone
  <2>1. Echo(piece) \in Seq(Item) /\ Texts(Report) \in Seq(Seq(Item))
    BY TextsTyped
  <2>3. <<Echo(piece)>> \in Seq(Seq(Item)) /\ <<>> \in Seq(Seq(Item))
    BY <2>1
  <2>4. todo' = <<Echo(piece)>> \o Texts(Report) \/ todo' = <<Echo(piece)>> \o <<>>
    BY <1>1 DEF CountDone
  <2>5. todo' \in Seq(Seq(Item))
    BY <2>1, <2>3, <2>4, ConcatProperties
  <2> QED
    BY <1>1, <2>5 DEF CountDone, SayInv
<1>2. CASE Receive
  <2>1. (bus = "up" /\ piece' = piece \o Received(want)) \/ piece' = piece
    BY <1>2 DEF Receive
  <2>2. bus = "up" => Received(want) \in Seq(Byte)
    BY <1>2, ReceivedType DEF Receive
  <2>3. piece' \in Seq(Byte)
    BY <2>1, <2>2, ConcatProperties DEF SayInv
  <2> QED
    BY <1>2, <2>3 DEF Receive, SayInv
<1>3. CASE Send
  <2>1. Tail(todo) \in Seq(Seq(Item))
    BY <1>3 DEF Send, SayInv
  <2> QED
    BY <1>3, <2>1 DEF Send, SayInv
<1>4. CASE ClientPrint \/ TagPrint
  <2>1. <<"const", 0>> \in Item /\ <<"text", 0>> \in Item
    BY SizesAssumption DEF Item, Memory
  <2>2. PICK item \in Item : todo' = <<<<item>>>> /\ piece' = piece
    BY <1>4, <2>1 DEF ClientPrint, TagPrint, Put
  <2>3. <<item>> \in Seq(Item)
    OBVIOUS
  <2>4. <<<<item>>>> \in Seq(Seq(Item)) /\ Len(<<<<item>>>>) = 1
    BY <2>3
  <2> QED
    BY <2>2, <2>4 DEF SayInv
<1>5. CASE PrintSend \/ PollStart \/ PollDone
  <2>1. <<>> \in Seq(Seq(Item)) /\ <<>> \in Seq(Byte)
    OBVIOUS
  <2> QED
    BY <1>5, <2>1 DEF PrintSend, PollStart, PollDone, SayInv
<1>6. CASE Count \/ ClientContinue
  BY <1>6 DEF Count, ClientContinue, SayInv
<1>7. CASE (Host \/ Isr \/ BusBack) /\ UNCHANGED conVars
  BY <1>7 DEF conVars, SayInv
<1>8. CASE UNCHANGED vars
  BY <1>8 DEF vars, conVars, SayInv
<1> QED
  BY <1>1, <1>2, <1>3, <1>4, <1>5, <1>6, <1>7, <1>8 DEF Next, Main

(* What a step may do to the output.                                       *)
LEMMA OutputStep ==
  ASSUME SayInv, LineInv, [Next]_vars
  PROVE  \/ UNCHANGED inVars /\ troubles' \in {troubles, troubles + 1}
         \/ HostCollects
         \/ ToHost /\ UNCHANGED <<troubles, inHost, owed>>
         \/ /\ \E s \in Seq(Item) : USBCDC_sendData(s)
            /\ UNCHANGED <<troubles, inbuf, inHost, inCur>>
         \/ /\ \E M \in SUBSET Memory : /\ left' = Lost(M)
                                        /\ troubles = 0 /\ "line" \in M => NoLine(left)
            /\ UNCHANGED <<troubles, inbuf, inHost, inCur, owed>>
         \/ USB_reset
<1>1. CASE Send \/ PrintSend
  <2>1. Head(todo) \in Seq(Item)
    BY <1>1 DEF Send, PrintSend, SayInv
  <2>2. USBCDC_sendData(Head(todo)) /\ UNCHANGED <<troubles, inbuf, inHost, inCur>>
    BY <1>1 DEF Send, PrintSend
  <2> QED
    BY <2>1, <2>2
<1>2. CASE PollDone
  <2>1. /\ left' = Lost(IF command THEN {"stack", "line"} ELSE {"stack"})
        /\ UNCHANGED <<troubles, inbuf, inHost, inCur, owed>>
        /\ troubles = 0 => NoLine(left)
    BY <1>2 DEF PollDone, LineInv
  <2>2. (IF command THEN {"stack", "line"} ELSE {"stack"}) \in SUBSET Memory
    BY DEF Memory
  <2> QED
    BY <2>1, <2>2
<1>3. CASE TagPrint
  <2>1. left' = Lost({"text"}) /\ UNCHANGED <<troubles, inbuf, inHost, inCur, owed>>
    BY <1>3 DEF TagPrint, Put
  <2>2. {"text"} \in SUBSET Memory /\ "line" \notin {"text"}
    BY DEF Memory
  <2> QED
    BY <2>1, <2>2
<1>4. CASE PollStart \/ Count \/ Receive \/ CountDone \/ ClientContinue \/ ClientPrint
  BY <1>4 DEF PollStart, Count, Receive, CountDone, ClientContinue, ClientPrint, Put, cdcVars, inVars
<1>5. CASE Host \/ Isr \/ BusBack
  BY <1>5 DEF Host, HostSends, USB_suspend, Isr, IsrOut, IsrIn, BusBack, BusUp, inVars
<1>6. CASE UNCHANGED vars
  BY <1>6 DEF vars, cdcVars
<1> QED
  BY <1>1, <1>2, <1>3, <1>4, <1>5, <1>6 DEF Next, Main

(* CdcToHostFromBuffer() fills the buffer the host comes to, or both.      *)
LEMMA ToHostKeeps ==
  ASSUME OutInv, ToHost, UNCHANGED <<troubles, inHost, owed>>
  PROVE  OutInv'
<1> DEFINE A == inbuf[inHost]
           B == inbuf[1 - inHost]
           F == First(left, InMax)
           R == After(left, InMax)
           F2 == First(R, InMax)
           R2 == After(R, InMax)
<1>1. /\ inbuf \in [{0, 1} -> Seq(Item)] /\ inHost \in {0, 1} /\ inCur \in {0, 1}
      /\ A \in Seq(Item) /\ B \in Seq(Item) /\ left \in Seq(Item) /\ owed \in Seq(Item)
      /\ Carried(A, B, left, owed, Spoils) /\ inCur = Turn(A, B, inHost) /\ InMax \in Nat \ {0}
      /\ inHost' = inHost /\ owed' = owed /\ Spoils' = Spoils
  BY SizesAssumption DEF OutInv, Buffers, Spoils
<1>2. CASE left = <<>> \/ inbuf[inCur] # <<>>
  BY <1>1, <1>2 DEF ToHost, OutInv
<1>3. CASE left # <<>> /\ inbuf[inCur] = <<>>
  <2>1. B = <<>> /\ (A = <<>> => inCur = inHost) /\ (A # <<>> => inCur = 1 - inHost /\ inbuf[1 - inCur] = A)
    BY <1>1, <1>3 DEF Turn, Carried
  <2>2. Len(B) = 0
    BY <2>1
  <2>3. F \in Seq(Item) /\ R \in Seq(Item)
        /\ (A # <<>> => Carried(A, F, R, owed, Spoils)) /\ (A = <<>> => Carried(F, A, R, owed, Spoils))
    BY <1>1, <2>2, Packed
  <2>4. F # <<>>
    <3>1. Len(F) = IF Len(left) < InMax THEN Len(left) ELSE InMax
      BY <1>1, TakeAndDrop DEF Least
    <3>2. Len(left) \in Nat \ {0}
      BY <1>1, <1>3
    <3>3. Len(F) # 0
      BY <1>1, <3>1, <3>2
    <3> QED
      BY <3>3
  <2>5. CASE A # <<>>
    <3>1. R = <<>> \/ inbuf[1 - inCur] # <<>>
      BY <2>1, <2>5
    <3>2. inbuf' = [inbuf EXCEPT ![inCur] = F] /\ inCur' = 1 - inCur /\ left' = R
      BY <1>3, <3>1 DEF ToHost
    <3>3. inbuf' \in [{0, 1} -> Seq(Item)] /\ inbuf'[inHost'] = A /\ inbuf'[1 - inHost'] = F /\ inCur' = inHost
      BY <1>1, <2>1, <2>3, <2>5, <3>2
    <3>4. inHost = Turn(A, F, inHost)
      BY <2>4 DEF Turn
    <3> QED
      BY <1>1, <2>3, <2>5, <3>2, <3>3, <3>4 DEF OutInv, Buffers
  <2>6. CASE A = <<>> /\ R = <<>>
    <3>1. inbuf' = [inbuf EXCEPT ![inCur] = F] /\ inCur' = 1 - inCur /\ left' = R
      BY <1>3, <2>6 DEF ToHost
    <3>2. inbuf' \in [{0, 1} -> Seq(Item)] /\ inbuf'[inHost'] = F /\ inbuf'[1 - inHost'] = A /\ inCur' = 1 - inHost
      BY <1>1, <2>1, <2>3, <2>6, <3>1
    <3>3. 1 - inHost = Turn(F, A, inHost)
      BY <2>4, <2>6 DEF Turn
    <3> QED
      BY <1>1, <2>3, <2>6, <3>1, <3>2, <3>3 DEF OutInv, Buffers
  <2>7. CASE A = <<>> /\ R # <<>>
    <3>1. inbuf[1 - inCur] = <<>>
      BY <1>1, <2>1, <2>7
    <3>2. /\ inbuf' = [x \in Buffers |-> IF x = inCur THEN F ELSE F2]
          /\ left' = R2 /\ inCur' = inCur
      BY <1>3, <2>7, <3>1 DEF ToHost
    <3>3. Len(A) = 0 /\ Carried(F, A, R, owed, Spoils)
      BY <2>3, <2>7
    <3>4. F2 \in Seq(Item) /\ R2 \in Seq(Item) /\ Carried(F, F2, R2, owed, Spoils)
      BY <1>1, <2>3, <2>4, <3>3, Packed
    <3>5. inbuf' \in [{0, 1} -> Seq(Item)] /\ inbuf'[inHost'] = F /\ inbuf'[1 - inHost'] = F2 /\ inCur' = inHost
      BY <1>1, <2>1, <2>3, <2>7, <3>2, <3>4 DEF Buffers
    <3>6. F2 # <<>>
      <4>1. Len(F2) = IF Len(R) < InMax THEN Len(R) ELSE InMax
        BY <1>1, <2>3, TakeAndDrop DEF Least
      <4>2. Len(R) \in Nat \ {0}
        BY <2>3, <2>7
      <4>3. Len(F2) # 0
        BY <1>1, <4>1, <4>2
      <4> QED
        BY <4>3
    <3>7. inHost = Turn(F, F2, inHost)
      BY <3>6 DEF Turn
    <3> QED
      BY <1>1, <3>2, <3>4, <3>5, <3>7 DEF OutInv, Buffers
  <2> QED
    BY <2>5, <2>6, <2>7
<1> QED
  BY <1>2, <1>3

(* The host collects the buffer it comes to.                               *)
LEMMA CollectKeeps ==
  ASSUME OutInv, HostCollects
  PROVE  OutInv'
<1> DEFINE A == inbuf[inHost]
           B == inbuf[1 - inHost]
           p == After(owed, Len(A))
<1>1. /\ inbuf \in [{0, 1} -> Seq(Item)] /\ inHost \in {0, 1} /\ inCur \in {0, 1}
      /\ A \in Seq(Item) /\ B \in Seq(Item) /\ left \in Seq(Item) /\ owed \in Seq(Item)
      /\ Carried(A, B, left, owed, Spoils) /\ inCur = Turn(A, B, inHost)
  BY DEF OutInv, Buffers
<1>2. /\ A # <<>> /\ inbuf' = [inbuf EXCEPT ![inHost] = <<>>] /\ inHost' = 1 - inHost
      /\ owed' = p /\ inCur' = inCur /\ left' = left /\ Spoils' = Spoils
  BY DEF HostCollects, Spoils
<1>3. <<>> \in Seq(Item) /\ Len(<<>>) = 0
  OBVIOUS
<1>4. p \in Seq(Item) /\ Carried(B, <<>>, left, p, Spoils)
  BY <1>1, <1>3, Collected
<1>5. inbuf' \in [{0, 1} -> Seq(Item)] /\ inbuf'[inHost'] = B /\ inbuf'[1 - inHost'] = <<>>
  BY <1>1, <1>2, <1>3
<1>6. inHost' \in {0, 1} /\ inCur' \in {0, 1} /\ inCur' = Turn(B, <<>>, inHost')
  BY <1>1, <1>2 DEF Turn
<1> QED
  BY <1>1, <1>2, <1>4, <1>5, <1>6 DEF OutInv, Buffers

(* A call of USBCDC_sendData(), refused or not.                            *)
LEMMA SendKeeps ==
  ASSUME OutInv, NEW s \in Seq(Item), USBCDC_sendData(s),
         UNCHANGED <<troubles, inbuf, inHost, inCur>>
  PROVE  OutInv'
<1>0. Spoils' = Spoils
  BY DEF Spoils
<1>1. CASE bus # "up" \/ s = <<>> \/ left # <<>>
  BY <1>0, <1>1 DEF USBCDC_sendData, OutInv
<1>2. CASE ~(bus # "up" \/ s = <<>> \/ left # <<>>)
  <2> DEFINE A == inbuf[inHost]
             B == inbuf[1 - inHost]
  <2>1. left' = s /\ owed' = owed \o s /\ left = <<>>
    BY <1>2 DEF USBCDC_sendData
  <2>2. A \in Seq(Item) /\ B \in Seq(Item) /\ left \in Seq(Item) /\ owed \in Seq(Item)
        /\ Carried(A, B, left, owed, Spoils)
    BY DEF OutInv, Buffers
  <2>3. Len(left) = 0
    BY <2>1
  <2>4. owed \o s \in Seq(Item) /\ Carried(A, B, s, owed \o s, Spoils)
    BY <2>2, <2>3, Handed
  <2> QED
    BY <1>0, <2>1, <2>4 DEF OutInv
<1> QED
  BY <1>1, <1>2

(* A text whose memory is given up.                                        *)
LEMMA LossKeeps ==
  ASSUME OutInv, NEW M \in SUBSET Memory, left' = Lost(M),
         troubles = 0 /\ "line" \in M => NoLine(left),
         UNCHANGED <<troubles, inbuf, inHost, inCur, owed>>
  PROVE  OutInv'
<1> DEFINE A == inbuf[inHost]
           B == inbuf[1 - inHost]
           D == Lost(M)
<1>1. A \in Seq(Item) /\ B \in Seq(Item) /\ left \in Seq(Item) /\ owed \in Seq(Item)
      /\ Carried(A, B, left, owed, Spoils)
  BY DEF OutInv, Buffers
<1>2. /\ D \in Seq(Item) /\ Len(D) = Len(left)
      /\ \A i \in 1 .. Len(left) : D[i] \in May(left[i], Spoils)
  <2>1. Len(left) \in Nat /\ DOMAIN left = 1 .. Len(left) /\ \A i \in 1 .. Len(left) : left[i] \in Item
    BY <1>1
  <2>2. D = [i \in 1 .. Len(left) |-> IF left[i][1] \in M THEN Junk ELSE left[i]]
    BY <2>1 DEF Lost
  <2>3. D \in [1 .. Len(left) -> Item]
    BY <2>1, <2>2 DEF Item
  <2> HIDE DEF D
  <2>4. D \in Seq(Item) /\ Len(D) = Len(left)
    BY <2>1, <2>3
  <2>5. ASSUME NEW i \in 1 .. Len(left)
        PROVE  D[i] \in May(left[i], Spoils)
    <3>1. left[i][1] \in M => left[i][1] \in Spoils
      BY <2>1 DEF NoLine, Spoils
    <3> QED
      BY <2>2, <3>1 DEF May
  <2> QED
    BY <2>4, <2>5
<1> HIDE DEF D
<1>3. Carried(A, B, D, owed, Spoils)
  BY <1>1, <1>2, Spoilt
<1>4. left' = D /\ Spoils' = Spoils
  BY DEF D, Spoils
<1> QED
  BY <1>2, <1>3, <1>4 DEF OutInv

(* Nothing waits after a reset, as at the start.                           *)
LEMMA NothingWaits ==
  ASSUME NEW b, b = Empty, NEW W
  PROVE  /\ b \in [Buffers -> Seq(Item)]
         /\ Carried(b[0], b[1 - 0], <<>>, <<>>, W) /\ 0 = Turn(b[0], b[1 - 0], 0)
<1>1. b \in [{0, 1} -> Seq(Item)] /\ b[0] = <<>> /\ b[1] = <<>> /\ b[1 - 0] = <<>>
  BY DEF Empty, Buffers
<1>2. Len(b[0]) = 0 /\ Len(b[1 - 0]) = 0
  BY <1>1
<1>3. 1 .. Len(b[0]) = {} /\ 1 .. Len(b[1 - 0]) = {}
  BY <1>2
<1>4. Len(<<>>) = 0 /\ 1 .. Len(<<>>) = {}
  OBVIOUS
<1>5. Len(b[0]) + Len(b[1 - 0]) + Len(<<>>) = Len(<<>>)
  BY <1>2, <1>4
<1> QED
  BY <1>1, <1>3, <1>4, <1>5 DEF Carried, Turn, Buffers

(* A trouble lets more go wrong, and no less.                              *)
LEMMA MoreSpoils ==
  ASSUME OutInv, LineInv, troubles' \in {troubles, troubles + 1},
         NEW A, NEW B, NEW C, NEW o, Carried(A, B, C, o, Spoils)
  PROVE  Carried(A, B, C, o, Spoils')
<1>1. Spoils \subseteq Spoils'
  BY DEF Spoils, LineInv
<1>2. \A x, y : y \in May(x, Spoils) => y \in May(x, Spoils')
  BY <1>1 DEF May
<1> QED
  BY <1>2 DEF Carried

(* The rest of a text is no part of the line if the text is none.          *)
LEMMA RestOfNoLine ==
  ASSUME NEW s \in Seq(Item), NoLine(s), NEW n \in Nat
  PROVE  After(s, n) \in Seq(Item) /\ NoLine(After(s, n))
<1> DEFINE r == After(s, n)
<1>1. /\ r \in Seq(Item) /\ Len(r) = IF n <= Len(s) THEN Len(s) - n ELSE 0
      /\ \A i \in 1 .. Len(s) - n : r[i] = s[n + i]
  BY TakeAndDrop
<1>2. DOMAIN s = 1 .. Len(s) /\ Len(s) \in Nat
  OBVIOUS
<1> HIDE DEF r
<1>3. DOMAIN r = 1 .. Len(r)
  BY <1>1
<1>4. ASSUME NEW i \in DOMAIN r
      PROVE  r[i][1] # "line"
  <2>0. Len(s) \in Nat /\ Len(r) = IF n <= Len(s) THEN Len(s) - n ELSE 0
    BY <1>1, <1>2
  <2>1. i \in 1 .. Len(s) - n /\ n + i \in 1 .. Len(s)
    BY <1>3, <2>0
  <2> QED
    BY <1>1, <1>2, <2>1 DEF NoLine
<1> QED
  BY <1>1, <1>4 DEF NoLine, r

(* What is left is no part of the line when it was none, or is a text that *)
(* is none; copying, losing and collecting do not change that.             *)
LEMMA LineStep ==
  ASSUME InInv, OutInv, SayInv, LineInv, [Next]_vars
  PROVE  LineInv'
<1>0. left \in Seq(Item) /\ InMax \in Nat /\ todo \in Seq(Seq(Item))
  BY SizesAssumption DEF OutInv, SayInv
<1>1. CASE CountDone
  <2>1. /\ bus' = bus /\ troubles' = troubles /\ left' = left /\ pc = "count"
        /\ pc' = "send"
    BY <1>1 DEF CountDone, cdcVars, inVars
  <2> DEFINE e == Echo(piece)
             t == Texts(Report)
  <2>2. todo' = <<e>> \o t \/ todo' = <<e>> \o <<>>
    BY <1>1 DEF CountDone
  <2>3. NoLine(e)
    BY DEF NoLine, Echo
  <2>4. Len(t) = 7 /\ t[7] = <<<<"const", 0>>>>
    BY DEF Texts, Report
  <2>5. NoLine(<<<<"const", 0>>>>)
    BY DEF NoLine
  <2> HIDE DEF e, t
  <2>6. NoLine(todo'[Len(todo')]) /\ todo' # <<>>
    <3>1. CASE todo' = <<e>> \o <<>>
      <4>1. todo' = <<e>>
        BY <3>1
      <4> QED
        BY <2>3, <4>1
    <3>2. CASE todo' = <<e>> \o t
      <4>1. <<e>> \in Seq(Seq(Item)) /\ t \in Seq(Seq(Item)) /\ Len(<<e>>) = 1
        BY TextsTyped DEF e, t
      <4>2. Len(todo') = 8 /\ todo'[8] = t[7]
        <5>1. /\ Len(<<e>> \o t) = Len(<<e>>) + Len(t)
              /\ \A i \in 1 .. Len(<<e>>) + Len(t) :
                   (<<e>> \o t)[i] = IF i <= Len(<<e>>) THEN <<e>>[i] ELSE t[i - Len(<<e>>)]
          BY <4>1, ConcatProperties
        <5> QED
          BY <2>4, <3>2, <4>1, <5>1
      <4> QED
        BY <2>4, <2>5, <4>2
    <3> QED
      BY <2>2, <3>1, <3>2
  <2> QED
    BY <2>1, <2>6 DEF LineInv
<1>2. CASE Send \/ PrintSend
  <2>1. /\ bus' = bus /\ troubles' = troubles /\ todo # <<>> /\ ~Waiting
        /\ USBCDC_sendData(Head(todo)) /\ todo' \in {Tail(todo), <<>>}
        /\ pc = "print" => todo' = <<>>
        /\ pc = "send" => todo' = Tail(todo) /\ pc' = "send"
        /\ pc \in {"send", "print"}
    BY <1>2 DEF Send, PrintSend, SayInv
  <2>2. Len(todo) \in Nat \ {0} /\ Head(todo) = todo[1]
    BY <1>0, <2>1
  <2>3. Tail(todo) # <<>> => Tail(todo)[Len(Tail(todo))] = todo[Len(todo)]
    BY <1>0, <2>1
  <2>4. todo' # <<>> => NoLine(todo'[Len(todo')])
    BY <2>1, <2>3 DEF LineInv
  <2>5. troubles = 0 => NoLine(left') \/ (pc' = "send" /\ todo' # <<>>)
    <3> SUFFICES ASSUME troubles = 0
                 PROVE  NoLine(left') \/ (pc' = "send" /\ todo' # <<>>)
      OBVIOUS
    <3>1. left = <<>>
      BY <2>1 DEF Waiting, LineInv
    <3>2. left' = left \/ left' = Head(todo)
      BY <2>1 DEF USBCDC_sendData
    <3>3. NoLine(<<>>)
      BY DEF NoLine
    <3>4. CASE Len(todo) = 1
      BY <2>1, <2>2, <3>1, <3>2, <3>3, <3>4 DEF LineInv
    <3>5. CASE Len(todo) # 1 /\ pc = "send"
      <4>1. Tail(todo) # <<>>
        <5>1. Len(Tail(todo)) = Len(todo) - 1
          BY <1>0, <2>1
        <5> QED
          BY <2>2, <3>5, <5>1
      <4> QED
        BY <2>1, <3>5, <4>1
    <3>6. CASE Len(todo) # 1 /\ pc = "print"
      BY <2>1, <2>2, <3>1, <3>2, <3>3, <3>6 DEF LineInv, SayInv
    <3> QED
      BY <2>1, <3>4, <3>5, <3>6
  <2> QED
    BY <2>1, <2>4, <2>5 DEF LineInv
<1>3. CASE PollDone \/ TagPrint
  <2>1. /\ bus' = bus /\ troubles' = troubles /\ \E M : left' = Lost(M)
        /\ todo = <<>> \/ pc = "idle"
        /\ todo' = todo \/ todo' = <<<<<<"text", 0>>>>>>
    BY <1>3 DEF PollDone, TagPrint, Put
  <2>2. NoLine(left) => NoLine(left')
    BY <2>1 DEF Lost, NoLine, Junk
  <2>3. /\ <<<<<<"text", 0>>>>>>[Len(<<<<<<"text", 0>>>>>>)] = <<<<"text", 0>>>>
        /\ NoLine(<<<<"text", 0>>>>)
    BY DEF NoLine
  <2> QED
    BY <2>1, <2>2, <2>3 DEF LineInv
<1>4. CASE ClientPrint
  <2>1. /\ bus' = bus /\ troubles' = troubles /\ left' = left /\ pc = "idle"
        /\ todo' = <<<<<<"const", 0>>>>>>
    BY <1>4 DEF ClientPrint, Put
  <2>2. /\ <<<<<<"const", 0>>>>>>[Len(<<<<<<"const", 0>>>>>>)] = <<<<"const", 0>>>>
        /\ NoLine(<<<<"const", 0>>>>)
    BY DEF NoLine
  <2> QED
    BY <2>1, <2>2 DEF LineInv
<1>5. CASE PollStart \/ Count \/ Receive \/ ClientContinue
  <2>1. bus' = bus /\ troubles' = troubles /\ left' = left /\ todo' = todo /\ pc # "send"
    BY <1>5 DEF PollStart, Count, Receive, ClientContinue, cdcVars, inVars
  <2> QED
    BY <2>1 DEF LineInv
<1>6. CASE (IsrIn \/ IsrOut \/ HostSends \/ HostCollects) /\ UNCHANGED conVars
  <2>1. /\ bus' = bus /\ troubles' = troubles /\ todo' = todo /\ pc' = pc
        /\ \/ left' = left \/ left' = After(left, InMax)
           \/ left' = After(After(left, InMax), InMax)
    BY <1>6 DEF IsrIn, IsrOut, ToHost, HostSends, HostCollects, conVars, inVars, outVars
  <2>2. NoLine(left) => NoLine(left')
    BY <1>0, <2>1, RestOfNoLine
  <2> QED
    BY <2>1, <2>2 DEF LineInv
<1>7. CASE (USB_suspend \/ USB_reset) /\ UNCHANGED conVars
  <2>1. troubles' = troubles + 1 /\ todo' = todo
    BY <1>7 DEF USB_suspend, USB_reset, conVars
  <2> QED
    BY <2>1 DEF LineInv
<1>8. CASE BusBack /\ UNCHANGED conVars
  <2>1. troubles' = troubles /\ todo' = todo /\ pc' = pc /\ left' = left /\ bus' = "up"
    BY <1>8 DEF BusBack, BusUp, conVars, inVars
  <2> QED
    BY <2>1 DEF LineInv
<1>9. CASE UNCHANGED vars
  BY <1>9 DEF vars, cdcVars, conVars, inVars, LineInv
<1> QED
  BY <1>1, <1>2, <1>3, <1>4, <1>5, <1>6, <1>7, <1>8, <1>9 DEF Next, Main, Host, Isr

(* The output is as OutInv says in every state.                            *)
LEMMA OutputInvariance == Spec => [](OutInv /\ SayInv /\ LineInv)
<1>1. Init => OutInv /\ SayInv /\ LineInv
  <2> SUFFICES ASSUME Init PROVE OutInv /\ SayInv /\ LineInv
    OBVIOUS
  <2>1. /\ inbuf = Empty /\ inHost = 0 /\ inCur = 0 /\ left = <<>> /\ owed = <<>>
        /\ piece = <<>> /\ todo = <<>> /\ pc = "idle" /\ troubles = 0 /\ bus = "up"
    BY DEF Init, CdcInit
  <2>2. <<>> \in Seq(Item) /\ <<>> \in Seq(Byte) /\ <<>> \in Seq(Seq(Item)) /\ 0 \in Buffers
    BY DEF Buffers
  <2>3. LineInv
    BY <2>1 DEF LineInv, NoLine
  <2> QED
    BY <2>1, <2>2, <2>3, NothingWaits DEF OutInv, SayInv
<1>2. InInv /\ OutInv /\ SayInv /\ LineInv /\ [Next]_vars => (OutInv /\ SayInv /\ LineInv)'
  <2> SUFFICES ASSUME InInv, OutInv, SayInv, LineInv, [Next]_vars
               PROVE  OutInv' /\ SayInv' /\ LineInv'
    OBVIOUS
  <2>1. SayInv' /\ LineInv'
    BY SayKeeps, LineStep
  <2>2. CASE UNCHANGED inVars /\ troubles' \in {troubles, troubles + 1}
    <3>1. Carried(inbuf[inHost], inbuf[1 - inHost], left, owed, Spoils')
      BY <2>2, MoreSpoils DEF OutInv
    <3> QED
      BY <2>1, <2>2, <3>1 DEF inVars, OutInv
  <2>3. CASE USB_reset
    <3>1. inbuf' = Empty /\ inHost' = 0 /\ inCur' = 0 /\ left' = <<>> /\ owed' = <<>>
      BY <2>3 DEF USB_reset
    <3>2. <<>> \in Seq(Item) /\ 0 \in Buffers
      BY DEF Buffers
    <3> QED
      BY <2>1, <3>1, <3>2, NothingWaits DEF OutInv
  <2> QED
    BY <2>1, <2>2, <2>3, OutputStep, CollectKeeps, ToHostKeeps, SendKeeps, LossKeeps
<1> QED
  BY <1>1, <1>2, InputInvariance, PTL DEF Spec

(* What the host is owed is what has not been sent, byte for byte but for  *)
(* what may be spoilt.                                                     *)
LEMMA WhatIsUnsent ==
  ASSUME OutInv
  PROVE  /\ Len(Unsent) = Len(owed) /\ DOMAIN owed = 1 .. Len(owed)
         /\ \A i \in 1 .. Len(owed) : Unsent[i] \in May(owed[i], Spoils)
         /\ InFlight # <<>> => inbuf[inHost] # <<>>
<1> DEFINE A == inbuf[inHost]
           B == inbuf[1 - inHost]
<1>1. A \in Seq(Item) /\ B \in Seq(Item) /\ left \in Seq(Item) /\ owed \in Seq(Item)
      /\ Carried(A, B, left, owed, Spoils)
  BY DEF OutInv, Buffers
<1>2. InFlight = A \o B /\ Unsent = InFlight \o left
  BY DEF InFlight, Unsent
<1> HIDE DEF A, B
<1>3. /\ InFlight \in Seq(Item) /\ Len(InFlight) = Len(A) + Len(B) /\ Len(A) \in Nat /\ Len(B) \in Nat
      /\ \A i \in 1 .. Len(A) + Len(B) : InFlight[i] = IF i <= Len(A) THEN A[i] ELSE B[i - Len(A)]
  BY <1>1, <1>2, ConcatProperties
<1>4. /\ Len(Unsent) = Len(InFlight) + Len(left) /\ Len(left) \in Nat
      /\ \A i \in 1 .. Len(InFlight) + Len(left) :
            Unsent[i] = IF i <= Len(InFlight) THEN InFlight[i] ELSE left[i - Len(InFlight)]
  BY <1>1, <1>2, <1>3, ConcatProperties
<1>5. Len(A) + Len(B) + Len(left) = Len(owed)
  BY <1>1 DEF Carried
<1>6. Len(Unsent) = Len(owed)
  BY <1>3, <1>4, <1>5
<1>7. ASSUME NEW i \in 1 .. Len(owed) PROVE Unsent[i] \in May(owed[i], Spoils)
  <2>0. i \in 1 .. Len(InFlight) + Len(left)
    BY <1>4, <1>6
  <2>1. CASE i <= Len(A)
    <3>1. Unsent[i] = A[i] /\ i \in 1 .. Len(A)
      BY <1>3, <1>4, <2>0, <2>1
    <3> QED
      BY <1>1, <3>1, Zenon DEF Carried
  <2>2. CASE i > Len(A) /\ i <= Len(A) + Len(B)
    <3> DEFINE j == i - Len(A)
    <3>1. Unsent[i] = B[j] /\ j \in 1 .. Len(B) /\ i = Len(A) + j
      BY <1>3, <1>4, <2>0, <2>2
    <3> HIDE DEF j
    <3>2. B[j] \in May(owed[Len(A) + j], Spoils)
      BY <1>1, <3>1, Zenon DEF Carried
    <3> QED
      BY <3>1, <3>2
  <2>3. CASE i > Len(A) + Len(B)
    <3> DEFINE j == i - Len(InFlight)
    <3>1. Unsent[i] = left[j] /\ j \in 1 .. Len(left) /\ i = Len(A) + Len(B) + j
      BY <1>3, <1>4, <2>0, <2>3
    <3> HIDE DEF j
    <3>2. left[j] \in May(owed[Len(A) + Len(B) + j], Spoils)
      BY <1>1, <3>1, Zenon DEF Carried
    <3> QED
      BY <3>1, <3>2
  <2> QED
    BY <1>3, <2>0, <2>1, <2>2, <2>3
<1>8. InFlight # <<>> => A # <<>>
  <2>1. InFlight # <<>> => Len(A) > 0 \/ Len(B) > 0
    BY <1>3
  <2>2. (Len(A) > 0 => A # <<>>) /\ (Len(B) > 0 => B # <<>>)
    BY <1>1
  <2> QED
    BY <1>1, <2>1, <2>2 DEF Carried
<1> QED
  BY <1>1, <1>6, <1>7, <1>8 DEF A

(* What was given to send is in the two buffers and in what is still to be *)
(* copied, all of it and in order, byte for byte but for what its memory   *)
(* no longer held (CdcToHostFromBuffer() and the calls that print).        *)
THEOREM OutputIsWhole == Spec => []OutputWhole
<1>1. OutInv => OutputWhole
  BY WhatIsUnsent DEF OutputWhole, May
<1> QED
  BY <1>1, OutputInvariance, PTL

(* As long as the bus is there, each part of the command line has left its *)
(* memory by the time parse_line() clears it: the texts that follow have   *)
(* waited for it, for any line, any packet size and any other texts.       *)
THEOREM ReportIsWhole == Spec => []ReportWhole
<1>1. OutInv => ReportWhole
  <2> SUFFICES ASSUME OutInv, troubles = 0, NEW i \in DOMAIN owed, owed[i][1] = "line"
               PROVE  Unsent[i] = owed[i]
    BY DEF ReportWhole
  <2>1. Unsent[i] \in May(owed[i], Spoils)
    BY WhatIsUnsent
  <2>2. "line" \notin Spoils
    BY DEF Spoils
  <2> QED
    BY <2>1, <2>2 DEF May
<1> QED
  BY <1>1, OutputInvariance, PTL
=============================================================================
