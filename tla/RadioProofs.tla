---------------------------- MODULE RadioProofs ----------------------------
(***************************************************************************)
(* What is proved of module Radio, for any lengths of frames, any size of  *)
(* the ring and of the chip's FIFO and any number of frames.               *)
(***************************************************************************)
EXTENDS Radio, SequenceTheorems, WellFoundedInduction, TLAPS

(* A set of numbers that is not empty has a least one.                     *)
LEMMA LeastExists ==
  ASSUME NEW T, T \subseteq Nat, T # {}
  PROVE  \E n \in T : \A m \in T : n <= m
<1>1. PICK n \in T : \A m \in T : ~(<<m, n>> \in OpToRel(<, Nat))
  BY WFMin, NatLessThanWellFounded, Zenon
<1>2. \A m \in T : ~(m < n)
  BY <1>1, Zenon DEF OpToRel
<1> QED
  BY <1>2
-----------------------------------------------------------------------------
(* FlattenSeq() computes the concatenations of the first sequences one     *)
(* after another: c is such a row of concatenations.                       *)
Joins(ss, n, c) ==
  c = [i \in 1 .. n |-> IF i = 1 THEN ss[i] ELSE c[i - 1] \o ss[i]]

LEMMA JoinsExists ==
  ASSUME NEW ss
  PROVE  \A n \in Nat : \E c : Joins(ss, n, c)
<1> DEFINE T == {n \in Nat : ~ \E c : Joins(ss, n, c)}
<1>1. SUFFICES ASSUME T # {} PROVE FALSE
  OBVIOUS
<1>2. PICK n \in T : \A m \in T : n <= m
  BY <1>1, LeastExists
<1>3. n # 0
  <2>1. Joins(ss, 0, <<>>)
    BY DEF Joins
  <2> QED
    BY <1>2, <2>1
<1>4. n - 1 \in Nat /\ n - 1 \notin T
  BY <1>2, <1>3
<1>5. PICK c : Joins(ss, n - 1, c)
  BY <1>4
<1> DEFINE d == [i \in 1 .. n |-> IF i = 1 THEN ss[i] ELSE c[i - 1] \o ss[i]]
<1>6. \A i \in 1 .. n - 1 : d[i] = c[i]
  <2> TAKE i \in 1 .. n - 1
  <2>1. d[i] = IF i = 1 THEN ss[i] ELSE c[i - 1] \o ss[i]
    BY <1>2
  <2>2. c[i] = IF i = 1 THEN ss[i] ELSE c[i - 1] \o ss[i]
    BY <1>5 DEF Joins
  <2> QED
    BY <2>1, <2>2
<1>7. ASSUME NEW i \in 1 .. n, i # 1
      PROVE  c[i - 1] = d[i - 1]
  <2>1. i - 1 \in 1 .. n - 1
    BY <1>4, <1>7
  <2> HIDE DEF d
  <2> QED
    BY <1>6, <2>1
<1>8. Joins(ss, n, d)
  BY <1>7 DEF Joins
<1> QED
  BY <1>2, <1>8

LEMMA FlattenJoins ==
  ASSUME NEW ss, Len(ss) \in Nat \ {0}
  PROVE  \E c : Joins(ss, Len(ss), c) /\ FlattenSeq(ss) = c[Len(ss)]
<1> DEFINE c == CHOOSE c : c = [i \in 1 .. Len(ss) |-> IF i = 1 THEN ss[i] ELSE c[i - 1] \o ss[i]]
<1>1. FlattenSeq(ss) = c[Len(ss)]
  BY DEF FlattenSeq
<1>2. \E x : Joins(ss, Len(ss), x)
  BY JoinsExists
<1>3. Joins(ss, Len(ss), c)
  BY <1>2 DEF Joins
<1> QED
  BY <1>1, <1>3

(* Each of them is a sequence, and those of a longer row begin with those  *)
(* of a shorter one.                                                       *)
LEMMA JoinsTyped ==
  ASSUME NEW S, NEW ss \in Seq(Seq(S)), NEW n \in 0 .. Len(ss), NEW c, Joins(ss, n, c)
  PROVE  \A i \in 1 .. n : c[i] \in Seq(S)
<1> DEFINE T == {i \in 1 .. n : c[i] \notin Seq(S)}
<1>1. SUFFICES ASSUME T # {} PROVE FALSE
  OBVIOUS
<1>2. T \subseteq Nat
  OBVIOUS
<1>3. PICK i \in T : \A m \in T : i <= m
  BY <1>1, <1>2, LeastExists
<1>4. i \in 1 .. n /\ i \in 1 .. Len(ss) /\ ss[i] \in Seq(S)
  BY <1>3
<1>5. c[i] = IF i = 1 THEN ss[i] ELSE c[i - 1] \o ss[i]
  BY <1>4 DEF Joins
<1>6. CASE i = 1
  BY <1>3, <1>4, <1>5, <1>6
<1>7. CASE i # 1
  <2>1. i - 1 \in 1 .. n /\ i - 1 \notin T
    BY <1>3, <1>4, <1>7
  <2>2. c[i - 1] \in Seq(S)
    BY <2>1
  <2>3. c[i - 1] \o ss[i] \in Seq(S)
    BY <1>4, <2>2
  <2> QED
    BY <1>3, <1>5, <1>7, <2>3
<1> QED
  BY <1>6, <1>7

LEMMA JoinsUnique ==
  ASSUME NEW S, NEW n \in Nat, NEW ss \in Seq(Seq(S)), NEW tt \in Seq(Seq(S)),
         \A i \in 1 .. n : ss[i] = tt[i],
         NEW c, NEW d, Joins(ss, n, c), Joins(tt, n + 1, d)
  PROVE  \A i \in 1 .. n : c[i] = d[i]
<1> DEFINE T == {i \in 1 .. n : c[i] # d[i]}
<1>1. SUFFICES ASSUME T # {} PROVE FALSE
  OBVIOUS
<1>2. T \subseteq Nat
  OBVIOUS
<1>3. PICK i \in T : \A k \in T : i <= k
  BY <1>1, <1>2, LeastExists
<1>4. i \in 1 .. n /\ i \in 1 .. n + 1
  BY <1>3
<1>5. c[i] = IF i = 1 THEN ss[i] ELSE c[i - 1] \o ss[i]
  BY <1>4 DEF Joins
<1>6. d[i] = IF i = 1 THEN tt[i] ELSE d[i - 1] \o tt[i]
  BY <1>4 DEF Joins
<1>7. i # 1 => c[i - 1] = d[i - 1]
  <2>1. i # 1 => i - 1 \in 1 .. n /\ i - 1 \notin T
    BY <1>3, <1>4
  <2> QED
    BY <2>1
<1> QED
  BY <1>3, <1>4, <1>5, <1>6, <1>7

(* Flattening nothing.                                                     *)
LEMMA FlattenEmpty ==
  ASSUME NEW S, NEW ss \in Seq(S), Len(ss) = 0
  PROVE  FlattenSeq(ss) = <<>> /\ ss = <<>>
<1>1. ss = <<>>
  BY EmptySeq
<1> QED
  BY <1>1 DEF FlattenSeq

(* Flattening one sequence more.                                           *)
LEMMA FlattenAppend ==
  ASSUME NEW S, NEW ss \in Seq(Seq(S)), NEW x \in Seq(S)
  PROVE  /\ FlattenSeq(ss) \in Seq(S)
         /\ FlattenSeq(Append(ss, x)) = FlattenSeq(ss) \o x
<1>1. PICK n \in Nat, tt \in Seq(Seq(S)) :
        /\ tt = Append(ss, x) /\ Len(ss) = n /\ Len(tt) = n + 1
        /\ (\A i \in 1 .. n : tt[i] = ss[i]) /\ tt[n + 1] = x
  <2>1. /\ Append(ss, x) \in Seq(Seq(S)) /\ Len(Append(ss, x)) = Len(ss) + 1
        /\ \A i \in 1 .. Len(ss) : Append(ss, x)[i] = ss[i]
        /\ Append(ss, x)[Len(ss) + 1] = x
    BY AppendProperties
  <2>2. Len(ss) \in Nat
    OBVIOUS
  <2> QED
    BY <2>1, <2>2
<1>2. Len(tt) \in Nat \ {0}
  BY <1>1
<1>3. PICK d : Joins(tt, n + 1, d) /\ FlattenSeq(tt) = d[n + 1]
  <2>1. \E d : Joins(tt, Len(tt), d) /\ FlattenSeq(tt) = d[Len(tt)]
    BY <1>2, FlattenJoins
  <2> QED
    BY <1>1, <2>1
<1>4. d[n + 1] = IF n + 1 = 1 THEN x ELSE d[n] \o x
  <2>1. n + 1 \in 1 .. n + 1 /\ (n + 1) - 1 = n
    BY <1>1
  <2>2. d[n + 1] = IF n + 1 = 1 THEN tt[n + 1] ELSE d[(n + 1) - 1] \o tt[n + 1]
    BY <1>3, <2>1 DEF Joins
  <2> QED
    BY <1>1, <2>1, <2>2
<1>5. CASE n = 0
  <2>1. FlattenSeq(ss) = <<>>
    BY <1>1, <1>5, FlattenEmpty
  <2>2. <<>> \o x = x
    BY ConcatEmptySeq
  <2> QED
    BY <1>1, <1>3, <1>4, <1>5, <2>1, <2>2
<1>6. CASE n # 0
  <2>1. PICK c : Joins(ss, n, c) /\ FlattenSeq(ss) = c[n]
    <3>1. Len(ss) \in Nat \ {0}
      BY <1>1, <1>6
    <3>2. \E c : Joins(ss, Len(ss), c) /\ FlattenSeq(ss) = c[Len(ss)]
      BY <3>1, FlattenJoins
    <3> QED
      BY <1>1, <3>2
  <2>2. c[n] = d[n]
    <3>1. \A i \in 1 .. n : ss[i] = tt[i]
      BY <1>1
    <3>2. Joins(ss, n, c)
      BY <2>1
    <3>3. Joins(tt, n + 1, d)
      BY <1>3
    <3>4. \A i \in 1 .. n : c[i] = d[i]
      BY <3>1, <3>2, <3>3, JoinsUnique, Z3
    <3> QED
      BY <1>1, <1>6, <3>4
  <2>3. c[n] \in Seq(S)
    <3>1. n \in 0 .. Len(ss)
      BY <1>1
    <3>2. \A i \in 1 .. n : c[i] \in Seq(S)
      BY <2>1, <3>1, JoinsTyped
    <3> QED
      BY <1>6, <3>2
  <2> QED
    BY <1>1, <1>3, <1>4, <1>6, <2>1, <2>2, <2>3
<1> QED
  BY <1>5, <1>6

(* A row that begins one sequence later lacks the first one everywhere.    *)
IsTail(tt, ss) ==
  Len(ss) = Len(tt) + 1 /\ \A i \in 1 .. Len(tt) : tt[i] = ss[i + 1]
Longer(c, ss, d, tt) ==
  \A i \in 1 .. Len(tt) : c[i + 1] = ss[1] \o d[i]

LEMMA JoinsTail ==
  ASSUME NEW S, NEW ss \in Seq(Seq(S)), NEW tt \in Seq(Seq(S)), IsTail(tt, ss),
         NEW c, NEW d, Joins(ss, Len(ss), c), Joins(tt, Len(tt), d)
  PROVE  Longer(c, ss, d, tt)
<1>0. PICK n \in Nat : n = Len(tt) /\ Len(ss) = n + 1 /\ Joins(ss, n + 1, c) /\ Joins(tt, n, d)
  BY DEF IsTail
<1>a. \A i \in 1 .. n : tt[i] = ss[i + 1]
  BY <1>0 DEF IsTail
<1> SUFFICES \A i \in 1 .. n : c[i + 1] = ss[1] \o d[i]
  BY <1>0 DEF Longer
<1>1. ss[1] \in Seq(S) /\ \A i \in 1 .. n : tt[i] \in Seq(S)
  BY <1>0
<1>2. \A i \in 1 .. n : d[i] \in Seq(S)
  <2>1. n \in 0 .. Len(tt) /\ Joins(tt, n, d)
    BY <1>0
  <2> QED
    BY <2>1, JoinsTyped
<1>3. c[1] = ss[1]
  BY <1>0 DEF Joins
<1>4. ASSUME NEW i \in 1 .. n
      PROVE  /\ c[i + 1] = c[i] \o tt[i]
             /\ d[i] = IF i = 1 THEN tt[i] ELSE d[i - 1] \o tt[i]
  <2>1. i + 1 \in 1 .. n + 1 /\ i + 1 # 1 /\ (i + 1) - 1 = i
    BY <1>0
  <2>2. c[i + 1] = IF i + 1 = 1 THEN ss[i + 1] ELSE c[(i + 1) - 1] \o ss[i + 1]
    BY <1>0, <2>1 DEF Joins
  <2>3. d[i] = IF i = 1 THEN tt[i] ELSE d[i - 1] \o tt[i]
    BY <1>0 DEF Joins
  <2> QED
    BY <1>a, <2>1, <2>2, <2>3
<1>5. SUFFICES ASSUME {i \in 1 .. n : c[i + 1] # ss[1] \o d[i]} # {}
               PROVE  FALSE
  OBVIOUS
<1>6. PICK i \in 1 .. n : /\ c[i + 1] # ss[1] \o d[i]
                          /\ \A k \in 1 .. n : c[k + 1] # ss[1] \o d[k] => i <= k
  <2> DEFINE T == {i \in 1 .. n : c[i + 1] # ss[1] \o d[i]}
  <2>1. T \subseteq Nat
    <3>1. T \subseteq 1 .. n
      BY Zenon
    <3> HIDE DEF T
    <3> QED
      BY <3>1
  <2>2. \E i \in T : \A k \in T : i <= k
    <3> HIDE DEF T
    <3> QED
      BY <1>5, <2>1, LeastExists DEF T
  <2> QED
    BY <2>2
<1>7. CASE i = 1
  BY <1>3, <1>4, <1>6, <1>7
<1>8. CASE i # 1
  <2>1. i - 1 \in 1 .. n /\ (i - 1) + 1 = i /\ ~(i <= i - 1)
    BY <1>6, <1>8
  <2>2. c[i] = ss[1] \o d[i - 1]
    BY <1>6, <2>1
  <2>3. d[i - 1] \in Seq(S)
    BY <1>2, <2>1
  <2>4. tt[i] \in Seq(S)
    BY <1>1
  <2>5. ss[1] \in Seq(S)
    BY <1>1
  <2>6. ASSUME NEW u \in Seq(S), NEW v \in Seq(S), NEW w \in Seq(S)
        PROVE  (u \o v) \o w = u \o (v \o w)
    BY ConcatAssociative, SMTT(60)
  <2>7. (ss[1] \o d[i - 1]) \o tt[i] = ss[1] \o (d[i - 1] \o tt[i])
    BY <2>3, <2>4, <2>5, <2>6
  <2> QED
    BY <1>4, <1>6, <1>8, <2>2, <2>7
<1> QED
  BY <1>7, <1>8

(* Flattening one sequence less.                                           *)
LEMMA FlattenTail ==
  ASSUME NEW S, NEW ss \in Seq(Seq(S)), ss # <<>>
  PROVE  FlattenSeq(ss) = ss[1] \o FlattenSeq(Tail(ss))
<1>1. PICK n \in Nat, tt \in Seq(Seq(S)) :
        /\ tt = Tail(ss) /\ Len(ss) = n + 1 /\ Len(tt) = n
        /\ \A i \in 1 .. n : tt[i] = ss[i + 1]
  <2>1. /\ Tail(ss) \in Seq(Seq(S)) /\ Len(Tail(ss)) = Len(ss) - 1
        /\ \A i \in 1 .. Len(Tail(ss)) : Tail(ss)[i] = ss[i + 1]
    BY HeadTailProperties
  <2>2. Len(ss) \in Nat /\ Len(Tail(ss)) \in Nat /\ Len(ss) = Len(Tail(ss)) + 1
    BY <2>1
  <2> QED
    BY <2>1, <2>2
<1>2. ss[1] \in Seq(S)
  BY <1>1
<1>3. PICK c : Joins(ss, n + 1, c) /\ FlattenSeq(ss) = c[n + 1]
  <2>1. Len(ss) \in Nat \ {0}
    BY <1>1
  <2>2. \E c : Joins(ss, Len(ss), c) /\ FlattenSeq(ss) = c[Len(ss)]
    BY <2>1, FlattenJoins
  <2> QED
    BY <1>1, <2>2
<1>4. CASE n = 0
  <2>1. FlattenSeq(tt) = <<>>
    BY <1>1, <1>4, FlattenEmpty
  <2>2. c[1] = ss[1]
    BY <1>3 DEF Joins
  <2>3. ss[1] \o <<>> = ss[1]
    BY <1>2, ConcatEmptySeq
  <2> QED
    BY <1>1, <1>3, <1>4, <2>1, <2>2, <2>3
<1>5. CASE n # 0
  <2>1. PICK d : Joins(tt, n, d) /\ FlattenSeq(tt) = d[n]
    <3>1. Len(tt) \in Nat \ {0}
      BY <1>1, <1>5
    <3>2. \E d : Joins(tt, Len(tt), d) /\ FlattenSeq(tt) = d[Len(tt)]
      BY <3>1, FlattenJoins
    <3> QED
      BY <1>1, <3>2
  <2>2. \A i \in 1 .. n : c[i + 1] = ss[1] \o d[i]
    <3>1. IsTail(tt, ss)
      BY <1>1 DEF IsTail
    <3>2. Joins(ss, Len(ss), c)
      BY <1>1, <1>3
    <3>3. Joins(tt, Len(tt), d)
      BY <1>1, <2>1
    <3>4. Longer(c, ss, d, tt)
      BY <3>1, <3>2, <3>3, JoinsTail, Zenon
    <3> QED
      BY <1>1, <3>4 DEF Longer
  <2>3. n \in 1 .. n
    BY <1>5
  <2> QED
    BY <1>1, <1>3, <2>1, <2>2, <2>3
<1> QED
  BY <1>4, <1>5
-----------------------------------------------------------------------------
(* The inductive invariant.  The tail of the ring is nBytes behind its     *)
(* head; the ring holds the packets of `accepted', each the length byte    *)
(* and the bytes it counts; what is read is there; the frame the handler   *)
(* reads is still in the chip and no acknowledgment.  The frame that was   *)
(* prepared is in the chip until it is sent or its flush goes out; when    *)
(* the flush is cut off, it counts as left behind.                         *)
Ring == [nBytes : 0 .. RingLen - 1, iHead : 0 .. RingLen - 1, iTail : 0 .. RingLen - 1,
         pData : [0 .. RingLen - 1 -> Byte \cup {<<>>}]]
Aligned(b) == b.iTail = (b.iHead + b.nBytes) % RingLen

Whole   == {f \in Frame : f.kind \in {"good", "residue"}}
Packets(s) == [i \in DOMAIN s |-> Mpdu(s[i])]
Contents(b) == bufBytes(b, b.nBytes)

RingInv ==
  /\ rxBuffer \in Ring /\ Aligned(rxBuffer)
  /\ accepted \in Seq(Whole)
  /\ RingWhole

InHand == isr = "payload" => fifo # <<>> /\ fifo[1].len # AckLen
Pending == pc = "read" => rxBuffer.nBytes > 0
Prepared == pc \in {"strobe", "sending"} \/ (pc = "flush" /\ cs = "low")
Loaded == /\ txFifo \in Nat /\ cut \in Nat
          /\ txFifo = IF Prepared THEN cut + 1 ELSE cut

IInv == TypeOK /\ RingInv /\ InHand /\ Pending /\ Loaded

-----------------------------------------------------------------------------
(* Positions of the ring: one modulus after another, and how far one       *)
(* position is behind another.                                             *)
LEMMA ModAgain ==
  ASSUME NEW N \in Nat \ {0}, NEW x \in Nat, NEW y \in Nat, x + y < 2 * N
  PROVE  ((x % N) + y) % N = (x + y) % N
<1>1. CASE x < N
  BY <1>1
<1>2. CASE x >= N
  <2>1. x % N = x - N
    BY <1>2
  <2>2. (x + y) % N = x + y - N
    BY <1>2
  <2>3. x - N + y \in 0 .. N - 1
    BY <1>2
  <2>4. (x - N + y) % N = x - N + y
    BY <2>3
  <2> QED
    BY <2>1, <2>2, <2>4
<1> QED
  BY <1>1, <1>2

LEMMA ModRange ==
  ASSUME NEW N \in Nat \ {0}, NEW x \in Int
  PROVE  x % N \in 0 .. N - 1
  OBVIOUS

LEMMA ModBehind ==
  ASSUME NEW N \in Nat \ {0}, NEW x \in 0 .. 2 * N - 1, NEW y \in 0 .. 2 * N - 1,
         NEW d \in 0 .. N - 1, x - y = d \/ x - y = d - N
  PROVE  ((x % N) - (y % N)) % N = d
<1> DEFINE u == IF x < N THEN x ELSE x - N
           v == IF y < N THEN y ELSE y - N
<1>1. x % N = u /\ y % N = v /\ u \in 0 .. N - 1 /\ v \in 0 .. N - 1
  <2>1. CASE x < N /\ y < N
    BY <2>1
  <2>2. CASE x < N /\ y >= N
    BY <2>2
  <2>3. CASE x >= N /\ y < N
    BY <2>3
  <2>4. CASE x >= N /\ y >= N
    BY <2>4
  <2> QED
    BY <2>1, <2>2, <2>3, <2>4
<1>2. u - v = d \/ u - v = d - N \/ u - v = d + N \/ u - v = d - 2 * N
  OBVIOUS
<1>3. u - v = d \/ u - v = d - N
  BY <1>1, <1>2
<1> HIDE DEF u, v
<1>4. CASE u - v = d
  BY <1>1, <1>4
<1>5. CASE u - v = d - N
  <2>1. d - N \in (0 - N) .. (0 - 1)
    OBVIOUS
  <2>2. (d - N) % N = (d - N) + N
    BY <2>1
  <2> QED
    BY <1>1, <1>5, <2>2
<1> QED
  BY <1>3, <1>4, <1>5

LEMMA RingSize == RingLen \in Nat \ {0}
  BY RadioAssumption DEF ResidueLen

(* What the operators of the ring do to its indices.                       *)
LEMMA Cell ==
  ASSUME NEW b \in Ring, NEW n \in 0 .. b.nBytes
  PROVE  /\ bufBytes(b, n) = [i \in 1 .. n |-> b.pData[(b.iHead + i - 1) % RingLen]]
         /\ Got(b, n) = n
<1>1. Got(b, n) = n
  BY DEF Got, Ring
<1> QED
  BY <1>1 DEF bufBytes

(* bufGet() of the first part of the contents returns it and leaves the    *)
(* rest.                                                                   *)
LEMMA GetLemma ==
  ASSUME NEW b \in Ring, Aligned(b), NEW u \in Seq(Byte), NEW v \in Seq(Byte),
         Contents(b) = u \o v
  PROVE  /\ bufBytes(b, Len(u)) = u
         /\ bufGet(b, Len(u)) \in Ring /\ Aligned(bufGet(b, Len(u)))
         /\ bufGet(b, Len(u)).nBytes = b.nBytes - Len(u)
         /\ Contents(bufGet(b, Len(u))) = v
         /\ Len(u) + Len(v) = b.nBytes
<1>1. PICK n \in Nat, m \in Nat, R \in Nat \ {0} : n = Len(u) /\ m = Len(v) /\ R = RingLen
  BY LenProperties, RingSize
<1>2. PICK h \in 0 .. R - 1, N \in 0 .. R - 1 : h = b.iHead /\ N = b.nBytes
  BY <1>1 DEF Ring
<1>3. Contents(b) = [i \in 1 .. N |-> b.pData[(h + i - 1) % R]]
  <2>1. b.nBytes \in 0 .. b.nBytes
    BY <1>2
  <2> QED
    BY <1>1, <1>2, <2>1, Cell DEF Contents
<1>4. n + m = N
  <2>1. u \o v \in Seq(Byte) /\ Len(u \o v) = n + m
    BY <1>1, ConcatProperties
  <2>2. DOMAIN (u \o v) = 1 .. n + m
    BY <2>1
  <2>3. DOMAIN Contents(b) = 1 .. N
    BY <1>3
  <2>4. 1 .. N = 1 .. n + m /\ N \in Nat /\ n + m \in Nat
    BY <1>2, <2>2, <2>3
  <2> QED
    BY <2>4
<1>a. /\ h \in Nat /\ h < R /\ N \in Nat /\ N < R
      /\ n \in Nat /\ m \in Nat /\ R \in Nat /\ n + m = N
  BY <1>2, <1>4
<1>5. /\ \A i \in 1 .. n : u[i] = b.pData[(h + i - 1) % R]
      /\ \A i \in 1 .. m : v[i] = b.pData[(h + (n + i) - 1) % R]
  <2>1. \A i \in 1 .. n + m : (u \o v)[i] = IF i <= n THEN u[i] ELSE v[i - n]
    BY <1>1, ConcatProperties
  <2>2. \A i \in 1 .. n + m : (u \o v)[i] = b.pData[(h + i - 1) % R]
    BY <1>3, <1>4
  <2>3. ASSUME NEW i \in 1 .. n PROVE u[i] = b.pData[(h + i - 1) % R]
    <3>1. i \in 1 .. n + m /\ i <= n
      BY <1>1
    <3> QED
      BY <2>1, <2>2, <3>1
  <2>4. ASSUME NEW i \in 1 .. m PROVE v[i] = b.pData[(h + (n + i) - 1) % R]
    <3>1. n + i \in 1 .. n + m /\ ~(n + i <= n) /\ (n + i) - n = i
      BY <1>1
    <3> QED
      BY <2>1, <2>2, <3>1
  <2> QED
    BY <2>3, <2>4
<1>6. bufBytes(b, n) = u /\ Got(b, n) = n
  <2>1. n \in 0 .. b.nBytes
    BY <1>2, <1>4
  <2>a. bufBytes(b, n) = [i \in 1 .. n |-> b.pData[(b.iHead + i - 1) % RingLen]] /\ Got(b, n) = n
    BY <2>1, Cell
  <2>2. bufBytes(b, n) = [i \in 1 .. n |-> b.pData[(h + i - 1) % R]] /\ Got(b, n) = n
    BY <1>1, <1>2, <2>a
  <2>3. u = [i \in 1 .. n |-> u[i]]
    BY <1>1
  <2> QED
    BY <1>5, <2>2, <2>3
<1> DEFINE g == bufGet(b, n)
<1>7. g = [b EXCEPT !.nBytes = N - n, !.iHead = (h + n) % R]
  BY <1>1, <1>2, <1>6 DEF bufGet
<1>8. (h + n) % R \in 0 .. R - 1 /\ N - n \in 0 .. R - 1 /\ N - n = m
  <2>1. h + n \in Int /\ N - n \in 0 .. R - 1 /\ N - n = m
    BY <1>a
  <2> QED
    BY <2>1, ModRange
<1>9. /\ g \in Ring /\ g.nBytes = m /\ g.iHead = (h + n) % R
      /\ g.iTail = b.iTail /\ g.pData = b.pData
  BY <1>1, <1>7, <1>8 DEF Ring
<1>10. Aligned(g)
  <2>1. (((h + n) % R) + m) % R = (h + n + m) % R
    <3>1. h + n \in Nat /\ (h + n) + m < 2 * R
      BY <1>a
    <3> QED
      BY <3>1, ModAgain
  <2>2. h + n + m = h + N
    BY <1>a
  <2> QED
    BY <1>1, <1>2, <1>9, <2>1, <2>2 DEF Aligned
<1>11. Contents(g) = v
  <2>1. Contents(g) = [i \in 1 .. m |-> b.pData[(((h + n) % R) + i - 1) % R]]
    <3> HIDE DEF g
    <3>1. g.nBytes \in 0 .. g.nBytes
      BY <1>9
    <3>2. bufBytes(g, g.nBytes) = [i \in 1 .. g.nBytes |-> g.pData[(g.iHead + i - 1) % RingLen]]
      BY <1>9, <3>1, Cell
    <3> QED
      BY <1>1, <1>9, <3>2 DEF Contents
  <2>2. ASSUME NEW i \in 1 .. m
        PROVE  (((h + n) % R) + i - 1) % R = (h + (n + i) - 1) % R
    <3>1. h + n \in Nat /\ i - 1 \in Nat /\ (h + n) + (i - 1) < 2 * R
      BY <1>a
    <3>2. (((h + n) % R) + (i - 1)) % R = ((h + n) + (i - 1)) % R
      BY <3>1, ModAgain
    <3>3. ((h + n) % R) + i - 1 = ((h + n) % R) + (i - 1) /\ (h + n) + (i - 1) = h + (n + i) - 1
      BY <1>8
    <3> QED
      BY <3>2, <3>3
  <2>3. v = [i \in 1 .. m |-> v[i]]
    BY <1>1
  <2> HIDE DEF g
  <2>4. \A i \in 1 .. m : v[i] = b.pData[(((h + n) % R) + i - 1) % R]
    BY <1>5, <2>2
  <2> QED
    BY <2>1, <2>3, <2>4
<1> QED
  BY <1>1, <1>2, <1>4, <1>6, <1>8, <1>9, <1>10, <1>11

(* bufPut() of what fits puts it behind the contents.                      *)
LEMMA PutLemma ==
  ASSUME NEW b \in Ring, Aligned(b), NEW data \in Seq(Byte), Contents(b) \in Seq(Byte),
         b.nBytes + Len(data) < RingLen
  PROVE  /\ bufPut(b, data) \in Ring /\ Aligned(bufPut(b, data))
         /\ bufPut(b, data).nBytes = b.nBytes + Len(data)
         /\ Contents(bufPut(b, data)) = Contents(b) \o data
<1>1. PICK m \in Nat, R \in Nat \ {0} : m = Len(data) /\ R = RingLen
  BY LenProperties, RingSize
<1>2. PICK h \in 0 .. R - 1, N \in 0 .. R - 1 : h = b.iHead /\ N = b.nBytes
  BY <1>1 DEF Ring
<1>3. N + m < R
  BY <1>1, <1>2
<1>a. b.iTail = (h + N) % R /\ b.iTail \in 0 .. R - 1
  BY <1>1, <1>2 DEF Aligned, Ring
<1> DEFINE p == bufPut(b, data)
           cells == [i \in 0 .. R - 1 |->
                       IF Ahead(b, i) < m THEN data[Ahead(b, i) + 1] ELSE b.pData[i]]
<1>4. p = [b EXCEPT !.nBytes = N + m, !.iTail = (b.iTail + m) % R, !.pData = cells]
  BY <1>1, <1>2, <1>3, <1>a DEF bufPut, Ring
<1>5. cells \in [0 .. R - 1 -> Byte \cup {<<>>}]
  <2>1. ASSUME NEW i \in 0 .. R - 1
        PROVE  cells[i] \in Byte \cup {<<>>}
    <3>1. Ahead(b, i) \in 0 .. R - 1
      <4>1. i - b.iTail \in Int
        BY <1>a
      <4> QED
        BY <1>1, <4>1, ModRange DEF Ahead
    <3>2. b.pData[i] \in Byte \cup {<<>>}
      BY <1>1 DEF Ring
    <3>3. ASSUME Ahead(b, i) < m PROVE data[Ahead(b, i) + 1] \in Byte
      <4>1. Ahead(b, i) + 1 \in 1 .. Len(data)
        BY <1>1, <3>1, <3>3
      <4> QED
        BY <4>1, ElementOfSeq
    <3> QED
      BY <3>2, <3>3
  <2> QED
    BY <2>1
<1>6. (b.iTail + m) % R = (h + (N + m)) % R /\ (b.iTail + m) % R \in 0 .. R - 1
  <2>1. h + N \in Nat /\ (h + N) + m < 2 * R
    BY <1>2, <1>3
  <2>2. (((h + N) % R) + m) % R = ((h + N) + m) % R
    BY <2>1, ModAgain
  <2>3. (h + N) + m = h + (N + m) /\ (h + N) + m \in Int
    BY <1>2
  <2> QED
    BY <1>a, <2>2, <2>3, ModRange
<1> HIDE DEF cells
<1>7. /\ p \in Ring /\ p.nBytes = N + m /\ p.iHead = h
      /\ p.iTail = (h + (N + m)) % R /\ p.pData = cells
  <2>1. N + m \in 0 .. R - 1
    BY <1>2, <1>3
  <2> QED
    BY <1>1, <1>2, <1>4, <1>5, <1>6, <2>1 DEF Ring
<1> HIDE DEF p
<1>8. Aligned(p)
  BY <1>1, <1>7 DEF Aligned
<1>9. Contents(p) = [i \in 1 .. N + m |-> cells[(h + i - 1) % R]]
  <2>a. N + m \in 0 .. N + m
    BY <1>2
  <2>1. p.nBytes \in 0 .. p.nBytes
    BY <1>7, <2>a
  <2>2. bufBytes(p, p.nBytes) = [i \in 1 .. p.nBytes |-> p.pData[(p.iHead + i - 1) % RingLen]]
    BY <1>7, <2>1, Cell
  <2> QED
    BY <1>1, <1>7, <2>2 DEF Contents
<1>10. Contents(b) = [i \in 1 .. N |-> b.pData[(h + i - 1) % R]] /\ Len(Contents(b)) = N
  <2>1. b.nBytes \in 0 .. b.nBytes
    BY <1>2
  <2>a. bufBytes(b, b.nBytes) = [i \in 1 .. b.nBytes |-> b.pData[(b.iHead + i - 1) % RingLen]]
    BY <2>1, Cell
  <2>2. Contents(b) = [i \in 1 .. N |-> b.pData[(h + i - 1) % R]]
    BY <1>1, <1>2, <2>a DEF Contents
  <2>3. N \in Nat
    BY <1>2
  <2> QED
    BY <2>2, <2>3
<1>11. ASSUME NEW i \in 1 .. N + m
       PROVE  cells[(h + i - 1) % R] = IF i <= N THEN Contents(b)[i] ELSE data[i - N]
  <2> DEFINE k == (h + i - 1) % R
  <2>1. k \in 0 .. R - 1
    <3>1. h + i - 1 \in Int
      BY <1>2
    <3> QED
      BY <3>1, ModRange
  <2>2. cells[k] = IF Ahead(b, k) < m THEN data[Ahead(b, k) + 1] ELSE b.pData[k]
    BY <2>1 DEF cells
  <2>3. Ahead(b, k) = (((h + i - 1) % R) - ((h + N) % R)) % R
    <3> HIDE DEF k
    <3>1. Ahead(b, k) = (k - ((h + N) % R)) % R
      BY <1>1, <1>a DEF Ahead
    <3> QED
      BY <3>1 DEF k
  <2>a. /\ h \in Nat /\ h < R /\ N \in Nat /\ N < R /\ m \in Nat /\ R \in Nat
        /\ i \in Nat /\ 1 <= i /\ i <= N + m /\ N + m < R
    BY <1>3
  <2>4. h + i - 1 \in 0 .. 2 * R - 1 /\ h + N \in 0 .. 2 * R - 1
    BY <2>a
  <2> DEFINE x == h + i - 1
             y == h + N
  <2>b. x - y = i - 1 - N /\ x \in 0 .. 2 * R - 1 /\ y \in 0 .. 2 * R - 1
    BY <2>4, <2>a
  <2>c. Ahead(b, k) = ((x % R) - (y % R)) % R
    BY <2>3
  <2> HIDE DEF k, x, y
  <2>5. CASE i <= N
    <3> DEFINE d == i - 1 - N + R
    <3>1. d \in 0 .. R - 1 /\ i - 1 - N = d - R
      BY <2>a, <2>5
    <3>a. ~(d < m)
      BY <2>a, <2>5
    <3> HIDE DEF d
    <3>b. x - y = d - R
      BY <2>b, <3>1
    <3>2. ((x % R) - (y % R)) % R = d
      BY <2>b, <3>1, <3>b, ModBehind
    <3>3. ~(Ahead(b, k) < m)
      BY <2>c, <3>2, <3>a
    <3>4. i \in 1 .. N
      BY <2>a, <2>5
    <3> QED
      BY <1>10, <2>2, <2>5, <3>3, <3>4 DEF k
  <2>6. CASE ~(i <= N)
    <3> DEFINE d == i - 1 - N
    <3>1. d \in 0 .. R - 1
      BY <2>a, <2>6
    <3>a. d < m /\ d + 1 = i - N
      BY <2>a, <2>6
    <3>b. x - y = d
      BY <2>b
    <3> HIDE DEF d
    <3>2. ((x % R) - (y % R)) % R = d
      BY <2>b, <3>1, <3>b, ModBehind
    <3>3. Ahead(b, k) < m /\ Ahead(b, k) + 1 = i - N
      BY <2>c, <3>2, <3>a
    <3> QED
      BY <2>2, <2>6, <3>3 DEF k
  <2> QED
    BY <2>5, <2>6
<1>12. /\ Contents(b) \o data \in Seq(Byte) /\ Len(Contents(b) \o data) = N + m
       /\ \A i \in 1 .. N + m :
            (Contents(b) \o data)[i] = IF i <= N THEN Contents(b)[i] ELSE data[i - N]
  BY <1>1, <1>10, ConcatProperties
<1>13. Contents(b) \o data = [i \in 1 .. N + m |-> (Contents(b) \o data)[i]]
  <2> DEFINE s == Contents(b) \o data
  <2>1. s \in Seq(Byte) /\ Len(s) = N + m
    BY <1>12
  <2> HIDE DEF s
  <2>2. s = [i \in 1 .. N + m |-> s[i]]
    BY <2>1
  <2> QED
    BY <2>2 DEF s
<1>14. Contents(p) = Contents(b) \o data
  BY <1>9, <1>11, <1>12, <1>13
<1> QED
  BY <1>1, <1>2, <1>7, <1>8, <1>14 DEF p

-----------------------------------------------------------------------------
(* Packets: the bytes of a frame that was put into the ring.               *)
LEMMA WholeProperties ==
  ASSUME NEW f \in Whole
  PROVE  /\ f \in Frame /\ f.id \in 1 .. MaxFrames
         /\ f.len \in 1 .. MaxLen /\ f.len # AckLen
<1>1. f \in Frame /\ f.id \in 1 .. MaxFrames
  BY DEF Whole, Frame
<1>2. f.len \in Lens \/ f.len = ResidueLen
  BY DEF Whole, Frame
<1>3. f.len \in 1 .. MaxLen /\ f.len # AckLen
  <2>1. Lens \subseteq (1 .. MaxLen) \ {AckLen} /\ MaxLen \in Nat /\ MaxLen >= ResidueLen
    BY RadioAssumption
  <2>2. CASE f.len \in Lens
    BY <2>1, <2>2
  <2>3. CASE f.len = ResidueLen
    BY <2>1, <2>3 DEF AckLen, ResidueLen
  <2> QED
    BY <1>2, <2>2, <2>3
<1> QED
  BY <1>1, <1>3

Body(f) == [k \in 1 .. f.len |-> <<f, k>>]

LEMMA MpduProperties ==
  ASSUME NEW f \in Whole
  PROVE  /\ Mpdu(f) \in Seq(Byte) /\ Len(Mpdu(f)) = f.len + 1
         /\ Body(f) \in Seq(Byte) /\ Len(Body(f)) = f.len /\ Body(f)[1] = <<f, 1>>
         /\ <<<<f, 0>>>> \in Seq(Byte)
         /\ Mpdu(f) = <<<<f, 0>>>> \o Body(f)
<1>1. /\ f \in Frame /\ f.len \in Nat /\ f.len <= MaxLen /\ MaxLen \in Nat
      /\ f.len + 1 \in Nat /\ f.len >= 1
  BY WholeProperties, RadioAssumption
<1>2. \A k \in 0 .. f.len : <<f, k>> \in Byte
  BY <1>1 DEF Byte
<1>3. Mpdu(f) \in Seq(Byte) /\ Len(Mpdu(f)) = f.len + 1
  <2>1. \A k \in 1 .. f.len + 1 : k - 1 \in 0 .. f.len
    BY <1>1
  <2> QED
    BY <1>1, <1>2, <2>1 DEF Mpdu
<1>4. Body(f) \in Seq(Byte) /\ Len(Body(f)) = f.len /\ Body(f)[1] = <<f, 1>>
  BY <1>1, <1>2 DEF Body
<1>5. <<<<f, 0>>>> \in Seq(Byte) /\ Len(<<<<f, 0>>>>) = 1 /\ <<<<f, 0>>>>[1] = <<f, 0>>
  <2>1. <<f, 0>> \in Byte
    BY <1>1, <1>2
  <2> QED
    BY <2>1
<1>6. /\ <<<<f, 0>>>> \o Body(f) \in Seq(Byte) /\ Len(<<<<f, 0>>>> \o Body(f)) = 1 + f.len
      /\ \A i \in 1 .. 1 + f.len :
           (<<<<f, 0>>>> \o Body(f))[i] = IF i <= 1 THEN <<f, 0>> ELSE Body(f)[i - 1]
  <2>1. PICK h \in Seq(Byte) : h = <<<<f, 0>>>> /\ Len(h) = 1 /\ h[1] = <<f, 0>>
    BY <1>5
  <2>2. PICK b \in Seq(Byte) : b = Body(f) /\ Len(b) = f.len
    BY <1>4
  <2>3. /\ h \o b \in Seq(Byte) /\ Len(h \o b) = Len(h) + Len(b)
        /\ \A i \in 1 .. Len(h) + Len(b) :
             (h \o b)[i] = IF i <= Len(h) THEN h[i] ELSE b[i - Len(h)]
    BY ConcatProperties
  <2>4. ASSUME NEW i \in 1 .. 1 + f.len
        PROVE  (h \o b)[i] = IF i <= 1 THEN <<f, 0>> ELSE b[i - 1]
    <3>1. CASE i <= 1
      <4>1. i = 1
        BY <1>1, <3>1
      <4> QED
        BY <2>1, <2>2, <2>3, <3>1, <4>1
    <3>2. CASE ~(i <= 1)
      BY <2>1, <2>2, <2>3, <3>2
    <3> QED
      BY <3>1, <3>2
  <2> QED
    BY <2>1, <2>2, <2>3, <2>4
<1>7. Mpdu(f) = <<<<f, 0>>>> \o Body(f)
  <2>1. ASSUME NEW i \in 1 .. f.len + 1
        PROVE  Mpdu(f)[i] = (<<<<f, 0>>>> \o Body(f))[i]
    <3>1. Mpdu(f)[i] = <<f, i - 1>>
      BY DEF Mpdu
    <3>2. CASE i = 1
      BY <1>1, <1>6, <3>1, <3>2
    <3>3. CASE i # 1
      <4>1. i \in 1 .. 1 + f.len /\ ~(i <= 1) /\ i - 1 \in 1 .. f.len
        BY <1>1, <3>3
      <4>2. Body(f)[i - 1] = <<f, i - 1>>
        BY <4>1 DEF Body
      <4> QED
        BY <1>6, <3>1, <4>1, <4>2
    <3> QED
      BY <3>2, <3>3
  <2>2. Len(Mpdu(f)) = Len(<<<<f, 0>>>> \o Body(f))
    BY <1>1, <1>3, <1>6
  <2> QED
    BY <1>1, <1>3, <1>6, <2>1, <2>2, SeqEqual
<1> QED
  BY <1>3, <1>4, <1>5, <1>7

LEMMA PacketsProperties ==
  ASSUME NEW s \in Seq(Whole)
  PROVE  /\ Packets(s) \in Seq(Seq(Byte)) /\ Len(Packets(s)) = Len(s)
         /\ \A i \in 1 .. Len(s) : Packets(s)[i] = Mpdu(s[i])
<1>1. DOMAIN s = 1 .. Len(s) /\ Len(s) \in Nat
  OBVIOUS
<1>2. \A i \in 1 .. Len(s) : Mpdu(s[i]) \in Seq(Byte)
  <2>1. \A i \in 1 .. Len(s) : s[i] \in Whole
    OBVIOUS
  <2> QED
    BY <2>1, MpduProperties
<1> QED
  BY <1>1, <1>2 DEF Packets

LEMMA PacketsAppend ==
  ASSUME NEW s \in Seq(Whole), NEW f \in Whole
  PROVE  Packets(Append(s, f)) = Append(Packets(s), Mpdu(f))
<1>1. PICK n \in Nat, a \in Seq(Whole) :
        /\ n = Len(s) /\ a = Append(s, f) /\ Len(a) = n + 1
        /\ (\A i \in 1 .. n : a[i] = s[i]) /\ a[n + 1] = f
  <2>1. /\ Append(s, f) \in Seq(Whole) /\ Len(Append(s, f)) = Len(s) + 1
        /\ \A i \in 1 .. Len(s) : Append(s, f)[i] = s[i]
        /\ Append(s, f)[Len(s) + 1] = f
    BY AppendProperties
  <2>2. Len(s) \in Nat
    OBVIOUS
  <2> QED
    BY <2>1, <2>2
<1>2. PICK p \in Seq(Seq(Byte)), q \in Seq(Seq(Byte)) :
        /\ p = Packets(s) /\ q = Packets(a)
        /\ Len(p) = n /\ \A i \in 1 .. n : p[i] = Mpdu(s[i])
        /\ Len(q) = n + 1 /\ \A i \in 1 .. n + 1 : q[i] = Mpdu(a[i])
  <2>1. /\ Packets(s) \in Seq(Seq(Byte)) /\ Len(Packets(s)) = n
        /\ \A i \in 1 .. n : Packets(s)[i] = Mpdu(s[i])
    BY <1>1, PacketsProperties
  <2>2. /\ Packets(a) \in Seq(Seq(Byte)) /\ Len(Packets(a)) = n + 1
        /\ \A i \in 1 .. n + 1 : Packets(a)[i] = Mpdu(a[i])
    <3>1. a \in Seq(Whole) /\ Len(a) = n + 1
      BY <1>1
    <3> QED
      BY <3>1, PacketsProperties
  <2> QED
    BY <2>1, <2>2
<1>3. PICK m \in Seq(Byte) : m = Mpdu(f)
  BY MpduProperties
<1>4. PICK r \in Seq(Seq(Byte)) :
        /\ r = Append(p, m) /\ Len(r) = n + 1
        /\ (\A i \in 1 .. n : r[i] = p[i]) /\ r[n + 1] = m
  <2>1. /\ Append(p, m) \in Seq(Seq(Byte)) /\ Len(Append(p, m)) = Len(p) + 1
        /\ \A i \in 1 .. Len(p) : Append(p, m)[i] = p[i]
        /\ Append(p, m)[Len(p) + 1] = m
    BY AppendProperties
  <2> QED
    BY <1>2, <2>1
<1>5. ASSUME NEW i \in 1 .. n + 1 PROVE q[i] = r[i]
  <2>1. CASE i = n + 1
    BY <1>1, <1>2, <1>3, <1>4, <2>1
  <2>2. CASE i # n + 1
    <3>1. i \in 1 .. n
      BY <2>2
    <3> QED
      BY <1>1, <1>2, <1>4, <3>1
  <2> QED
    BY <2>1, <2>2
<1>6. q = r
  BY <1>2, <1>4, <1>5, SeqEqual
<1> QED
  BY <1>1, <1>2, <1>3, <1>4, <1>6

LEMMA PacketsTail ==
  ASSUME NEW s \in Seq(Whole), s # <<>>
  PROVE  /\ Packets(s) # <<>> /\ Packets(s)[1] = Mpdu(s[1])
         /\ Tail(Packets(s)) = Packets(Tail(s))
<1>1. PICK n \in Nat, a \in Seq(Whole) :
        /\ Len(s) = n + 1 /\ a = Tail(s) /\ Len(a) = n
        /\ (\A i \in 1 .. n : a[i] = s[i + 1])
  <2>1. /\ Tail(s) \in Seq(Whole) /\ Len(Tail(s)) = Len(s) - 1
        /\ \A i \in 1 .. Len(Tail(s)) : Tail(s)[i] = s[i + 1]
    BY HeadTailProperties
  <2>2. Len(s) \in Nat /\ Len(Tail(s)) \in Nat /\ Len(s) = Len(Tail(s)) + 1
    BY <2>1
  <2> QED
    BY <2>1, <2>2
<1>2. PICK p \in Seq(Seq(Byte)), q \in Seq(Seq(Byte)) :
        /\ p = Packets(s) /\ q = Packets(a)
        /\ Len(p) = n + 1 /\ \A i \in 1 .. n + 1 : p[i] = Mpdu(s[i])
        /\ Len(q) = n /\ \A i \in 1 .. n : q[i] = Mpdu(a[i])
  <2>1. /\ Packets(s) \in Seq(Seq(Byte)) /\ Len(Packets(s)) = n + 1
        /\ \A i \in 1 .. n + 1 : Packets(s)[i] = Mpdu(s[i])
    <3>1. s \in Seq(Whole) /\ Len(s) = n + 1
      BY <1>1
    <3> QED
      BY <3>1, PacketsProperties
  <2>2. /\ Packets(a) \in Seq(Seq(Byte)) /\ Len(Packets(a)) = n
        /\ \A i \in 1 .. n : Packets(a)[i] = Mpdu(a[i])
    BY <1>1, PacketsProperties
  <2> QED
    BY <2>1, <2>2
<1>3. p # <<>> /\ p[1] = Mpdu(s[1])
  BY <1>2
<1>4. PICK r \in Seq(Seq(Byte)) :
        /\ r = Tail(p) /\ Len(r) = n /\ \A i \in 1 .. n : r[i] = p[i + 1]
  <2>1. /\ Tail(p) \in Seq(Seq(Byte)) /\ Len(Tail(p)) = Len(p) - 1
        /\ \A i \in 1 .. Len(Tail(p)) : Tail(p)[i] = p[i + 1]
    BY <1>3, HeadTailProperties
  <2>2. Len(p) - 1 = n
    BY <1>2
  <2> QED
    BY <2>1, <2>2
<1>5. ASSUME NEW i \in 1 .. n PROVE q[i] = r[i]
  <2>1. i + 1 \in 1 .. n + 1
    OBVIOUS
  <2> QED
    BY <1>1, <1>2, <1>4, <2>1
<1>6. q = r
  BY <1>2, <1>4, <1>5, SeqEqual
<1> QED
  BY <1>1, <1>2, <1>3, <1>4, <1>6

(* What the poll handler finds in a ring that is not empty.                *)
LEMMA ReadLemma ==
  ASSUME RingInv, rxBuffer.nBytes > 0,
         NEW f, f = accepted[1], NEW rest, rest = bufGet(rxBuffer, 1)
  PROVE  /\ accepted # <<>> /\ f \in Whole /\ bufBytes(rxBuffer, 1)[1] = <<f, 0>>
         /\ bufBytes(rest, f.len) = Body(f)
         /\ bufGet(rest, f.len) \in Ring /\ Aligned(bufGet(rest, f.len))
         /\ Contents(bufGet(rest, f.len)) = FlattenSeq(Packets(Tail(accepted)))
<1>1. /\ rxBuffer \in Ring /\ Aligned(rxBuffer) /\ accepted \in Seq(Whole)
      /\ Contents(rxBuffer) = FlattenSeq(Packets(accepted))
  BY DEF RingInv, RingWhole, Contents, Packets
<1>2. accepted # <<>>
  <2>1. SUFFICES ASSUME accepted = <<>> PROVE FALSE
    OBVIOUS
  <2>2. Packets(accepted) \in Seq(Seq(Byte)) /\ Len(Packets(accepted)) = 0
    BY <1>1, <2>1, PacketsProperties
  <2>3. Contents(rxBuffer) = <<>>
    BY <1>1, <2>2, FlattenEmpty
  <2>4. rxBuffer.nBytes \in 0 .. rxBuffer.nBytes /\ rxBuffer.nBytes \in Nat
    BY <1>1 DEF Ring
  <2>5. bufBytes(rxBuffer, rxBuffer.nBytes)
          = [i \in 1 .. rxBuffer.nBytes |-> rxBuffer.pData[(rxBuffer.iHead + i - 1) % RingLen]]
    BY <1>1, <2>4, Cell
  <2>6. DOMAIN Contents(rxBuffer) = 1 .. rxBuffer.nBytes
    BY <2>5 DEF Contents
  <2>7. 1 \in DOMAIN Contents(rxBuffer)
    BY <2>4, <2>6
  <2> QED
    BY <2>3, <2>7
<1>3. f \in Whole
  BY <1>1, <1>2
<1>4. PICK head \in Seq(Byte), body \in Seq(Byte), tail \in Seq(Byte) :
        /\ head = <<<<f, 0>>>> /\ Len(head) = 1 /\ head[1] = <<f, 0>>
        /\ body = Body(f) /\ Len(body) = f.len
        /\ Mpdu(f) = head \o body
        /\ tail = FlattenSeq(Packets(Tail(accepted)))
  <2>1. Packets(Tail(accepted)) \in Seq(Seq(Byte))
    <3>1. Tail(accepted) \in Seq(Whole)
      BY <1>1, <1>2, HeadTailProperties
    <3> QED
      BY <3>1, PacketsProperties
  <2>2. FlattenSeq(Packets(Tail(accepted))) \in Seq(Byte)
    <3>1. <<>> \in Seq(Byte)
      OBVIOUS
    <3> QED
      BY <2>1, <3>1, FlattenAppend
  <2>3. /\ <<<<f, 0>>>> \in Seq(Byte) /\ Body(f) \in Seq(Byte) /\ Len(Body(f)) = f.len
        /\ Mpdu(f) = <<<<f, 0>>>> \o Body(f)
    BY <1>3, MpduProperties
  <2> QED
    BY <2>2, <2>3
<1>5. Contents(rxBuffer) = (head \o body) \o tail
  <2>1. /\ Packets(accepted) # <<>> /\ Packets(accepted)[1] = Mpdu(accepted[1])
        /\ Tail(Packets(accepted)) = Packets(Tail(accepted))
    BY <1>1, <1>2, PacketsTail
  <2>2. Packets(accepted) \in Seq(Seq(Byte))
    BY <1>1, PacketsProperties
  <2>3. FlattenSeq(Packets(accepted)) = Packets(accepted)[1] \o FlattenSeq(Tail(Packets(accepted)))
    BY <2>1, <2>2, FlattenTail
  <2> QED
    BY <1>1, <1>4, <2>1, <2>3
<1>6. Contents(rxBuffer) = head \o (body \o tail)
  BY <1>5, ConcatAssociative
<1>7. body \o tail \in Seq(Byte)
  OBVIOUS
<1>8. /\ bufBytes(rxBuffer, 1) = head
      /\ rest \in Ring /\ Aligned(rest)
      /\ Contents(rest) = body \o tail
  <2>1. /\ bufBytes(rxBuffer, Len(head)) = head
        /\ bufGet(rxBuffer, Len(head)) \in Ring /\ Aligned(bufGet(rxBuffer, Len(head)))
        /\ Contents(bufGet(rxBuffer, Len(head))) = body \o tail
    BY <1>1, <1>6, <1>7, GetLemma
  <2> QED
    BY <1>4, <2>1
<1>9. /\ bufBytes(rest, Len(body)) = body
      /\ bufGet(rest, Len(body)) \in Ring /\ Aligned(bufGet(rest, Len(body)))
      /\ Contents(bufGet(rest, Len(body))) = tail
  BY <1>8, GetLemma
<1> QED
  BY <1>2, <1>3, <1>4, <1>8, <1>9

-----------------------------------------------------------------------------
LEMMA InitIInv == Init => IInv
<1> SUFFICES ASSUME Init PROVE IInv
  OBVIOUS
<1>1. TypeOK
  <2>1. rxBuffer.pData \in [0 .. RingLen - 1 -> Byte \cup {<<>>}]
    BY DEF Init
  <2>2. /\ rxBuffer.nBytes \in 0 .. RingLen - 1
        /\ rxBuffer.iHead \in 0 .. RingLen - 1 /\ rxBuffer.iTail \in 0 .. RingLen - 1
    BY RingSize DEF Init
  <2>3. sent \in 0 .. MaxFrames /\ timeout \in 0 .. Tries /\ txFifo \in Nat /\ cut \in Nat
    BY RadioAssumption DEF Init
  <2>4. /\ fifo \in Seq(Frame) /\ Len(fifo) <= FifoSize
        /\ packet \in Seq(Byte) /\ accepted \in Seq(Frame)
    BY RadioAssumption DEF Init
  <2> QED
    BY <2>1, <2>2, <2>3, <2>4 DEF Init, TypeOK
<1>2. rxBuffer \in Ring /\ Aligned(rxBuffer)
  BY RingSize DEF Init, Ring, Aligned
<1>3. accepted \in Seq(Whole) /\ RingWhole
  <2>1. accepted = <<>> /\ accepted \in Seq(Whole)
    BY DEF Init
  <2>2. Packets(accepted) \in Seq(Seq(Byte)) /\ Len(Packets(accepted)) = 0
    BY <2>1, PacketsProperties
  <2>3. FlattenSeq(Packets(accepted)) = <<>>
    BY <2>2, FlattenEmpty
  <2>4. bufBytes(rxBuffer, 0) = <<>>
    <3>1. 0 \in 0 .. rxBuffer.nBytes
      BY DEF Init
    <3>2. bufBytes(rxBuffer, 0) = [i \in 1 .. 0 |-> rxBuffer.pData[(rxBuffer.iHead + i - 1) % RingLen]]
      BY <1>2, <3>1, Cell
    <3> QED
      BY <3>2
  <2> QED
    BY <2>1, <2>3, <2>4 DEF Init, RingWhole, Packets
<1> QED
  BY <1>1, <1>2, <1>3 DEF IInv, RingInv, InHand, Pending, Loaded, Prepared, Init

(* Where the waits and the ends of the SPI transfers lead.                 *)
LEMMA Transfers ==
  /\ DOMAIN Waits = {"clearWait", "bitWait", "flushWait"}
  /\ DOMAIN Ends = {"clearEnd", "flushEnd"}
  /\ \A l \in DOMAIN Waits : Waits[l] \in {"bit", "clearEnd", "flushEnd"}
  /\ \A l \in DOMAIN Ends : Ends[l] \in {"flag", "loop"}
BY DEF Waits, Ends

(* The handler puts a whole packet into the ring or leaves it alone.       *)
LEMMA PutFrame ==
  ASSUME RingInv, NEW f \in Whole, rxBuffer' = bufPut(rxBuffer, Mpdu(f)),
         accepted' = IF rxBuffer' = rxBuffer THEN accepted ELSE Append(accepted, f)
  PROVE  RingInv' /\ rxBuffer.nBytes <= rxBuffer'.nBytes
<1>1. /\ rxBuffer \in Ring /\ Aligned(rxBuffer) /\ accepted \in Seq(Whole)
      /\ Contents(rxBuffer) = FlattenSeq(Packets(accepted))
  BY DEF RingInv, RingWhole, Contents, Packets
<1>2. PICK d \in Seq(Byte) : d = Mpdu(f) /\ Len(d) = f.len + 1
  BY MpduProperties
<1>3. rxBuffer.nBytes \in Nat /\ f.len \in Nat
  BY <1>1, WholeProperties DEF Ring
<1>4. CASE rxBuffer.nBytes + Len(d) < RingLen
  <2>1. Packets(accepted) \in Seq(Seq(Byte))
    BY <1>1, PacketsProperties
  <2>2. /\ FlattenSeq(Packets(accepted)) \in Seq(Byte)
        /\ FlattenSeq(Append(Packets(accepted), d)) = FlattenSeq(Packets(accepted)) \o d
    BY <2>1, FlattenAppend
  <2>3. /\ rxBuffer' \in Ring /\ Aligned(rxBuffer')
        /\ rxBuffer'.nBytes = rxBuffer.nBytes + Len(d)
        /\ Contents(rxBuffer') = Contents(rxBuffer) \o d
    BY <1>1, <1>2, <1>4, <2>2, PutLemma
  <2>4. rxBuffer' # rxBuffer
    BY <1>2, <1>3, <2>3
  <2>5. accepted' = Append(accepted, f) /\ accepted' \in Seq(Whole)
    BY <1>1, <2>4
  <2>6. Packets(accepted') = Append(Packets(accepted), d)
    BY <1>1, <1>2, <2>5, PacketsAppend
  <2>7. Contents(rxBuffer') = FlattenSeq(Packets(accepted'))
    BY <1>1, <2>2, <2>3, <2>6
  <2>8. rxBuffer.nBytes <= rxBuffer'.nBytes
    BY <1>2, <1>3, <2>3
  <2>9. RingInv'
    BY <2>3, <2>5, <2>7 DEF RingInv, RingWhole, Contents, Packets
  <2> QED
    BY <2>8, <2>9
<1>5. CASE ~(rxBuffer.nBytes + Len(d) < RingLen)
  <2>1. rxBuffer' = rxBuffer /\ accepted' = accepted
    BY <1>2, <1>5 DEF bufPut
  <2> QED
    BY <1>3, <2>1 DEF RingInv, RingWhole
<1> QED
  BY <1>4, <1>5

(* The poll handler takes exactly the first packet out of it.              *)
LEMMA Taken ==
  ASSUME RingInv, Pending, packetReceive
  PROVE  /\ RingInv' /\ accepted # <<>> /\ accepted' = Tail(accepted)
         /\ packet' = Body(accepted[1]) /\ accepted[1] \in Whole
<1> DEFINE f == accepted[1]
           rest == bufGet(rxBuffer, 1)
<1>1. rxBuffer.nBytes > 0 /\ rxBuffer.nBytes \in Nat
  BY DEF Pending, packetReceive, MainAt, RingInv, Ring
<1>2. /\ accepted # <<>> /\ f \in Whole /\ bufBytes(rxBuffer, 1)[1] = <<f, 0>>
      /\ bufBytes(rest, f.len) = Body(f)
      /\ bufGet(rest, f.len) \in Ring /\ Aligned(bufGet(rest, f.len))
      /\ Contents(bufGet(rest, f.len)) = FlattenSeq(Packets(Tail(accepted)))
  BY <1>1, ReadLemma
<1>3. f.len \in 1 .. MaxLen /\ MaxLen \in Nat
  BY <1>2, WholeProperties, RadioAssumption
<1>4. bufBytes(rxBuffer, 1)[1][1].len = f.len
  BY <1>2
<1> HIDE DEF f, rest
<1>5. /\ rxBuffer' = bufGet(rest, f.len)
      /\ packet' = bufBytes(rest, f.len)
      /\ accepted' = IF accepted = <<>> THEN <<>> ELSE Tail(accepted)
  <2>1. rxBuffer.nBytes # 0 /\ ~(f.len > MaxLen)
    BY <1>1, <1>3
  <2> QED
    BY <1>4, <2>1 DEF packetReceive, rest
<1>6. accepted' = Tail(accepted) /\ accepted' \in Seq(Whole)
  <2>1. accepted \in Seq(Whole)
    BY DEF RingInv
  <2> QED
    BY <1>2, <1>5, <2>1, HeadTailProperties
<1>7. RingInv'
  BY <1>2, <1>5, <1>6 DEF RingInv, RingWhole, Contents, Packets
<1> QED
  BY <1>2, <1>5, <1>6, <1>7 DEF f

LEMMA RingStep == IInv /\ [Next]_vars => RingInv'
<1> SUFFICES ASSUME IInv, [Next]_vars PROVE RingInv'
  OBVIOUS
<1>1. CASE UNCHANGED ringVars
  BY <1>1 DEF IInv, RingInv, RingWhole, ringVars
<1>2. CASE IsrPayload
  <2>1. CASE UNCHANGED ringVars
    BY <1>1, <2>1
  <2>2. CASE /\ fifo[1].kind \in {"good", "residue"}
             /\ rxBuffer' = bufPut(rxBuffer, Mpdu(fifo[1]))
             /\ accepted' = IF rxBuffer' = rxBuffer THEN accepted ELSE Append(accepted, fifo[1])
    <3>1. fifo # <<>> /\ fifo \in Seq(Frame)
      BY <1>2 DEF IsrPayload, IInv, InHand, TypeOK
    <3>2. fifo[1] \in Whole
      BY <2>2, <3>1 DEF Whole
    <3> QED
      BY <2>2, <3>2, PutFrame DEF IInv
  <2> QED
    BY <1>2, <2>1, <2>2 DEF IsrPayload
<1>3. CASE packetReceive
  BY <1>3, Taken DEF IInv
<1>4. CASE Next /\ ~IsrPayload /\ ~packetReceive
  <2>1. CASE \E f \in Frame : FrameDone(f)
    BY <1>1, <2>1 DEF FrameDone, ringVars
  <2>2. CASE Isr
    BY <1>1, <1>4, <2>2 DEF Isr, IsrClear, IsrMask, IsrLength, IsrFlush, IsrEnable, IsrExit, ringVars
  <2>3. CASE Receive
    BY <1>1, <1>4, <2>3 DEF Receive, pending_packet, ringVars
  <2>4. CASE Transmit
    BY <1>1, <2>4 DEF Transmit, Sending, prepare, prepareClear, prepareBit, prepareFlag,
                      prepareMask, prepareEnable, strobe, timeOut, flushTx, frameSent,
                      SpiWait, SpiEnd, ringVars
  <2> QED
    BY <1>4, <2>1, <2>2, <2>3, <2>4 DEF Next
<1>5. CASE UNCHANGED vars
  BY <1>1, <1>5 DEF vars, ringVars
<1> QED
  BY <1>2, <1>3, <1>4, <1>5

(* The rest of the invariant, action by action.                            *)
LEMMA PartsStep ==
  IInv /\ [Next]_vars => InHand' /\ Pending' /\ Loaded'
<1> SUFFICES ASSUME IInv, [Next]_vars PROVE InHand' /\ Pending' /\ Loaded'
  OBVIOUS
<1> USE DEF InHand, Pending, Loaded, Prepared
<1>0. InHand /\ Pending /\ Loaded /\ RingInv /\ fifo \in Seq(Frame) /\ rxBuffer.nBytes \in Nat
  BY DEF IInv, TypeOK, RingInv, Ring
<1>1. ASSUME NEW f \in Frame, FrameDone(f) PROVE InHand' /\ Pending' /\ Loaded'
  <2>1. CASE UNCHANGED fifo
    BY <1>0, <1>1, <2>1 DEF FrameDone, spiVars, mainVars, ringVars, sendVars
  <2>2. CASE fifo' = Append(fifo, f)
    <3>1. fifo # <<>> => fifo' # <<>> /\ fifo'[1] = fifo[1]
      BY <1>0, <2>2
    <3> QED
      BY <1>0, <1>1, <3>1 DEF FrameDone, spiVars, mainVars, ringVars, sendVars
  <2> QED
    BY <1>1, <2>1, <2>2 DEF FrameDone
<1>2. CASE IsrMask \/ IsrFlush \/ IsrEnable \/ IsrExit
  BY <1>0, <1>2 DEF IsrMask, IsrFlush, IsrEnable, IsrExit,
                    chipVars, spiVars, mainVars, ringVars, sendVars
<1>3. CASE IsrLength
  BY <1>0, <1>3 DEF IsrLength, spiVars, mainVars, ringVars, sendVars
<1>4. CASE IsrPayload
  <2>1. Pending'
    <3>1. CASE UNCHANGED ringVars
      BY <1>0, <1>4, <3>1 DEF IsrPayload, mainVars, ringVars
    <3>2. CASE /\ fifo[1].kind \in {"good", "residue"}
               /\ rxBuffer' = bufPut(rxBuffer, Mpdu(fifo[1]))
               /\ accepted' = IF rxBuffer' = rxBuffer THEN accepted ELSE Append(accepted, fifo[1])
      <4>1. fifo[1] \in Whole
        BY <1>0, <1>4, <3>2 DEF Whole, IsrPayload
      <4>2. rxBuffer.nBytes <= rxBuffer'.nBytes /\ RingInv'
        BY <1>0, <3>2, <4>1, PutFrame
      <4>3. rxBuffer'.nBytes \in Nat
        BY <4>2 DEF RingInv, Ring
      <4> QED
        BY <1>0, <1>4, <4>2, <4>3 DEF IsrPayload, mainVars
    <3> QED
      BY <1>4, <3>1, <3>2 DEF IsrPayload
  <2> QED
    BY <1>0, <1>4, <2>1 DEF IsrPayload, spiVars, mainVars, sendVars
<1>5. CASE Receive
  BY <1>0, <1>5 DEF Receive, pending_packet, packetReceive, MainAt, bufNumBytes,
                    chipVars, ringVars, spiVars, sendVars
<1>6. CASE prepare \/ prepareFlag \/ prepareMask \/ prepareEnable
  BY <1>0, <1>6 DEF prepare, prepareFlag, prepareMask, prepareEnable, MainAt, Begin,
                    chipVars, ringVars, spiVars, sendVars
<1>7. CASE strobe \/ timeOut \/ frameSent
  BY <1>0, <1>7 DEF strobe, timeOut, frameSent, MainAt, Begin, chipVars, ringVars, spiVars
<1>9. CASE IsrClear
  BY <1>0, <1>9 DEF IsrClear, ringVars
<1>10. CASE prepareClear \/ prepareBit \/ flushTx
  BY <1>0, <1>10 DEF prepareClear, prepareBit, flushTx, MainAt, Write, chipVars, ringVars, sendVars
<1>11. CASE SpiWait \/ SpiEnd
  BY <1>0, <1>11, Transfers DEF SpiWait, SpiEnd, MainAt, chipVars, ringVars, sendVars
<1>8. CASE UNCHANGED vars
  BY <1>0, <1>8 DEF vars, chipVars, spiVars, mainVars, ringVars, sendVars
<1> QED
  BY <1>1, <1>2, <1>3, <1>4, <1>5, <1>6, <1>7, <1>8, <1>9, <1>10, <1>11 DEF Next, Isr, Transmit, Sending

LEMMA TypeStep ==
  IInv /\ [Next]_vars => TypeOK'
<1> SUFFICES ASSUME IInv, [Next]_vars PROVE TypeOK'
  OBVIOUS
<1>1. RingInv' /\ Loaded' /\ TypeOK /\ RingInv /\ InHand /\ Pending
  BY RingStep, PartsStep DEF IInv
<1>2. /\ rxBuffer'.nBytes \in 0 .. RingLen - 1
      /\ rxBuffer'.iHead \in 0 .. RingLen - 1 /\ rxBuffer'.iTail \in 0 .. RingLen - 1
      /\ rxBuffer'.pData \in [0 .. RingLen - 1 -> Byte \cup {<<>>}]
  BY <1>1 DEF RingInv, Ring
<1>3. accepted' \in Seq(Frame)
  <2>1. Whole \subseteq Frame
    BY DEF Whole
  <2> QED
    BY <1>1, <2>1, SeqMonotonic DEF RingInv
<1>4. txFifo' \in Nat /\ cut' \in Nat
  BY <1>1 DEF Loaded
<1> DEFINE Chip == /\ sent \in 0 .. MaxFrames /\ fifo \in Seq(Frame) /\ Len(fifo) <= FifoSize
                   /\ exc \in BOOLEAN /\ ifg \in BOOLEAN /\ ie \in BOOLEAN
           Places == /\ isr \in {"idle", "mask", "length", "payload", "flush", "enable", "exit"}
                     /\ pc \in {"loop", "read", "clear", "bit", "flag", "mask", "write", "strobe",
                               "sending", "flush"} \cup DOMAIN Waits \cup DOMAIN Ends
                     /\ cs \in {"high", "low", "begun"} /\ rxReady \in BOOLEAN
                     /\ timeout \in 0 .. Tries
                     /\ packet \in Seq(Byte)
<1>5. Chip /\ Places
  BY <1>1 DEF TypeOK
<1>6. SUFFICES Chip' /\ Places'
  BY <1>2, <1>3, <1>4 DEF TypeOK
<1>7. ASSUME NEW f \in Frame, FrameDone(f) PROVE Chip' /\ Places'
  <2>1. sent' \in 0 .. MaxFrames
    BY <1>5, <1>7, RadioAssumption DEF FrameDone
  <2>2. fifo' \in Seq(Frame) /\ Len(fifo') <= FifoSize
    <3>1. CASE Len(fifo) < FifoSize
      <4>1. fifo' = Append(fifo, f)
        BY <1>7, <3>1 DEF FrameDone
      <4>2. fifo' \in Seq(Frame) /\ Len(fifo') = Len(fifo) + 1 /\ Len(fifo) \in Nat
        BY <1>5, <4>1, AppendProperties
      <4> QED
        BY <3>1, <4>2, RadioAssumption
    <3>2. CASE ~(Len(fifo) < FifoSize)
      BY <1>5, <1>7, <3>2 DEF FrameDone
    <3> QED
      BY <3>1, <3>2
  <2>3. exc' \in BOOLEAN /\ ifg' \in BOOLEAN /\ ie' \in BOOLEAN
    BY <1>5, <1>7 DEF FrameDone
  <2> QED
    BY <1>5, <1>7, <2>1, <2>2, <2>3 DEF FrameDone, spiVars, mainVars, sendVars
<1>8. CASE IsrClear \/ IsrMask \/ IsrEnable \/ IsrExit
  BY <1>5, <1>8 DEF IsrClear, IsrMask, IsrEnable, IsrExit, chipVars, spiVars, mainVars, sendVars
<1>9. CASE IsrLength
  <2>1. fifo' \in Seq(Frame) /\ Len(fifo') = Len(fifo)
    <3>1. CASE fifo[1].len = AckLen
      <4> DEFINE a == [fifo[1] EXCEPT !.kind = "residue", !.len = ResidueLen]
      <4>1. fifo # <<>> /\ fifo' = [fifo EXCEPT ![1] = a]
        BY <1>9, <3>1 DEF IsrLength
      <4>2. 1 \in 1 .. Len(fifo) /\ fifo[1] \in Frame
        BY <1>5, <4>1
      <4>3. a \in Frame
        BY <4>2 DEF Frame
      <4> HIDE DEF a
      <4> QED
        BY <1>5, <4>1, <4>2, <4>3, ExceptSeq
    <3>2. CASE fifo[1].len # AckLen
      BY <1>5, <1>9, <3>2 DEF IsrLength
    <3> QED
      BY <3>1, <3>2
  <2> QED
    BY <1>5, <1>9, <2>1 DEF IsrLength, spiVars, mainVars, sendVars
<1>10. CASE IsrPayload
  <2>1. fifo' \in Seq(Frame) /\ Len(fifo') <= FifoSize
    <3>1. fifo # <<>> /\ fifo' = Tail(fifo)
      BY <1>1, <1>10 DEF IsrPayload, InHand
    <3>2. fifo' \in Seq(Frame) /\ Len(fifo') = Len(fifo) - 1 /\ Len(fifo) \in Nat
      BY <1>5, <3>1, HeadTailProperties
    <3> QED
      BY <1>5, <3>2, RadioAssumption
  <2> QED
    BY <1>5, <1>10, <2>1 DEF IsrPayload, spiVars, mainVars, sendVars
<1>11. CASE IsrFlush
  <2>1. fifo' \in Seq(Frame) /\ Len(fifo') <= FifoSize
    BY <1>11, RadioAssumption DEF IsrFlush
  <2> QED
    BY <1>5, <1>11, <2>1 DEF IsrFlush, spiVars, mainVars, sendVars
<1>12. CASE pending_packet
  BY <1>5, <1>12 DEF pending_packet, chipVars, spiVars, sendVars
<1>13. CASE packetReceive
  <2>1. packet' \in Seq(Byte)
    BY <1>1, <1>13, Taken, MpduProperties
  <2> QED
    BY <1>5, <1>13, <2>1 DEF packetReceive, chipVars, spiVars, sendVars
<1>14. CASE prepare \/ prepareFlag \/ prepareMask \/ frameSent
  BY <1>5, <1>14 DEF prepare, prepareFlag, prepareMask, frameSent, Begin, chipVars, spiVars, sendVars
<1>15. CASE prepareEnable \/ strobe \/ timeOut
  <2>1. timeout' \in 0 .. Tries
    BY <1>5, <1>15, RadioAssumption DEF prepareEnable, strobe, timeOut
  <2> QED
    BY <1>5, <1>15, <2>1 DEF prepareEnable, strobe, timeOut, Begin, chipVars, spiVars
<1>16. CASE UNCHANGED vars
  BY <1>5, <1>16 DEF vars, chipVars, spiVars, mainVars, sendVars
<1>17. CASE prepareClear \/ prepareBit \/ flushTx
  BY <1>5, <1>17, Transfers DEF prepareClear, prepareBit, flushTx, Write, chipVars, sendVars
<1>18. CASE SpiWait
  <2>1. pc' \in {"bit", "clearEnd", "flushEnd"} \/ pc' = pc
    BY <1>18, Transfers DEF SpiWait
  <2>2. rxReady' \in BOOLEAN
    BY <1>5, <1>18 DEF SpiWait
  <2>3. UNCHANGED <<sent, fifo, exc, ifg, ie, isr, cs, packet, timeout>>
    BY <1>18 DEF SpiWait, chipVars, sendVars
  <2> QED
    BY <1>5, <2>1, <2>2, <2>3, Transfers
<1>19. CASE SpiEnd
  <2>1. pc' \in {"flag", "loop"} /\ cs' = "high"
    BY <1>19, Transfers DEF SpiEnd
  <2>2. UNCHANGED <<sent, fifo, exc, ifg, ie, isr, rxReady, packet, timeout>>
    BY <1>19 DEF SpiEnd, chipVars, sendVars
  <2> QED
    BY <1>5, <2>1, <2>2
<1> QED
  BY <1>7, <1>8, <1>9, <1>10, <1>11, <1>12, <1>13, <1>14, <1>15, <1>16, <1>17, <1>18, <1>19
     DEF Next, Isr, Receive, Transmit, Sending

LEMMA IInvariant == Spec => []IInv
<1>1. IInv /\ [Next]_vars => IInv'
  BY RingStep, PartsStep, TypeStep DEF IInv
<1> QED
  BY InitIInv, <1>1, PTL DEF Spec

(* Every variable of the driver and the chip keeps its type: the ring's   *)
(* counts and indices stay within it, for any size (sense_utils.c).        *)
THEOREM RadioTypeInvariant == Spec => []TypeOK
<1>1. IInv => TypeOK
  BY DEF IInv
<1> QED
  BY IInvariant, <1>1, PTL

(* The ring holds whole packets, in the order they were accepted, however  *)
(* it wraps, fills and is flushed (bufPut, cc2520ll_packetReceivedISR).    *)
THEOREM RingHoldsPackets == Spec => []RingWhole
<1>1. IInv => RingWhole
  BY DEF IInv, RingInv
<1> QED
  BY IInvariant, <1>1, PTL

(* The chip holds the frame that was prepared last and, before it, one for *)
(* each flush that the handler cut off since the last that was carried     *)
(* out: no other frame that was given up (cc2520ll_prepare,                *)
(* cc2520ll_transmit, cc2520ll_packetReceivedISR).                         *)
THEOREM SendsOwnFrame == Spec => []OwnFrame
<1>1. IInv => OwnFrame
  BY DEF IInv, Loaded, Prepared, OwnFrame
<1> QED
  BY IInvariant, <1>1, PTL

-----------------------------------------------------------------------------
(* The driver implements the lossy channel.  What is under way are the     *)
(* numbers of the frames in the ring, then those of the frames in the chip.*)
Ids(s) == [i \in DOMAIN s |-> s[i].id]
Num == 1 .. MaxFrames

LEMMA IdsProperties ==
  ASSUME NEW s \in Seq(Frame)
  PROVE  /\ Ids(s) \in Seq(Num) /\ Len(Ids(s)) = Len(s) /\ Len(s) \in Nat
         /\ \A i \in 1 .. Len(s) : Ids(s)[i] = s[i].id
<1>1. DOMAIN s = 1 .. Len(s) /\ Len(s) \in Nat
  OBVIOUS
<1>2. \A i \in 1 .. Len(s) : s[i].id \in Num
  <2>1. \A f \in Frame : f.id \in Num
    BY DEF Frame, Num
  <2>2. \A i \in 1 .. Len(s) : s[i] \in Frame
    OBVIOUS
  <2> QED
    BY <2>1, <2>2
<1> QED
  BY <1>1, <1>2 DEF Ids

LEMMA IdsEqual ==
  ASSUME NEW s \in Seq(Frame), NEW a \in Seq(Num), Len(a) = Len(s),
         \A i \in 1 .. Len(s) : a[i] = s[i].id
  PROVE  Ids(s) = a
<1>1. /\ Ids(s) \in Seq(Num) /\ Len(Ids(s)) = Len(s)
      /\ \A i \in 1 .. Len(s) : Ids(s)[i] = s[i].id
  BY IdsProperties
<1>2. \A i \in 1 .. Len(Ids(s)) : Ids(s)[i] = a[i]
  BY <1>1
<1> QED
  BY <1>1, <1>2, SeqEqual

LEMMA IdsConcat ==
  ASSUME NEW s \in Seq(Frame), NEW u \in Seq(Frame)
  PROVE  Ids(s \o u) = Ids(s) \o Ids(u)
<1>1. PICK n \in Nat, m \in Nat, w \in Seq(Frame) :
        /\ n = Len(s) /\ m = Len(u) /\ w = s \o u /\ Len(w) = n + m
        /\ \A i \in 1 .. n + m : w[i] = IF i <= n THEN s[i] ELSE u[i - n]
  <2>1. /\ s \o u \in Seq(Frame) /\ Len(s \o u) = Len(s) + Len(u)
        /\ \A i \in 1 .. Len(s) + Len(u) :
             (s \o u)[i] = IF i <= Len(s) THEN s[i] ELSE u[i - Len(s)]
    BY ConcatProperties
  <2>2. Len(s) \in Nat /\ Len(u) \in Nat
    OBVIOUS
  <2> QED
    BY <2>1, <2>2
<1>2. PICK a \in Seq(Num), b \in Seq(Num) :
        /\ a = Ids(s) /\ Len(a) = n /\ \A i \in 1 .. n : a[i] = s[i].id
        /\ b = Ids(u) /\ Len(b) = m /\ \A i \in 1 .. m : b[i] = u[i].id
  BY <1>1, IdsProperties
<1>3. PICK c \in Seq(Num) :
        /\ c = a \o b /\ Len(c) = n + m
        /\ \A i \in 1 .. n + m : c[i] = IF i <= n THEN a[i] ELSE b[i - n]
  <2>1. /\ a \o b \in Seq(Num) /\ Len(a \o b) = Len(a) + Len(b)
        /\ \A i \in 1 .. Len(a) + Len(b) :
             (a \o b)[i] = IF i <= Len(a) THEN a[i] ELSE b[i - Len(a)]
    BY ConcatProperties
  <2> QED
    BY <1>2, <2>1
<1>4. ASSUME NEW i \in 1 .. n + m PROVE c[i] = w[i].id
  <2>1. CASE i <= n
    <3>1. i \in 1 .. n
      BY <2>1
    <3> QED
      BY <1>1, <1>2, <1>3, <2>1, <3>1
  <2>2. CASE ~(i <= n)
    <3>1. i - n \in 1 .. m
      BY <2>2
    <3> QED
      BY <1>1, <1>2, <1>3, <2>2, <3>1
  <2> QED
    BY <2>1, <2>2
<1>5. Ids(w) = c
  BY <1>1, <1>3, <1>4, IdsEqual
<1> QED
  BY <1>1, <1>2, <1>3, <1>5

LEMMA IdsAppend ==
  ASSUME NEW s \in Seq(Frame), NEW f \in Frame
  PROVE  Ids(Append(s, f)) = Append(Ids(s), f.id)
<1>1. PICK n \in Nat, a \in Seq(Frame) :
        /\ n = Len(s) /\ a = Append(s, f) /\ Len(a) = n + 1
        /\ (\A i \in 1 .. n : a[i] = s[i]) /\ a[n + 1] = f
  <2>1. /\ Append(s, f) \in Seq(Frame) /\ Len(Append(s, f)) = Len(s) + 1
        /\ \A i \in 1 .. Len(s) : Append(s, f)[i] = s[i]
        /\ Append(s, f)[Len(s) + 1] = f
    BY AppendProperties
  <2>2. Len(s) \in Nat
    OBVIOUS
  <2> QED
    BY <2>1, <2>2
<1>2. PICK p \in Seq(Num) : p = Ids(s) /\ Len(p) = n /\ \A i \in 1 .. n : p[i] = s[i].id
  BY <1>1, IdsProperties
<1>3. f.id \in Num
  BY DEF Frame, Num
<1>4. PICK q \in Seq(Num) :
        /\ q = Append(p, f.id) /\ Len(q) = n + 1
        /\ (\A i \in 1 .. n : q[i] = p[i]) /\ q[n + 1] = f.id
  <2>1. /\ Append(p, f.id) \in Seq(Num) /\ Len(Append(p, f.id)) = Len(p) + 1
        /\ \A i \in 1 .. Len(p) : Append(p, f.id)[i] = p[i]
        /\ Append(p, f.id)[Len(p) + 1] = f.id
    BY <1>3, AppendProperties
  <2> QED
    BY <1>2, <2>1
<1>5. ASSUME NEW i \in 1 .. n + 1 PROVE q[i] = a[i].id
  <2>1. CASE i = n + 1
    BY <1>1, <1>4, <2>1
  <2>2. CASE i # n + 1
    <3>1. i \in 1 .. n
      BY <2>2
    <3> QED
      BY <1>1, <1>2, <1>4, <3>1
  <2> QED
    BY <2>1, <2>2
<1>6. Ids(a) = q
  BY <1>1, <1>4, <1>5, IdsEqual
<1> QED
  BY <1>1, <1>2, <1>4, <1>6

LEMMA IdsTail ==
  ASSUME NEW s \in Seq(Frame), s # <<>>
  PROVE  /\ Ids(Tail(s)) = Tail(Ids(s)) /\ Ids(s) # <<>> /\ Head(Ids(s)) = s[1].id
         /\ Ids(s) = <<s[1].id>> \o Ids(Tail(s))
<1>1. PICK n \in Nat, a \in Seq(Frame) :
        /\ Len(s) = n + 1 /\ a = Tail(s) /\ Len(a) = n
        /\ (\A i \in 1 .. n : a[i] = s[i + 1])
  <2>1. /\ Tail(s) \in Seq(Frame) /\ Len(Tail(s)) = Len(s) - 1
        /\ \A i \in 1 .. Len(Tail(s)) : Tail(s)[i] = s[i + 1]
    BY HeadTailProperties
  <2>2. Len(s) \in Nat /\ Len(Tail(s)) \in Nat /\ Len(s) = Len(Tail(s)) + 1
    BY <2>1
  <2> QED
    BY <2>1, <2>2
<1>2. PICK p \in Seq(Num) :
        p = Ids(s) /\ Len(p) = n + 1 /\ \A i \in 1 .. n + 1 : p[i] = s[i].id
  BY <1>1, IdsProperties
<1>3. p # <<>> /\ Head(p) = s[1].id
  BY <1>2
<1>4. PICK q \in Seq(Num) : q = Tail(p) /\ Len(q) = n /\ \A i \in 1 .. n : q[i] = p[i + 1]
  <2>1. /\ Tail(p) \in Seq(Num) /\ Len(Tail(p)) = Len(p) - 1
        /\ \A i \in 1 .. Len(Tail(p)) : Tail(p)[i] = p[i + 1]
    BY <1>3, HeadTailProperties
  <2>2. Len(p) - 1 = n
    BY <1>2
  <2> QED
    BY <2>1, <2>2
<1>5. ASSUME NEW i \in 1 .. n PROVE q[i] = a[i].id
  <2>1. i + 1 \in 1 .. n + 1
    OBVIOUS
  <2> QED
    BY <1>1, <1>2, <1>4, <2>1
<1>6. Ids(a) = q
  BY <1>1, <1>4, <1>5, IdsEqual
<1>7. p = <<Head(p)>> \o Tail(p)
  BY <1>3
<1> QED
  BY <1>1, <1>2, <1>3, <1>4, <1>6, <1>7

(* Losing the stretch t between s and u.                                   *)
LEMMA Parts ==
  ASSUME NEW S, NEW w \in Seq(S), NEW i \in 0 .. Len(w), NEW j \in i .. Len(w)
  PROVE  /\ SubSeq(w, 1, i) \in Seq(S) /\ Len(SubSeq(w, 1, i)) = i
         /\ \A k \in 1 .. i : SubSeq(w, 1, i)[k] = w[k]
         /\ SubSeq(w, j + 1, Len(w)) \in Seq(S) /\ Len(SubSeq(w, j + 1, Len(w))) = Len(w) - j
         /\ \A k \in 1 .. Len(w) - j : SubSeq(w, j + 1, Len(w))[k] = w[j + k]
<1>1. Len(w) \in Nat /\ i \in Nat /\ j \in Nat /\ i <= Len(w) /\ j <= Len(w)
  OBVIOUS
<1>2. /\ SubSeq(w, 1, i) \in Seq(S) /\ Len(SubSeq(w, 1, i)) = i
      /\ \A k \in 1 .. i : SubSeq(w, 1, i)[k] = w[k]
  BY <1>1, SubSeqProperties
<1>3. /\ SubSeq(w, j + 1, Len(w)) \in Seq(S) /\ Len(SubSeq(w, j + 1, Len(w))) = Len(w) - j
      /\ \A k \in 1 .. Len(w) - j : SubSeq(w, j + 1, Len(w))[k] = w[j + k]
  BY <1>1, SubSeqProperties
<1> QED
  BY <1>2, <1>3

Losing(w, x) ==
  \E i \in 0 .. Len(w) : \E j \in i .. Len(w) :
    x = SubSeq(w, 1, i) \o SubSeq(w, j + 1, Len(w))

LEMMA Lost ==
  ASSUME NEW S, NEW s \in Seq(S), NEW t \in Seq(S), NEW u \in Seq(S)
  PROVE  Losing(s \o (t \o u), s \o u)
<1>1. PICK n \in Nat, m \in Nat, k \in Nat : n = Len(s) /\ m = Len(t) /\ k = Len(u)
  <2>1. Len(s) \in Nat /\ Len(t) \in Nat /\ Len(u) \in Nat
    OBVIOUS
  <2> QED
    BY <2>1
<1>2. PICK b \in Seq(S) :
        /\ b = t \o u /\ Len(b) = m + k
        /\ \A i \in 1 .. m + k : b[i] = IF i <= m THEN t[i] ELSE u[i - m]
  <2>1. /\ t \o u \in Seq(S) /\ Len(t \o u) = Len(t) + Len(u)
        /\ \A i \in 1 .. Len(t) + Len(u) :
             (t \o u)[i] = IF i <= Len(t) THEN t[i] ELSE u[i - Len(t)]
    BY ConcatProperties
  <2> QED
    BY <1>1, <2>1
<1>3. PICK w \in Seq(S) :
        /\ w = s \o b /\ Len(w) = n + (m + k)
        /\ \A i \in 1 .. n + (m + k) : w[i] = IF i <= n THEN s[i] ELSE b[i - n]
  <2>1. /\ s \o b \in Seq(S) /\ Len(s \o b) = Len(s) + Len(b)
        /\ \A i \in 1 .. Len(s) + Len(b) :
             (s \o b)[i] = IF i <= Len(s) THEN s[i] ELSE b[i - Len(s)]
    BY ConcatProperties
  <2>2. Len(s) = n /\ Len(s) + Len(b) = n + (m + k)
    BY <1>1, <1>2
  <2> DEFINE x == s \o b
  <2>3. /\ x \in Seq(S) /\ Len(x) = n + (m + k)
        /\ \A i \in 1 .. n + (m + k) : x[i] = IF i <= n THEN s[i] ELSE b[i - n]
    BY <2>1, <2>2, Zenon
  <2> QED
    BY <2>3, Zenon
<1>4. n \in 0 .. Len(w) /\ n + m \in n .. Len(w) /\ Len(w) - (n + m) = k
  BY <1>3
<1>5. PICK p \in Seq(S), q \in Seq(S) :
        /\ p = SubSeq(w, 1, n) /\ Len(p) = n /\ \A i \in 1 .. n : p[i] = w[i]
        /\ q = SubSeq(w, (n + m) + 1, Len(w)) /\ Len(q) = k
        /\ \A i \in 1 .. k : q[i] = w[(n + m) + i]
  <2>1. /\ SubSeq(w, 1, n) \in Seq(S) /\ Len(SubSeq(w, 1, n)) = n
        /\ \A i \in 1 .. n : SubSeq(w, 1, n)[i] = w[i]
        /\ SubSeq(w, (n + m) + 1, Len(w)) \in Seq(S)
        /\ Len(SubSeq(w, (n + m) + 1, Len(w))) = Len(w) - (n + m)
        /\ \A i \in 1 .. Len(w) - (n + m) : SubSeq(w, (n + m) + 1, Len(w))[i] = w[(n + m) + i]
    BY <1>4, Parts
  <2> QED
    BY <1>4, <2>1
<1>6. p = s
  <2>1. ASSUME NEW i \in 1 .. n PROVE p[i] = s[i]
    <3>1. i \in 1 .. n + (m + k) /\ i <= n
      OBVIOUS
    <3> QED
      BY <1>3, <1>5, <3>1
  <2> QED
    BY <1>1, <1>5, <2>1, SeqEqual
<1>7. q = u
  <2>1. ASSUME NEW i \in 1 .. k PROVE q[i] = u[i]
    <3>1. /\ (n + m) + i \in 1 .. n + (m + k) /\ ~((n + m) + i <= n)
          /\ ((n + m) + i) - n = m + i
      OBVIOUS
    <3>2. m + i \in 1 .. m + k /\ ~(m + i <= m) /\ (m + i) - m = i
      OBVIOUS
    <3>3. q[i] = w[(n + m) + i]
      BY <1>5
    <3>4. w[(n + m) + i] = IF (n + m) + i <= n THEN s[(n + m) + i] ELSE b[((n + m) + i) - n]
      BY <1>3, <3>1
    <3>5. b[m + i] = IF m + i <= m THEN t[m + i] ELSE u[(m + i) - m]
      BY <1>2, <3>2
    <3> QED
      BY <3>1, <3>2, <3>3, <3>4, <3>5
  <2> QED
    BY <1>1, <1>5, <2>1, SeqEqual
<1>8. s \o u = SubSeq(w, 1, n) \o SubSeq(w, (n + m) + 1, Len(w))
  BY <1>5, <1>6, <1>7
<1>9. Losing(w, s \o u)
  BY <1>4, <1>8 DEF Losing
<1> QED
  BY <1>2, <1>3, <1>9

Way   == [i \in DOMAIN InChannel |-> InChannel[i].id]
Given == IF packet = <<>> THEN <<>> ELSE <<packet[1][1].id>>

LEMMA WayIs ==
  ASSUME accepted \in Seq(Frame), fifo \in Seq(Frame)
  PROVE  /\ Way = Ids(accepted) \o Ids(fifo)
         /\ Ids(accepted) \in Seq(Num) /\ Ids(fifo) \in Seq(Num)
  BY IdsConcat, IdsProperties DEF Way, InChannel, Ids

CStep ==
  \/ \E m \in Num : Way' = Append(Way, m) /\ UNCHANGED Given
  \/ Losing(Way, Way') /\ UNCHANGED Given
  \/ Way # <<>> /\ Given' = <<Head(Way)>> /\ Way' = Tail(Way)

(* Every step of the driver is one of the channel or leaves it alone.      *)
LEMMA ChannelStep ==
  IInv /\ [Next]_vars => CStep \/ UNCHANGED <<Way, Given>>
<1> SUFFICES ASSUME IInv, [Next]_vars PROVE CStep \/ UNCHANGED <<Way, Given>>
  OBVIOUS
<1>1. IInv' /\ TypeOK /\ TypeOK' /\ RingInv /\ InHand /\ Pending
  BY RingStep, PartsStep, TypeStep DEF IInv
<1>2. PICK A \in Seq(Num), F \in Seq(Num) :
        A = Ids(accepted) /\ F = Ids(fifo) /\ Way = A \o F
  BY <1>1, WayIs DEF TypeOK
<1>3. PICK B \in Seq(Num), G \in Seq(Num) :
        B = Ids(accepted') /\ G = Ids(fifo') /\ Way' = B \o G
  <2>1. /\ Way' = Ids(accepted') \o Ids(fifo')
        /\ Ids(accepted') \in Seq(Num) /\ Ids(fifo') \in Seq(Num)
    <3>1. Way' = Ids(accepted' \o fifo')
      BY DEF Way, InChannel, Ids
    <3> QED
      BY <1>1, <3>1, IdsConcat, IdsProperties DEF TypeOK
  <2> QED
    BY <2>1
<1>4. /\ fifo \in Seq(Frame) /\ fifo' \in Seq(Frame)
      /\ accepted \in Seq(Frame) /\ accepted' \in Seq(Frame)
  BY <1>1 DEF TypeOK
<1>5. UNCHANGED packet => UNCHANGED Given
  BY DEF Given
<1>6. CASE UNCHANGED <<accepted, fifo, packet>>
  BY <1>2, <1>3, <1>5, <1>6
<1>7. ASSUME NEW f \in Frame, FrameDone(f) PROVE CStep \/ UNCHANGED <<Way, Given>>
  <2>1. UNCHANGED <<accepted, packet>>
    BY <1>7 DEF FrameDone, ringVars, mainVars
  <2>2. CASE UNCHANGED fifo
    BY <1>6, <2>1, <2>2
  <2>3. CASE fifo' = Append(fifo, f)
    <3>1. G = Append(F, f.id) /\ f.id \in Num /\ B = A
      BY <1>2, <1>3, <1>4, <2>1, <2>3, IdsAppend DEF Frame, Num
    <3>2. A \o Append(F, f.id) = Append(A \o F, f.id)
      BY <3>1
    <3> QED
      BY <1>2, <1>3, <1>5, <2>1, <3>1, <3>2 DEF CStep
  <2> QED
    BY <1>7, <2>2, <2>3 DEF FrameDone
<1>8. CASE IsrLength
  <2>1. UNCHANGED <<accepted, packet>>
    BY <1>8 DEF IsrLength, ringVars, mainVars
  <2>2. CASE UNCHANGED fifo
    BY <1>6, <2>1, <2>2
  <2>3. CASE fifo' = [fifo EXCEPT ![1] = [@ EXCEPT !.kind = "residue", !.len = ResidueLen]]
    <3>1. Len(fifo') = Len(fifo) /\ \A i \in 1 .. Len(fifo) : fifo'[i].id = fifo[i].id
      <4>1. \A i \in 1 .. Len(fifo) : fifo[i] \in Frame
        BY <1>4
      <4>2. \A g \in Frame : [g EXCEPT !.kind = "residue", !.len = ResidueLen].id = g.id
        BY DEF Frame
      <4> QED
        BY <1>4, <2>3, <4>1, <4>2
    <3>2. F \in Seq(Num) /\ Len(F) = Len(fifo) /\ \A i \in 1 .. Len(fifo) : F[i] = fifo[i].id
      BY <1>2, <1>4, IdsProperties
    <3>3. G = F
      BY <1>3, <1>4, <3>1, <3>2, IdsEqual
    <3> QED
      BY <1>2, <1>3, <1>5, <2>1, <3>3
  <2> QED
    BY <1>8, <2>1, <2>2, <2>3 DEF IsrLength
<1>9. CASE IsrPayload
  <2>1. UNCHANGED packet /\ fifo # <<>> /\ fifo' = Tail(fifo)
    BY <1>1, <1>9 DEF IsrPayload, InHand, mainVars
  <2>2. fifo[1] \in Frame /\ fifo[1].id \in Num
    BY <1>4, <2>1 DEF Frame, Num
  <2>3. PICK h \in Seq(Num) : h = <<fifo[1].id>> /\ F = h \o G
    <3>1. Ids(fifo) = <<fifo[1].id>> \o Ids(Tail(fifo))
      BY <1>4, <2>1, IdsTail
    <3>2. <<fifo[1].id>> \in Seq(Num)
      BY <2>2
    <3> QED
      BY <1>2, <1>3, <2>1, <3>1, <3>2
  <2>4. CASE UNCHANGED accepted
    <3>1. B = A
      BY <1>2, <1>3, <2>4
    <3>2. Way = A \o (h \o G)
      BY <1>2, <2>3
    <3>3. Losing(A \o (h \o G), A \o G)
      BY Lost
    <3> QED
      BY <1>3, <1>5, <2>1, <3>1, <3>2, <3>3 DEF CStep
  <2>5. CASE accepted' = Append(accepted, fifo[1])
    <3>1. B = Append(A, fifo[1].id)
      BY <1>2, <1>3, <1>4, <2>2, <2>5, IdsAppend
    <3>2. B = A \o h
      BY <2>2, <2>3, <3>1, AppendIsConcat
    <3>3. (A \o h) \o G = A \o (h \o G)
      BY ConcatAssociative, SMTT(60)
    <3> QED
      BY <1>2, <1>3, <1>5, <2>1, <2>3, <3>2, <3>3
  <2> QED
    BY <1>9, <2>4, <2>5 DEF IsrPayload, ringVars
<1>10. CASE IsrFlush
  <2>1. UNCHANGED <<accepted, packet>> /\ fifo' = <<>>
    BY <1>10 DEF IsrFlush, ringVars, mainVars
  <2>2. B = A /\ G = <<>>
    <3>1. Len(G) = 0
      BY <1>3, <1>4, <2>1, IdsProperties
    <3> QED
      BY <1>2, <1>3, <2>1, <3>1
  <2>3. F = F \o G
    BY <2>2, ConcatEmptySeq
  <2>4. Way = A \o (F \o G)
    BY <1>2, <2>3
  <2>5. Losing(A \o (F \o G), A \o G)
    BY Lost
  <2> QED
    BY <1>3, <1>5, <2>1, <2>2, <2>4, <2>5 DEF CStep
<1>11. CASE packetReceive
  <2>1. /\ accepted # <<>> /\ accepted' = Tail(accepted)
        /\ packet' = Body(accepted[1]) /\ accepted[1] \in Whole
    BY <1>1, <1>11, Taken
  <2>2. fifo' = fifo
    BY <1>11 DEF packetReceive, chipVars
  <2>3. A # <<>> /\ Head(A) = accepted[1].id /\ B = Tail(A) /\ G = F
    BY <1>2, <1>3, <1>4, <2>1, <2>2, IdsTail
  <2>4. Head(A \o F) = Head(A) /\ Tail(A \o F) = Tail(A) \o F /\ A \o F # <<>>
    BY <2>3
  <2>5. Given' = <<accepted[1].id>>
    <3>1. Len(Body(accepted[1])) = accepted[1].len /\ Body(accepted[1])[1] = <<accepted[1], 1>>
      BY <2>1, MpduProperties
    <3>2. accepted[1].len >= 1 /\ accepted[1].len \in Nat
      BY <2>1, WholeProperties, RadioAssumption
    <3>3. packet' # <<>> /\ packet'[1] = <<accepted[1], 1>>
      <4>1. Len(<<>>) = 0
        OBVIOUS
      <4> QED
        BY <2>1, <3>1, <3>2, <4>1
    <3> QED
      BY <3>3 DEF Given
  <2> QED
    BY <1>2, <1>3, <2>3, <2>4, <2>5 DEF CStep
<1>12. CASE IsrClear \/ IsrMask \/ IsrEnable \/ IsrExit \/ pending_packet
  <2>1. UNCHANGED <<accepted, fifo, packet>>
    BY <1>12 DEF IsrClear, IsrMask, IsrEnable, IsrExit, pending_packet,
                 chipVars, ringVars, mainVars
  <2> QED
    BY <1>6, <2>1
<1>13. CASE Transmit
  <2>1. UNCHANGED <<accepted, fifo, packet>>
    BY <1>13 DEF Transmit, Sending, prepare, prepareClear, prepareBit, prepareFlag,
                 prepareMask, prepareEnable, strobe, timeOut, flushTx, frameSent,
                 SpiWait, SpiEnd, chipVars, ringVars
  <2> QED
    BY <1>6, <2>1
<1>14. CASE UNCHANGED vars
  <2>1. UNCHANGED <<accepted, fifo, packet>>
    BY <1>14 DEF vars, chipVars, ringVars, mainVars
  <2> QED
    BY <1>6, <2>1
<1> QED
  BY <1>7, <1>8, <1>9, <1>10, <1>11, <1>12, <1>13, <1>14 DEF Next, Isr, Receive

(* The driver is a lossy channel: frames are handed up in the order of     *)
(* their arrival, each at most once, and never one that did not arrive.    *)
THEOREM DriverIsLossyChannel == Spec => ChannelSpec
<1>1. Init => Channel!CInit
  <2> SUFFICES ASSUME Init PROVE Channel!CInit
    OBVIOUS
  <2>1. accepted = <<>> /\ fifo = <<>> /\ packet = <<>>
    BY DEF Init
  <2>2. InChannel = <<>>
    BY <2>1 DEF InChannel
  <2> QED
    BY <2>1, <2>2 DEF Channel!CInit
<1>2. IInv /\ [Next]_vars =>
        [Channel!CNext]_<<[i \in DOMAIN InChannel |-> InChannel[i].id],
                          IF packet = <<>> THEN <<>> ELSE <<packet[1][1].id>>>>
  BY ChannelStep DEF CStep, Losing, Way, Given, Num,
       Channel!CNext, Channel!Arrive, Channel!Lose, Channel!HandUp
<1> QED
  BY IInvariant, <1>1, <1>2, PTL DEF Spec, ChannelSpec, Channel!CSpec
=============================================================================
