---------------------------- MODULE LossyChannel ----------------------------
(* What the radio driver promises: frames are handed up in the order they  *)
(* arrived, each at most once; any frame may be lost on the way.           *)
EXTENDS Integers, Sequences

CONSTANT Message

VARIABLES inflight, got

CInit == inflight = <<>> /\ got = <<>>

Arrive(m) == inflight' = Append(inflight, m) /\ UNCHANGED got

(* One step loses a stretch of frames, any of them after another step.     *)
Lose ==
  /\ \E i \in 0 .. Len(inflight) : \E j \in i .. Len(inflight) :
       inflight' = SubSeq(inflight, 1, i) \o SubSeq(inflight, j + 1, Len(inflight))
  /\ UNCHANGED got

HandUp ==
  /\ inflight # <<>>
  /\ got' = <<Head(inflight)>>
  /\ inflight' = Tail(inflight)

CNext == (\E m \in Message : Arrive(m)) \/ Lose \/ HandUp

CSpec == CInit /\ [][CNext]_<<inflight, got>>
=============================================================================
