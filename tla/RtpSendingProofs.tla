-------------------------- MODULE RtpSendingProofs --------------------------
(*****************************************************************************)
(* Proofs about RtpSending, SeqManager, SeqArith and NackGenerator, for      *)
(* every number of sequence numbers, every size of the buffer and of the     *)
(* lists, and every way in which packets are late, repeated, lost or         *)
(* dropped.                                                                  *)
(*                                                                           *)
(* Sequence numbers are related to the integers they stand for: two packets  *)
(* that are no further apart than half the circle are compared right         *)
(* (NumbersCompare), and every other step is arithmetic modulo SeqMod. The   *)
(* inductive invariant says which dropped packets the manager still holds    *)
(* (Kept), what its base is worth, and that the highest number given out is  *)
(* that of the highest packet forwarded since the consumer last started.     *)
(*                                                                           *)
(* The last part is about NackGenerator, on the same circle. Everything it   *)
(* holds is measured from the oldest packet of interest, MaxPacketAge        *)
(* behind the newest: no missing packet is further from it than that, no     *)
(* key frame further than MaxPacketAge + MaxAhead (FrameWindow), which is    *)
(* less than half the circle, so that the order of its lists is the order    *)
(* of the packets.                                                           *)
(*****************************************************************************)
EXTENDS RtpSending, NackGenerator, TLAPS, FiniteSetTheorems, WellFoundedInduction

----------------------------------------------------------------------------
(* The inductive invariant.                                                *)

Stream == [started : BOOLEAN, baseSeq : SeqNum, maxSeq : SeqNum,
           badSeq : 0 .. SeqMod + 1, cycles : Nat]

Entry == [packet : Packet \cup {None}, number : Int]

TypeOK ==
    /\ highest \in Packet \cup {None} /\ received \in Stream
    /\ manager \in Manager /\ syncRequired \in BOOLEAN
    /\ sending \in Stream /\ maxPacketTs \in Packet \cup {None}
    /\ buffer \in [SeqNum -> Entry] /\ bufferStartIdx \in SeqNum
    /\ start \in [packet : Packet, number : Int]
    /\ forwarded \in Packet \cup {None} /\ drops \subseteq Packet
    /\ top \in Int
    /\ last \in [packet : Packet \cup {None}, output : SeqNum, number : Int, accepted : BOOLEAN]
    /\ comparable \in BOOLEAN /\ jumped \in BOOLEAN

\* What the producer's stream knows of the packets.
Receives ==
    ~ jumped =>
    /\ received.started <=> highest # None
    /\ ~ received.started => received.cycles = 0
    /\ received.started =>
         /\ received.maxSeq = Number(highest)
         /\ \E first \in FirstPackets :
              /\ received.baseSeq = Number(first)
              /\ Number(first) # 0 => Extended(received) - received.baseSeq = highest - first

\* The consumer's stream has got as far as the numbers given out.
Sends ==
    /\ sending.maxSeq = Number(top) /\ Extended(sending) = top
    /\ ~ sending.started => syncRequired /\ top = 0 /\ sending.cycles = 0
    /\ last.accepted

\* The dropped packets that the manager has not deleted.
Kept == {d \in drops : d >= forwarded - Half}

Below(e) == {d \in drops : d < e}

\* The manager, and the numbers it has to give out.
Manages ==
    /\ manager.maxOutput = Number(top)
    /\ ~ syncRequired =>
         /\ manager.maxInput = Number(forwarded)
         /\ manager.dropped = {Number(d) : d \in Kept}
         /\ (manager.base - Cardinality(manager.dropped)) % SeqMod
              = (start.number - start.packet - Cardinality(drops)) % SeqMod
         /\ forwarded \in Packet \ drops /\ forwarded <= highest
         /\ \A d \in drops : d - forwarded < Half
         /\ top = start.number + (forwarded - start.packet) - Cardinality(Below(forwarded))

\* The packets in the buffer were sent since the last start, and they are no
\* further behind in numbers than in packets.
Holds ==
    /\ syncRequired => Used(buffer) = {}
    /\ ~ syncRequired =>
         /\ forwarded <= maxPacketTs
         /\ \A q \in Used(buffer) :
              /\ buffer[q].packet <= forwarded
              /\ top - buffer[q].number <= forwarded - buffer[q].packet

Inv ==
    /\ TypeOK /\ Receives /\ RenumberingExact /\ SentIsStored
    /\ comparable /\ ~ jumped => Sends /\ Manages /\ Holds

----------------------------------------------------------------------------
(* Arithmetic modulo SeqMod.                                               *)

LEMMA Constants ==
    /\ SeqMod \in Nat \ {0} /\ SeqMod >= 6
    /\ Half \in Nat /\ Half >= 2 /\ 2 * Half <= SeqMod - 1 /\ SeqMod - 2 <= 2 * Half
    /\ MaxDropout \in Nat /\ MaxDropout >= 2 /\ MaxMisorder \in Nat /\ MaxMisorder >= 1
    /\ MaxDropout <= Half /\ MaxMisorder <= Half /\ MaxDropout + MaxMisorder < SeqMod
BY SeqModAssumption, SendingAssumption DEF Half, MaxValue

LEMMA SeqModNat == SeqMod \in Nat \ {0}
BY SeqModAssumption

LEMMA DivMod ==
    ASSUME NEW a \in Int
    PROVE  a % SeqMod \in SeqNum /\ a \div SeqMod \in Int
           /\ a = SeqMod * (a \div SeqMod) + (a % SeqMod)
BY SeqModNat DEF SeqNum

\* A multiple of SeqMod that is smaller than SeqMod is 0.
LEMMA SmallMultiple ==
    ASSUME NEW k \in Int, NEW r \in Int, r = SeqMod * k, - SeqMod < r, r < SeqMod
    PROVE  k = 0
  <1>1. SeqMod \in Nat \ {0}
    BY SeqModNat
  <1>2. CASE k >= 1
    <2>1. SeqMod * k >= SeqMod
      BY <1>1, <1>2
    <2> QED
      BY <1>1, <2>1
  <1>3. CASE k <= -1
    <2>1. SeqMod * k <= - SeqMod
      BY <1>1, <1>3
    <2> QED
      BY <1>1, <2>1
  <1> QED
    BY <1>2, <1>3

LEMMA ModUnique ==
    ASSUME NEW a \in Int, NEW k \in Int, NEW r \in SeqNum, a = SeqMod * k + r
    PROVE  a % SeqMod = r
  <1>1. SeqMod \in Nat \ {0}
    BY SeqModNat
  <1>2. a % SeqMod \in SeqNum /\ a \div SeqMod \in Int
        /\ a = SeqMod * (a \div SeqMod) + (a % SeqMod)
    BY DivMod
  <1> DEFINE j == k - (a \div SeqMod)
             s == (a % SeqMod) - r
  <1>3. j \in Int /\ s \in Int /\ s = SeqMod * j /\ - SeqMod < s /\ s < SeqMod
    BY <1>1, <1>2 DEF SeqNum
  <1>4. j = 0
    BY <1>3, SmallMultiple
  <1>5. s = 0
    BY <1>1, <1>3, <1>4
  <1> QED
    BY <1>2, <1>5 DEF SeqNum

\* Congruent numbers have the same remainder.
LEMMA ModShift ==
    ASSUME NEW a \in Int, NEW b \in Int, NEW k \in Int, a = b + SeqMod * k
    PROVE  a % SeqMod = b % SeqMod
  <1>1. SeqMod \in Nat \ {0}
    BY SeqModNat
  <1>2. b % SeqMod \in SeqNum /\ b \div SeqMod \in Int
        /\ b = SeqMod * (b \div SeqMod) + (b % SeqMod)
    BY DivMod
  <1>3. a = SeqMod * ((b \div SeqMod) + k) + (b % SeqMod)
    BY <1>1, <1>2
  <1> QED
    BY <1>2, <1>3, ModUnique

LEMMA Congruent ==
    ASSUME NEW a \in Int, NEW b \in Int, a % SeqMod = b % SeqMod
    PROVE  \E k \in Int : a = b + SeqMod * k
  <1>1. SeqMod \in Nat \ {0}
    BY SeqModNat
  <1>2. a \div SeqMod \in Int /\ a = SeqMod * (a \div SeqMod) + (a % SeqMod)
        /\ b \div SeqMod \in Int /\ b = SeqMod * (b \div SeqMod) + (b % SeqMod)
    BY DivMod
  <1> DEFINE j == (a \div SeqMod) - (b \div SeqMod)
  <1>3. j \in Int /\ a = b + SeqMod * j
    BY <1>1, <1>2, DivMod
  <1> QED
    BY <1>3

LEMMA SumCongruent ==
    ASSUME NEW a \in Int, NEW b \in Int, NEW c \in Int, NEW d \in Int,
           a % SeqMod = b % SeqMod, c % SeqMod = d % SeqMod
    PROVE  (a + c) % SeqMod = (b + d) % SeqMod /\ (a - c) % SeqMod = (b - d) % SeqMod
  <1>1. SeqMod \in Nat \ {0}
    BY SeqModNat
  <1>2. PICK j \in Int : a = b + SeqMod * j
    BY Congruent
  <1>3. PICK k \in Int : c = d + SeqMod * k
    BY Congruent
  <1>4. a + c = (b + d) + SeqMod * (j + k) /\ a - c = (b - d) + SeqMod * (j - k)
    BY <1>1, <1>2, <1>3
  <1>5. (a + c) % SeqMod = (b + d) % SeqMod
    BY <1>4, ModShift
  <1>6. (a - c) % SeqMod = (b - d) % SeqMod
    BY <1>4, ModShift
  <1> QED
    BY <1>5, <1>6

LEMMA ShiftCongruent ==
    ASSUME NEW a \in Int, NEW b \in Int, a % SeqMod = b % SeqMod
    PROVE  \A c \in Int : (a + c) % SeqMod = (b + c) % SeqMod /\ (a - c) % SeqMod = (b - c) % SeqMod
  <1> TAKE c \in Int
  <1>1. PICK k \in Int : a = b + SeqMod * k
    BY Congruent
  <1>2. a + c \in Int /\ b + c \in Int /\ a - c \in Int /\ b - c \in Int
    OBVIOUS
  <1>3. a + c = (b + c) + SeqMod * k /\ a - c = (b - c) + SeqMod * k
    BY <1>1, SeqModNat
  <1> QED
    BY <1>2, <1>3, ModShift

LEMMA ModOfMod ==
    ASSUME NEW a \in Int
    PROVE  (a % SeqMod) % SeqMod = a % SeqMod
  <1>1. a % SeqMod \in SeqNum /\ a % SeqMod \in Int
    BY DivMod DEF SeqNum
  <1>2. a % SeqMod = SeqMod * 0 + (a % SeqMod)
    BY <1>1, SeqModNat
  <1> QED
    BY <1>1, <1>2, ModUnique

LEMMA SmallMod ==
    ASSUME NEW a \in Int
    PROVE  /\ a \in 0 .. SeqMod - 1 => a % SeqMod = a
           /\ a \in - SeqMod .. -1 => a % SeqMod = a + SeqMod
  <1>1. SeqMod \in Nat \ {0}
    BY SeqModNat
  <1>2. CASE a \in 0 .. SeqMod - 1
    <2>1. a = SeqMod * 0 + a /\ a \in SeqNum
      BY <1>1, <1>2 DEF SeqNum
    <2>2. a % SeqMod = a
      BY <2>1, ModUnique
    <2> QED
      BY <1>1, <1>2, <2>2
  <1>3. CASE a \in - SeqMod .. -1
    <2>1. a = SeqMod * (-1) + (a + SeqMod) /\ a + SeqMod \in SeqNum
      BY <1>1, <1>3 DEF SeqNum
    <2>2. a % SeqMod = a + SeqMod
      BY <2>1, ModUnique
    <2> QED
      BY <1>1, <1>3, <2>2
  <1> QED
    BY <1>2, <1>3

LEMMA NumberType ==
    ASSUME NEW a \in Int
    PROVE  Number(a) \in SeqNum /\ Number(a) \in Int
BY DivMod DEF Number, SeqNum

\* Minus and Plus on the numbers of integers.
LEMMA MinusNumber ==
    ASSUME NEW a \in Int, NEW b \in Int
    PROVE  /\ Number(a) \in SeqNum /\ Minus(Number(a), Number(b)) = Number(a - b)
           /\ Minus(Number(a), b) = Number(a - b)
           /\ Plus(Number(a), Number(b)) = Number(a + b)
           /\ Plus(Number(a), b) = Number(a + b)
           /\ Number(Number(a)) = Number(a)
  <1>1. a % SeqMod \in SeqNum /\ b % SeqMod \in SeqNum /\ a % SeqMod \in Int /\ b % SeqMod \in Int
    BY DivMod DEF SeqNum
  <1>2. (a % SeqMod) % SeqMod = a % SeqMod /\ (b % SeqMod) % SeqMod = b % SeqMod
    BY ModOfMod
  <1> DEFINE x == a % SeqMod
             y == b % SeqMod
  <1>3. x \in Int /\ y \in Int /\ x % SeqMod = a % SeqMod /\ y % SeqMod = b % SeqMod
    BY <1>1, <1>2
  <1> HIDE DEF x, y
  <1>4. (x - y) % SeqMod = (a - b) % SeqMod /\ (x + y) % SeqMod = (a + b) % SeqMod
    BY <1>3, SumCongruent
  <1>5. (x - b) % SeqMod = (a - b) % SeqMod /\ (x + b) % SeqMod = (a + b) % SeqMod
    BY <1>3, SumCongruent
  <1> QED
    BY <1>1, <1>2, <1>4, <1>5 DEF Number, Minus, Plus, x, y

\* Two numbers that differ by less than the circle.
LEMMA Remainders ==
    ASSUME NEW a \in Int, NEW d \in 0 .. SeqMod - 1
    PROVE  /\ Number(a) \in SeqNum /\ Number(a + d) \in SeqNum
           /\ Number(a + d) = Number(a) + d \/ Number(a + d) = Number(a) + d - SeqMod
  <1>1. SeqMod \in Nat \ {0} /\ d \in Int
    BY Constants
  <1>2. a % SeqMod \in SeqNum /\ a % SeqMod \in Int
    BY DivMod DEF SeqNum
  <1>3. a \div SeqMod \in Int /\ a = SeqMod * (a \div SeqMod) + (a % SeqMod)
    BY DivMod
  <1> DEFINE k == a \div SeqMod
             r == a % SeqMod
  <1>4. Number(a) = r /\ r \in SeqNum /\ k \in Int /\ a = SeqMod * k + r
    BY <1>2, <1>3 DEF Number
  <1> HIDE DEF k, r
  <1>5. CASE r + d < SeqMod
    <2>1. a + d = SeqMod * k + (r + d) /\ r + d \in SeqNum /\ a + d \in Int
      BY <1>1, <1>4, <1>5 DEF SeqNum
    <2>2. (a + d) % SeqMod = r + d
      BY <1>4, <2>1, ModUnique
    <2> QED
      BY <1>4, <2>1, <2>2 DEF Number
  <1>6. CASE r + d >= SeqMod
    <2>1. /\ a + d = SeqMod * (k + 1) + (r + d - SeqMod) /\ r + d - SeqMod \in SeqNum
          /\ a + d \in Int /\ k + 1 \in Int
      BY <1>1, <1>4, <1>6 DEF SeqNum
    <2>2. (a + d) % SeqMod = r + d - SeqMod
      BY <2>1, ModUnique
    <2> QED
      BY <1>4, <2>1, <2>2 DEF Number
  <1> QED
    BY <1>1, <1>4, <1>5, <1>6 DEF SeqNum

\* SeqLowerThan and SeqHigherThan compare two packets right as long as they are
\* not further apart than half the circle.
LEMMA NumbersCompare ==
    ASSUME NEW a \in Int, NEW b \in Int, a < b, b - a <= Half
    PROVE  /\ IsSeqLowerThan(Number(a), Number(b)) /\ ~ IsSeqLowerThan(Number(b), Number(a))
           /\ IsSeqHigherThan(Number(b), Number(a)) /\ ~ IsSeqHigherThan(Number(a), Number(b))
           /\ Number(a) # Number(b)
  <1>1. /\ SeqMod \in Nat /\ Half \in Nat /\ 2 * Half <= SeqMod - 1
    BY Constants
  <1> DEFINE d == b - a
  <1>2. d \in 1 .. Half /\ d \in 0 .. SeqMod - 1 /\ b = a + d
    BY <1>1
  <1>3. /\ Number(a) \in SeqNum /\ Number(b) \in SeqNum
        /\ Number(b) = Number(a) + d \/ Number(b) = Number(a) + d - SeqMod
    BY <1>2, Remainders
  <1> HIDE DEF d
  <1>4. Number(a) \in Int /\ Number(b) \in Int
    BY <1>3 DEF SeqNum
  <1> QED
    BY <1>1, <1>2, <1>3, <1>4 DEF IsSeqLowerThan, IsSeqHigherThan

----------------------------------------------------------------------------
(* RtpStream.                                                              *)

LEMMA StreamTypes ==
    ASSUME NEW r \in Stream, NEW seq \in SeqNum
    PROVE  /\ Started(r, seq) \in Stream /\ Started(r, seq).started
           /\ UpdateSeq(r, seq) \in Stream /\ UpdateSeq(r, seq).started = r.started
  <1>1. /\ SeqMod \in Nat \ {0} /\ seq \in Int /\ NoBadSeq \in 0 .. SeqMod + 1
        /\ 0 \in SeqNum /\ Minus(seq, 1) \in SeqNum /\ Plus(seq, 1) \in 0 .. SeqMod + 1
    <2>1. SeqMod \in Nat \ {0} /\ seq \in Int
      BY Constants DEF SeqNum
    <2>2. (seq - 1) % SeqMod \in SeqNum /\ (seq + 1) % SeqMod \in SeqNum
      BY <2>1, DivMod
    <2> QED
      BY <2>1, <2>2 DEF NoBadSeq, SeqNum, Minus, Plus
  <1>2. Started(r, seq) \in Stream /\ Started(r, seq).started
    <2>1. CASE r.started
      BY <2>1 DEF Started
    <2>2. CASE ~ r.started
      BY <1>1, <2>2 DEF Started, InitSeq, Stream
    <2> QED
      BY <2>1, <2>2
  <1>3. UpdateSeq(r, seq) \in Stream /\ UpdateSeq(r, seq).started = r.started
    <2>1. CASE InRange(r, seq)
      <3> DEFINE c == IF seq < r.maxSeq THEN r.cycles + 1 ELSE r.cycles
      <3>1. c \in Nat
        BY DEF Stream
      <3>2. UpdateSeq(r, seq) = [r EXCEPT !.maxSeq = seq, !.cycles = c]
        BY <2>1 DEF UpdateSeq
      <3> HIDE DEF c
      <3> QED
        BY <3>1, <3>2 DEF Stream
    <2>2. CASE ~ InRange(r, seq) /\ TooFar(r, seq) /\ seq = r.badSeq
      BY <1>1, <2>2 DEF UpdateSeq, InitSeq, Stream
    <2>3. CASE ~ InRange(r, seq) /\ TooFar(r, seq) /\ seq # r.badSeq
      BY <1>1, <2>3 DEF UpdateSeq, Stream
    <2>4. CASE ~ InRange(r, seq) /\ ~ TooFar(r, seq)
      BY <2>4 DEF UpdateSeq
    <2> QED
      BY <2>1, <2>2, <2>3, <2>4
  <1> QED
    BY <1>2, <1>3

\* A packet that is not older than the highest one, by less than MaxDropout.
LEMMA HigherAccepted ==
    ASSUME NEW r \in Stream, NEW h \in Int, NEW e \in Int, r.maxSeq = Number(h),
           h <= e, e - h < MaxDropout
    PROVE  /\ ~ TooFar(r, Number(e)) /\ Accepts(r, Number(e))
           /\ UpdateSeq(r, Number(e)).maxSeq = Number(e)
           /\ UpdateSeq(r, Number(e)).baseSeq = r.baseSeq
           /\ Extended(UpdateSeq(r, Number(e))) = Extended(r) + (e - h)
  <1> DEFINE d == e - h
             u == UpdateSeq(r, Number(e))
  <1>1. SeqMod \in Nat \ {0} /\ MaxDropout \in Nat /\ MaxDropout < SeqMod
    BY Constants
  <1>2. d \in 0 .. SeqMod - 1 /\ e = h + d
    BY <1>1
  <1>3. /\ Number(h) \in SeqNum /\ Number(e) \in SeqNum
        /\ Number(e) = Number(h) + d \/ Number(e) = Number(h) + d - SeqMod
    BY <1>2, Remainders
  <1>4. Minus(Number(e), r.maxSeq) = d
    BY <1>2, MinusNumber, SmallMod DEF Number
  <1>5. InRange(r, Number(e))
    BY <1>4 DEF InRange
  <1>6. ~ TooFar(r, Number(e)) /\ Accepts(r, Number(e))
    BY <1>5 DEF TooFar, Accepts
  <1>7. u = [r EXCEPT !.maxSeq = Number(e),
                      !.cycles = IF Number(e) < r.maxSeq THEN r.cycles + 1 ELSE r.cycles]
    BY <1>5 DEF UpdateSeq
  <1>8. /\ u.maxSeq = Number(e) /\ u.baseSeq = r.baseSeq
        /\ u.cycles = IF Number(e) < Number(h) THEN r.cycles + 1 ELSE r.cycles
    BY <1>7 DEF Stream
  <1> HIDE DEF u, d
  <1>9. u.cycles * SeqMod + Number(e) = r.cycles * SeqMod + Number(h) + d
    <2>1. r.cycles \in Nat /\ Number(h) \in Nat /\ Number(e) \in Nat
          /\ Number(h) < SeqMod /\ Number(e) < SeqMod
      BY <1>1, <1>3 DEF Stream, SeqNum
    <2>2. CASE Number(e) < Number(h)
      <3>1. u.cycles = r.cycles + 1 /\ Number(e) = Number(h) + d - SeqMod
        BY <1>1, <1>2, <1>3, <1>8, <2>1, <2>2
      <3> DEFINE P == r.cycles * SeqMod
      <3>2. P \in Int /\ u.cycles * SeqMod = P + SeqMod
        BY <1>1, <2>1, <3>1
      <3> HIDE DEF P
      <3>3. u.cycles * SeqMod + Number(e) = P + Number(h) + d
        BY <1>1, <1>2, <2>1, <3>1, <3>2
      <3> QED
        BY <3>3 DEF P
    <2>3. CASE ~ (Number(e) < Number(h))
      <3>1. u.cycles = r.cycles /\ Number(e) = Number(h) + d
        BY <1>1, <1>2, <1>3, <1>8, <2>1, <2>3
      <3>3. r.cycles * SeqMod \in Int
        BY <1>1, <2>1
      <3> QED
        BY <1>1, <1>2, <2>1, <3>1, <3>3
    <2> QED
      BY <2>2, <2>3
  <1> QED
    BY <1>6, <1>8, <1>9 DEF Extended, u, d

\* A packet that is late by less than MaxMisorder.
LEMMA MisorderAccepted ==
    ASSUME NEW r \in Stream, NEW h \in Int, NEW e \in Int, r.maxSeq = Number(h),
           e < h, h - e < MaxMisorder
    PROVE  /\ ~ TooFar(r, Number(e)) /\ Accepts(r, Number(e))
           /\ UpdateSeq(r, Number(e)) = r
  <1>1. /\ SeqMod \in Nat \ {0} /\ MaxDropout \in Nat /\ MaxMisorder \in Nat
        /\ MaxDropout + MaxMisorder < SeqMod
    BY Constants
  <1>2. e - h \in - SeqMod .. -1 /\ e - h \in Int
    BY <1>1
  <1>3. Minus(Number(e), r.maxSeq) = e - h + SeqMod
    BY <1>2, MinusNumber, SmallMod DEF Number
  <1>4. ~ InRange(r, Number(e)) /\ ~ TooFar(r, Number(e))
    BY <1>1, <1>3 DEF InRange, TooFar
  <1> QED
    BY <1>4 DEF Accepts, UpdateSeq

\* What comes from the network and is not taken for a jump is one of the two.
LEMMA NoJump ==
    ASSUME NEW r \in Stream, NEW h \in Int, NEW e \in Int, r.maxSeq = Number(h),
           e \in h - Late .. h + Ahead, ~ TooFar(r, Number(e))
    PROVE  (h <= e /\ e - h < MaxDropout) \/ (e < h /\ h - e < MaxMisorder)
  <1>1. /\ SeqMod \in Nat \ {0} /\ MaxDropout \in Nat /\ MaxMisorder \in Nat
        /\ MaxDropout >= 1 /\ MaxMisorder >= 1
        /\ Late \in 0 .. SeqMod - MaxDropout /\ Ahead \in 0 .. SeqMod - MaxMisorder
    BY Constants, SendingAssumption
  <1>2. ~ (Minus(Number(e), r.maxSeq) < MaxDropout)
        => ~ (Minus(Number(e), r.maxSeq) <= SeqMod - MaxMisorder)
    BY DEF TooFar, InRange
  <1>3. CASE h <= e
    <2>1. e - h \in 0 .. SeqMod - 1 /\ e - h \in Int /\ e - h <= SeqMod - MaxMisorder
      BY <1>1, <1>3
    <2>2. Minus(Number(e), r.maxSeq) = e - h
      BY <2>1, MinusNumber, SmallMod DEF Number
    <2> QED
      BY <1>1, <1>2, <1>3, <2>1, <2>2
  <1>4. CASE e < h
    <2>1. e - h \in - SeqMod .. -1 /\ e - h \in Int /\ h - e <= SeqMod - MaxDropout
      BY <1>1, <1>4
    <2>2. Minus(Number(e), r.maxSeq) = e - h + SeqMod
      BY <2>1, MinusNumber, SmallMod DEF Number
    <2> QED
      BY <1>1, <1>2, <1>4, <2>1, <2>2
  <1> QED
    BY <1>3, <1>4

----------------------------------------------------------------------------
(* SeqManager.                                                             *)

LEMMA SeqNumFinite == IsFiniteSet(SeqNum) /\ \A S \in SUBSET SeqNum : IsFiniteSet(S) /\ Cardinality(S) \in Nat
  <1>1. IsFiniteSet(SeqNum)
    BY Constants, FS_Interval DEF SeqNum
  <1>2. \A S \in SUBSET SeqNum : IsFiniteSet(S)
    BY <1>1, FS_Subset
  <1> QED
    BY <1>1, <1>2, FS_CardinalityType

LEMMA EraseBelowSubset ==
    ASSUME NEW S \in SUBSET SeqNum, NEW bound, NEW kept \in EraseBelow(S, bound)
    PROVE  kept \subseteq S
BY DEF EraseBelow

\* The parts of a result of Inputs.
LEMMA InputsParts ==
    ASSUME NEW m \in Manager, NEW input \in SeqNum, NEW res \in Inputs(m, input)
    PROVE  \E kept \in EraseBelow(m.dropped, Oldest(input)) :
           \E before \in Nat :
             /\ IsChain(kept \cup {input})
                  => before = Cardinality({d \in kept : IsSeqLowerThan(d, input)})
             /\ LET base == Minus(m.base, Cardinality(m.dropped) - Cardinality(kept))
                    out == Plus(input, Minus(base, before))
                IN  res = [manager |-> Higher([m EXCEPT !.dropped = kept, !.base = base], input, out),
                           output |-> out]
  <1> DEFINE Base(kept) == Minus(m.base, Cardinality(m.dropped) - Cardinality(kept))
             K(kept) == [m EXCEPT !.dropped = kept, !.base = Base(kept)]
             Befores(kept) == IF IsChain(kept \cup {input})
                                THEN {Cardinality({d \in kept : IsSeqLowerThan(d, input)})}
                                ELSE 0 .. Cardinality(kept)
             Out(kept, before) == Plus(input, Minus(Base(kept), before))
  <1>0. m.dropped \in SUBSET SeqNum
    BY DEF Manager
  <1>1. PICK kept \in EraseBelow(m.dropped, Oldest(input)) :
          res \in {[manager |-> Higher(K(kept), input, out), output |-> out] :
                     out \in {Plus(input, Minus(K(kept).base, before)) : before \in Befores(kept)}}
    BY DEF Inputs
  <1>2. K(kept).base = Base(kept)
    BY DEF Manager
  <1>3. PICK before \in Befores(kept) :
          res = [manager |-> Higher(K(kept), input, Out(kept, before)), output |-> Out(kept, before)]
    <2> HIDE DEF K, Base, Befores
    <2> QED
      BY <1>1, <1>2
  <1>4. kept \in SUBSET SeqNum /\ {d \in kept : IsSeqLowerThan(d, input)} \in SUBSET SeqNum
    BY <1>0, EraseBelowSubset
  <1>5. Cardinality(kept) \in Nat /\ Cardinality({d \in kept : IsSeqLowerThan(d, input)}) \in Nat
    BY <1>4, SeqNumFinite
  <1>6. before \in Nat
    <2> HIDE DEF K, Base, Out
    <2> QED
      BY <1>3, <1>5
  <1>7. IsChain(kept \cup {input}) => before = Cardinality({d \in kept : IsSeqLowerThan(d, input)})
    <2> HIDE DEF K, Base, Out
    <2> QED
      BY <1>3
  <1> QED
    BY <1>3, <1>6, <1>7

\* What the manager is after a number was given out.
LEMMA HigherFields ==
    ASSUME NEW k \in Manager, NEW input \in SeqNum, NEW out \in SeqNum,
           NEW h, h = Higher(k, input, out)
    PROVE  /\ h \in Manager /\ h.dropped = k.dropped /\ h.base = k.base
           /\ h.maxInput = (IF Minus(input, k.maxInput) < Half THEN input ELSE k.maxInput)
           /\ h.maxOutput = (IF Minus(out, k.maxOutput) < Half THEN out ELSE k.maxOutput)
  <1> DEFINE i == IF Minus(input, k.maxInput) < Half THEN input ELSE k.maxInput
             o == IF Minus(out, k.maxOutput) < Half THEN out ELSE k.maxOutput
  <1>1. i \in SeqNum /\ o \in SeqNum
    BY DEF Manager
  <1>2. h = [k EXCEPT !.maxInput = i, !.maxOutput = o]
    BY DEF Higher
  <1> HIDE DEF i, o
  <1>3. h \in Manager /\ h.dropped = k.dropped /\ h.base = k.base /\ h.maxInput = i /\ h.maxOutput = o
    BY <1>1, <1>2 DEF Manager
  <1> QED
    BY <1>3 DEF i, o

\* Input, of a number above all dropped ones that are not too old: they are all
\* counted, whether they are deleted or not.
LEMMA InputsExact ==
    ASSUME NEW m \in Manager, NEW input \in SeqNum, NEW res \in Inputs(m, input)
    PROVE  /\ res.manager \in Manager /\ res.output \in SeqNum
           /\ InOrder(m, input)
              /\ (\A x \in m.dropped : ~ IsSeqLowerThan(x, Oldest(input)) => IsSeqLowerThan(x, input))
              => /\ res.output = (input + m.base - Cardinality(m.dropped)) % SeqMod
                 /\ res.manager.dropped = {x \in m.dropped : ~ IsSeqLowerThan(x, Oldest(input))}
                 /\ (res.manager.base - Cardinality(res.manager.dropped)) % SeqMod
                      = (m.base - Cardinality(m.dropped)) % SeqMod
           /\ res.manager.maxInput = (IF Minus(input, m.maxInput) < Half THEN input ELSE m.maxInput)
           /\ res.manager.maxOutput
                = (IF Minus(res.output, m.maxOutput) < Half THEN res.output ELSE m.maxOutput)
  <1>0. m.dropped \in SUBSET SeqNum /\ m.base \in SeqNum /\ m.base \in Int /\ input \in Int
    BY Constants DEF Manager, SeqNum
  <1>1. PICK kept \in EraseBelow(m.dropped, Oldest(input)), before \in Nat :
             /\ IsChain(kept \cup {input})
                  => before = Cardinality({d \in kept : IsSeqLowerThan(d, input)})
             /\ LET base == Minus(m.base, Cardinality(m.dropped) - Cardinality(kept))
                    out == Plus(input, Minus(base, before))
                IN  res = [manager |-> Higher([m EXCEPT !.dropped = kept, !.base = base], input, out),
                           output |-> out]
    BY InputsParts
  <1> DEFINE gone == Cardinality(m.dropped) - Cardinality(kept)
             base == Minus(m.base, gone)
             out == Plus(input, Minus(base, before))
  <1>2. kept \in SUBSET SeqNum /\ kept \subseteq m.dropped
    BY <1>0, EraseBelowSubset
  <1>3. Cardinality(m.dropped) \in Nat /\ Cardinality(kept) \in Nat /\ gone \in Int
    BY <1>0, <1>2, SeqNumFinite
  <1>4. gone = Cardinality(m.dropped) - Cardinality(kept)
    OBVIOUS
  <1> HIDE DEF gone
  <1>5. base \in SeqNum /\ out \in SeqNum
        /\ base % SeqMod = (m.base - gone) % SeqMod
        /\ out = (input + (m.base - gone - before)) % SeqMod
    <2>1. m.base \in Int /\ input \in Int /\ m.base - gone \in Int
      BY <1>0, <1>3
    <2>2. base = (m.base - gone) % SeqMod
      BY DEF Minus
    <2>3. base \in SeqNum /\ base % SeqMod = (m.base - gone) % SeqMod
      BY <2>1, <2>2, DivMod, ModOfMod
    <2> HIDE DEF base
    <2>4. base \in Int /\ base - before \in Int
      BY <2>3 DEF SeqNum
    <2>5. (base - before) % SeqMod = (m.base - gone - before) % SeqMod
      BY <2>1, <2>3, <2>4, SumCongruent
    <2> DEFINE less == Minus(base, before)
    <2>6. less = (base - before) % SeqMod
      BY DEF Minus
    <2>7. less \in SeqNum /\ less % SeqMod = (m.base - gone - before) % SeqMod
      BY <2>4, <2>5, <2>6, DivMod, ModOfMod
    <2> HIDE DEF less
    <2>8. less \in Int /\ m.base - gone - before \in Int
      BY <1>3, <2>1, <2>7 DEF SeqNum
    <2>9. (input + less) % SeqMod = (input + (m.base - gone - before)) % SeqMod
      BY <2>1, <2>7, <2>8, SumCongruent
    <2>10. (input + less) % SeqMod \in SeqNum
      BY <2>1, <2>8, DivMod
    <2> QED
      BY <2>3, <2>9, <2>10 DEF Plus, less
  <1>6. res = [manager |-> Higher([m EXCEPT !.dropped = kept, !.base = base], input, out),
               output |-> out]
    BY <1>1 DEF gone
  <1> HIDE DEF base, out
  <1>7. /\ res.output = out
        /\ res.manager \in Manager /\ res.manager.dropped = kept /\ res.manager.base = base
        /\ res.manager.maxInput = (IF Minus(input, m.maxInput) < Half THEN input ELSE m.maxInput)
        /\ res.manager.maxOutput = (IF Minus(out, m.maxOutput) < Half THEN out ELSE m.maxOutput)
    <2> DEFINE k == [m EXCEPT !.dropped = kept, !.base = base]
    <2>1. res.output = out /\ res.manager = Higher(k, input, out)
      BY <1>6
    <2>2. /\ k \in Manager /\ k.dropped = kept /\ k.base = base
          /\ k.maxInput = m.maxInput /\ k.maxOutput = m.maxOutput
      BY <1>2, <1>5 DEF Manager
    <2> HIDE DEF k
    <2> DEFINE h == res.manager
    <2>3. h = Higher(k, input, out)
      BY <2>1
    <2> HIDE DEF h
    <2>4. out \in SeqNum /\ k \in Manager
      BY <1>5, <2>2
    <2>5. /\ h \in Manager /\ h.dropped = k.dropped /\ h.base = k.base
          /\ h.maxInput = (IF Minus(input, k.maxInput) < Half THEN input ELSE k.maxInput)
          /\ h.maxOutput = (IF Minus(out, k.maxOutput) < Half THEN out ELSE k.maxOutput)
      BY <2>3, <2>4, HigherFields
    <2> QED
      BY <2>1, <2>2, <2>5 DEF h
  <1>8. ASSUME InOrder(m, input),
               \A x \in m.dropped : ~ IsSeqLowerThan(x, Oldest(input)) => IsSeqLowerThan(x, input)
        PROVE  /\ out = (input + m.base - Cardinality(m.dropped)) % SeqMod
               /\ kept = {x \in m.dropped : ~ IsSeqLowerThan(x, Oldest(input))}
               /\ (base - Cardinality(kept)) % SeqMod = (m.base - Cardinality(m.dropped)) % SeqMod
    <2>1. kept = {x \in m.dropped : ~ IsSeqLowerThan(x, Oldest(input))}
      BY <1>8 DEF InOrder, EraseBelow
    <2>2. {d \in kept : IsSeqLowerThan(d, input)} = kept
      BY <1>8, <2>1
    <2>3. before = Cardinality(kept)
      BY <1>1, <1>8, <2>1, <2>2 DEF InOrder
    <2>4. input \in Int /\ m.base \in Int
      BY <1>0
    <2>5. input + (m.base - gone - before) = input + m.base - Cardinality(m.dropped)
      BY <1>3, <1>4, <2>3, <2>4
    <2>6. (base - Cardinality(kept)) % SeqMod = (m.base - gone - Cardinality(kept)) % SeqMod
      <3>1. base \in Int /\ m.base - gone \in Int /\ Cardinality(kept) \in Int
        BY <1>3, <1>5, <2>4 DEF SeqNum
      <3> QED
        BY <1>5, <3>1, SumCongruent
    <2>7. m.base - gone - Cardinality(kept) = m.base - Cardinality(m.dropped)
      BY <1>3, <1>4, <2>4
    <2> QED
      BY <1>5, <2>1, <2>5, <2>6, <2>7
  <1> QED
    BY <1>5, <1>7, <1>8

----------------------------------------------------------------------------
(* The buffer of RtpStreamSend.                                            *)

\* A set of natural numbers that is not empty has a smallest element.
LEMMA LeastExists ==
    ASSUME NEW T, T \subseteq Nat, T # {}
    PROVE  \E x \in T : \A y \in T : x <= y
  <1>1. PICK x \in T : \A y \in T : ~ (<<y, x>> \in OpToRel(<, Nat))
    BY WFMin, NatLessThanWellFounded, Zenon
  <1>2. \A y \in T : <<y, x>> \in Nat \X Nat
    OBVIOUS
  <1>3. \A y \in T : ~ (y < x)
    BY <1>1, <1>2, Zenon DEF OpToRel
  <1> QED
    BY <1>3

\* The walk of UpdateBufferStartIdx ends at an entry.
LEMMA NextUsedIsUsed ==
    ASSUME NEW b, NEW idx \in SeqNum, Used(b) # {}
    PROVE  NextUsed(b, idx) \in Used(b)
  <1> DEFINE F(q) == Minus(q, Plus(idx, 1))
             T == {F(q) : q \in Used(b)}
  <1>1. \A q \in SeqNum : F(q) \in Nat
    <2> TAKE q \in SeqNum
    <2>1. idx + 1 \in Int /\ q \in Int
      BY DEF SeqNum
    <2> DEFINE z == Plus(idx, 1)
    <2>2. z \in SeqNum
      BY <2>1, DivMod DEF Plus
    <2> HIDE DEF z
    <2>3. q - z \in Int
      BY <2>1, <2>2 DEF SeqNum
    <2>4. (q - z) % SeqMod \in SeqNum
      BY <2>3, DivMod
    <2>5. (q - z) % SeqMod \in Nat
      BY <2>4 DEF SeqNum
    <2> QED
      BY <2>5 DEF Minus, z
  <1>2. Used(b) \subseteq SeqNum
    BY DEF Used
  <1> HIDE DEF F
  <1>3. T \subseteq Nat /\ T # {}
    BY <1>1, <1>2
  <1>4. \E x \in T : \A y \in T : x <= y
    BY <1>3, LeastExists
  <1>5. \E q \in Used(b) : \A r \in Used(b) : F(q) <= F(r)
    BY <1>4
  <1>6. NextUsed(b, idx) = CHOOSE q \in Used(b) : \A r \in Used(b) : F(q) <= F(r)
    BY DEF NextUsed, F
  <1> QED
    BY <1>5, <1>6

LEMMA UsedAfter ==
    ASSUME NEW b \in [SeqNum -> Entry], NEW seq \in SeqNum, NEW e \in Entry, e.packet # None
    PROVE  /\ [b EXCEPT ![seq] = e] \in [SeqNum -> Entry]
           /\ Used([b EXCEPT ![seq] = e]) = Used(b) \cup {seq}
           /\ [b EXCEPT ![seq] = Empty] \in [SeqNum -> Entry]
           /\ Used([b EXCEPT ![seq] = Empty]) = Used(b) \ {seq}
  <1>1. e # Empty /\ Empty \in Entry
    BY DEF Empty, Entry
  <1> QED
    BY <1>1 DEF Used

\* b holds at most what the storage does, and idx is the index of an entry.
Indexed(b, idx) ==
    Cardinality(Used(b)) <= BufferSize /\ (Used(b) # {} => idx \in Used(b))

\* s is the buffer b with its start index, after e was stored or found too large.
HoldsAlso(b, seq, e, s) ==
    /\ s.buffer \in [SeqNum -> Entry] /\ s.start \in SeqNum
    /\ e.packet \notin Oversized => s.buffer[seq].packet = e.packet
    /\ Indexed(s.buffer, s.start)
    /\ \A q \in Used(s.buffer) : (q \in Used(b) /\ s.buffer[q] = b[q]) \/ s.buffer[q] = e

\* StorePacket, of a packet that was accepted.
LEMMA Stored ==
    ASSUME NEW b \in [SeqNum -> Entry], NEW idx \in SeqNum, NEW seq \in SeqNum, NEW e \in Entry,
           e.packet # None, Indexed(b, idx), NEW s, s = StorePacket(b, idx, seq, e)
    PROVE  HoldsAlso(b, seq, e, s)
  <1>0. Cardinality(Used(b)) <= BufferSize /\ (Used(b) # {} => idx \in Used(b))
    BY DEF Indexed
  <1>1. /\ Used(b) \in SUBSET SeqNum /\ IsFiniteSet(Used(b)) /\ Cardinality(Used(b)) \in Nat
        /\ BufferSize \in Nat /\ BufferSize >= 2
    BY SeqNumFinite, SendingAssumption DEF Used
  <1> DEFINE c == [b EXCEPT ![seq] = e]
             freed == [b EXCEPT ![idx] = Empty]
             d == [freed EXCEPT ![seq] = e]
  <1>2. c \in [SeqNum -> Entry] /\ Used(c) = Used(b) \cup {seq}
        /\ c[seq] = e /\ \A q \in SeqNum \ {seq} : c[q] = b[q]
    BY UsedAfter
  <1>3. freed \in [SeqNum -> Entry] /\ Used(freed) = Used(b) \ {idx}
        /\ \A q \in SeqNum \ {idx} : freed[q] = b[q]
    BY UsedAfter
  <1>4. d \in [SeqNum -> Entry] /\ Used(d) = Used(freed) \cup {seq}
        /\ d[seq] = e /\ \A q \in SeqNum \ {seq} : d[q] = freed[q]
    <2> HIDE DEF freed
    <2> QED
      BY <1>3, UsedAfter
  <1> HIDE DEF c, freed, d
  <1> DEFINE fits == e.packet \notin Oversized
  <1>5. CASE fits /\ Used(b) = {}
    <2>1. s = [buffer |-> c, start |-> seq]
      BY <1>5 DEF StorePacket, c
    <2>2. Used(c) = {seq} /\ Cardinality({seq}) = 1
      BY <1>2, <1>5, FS_Singleton
    <2> QED
      BY <1>0, <1>1, <1>2, <2>1, <2>2 DEF HoldsAlso, Indexed
  <1>6. CASE fits /\ Used(b) # {} /\ b[seq].packet = e.packet
    <2>1. s = [buffer |-> b, start |-> idx]
      BY <1>6 DEF StorePacket
    <2> QED
      BY <1>0, <1>6, <2>1 DEF HoldsAlso, Indexed
  <1>7. CASE fits /\ Used(b) # {} /\ b[seq].packet # e.packet /\ b[seq] # Empty
    <2>1. s = [buffer |-> c, start |-> IF idx = seq THEN NextUsed(b, idx) ELSE idx]
      BY <1>7 DEF StorePacket, c
    <2>2. Used(c) = Used(b)
      BY <1>0, <1>2, <1>7 DEF Used
    <2>3. NextUsed(b, idx) \in Used(b)
      BY <1>0, <1>7, NextUsedIsUsed
    <2>4. s.buffer = c /\ s.start \in Used(b)
      BY <1>0, <1>7, <2>1, <2>3
    <2> QED
      BY <1>0, <1>1, <1>2, <2>2, <2>4 DEF HoldsAlso, Indexed
  <1>8. CASE fits /\ Used(b) # {} /\ b[seq].packet # e.packet /\ b[seq] = Empty /\ Cardinality(Used(b)) < BufferSize
    <2>1. s = [buffer |-> c, start |-> idx]
      BY <1>8 DEF StorePacket, c
    <2>2. Cardinality(Used(b) \cup {seq}) = Cardinality(Used(b)) + 1
      <3>1. seq \notin Used(b)
        BY <1>8 DEF Used
      <3> QED
        BY <1>1, <3>1, FS_AddElement
    <2>3. Cardinality(Used(c)) \in Nat
      BY <1>2, SeqNumFinite DEF Used
    <2>4. Cardinality(Used(c)) <= BufferSize
      BY <1>1, <1>2, <1>8, <2>2, <2>3
    <2>5. s.buffer = c /\ s.start = idx /\ idx \in Used(c)
      BY <1>0, <1>2, <1>8, <2>1
    <2>6. \A q \in Used(c) : (q \in Used(b) /\ c[q] = b[q]) \/ c[q] = e
      BY <1>1, <1>2
    <2> QED
      BY <1>0, <1>2, <2>4, <2>5, <2>6 DEF HoldsAlso, Indexed
  <1>9. CASE fits /\ Used(b) # {} /\ b[seq].packet # e.packet /\ b[seq] = Empty
             /\ ~ (Cardinality(Used(b)) < BufferSize)
    <2>1. s = [buffer |-> d, start |-> NextUsed(freed, idx)]
      BY <1>9 DEF StorePacket, freed, d
    <2>2. Cardinality(Used(b)) = BufferSize
      BY <1>0, <1>1, <1>9
    <2>3. IsFiniteSet(Used(freed)) /\ Cardinality(Used(freed)) = BufferSize - 1
      <3>1. idx \in Used(b) /\ IsFiniteSet(Used(b))
        BY <1>0, <1>1, <1>9
      <3>2. IsFiniteSet(Used(b) \ {idx}) /\ Cardinality(Used(b) \ {idx}) = Cardinality(Used(b)) - 1
        BY <3>1, FS_RemoveElement
      <3> QED
        BY <1>3, <2>2, <3>2
    <2>4. Used(freed) # {}
      BY <1>1, <2>3, FS_EmptySet
    <2>5. NextUsed(freed, idx) \in Used(freed)
      BY <2>4, NextUsedIsUsed
    <2>6. Cardinality(Used(freed) \cup {seq}) = Cardinality(Used(freed)) + 1
      <3>1. seq \notin Used(freed)
        BY <1>0, <1>3, <1>9 DEF Used
      <3> QED
        BY <2>3, <3>1, FS_AddElement
    <2>7. Cardinality(Used(d)) <= BufferSize
      <3>1. Cardinality(Used(d)) \in Nat
        BY <1>4, SeqNumFinite DEF Used
      <3> QED
        BY <1>1, <1>4, <2>3, <2>6, <3>1
    <2>8. s.buffer = d /\ s.start \in Used(freed)
      BY <2>1, <2>5
    <2>9. \A q \in Used(d) : (q \in Used(b) /\ d[q] = b[q]) \/ d[q] = e
      BY <1>1, <1>3, <1>4
    <2> QED
      BY <1>0, <1>1, <1>3, <1>4, <2>7, <2>8, <2>9 DEF HoldsAlso, Indexed
  <1>10. CASE e.packet \in Oversized
    <2>1. s = [buffer |-> b, start |-> idx]
      BY <1>10 DEF StorePacket
    <2> QED
      BY <1>0, <1>10, <2>1 DEF HoldsAlso, Indexed
  <1> QED
    BY <1>5, <1>6, <1>7, <1>8, <1>9, <1>10

----------------------------------------------------------------------------
(* A packet reaches the producer's stream.                                 *)

LEMMA PacketFacts == Packet \subseteq Int /\ (\A e \in Packet : e >= 0 /\ e # None) /\ IsFiniteSet(Packet)
  <1>1. Packet \subseteq Int /\ (\A e \in Packet : e >= 0 /\ e # None)
    BY SendingAssumption DEF Packet, None
  <1>2. 0 \in Int /\ MaxPacket \in Int
    BY SendingAssumption
  <1>3. IsFiniteSet(0 .. MaxPacket)
    BY <1>2, FS_Interval
  <1> QED
    BY <1>1, <1>3 DEF Packet

LEMMA PacketOrNone == Packet \cup {None} \subseteq Int
BY SendingAssumption DEF Packet, None

\* The first packet of the stream.
LEMMA FirstArrives ==
    ASSUME TypeOK, Receives, ~ jumped, highest = None, NEW e \in Packet, Arrives(e)
    PROVE  /\ Accepts(Started(received, Number(e)), Number(e))
           /\ received' \in Stream /\ highest' = e /\ Receives'
  <1> DEFINE r == Started(received, Number(e))
             n == Number(e)
  <1>1. e \in Int /\ e - 1 \in Int /\ e > None /\ received \in Stream /\ SeqMod \in Nat \ {0}
    BY PacketFacts, Constants DEF TypeOK, None
  <1>2. n \in SeqNum /\ Minus(n, 1) = Number(e - 1)
    BY <1>1, MinusNumber
  <1>3. ~ received.started /\ received.cycles = 0
    BY DEF Receives
  <1>4. r = [started |-> TRUE, baseSeq |-> n, maxSeq |-> Number(e - 1), badSeq |-> NoBadSeq, cycles |-> 0]
    BY <1>1, <1>2, <1>3 DEF Started, InitSeq, Stream
  <1>5. r \in Stream /\ r.started
    BY <1>1, <1>2, StreamTypes
  <1>6. r.maxSeq = Number(e - 1) /\ r.baseSeq = n /\ Extended(r) = Number(e - 1)
    <2>1. Number(e - 1) \in Int
      BY <1>1, MinusNumber DEF SeqNum
    <2> QED
      BY <1>1, <1>4, <2>1 DEF Extended
  <1>7. highest' = (IF e > None /\ Accepts(r, n) THEN e ELSE None) /\ received' = UpdateSeq(r, n)
        /\ e \in FirstPackets
    BY DEF Arrives
  <1> HIDE DEF r
  <1>8. e - (e - 1) < MaxDropout /\ e - 1 <= e /\ e - (e - 1) = 1
    BY <1>1, Constants
  <1>9. /\ Accepts(r, n) /\ UpdateSeq(r, n).maxSeq = n /\ UpdateSeq(r, n).baseSeq = n
        /\ Extended(UpdateSeq(r, n)) = Number(e - 1) + 1
    BY <1>1, <1>5, <1>6, <1>8, HigherAccepted
  <1>10. UpdateSeq(r, n) \in Stream /\ UpdateSeq(r, n).started
    BY <1>2, <1>5, StreamTypes
  <1>11. n # 0 => Number(e - 1) + 1 = n
    <2>1. 1 \in 0 .. SeqMod - 1
      BY Constants
    <2>2. /\ Number(e - 1) \in SeqNum
          /\ Number(e - 1 + 1) = Number(e - 1) + 1 \/ Number(e - 1 + 1) = Number(e - 1) + 1 - SeqMod
      BY <1>1, <2>1, Remainders
    <2>3. e - 1 + 1 = e
      BY <1>1
    <2> QED
      BY <1>1, <1>2, <2>2, <2>3 DEF SeqNum
  <1>12. highest' = e /\ e # None
    BY <1>1, <1>7, <1>9
  <1>13. /\ received'.started /\ received'.maxSeq = Number(e) /\ received'.baseSeq = Number(e)
         /\ Number(e) # 0 => Extended(received') - received'.baseSeq = e - e
    BY <1>1, <1>2, <1>7, <1>9, <1>10, <1>11 DEF SeqNum
  <1>14. Extended(received)' = Extended(received')
    BY DEF Extended
  <1> QED
    BY <1>7, <1>9, <1>10, <1>12, <1>13, <1>14 DEF Receives, r

\* A later packet of the stream.
LEMMA LaterArrives ==
    ASSUME TypeOK, Receives, ~ jumped, highest # None, NEW e \in Packet, Arrives(e),
           Accepts(Started(received, Number(e)), Number(e)) /\ Jump(e) => jumped'
    PROVE  /\ received' \in Stream /\ highest' \in Packet /\ Receives'
           /\ Accepts(Started(received, Number(e)), Number(e)) =>
                e <= highest' /\ (~ Jump(e) => highest - e < MaxMisorder)
  <1> DEFINE r == received
             n == Number(e)
  <1>1. /\ e \in Int /\ highest \in Packet /\ highest \in Int /\ received \in Stream
        /\ SeqMod \in Nat \ {0} /\ MaxMisorder \in Nat /\ MaxMisorder >= 1
    BY PacketFacts, Constants DEF TypeOK
  <1>2. n \in SeqNum
    BY <1>1, MinusNumber
  <1>3. r.started /\ r.maxSeq = Number(highest)
    BY DEF Receives
  <1>4. PICK first \in FirstPackets :
          /\ r.baseSeq = Number(first)
          /\ Number(first) # 0 => Extended(r) - r.baseSeq = highest - first
    BY <1>3 DEF Receives
  <1>5. Started(received, n) = r
    BY <1>3 DEF Started
  <1>6. /\ e \in highest - Late .. highest + Ahead
        /\ highest' = (IF e > highest /\ Accepts(r, n) THEN e ELSE highest)
        /\ received' = UpdateSeq(r, n)
    BY <1>5 DEF Arrives
  <1>7. Jump(e) <=> TooFar(r, n)
    BY <1>5 DEF Jump
  <1>8. received' \in Stream /\ received'.started /\ highest' \in Packet
    BY <1>1, <1>2, <1>3, <1>6, StreamTypes
  <1>9. Accepts(r, n) => e <= highest'
    BY <1>1, <1>6
  <1>10. Extended(received)' = Extended(received') /\ (\A x \in Packet : x # None)
    BY PacketFacts DEF Extended
  <1>11. CASE TooFar(r, n) /\ n = r.badSeq
    <2>1. Accepts(r, n) /\ Jump(e) /\ jumped'
      BY <1>5, <1>7, <1>11 DEF Accepts
    <2> QED
      BY <1>5, <1>8, <1>9, <2>1 DEF Receives
  <1>12. CASE TooFar(r, n) /\ n # r.badSeq
    <2>1. ~ Accepts(r, n) /\ ~ InRange(r, n)
      BY <1>12 DEF Accepts, TooFar
    <2>2. highest' = highest /\ received' = [r EXCEPT !.badSeq = Plus(n, 1)]
      BY <1>6, <1>12, <2>1 DEF UpdateSeq
    <2>3. /\ received'.maxSeq = r.maxSeq /\ received'.baseSeq = r.baseSeq
          /\ Extended(received') = Extended(r)
      BY <1>1, <2>2 DEF Stream, Extended
    <2>4. Receives'
      BY <1>1, <1>3, <1>4, <1>8, <1>10, <2>2, <2>3 DEF Receives
    <2> QED
      BY <1>5, <1>8, <2>1, <2>4
  <1>13. CASE ~ TooFar(r, n)
    <2>1. (highest <= e /\ e - highest < MaxDropout) \/ (e < highest /\ highest - e < MaxMisorder)
      BY <1>1, <1>3, <1>6, <1>13, NoJump
    <2>2. CASE highest <= e /\ e - highest < MaxDropout
      <3>1. /\ Accepts(r, n)
            /\ UpdateSeq(r, n).maxSeq = n /\ UpdateSeq(r, n).baseSeq = r.baseSeq
            /\ Extended(UpdateSeq(r, n)) = Extended(r) + (e - highest)
        BY <1>1, <1>3, <2>2, HigherAccepted
      <3>2. highest' = e
        BY <1>1, <1>6, <2>2, <3>1
      <3>3. Extended(r) \in Int /\ r.baseSeq \in Int /\ first \in Int
        BY <1>1, SendingAssumption DEF Extended, Stream, SeqNum
      <3>4. Number(first) # 0 => Extended(received') - received'.baseSeq = e - first
        BY <1>1, <1>4, <1>6, <3>1, <3>3
      <3>5. Receives'
        BY <1>1, <1>4, <1>6, <1>8, <1>10, <3>1, <3>2, <3>4 DEF Receives
      <3>6. highest - e < MaxMisorder
        BY <1>1, <2>2
      <3> QED
        BY <1>5, <1>8, <1>9, <3>5, <3>6
    <2>3. CASE e < highest /\ highest - e < MaxMisorder
      <3>1. UpdateSeq(r, n) = r
        BY <1>1, <1>3, <2>3, MisorderAccepted
      <3>2. highest' = highest /\ received' = received
        BY <1>1, <1>6, <2>3, <3>1
      <3>3. Receives'
        BY <1>3, <1>4, <1>10, <3>2 DEF Receives
      <3> QED
        BY <1>5, <1>8, <1>9, <2>3, <3>3
    <2> QED
      BY <2>1, <2>2, <2>3
  <1> QED
    BY <1>11, <1>12, <1>13

LEMMA ArrivesKeeps ==
    ASSUME TypeOK, Receives, ~ jumped, NEW e \in Packet, Arrives(e),
           Accepts(Started(received, Number(e)), Number(e)) /\ Jump(e) => jumped'
    PROVE  /\ received' \in Stream /\ highest' \in Packet /\ Receives'
           /\ Accepts(Started(received, Number(e)), Number(e)) =>
                /\ e <= highest'
                /\ ~ Jump(e) /\ highest # None => highest - e < MaxMisorder
  <1>1. CASE highest = None
    BY <1>1, FirstArrives, PacketFacts
  <1>2. CASE highest # None
    BY <1>2, LaterArrives
  <1> QED
    BY <1>1, <1>2

LEMMA HighestGrows ==
    ASSUME TypeOK, NEW e \in Packet, Arrives(e)
    PROVE  highest \in Int /\ highest' \in Int /\ highest <= highest'
  <1>1. e \in Int /\ highest \in Int
    BY PacketFacts DEF TypeOK, None
  <1>2. (highest' = e /\ e > highest) \/ highest' = highest
    BY DEF Arrives
  <1> QED
    BY <1>1, <1>2

LEMMA DiscardInv ==
    ASSUME Inv, comparable, ~ jumped, NEW e \in Packet, Discard(e)
    PROVE  Inv'
  <1>1. /\ Arrives(e) /\ ~ Accepts(Started(received, Number(e)), Number(e))
        /\ UNCHANGED <<manager, syncRequired, sending, maxPacketTs, buffer, bufferStartIdx,
                       start, forwarded, drops, top, last, comparable, jumped, syncs>>
    BY DEF Discard
  <1>2. received' \in Stream /\ highest' \in Packet /\ Receives'
    BY <1>1, ArrivesKeeps DEF Inv
  <1>3. highest \in Int /\ highest' \in Int /\ highest <= highest'
    BY <1>1, HighestGrows DEF Inv
  <1>4. TypeOK'
    BY <1>1, <1>2 DEF Inv, TypeOK
  <1>5. Sends' /\ Holds' /\ RenumberingExact' /\ SentIsStored'
    BY <1>1 DEF Inv, Sends, Holds, RenumberingExact, SentIsStored, Extended
  <1>6. Manages'
    <2>1. Kept' = Kept /\ Below(forwarded)' = Below(forwarded)
      BY <1>1 DEF Kept, Below
    <2>2. Manages
      BY DEF Inv
    <2>3. ~ syncRequired => forwarded <= highest'
      <3> SUFFICES ASSUME ~ syncRequired PROVE forwarded <= highest'
        OBVIOUS
      <3>1. forwarded \in Packet /\ forwarded <= highest
        BY <2>2 DEF Manages
      <3>2. forwarded \in Int
        BY <3>1, PacketFacts
      <3> QED
        BY <1>3, <3>1, <3>2
    <2> QED
      BY <1>1, <2>1, <2>2, <2>3 DEF Manages
  <1> QED
    BY <1>2, <1>4, <1>5, <1>6 DEF Inv

\* The numbers of two packets within a circle differ.
LEMMA NumbersDiffer ==
    ASSUME NEW a \in Int, NEW b \in Int, a < b, b - a < SeqMod
    PROVE  Number(a) # Number(b)
  <1>1. SeqMod \in Nat \ {0} /\ b - a \in 0 .. SeqMod - 1 /\ b = a + (b - a)
    BY Constants
  <1>2. /\ Number(a) \in SeqNum
        /\ Number(b) = Number(a) + (b - a) \/ Number(b) = Number(a) + (b - a) - SeqMod
    BY <1>1, Remainders
  <1> QED
    BY <1>1, <1>2 DEF SeqNum

LEMMA DropFields ==
    ASSUME NEW m \in Manager, NEW x \in SeqNum, NEW k, k = Drop(m, x)
    PROVE  /\ k \in Manager /\ k.base = m.base
           /\ k.maxInput = m.maxInput /\ k.maxOutput = m.maxOutput
           /\ k.dropped = (IF IsSeqHigherThan(x, m.maxInput) THEN m.dropped \cup {x} ELSE m.dropped)
  <1> DEFINE D == IF IsSeqHigherThan(x, m.maxInput) THEN m.dropped \cup {x} ELSE m.dropped
  <1>1. D \in SUBSET SeqNum
    BY DEF Manager
  <1>2. k = [m EXCEPT !.dropped = D]
    BY DEF Drop
  <1> HIDE DEF D
  <1>3. /\ k \in Manager /\ k.base = m.base /\ k.dropped = D
        /\ k.maxInput = m.maxInput /\ k.maxOutput = m.maxOutput
    BY <1>1, <1>2 DEF Manager
  <1> QED
    BY <1>3 DEF D

\* A packet is dropped, while what the manager compares can be compared.
LEMMA DropManages ==
    ASSUME TypeOK, Manages, ~ syncRequired, NEW e \in Packet, manager' = Drop(manager, Number(e)),
           drops' = (IF e > forwarded THEN drops \cup {e} ELSE drops),
           e - forwarded < Half, forwarded - e < MaxMisorder,
           highest \in Int, highest' \in Int, highest <= highest',
           UNCHANGED <<syncRequired, start, forwarded, top>>
    PROVE  Manages'
  <1> DEFINE f == forwarded
             n == Number(e)
  <1>1. /\ manager \in Manager /\ drops \in SUBSET Packet /\ start.number \in Int /\ start.packet \in Int
        /\ manager.dropped \in SUBSET SeqNum /\ manager.base \in Int
    <2>1. manager \in Manager /\ drops \in SUBSET Packet
          /\ start.number \in Int /\ start.packet \in Packet
      BY DEF TypeOK
    <2>2. manager.dropped \in SUBSET SeqNum /\ manager.base \in SeqNum
      BY <2>1 DEF Manager
    <2>3. start.packet \in Int
      BY <2>1, PacketFacts
    <2>4. manager.base \in Int
      BY <2>2 DEF SeqNum
    <2> QED
      BY <2>1, <2>2, <2>3, <2>4
  <1>2. /\ manager.maxOutput = Number(top) /\ manager.maxInput = Number(f)
        /\ manager.dropped = {Number(d) : d \in Kept}
        /\ (manager.base - Cardinality(manager.dropped)) % SeqMod
             = (start.number - start.packet - Cardinality(drops)) % SeqMod
        /\ f \in Packet \ drops /\ f <= highest
        /\ \A d \in drops : d - f < Half
        /\ top = start.number + (f - start.packet) - Cardinality(Below(f))
    BY DEF Manages
  <1>3. /\ e \in Int /\ f \in Int /\ f <= highest' /\ drops \subseteq Int
        /\ Half \in Nat /\ SeqMod \in Nat /\ 2 * Half <= SeqMod - 1 /\ MaxMisorder \in Nat /\ MaxMisorder <= Half
    BY <1>1, <1>2, PacketFacts, Constants
  <1>4. n \in SeqNum
    BY <1>3, MinusNumber
  <1>5. /\ manager'.base = manager.base
        /\ manager'.maxInput = manager.maxInput /\ manager'.maxOutput = manager.maxOutput
        /\ manager'.dropped = (IF IsSeqHigherThan(n, Number(f)) THEN manager.dropped \cup {n} ELSE manager.dropped)
    <2> DEFINE next == manager'
    <2>1. manager \in Manager /\ n \in SeqNum /\ next = Drop(manager, n) /\ manager.maxInput = Number(f)
      BY <1>1, <1>2, <1>4
    <2> HIDE DEF next, n, f
    <2>2. /\ next.base = manager.base
          /\ next.maxInput = manager.maxInput /\ next.maxOutput = manager.maxOutput
          /\ next.dropped = (IF IsSeqHigherThan(n, manager.maxInput) THEN manager.dropped \cup {n} ELSE manager.dropped)
      BY <2>1, DropFields
    <2> QED
      BY <2>1, <2>2 DEF next
  <1>6. CASE e > f
    <2>1. IsSeqHigherThan(n, Number(f))
      BY <1>3, <1>6, NumbersCompare
    <2>2. manager'.dropped = manager.dropped \cup {n} /\ drops' = drops \cup {e}
      BY <1>5, <1>6, <2>1
    <2>3. Kept' = Kept \cup {e} /\ Below(f)' = Below(f)
      BY <1>3, <1>6, <2>2 DEF Kept, Below
    <2>4. manager'.dropped = {Number(d) : d \in Kept'}
      BY <1>2, <2>2, <2>3
    <2>5. forwarded' \in Packet \ drops' /\ \A d \in drops' : d - f < Half
      BY <1>2, <1>3, <1>6, <2>2
    <2>6. /\ IsFiniteSet(drops) /\ Cardinality(drops) \in Int
          /\ IsFiniteSet(manager.dropped) /\ Cardinality(manager.dropped) \in Int
      <3>1. IsFiniteSet(drops)
        BY <1>1, PacketFacts, FS_Subset
      <3>2. Cardinality(drops) \in Nat
        BY <3>1, FS_CardinalityType
      <3>3. IsFiniteSet(manager.dropped) /\ Cardinality(manager.dropped) \in Nat
        BY <1>1, SeqNumFinite
      <3> QED
        BY <3>1, <3>2, <3>3
    <2>7. (manager'.base - Cardinality(manager'.dropped)) % SeqMod
             = (start.number - start.packet - Cardinality(drops')) % SeqMod
      <3>1. CASE e \in drops
        <4>1. e \in Kept
          BY <1>3, <1>6, <3>1 DEF Kept
        <4>2. manager'.dropped = manager.dropped /\ drops' = drops
          BY <1>2, <2>2, <3>1, <4>1
        <4> QED
          BY <1>2, <1>5, <4>2
      <3>2. CASE e \notin drops
        <4>1. ASSUME NEW d \in Kept PROVE Number(d) # n
          <5>1. d \in Int /\ d # e /\ d >= f - Half /\ d - f < Half
            BY <1>2, <1>3, <3>2 DEF Kept
          <5>2. CASE d < e
            <6>1. e - d < SeqMod
              BY <1>3, <5>1
            <6> QED
              BY <1>3, <5>1, <5>2, <6>1, NumbersDiffer
          <5>3. CASE e < d
            <6>1. d - e < SeqMod
              BY <1>3, <1>6, <5>1
            <6> QED
              BY <1>3, <5>1, <5>3, <6>1, NumbersDiffer
          <5> QED
            BY <1>3, <5>1, <5>2, <5>3
        <4>2. n \notin manager.dropped
          BY <1>2, <4>1
        <4>3. Cardinality(manager'.dropped) = Cardinality(manager.dropped) + 1
              /\ Cardinality(drops') = Cardinality(drops) + 1
          BY <2>2, <2>6, <3>2, <4>2, FS_AddElement
        <4> DEFINE x == manager.base - Cardinality(manager.dropped)
                   y == start.number - start.packet - Cardinality(drops)
        <4>4. x \in Int /\ y \in Int /\ x % SeqMod = y % SeqMod
          BY <1>1, <1>2, <2>6
        <4>5. manager'.base - Cardinality(manager'.dropped) = x - 1
              /\ start.number - start.packet - Cardinality(drops') = y - 1
          BY <1>1, <1>5, <2>6, <4>3
        <4> HIDE DEF x, y
        <4>6. (x - 1) % SeqMod = (y - 1) % SeqMod
          BY <4>4, ShiftCongruent
        <4> QED
          BY <4>5, <4>6
      <3> QED
        BY <3>1, <3>2
    <2> QED
      BY <1>2, <1>3, <1>5, <2>3, <2>4, <2>5, <2>7 DEF Manages
  <1>7. CASE ~ (e > f)
    <2>1. ~ IsSeqHigherThan(n, Number(f))
      <3>1. CASE e = f
        <4>1. n \in Int /\ n = Number(f)
          BY <1>4, <3>1 DEF SeqNum
        <4> QED
          BY <1>3, <4>1 DEF IsSeqHigherThan
      <3>2. CASE e < f
        BY <1>3, <3>2, NumbersCompare
      <3> QED
        BY <1>3, <1>7, <3>1, <3>2
    <2>2. manager'.dropped = manager.dropped /\ drops' = drops
      BY <1>5, <1>7, <2>1
    <2>3. Kept' = Kept /\ Below(f)' = Below(f)
      BY <2>2 DEF Kept, Below
    <2> QED
      BY <1>2, <1>3, <1>5, <2>2, <2>3 DEF Manages
  <1> QED
    BY <1>6, <1>7

LEMMA DropPacketInv ==
    ASSUME Inv, comparable, ~ jumped, NEW e \in Packet, DropPacket(e)
    PROVE  Inv'
  <1>1. /\ Arrives(e) /\ Accepts(Started(received, Number(e)), Number(e)) /\ ~ syncRequired
        /\ manager' = Drop(manager, Number(e))
        /\ drops' = (IF e > forwarded THEN drops \cup {e} ELSE drops)
        /\ jumped' = (jumped \/ Jump(e))
        /\ comparable' = (comparable /\ e - forwarded < Half)
        /\ UNCHANGED <<syncRequired, sending, maxPacketTs, buffer, bufferStartIdx,
                       start, forwarded, top, last, syncs>>
    BY DEF DropPacket
  <1>2. TypeOK /\ Receives /\ Manages
    BY DEF Inv
  <1>3. /\ received' \in Stream /\ highest' \in Packet /\ Receives'
        /\ ~ Jump(e) /\ highest # None => highest - e < MaxMisorder
    BY <1>1, <1>2, ArrivesKeeps
  <1>4. highest \in Int /\ highest' \in Int /\ highest <= highest'
    BY <1>1, <1>2, HighestGrows
  <1>5. manager \in Manager /\ Number(e) \in SeqNum
    BY <1>2, PacketFacts, MinusNumber DEF TypeOK
  <1>6. manager' \in Manager
    BY <1>1, <1>5, DropFields
  <1>7. TypeOK'
    BY <1>1, <1>2, <1>3, <1>6 DEF TypeOK
  <1>8. RenumberingExact' /\ SentIsStored'
    BY <1>1 DEF Inv, RenumberingExact, SentIsStored
  <1>9. Sends' /\ Holds'
    BY <1>1 DEF Inv, Sends, Holds, Extended
  <1>10. ASSUME comparable', ~ jumped' PROVE Manages'
    <2>1. ~ Jump(e) /\ e - forwarded < Half
      BY <1>1, <1>10
    <2>2. forwarded \in Packet /\ forwarded <= highest
      BY <1>1, <1>2 DEF Manages
    <2>3. forwarded \in Int /\ e \in Int /\ MaxMisorder \in Nat /\ forwarded >= 0
      BY <2>2, PacketFacts, Constants
    <2>4. highest # None
      BY <1>4, <2>2, <2>3 DEF None
    <2>5. forwarded - e < MaxMisorder
      BY <1>3, <1>4, <2>1, <2>2, <2>3, <2>4
    <2> QED
      BY <1>1, <1>2, <1>4, <2>1, <2>5, DropManages
  <1> QED
    BY <1>3, <1>7, <1>8, <1>9, <1>10 DEF Inv

LEMMA PauseAndResumeInv ==
    ASSUME Inv, comparable, ~ jumped, PauseAndResume
    PROVE  Inv'
  <1>1. /\ syncRequired' = TRUE /\ buffer' = EmptyBuffer /\ bufferStartIdx' = 0
        /\ UNCHANGED <<highest, received, manager, sending, maxPacketTs,
                       start, forwarded, drops, top, last, comparable, jumped, syncs>>
    BY DEF PauseAndResume
  <1>2. EmptyBuffer \in [SeqNum -> Entry] /\ Used(EmptyBuffer) = {} /\ 0 \in SeqNum
    BY Constants DEF EmptyBuffer, Used, Entry, Empty, SeqNum
  <1>3. Cardinality(Used(EmptyBuffer)) <= BufferSize
    BY <1>2, FS_EmptySet, SendingAssumption
  <1>4. TypeOK'
    BY <1>1, <1>2 DEF Inv, TypeOK
  <1>5. Receives' /\ RenumberingExact'
    BY <1>1 DEF Inv, Receives, RenumberingExact, Extended
  <1>6. SentIsStored'
    BY <1>1, <1>2, <1>3 DEF SentIsStored
  <1>7. Sends' /\ Manages' /\ Holds'
    BY <1>1, <1>2 DEF Inv, Sends, Manages, Holds, Extended
  <1> QED
    BY <1>4, <1>5, <1>6, <1>7 DEF Inv

----------------------------------------------------------------------------
(* SendRtpPacket.                                                          *)

Managed(e) == IF syncRequired THEN Sync(manager, Minus(Number(e), 1)) ELSE manager
From(e) == IF syncRequired THEN [packet |-> e, number |-> top + 1] ELSE start
Dropped == IF syncRequired THEN {} ELSE drops
NumberOf(e) == Renumbered(e, From(e), Dropped)

\* The packets the manager still holds are compared right with one it gets.
LEMMA KeptCompared ==
    ASSUME NEW f \in Int, NEW e \in Int, NEW d \in Int, d >= f - Half, d < e, e - f < Half
    PROVE  /\ IsSeqLowerThan(Number(d), Oldest(Number(e))) <=> d < e - Half
           /\ d >= e - Half => IsSeqLowerThan(Number(d), Number(e))
  <1>1. Half \in Nat /\ Half >= 2 /\ e - Half \in Int
    BY Constants
  <1>2. Oldest(Number(e)) = Number(e - Half)
    BY <1>1, MinusNumber DEF Oldest
  <1>3. CASE d < e - Half
    <2>1. (e - Half) - d <= Half
      BY <1>1
    <2> QED
      BY <1>1, <1>2, <1>3, <2>1, NumbersCompare
  <1>4. CASE d >= e - Half
    <2>1. IsSeqLowerThan(Number(d), Number(e))
      BY <1>1, <1>4, NumbersCompare
    <2>2. ~ IsSeqLowerThan(Number(d), Number(e - Half))
      <3>1. CASE d = e - Half
        <4>1. Number(d) \in Int /\ Number(d) = Number(e - Half)
          BY <3>1, MinusNumber DEF SeqNum
        <4> QED
          BY <1>1, <4>1 DEF IsSeqLowerThan
      <3>2. CASE d > e - Half
        <4>1. d - (e - Half) <= Half
          BY <1>1
        <4> QED
          BY <1>1, <3>2, <4>1, NumbersCompare
      <3> QED
        BY <1>1, <1>4, <3>1, <3>2
    <2> QED
      BY <1>1, <1>2, <1>4, <2>1, <2>2
  <1> QED
    BY <1>1, <1>3, <1>4

\* The manager, at a new start or not, before it gets the packet.
LEMMA ManagedFacts ==
    ASSUME TypeOK, Manages, NEW e \in Packet
    PROVE  /\ Managed(e) \in Manager /\ Managed(e).maxOutput = Number(top)
           /\ From(e) \in [packet : Packet, number : Int]
           /\ Dropped \in SUBSET Packet /\ IsFiniteSet(Dropped) /\ Cardinality(Dropped) \in Nat
           /\ (Managed(e).base - Cardinality(Managed(e).dropped)) % SeqMod
                = (From(e).number - From(e).packet - Cardinality(Dropped)) % SeqMod
  <1>1. manager \in Manager /\ top \in Int /\ drops \in SUBSET Packet /\ e \in Int /\ e - 1 \in Int
    BY PacketFacts DEF TypeOK
  <1>2. Dropped \in SUBSET Packet
    BY <1>1 DEF Dropped
  <1>3. IsFiniteSet(Dropped)
    BY <1>2, PacketFacts, FS_Subset
  <1>4. Cardinality(Dropped) \in Nat
    BY <1>3, FS_CardinalityType
  <1>5. From(e) \in [packet : Packet, number : Int]
    BY <1>1 DEF From, TypeOK
  <1>6. manager.maxOutput = Number(top)
    BY DEF Manages
  <1>7. CASE syncRequired
    <2> DEFINE x == Minus(Number(e), 1)
               b == Minus(manager.maxOutput, x)
    <2>1. x = Number(e - 1) /\ x \in SeqNum
      <3>1. Minus(Number(e), 1) = Number(e - 1)
        BY <1>1, MinusNumber
      <3> QED
        BY <1>1, <3>1, NumberType
    <2>2. b = Number(top - (e - 1)) /\ b \in SeqNum /\ top - (e - 1) \in Int
      <3>1. b = Minus(Number(top), Number(e - 1)) /\ top - (e - 1) \in Int
        BY <1>1, <1>6, <2>1
      <3>2. Minus(Number(top), Number(e - 1)) = Number(top - (e - 1))
        BY <1>1, MinusNumber
      <3> QED
        BY <3>1, <3>2, NumberType
    <2>3. Managed(e) = [manager EXCEPT !.base = b, !.maxInput = x, !.dropped = {}]
      BY <1>7 DEF Managed, Sync
    <2> HIDE DEF x, b
    <2>4. /\ Managed(e) \in Manager /\ Managed(e).maxOutput = Number(top)
          /\ Managed(e).base = b /\ Managed(e).dropped = {}
      BY <1>1, <1>6, <2>1, <2>2, <2>3 DEF Manager
    <2>5. From(e).number - From(e).packet = top - (e - 1) /\ Dropped = {}
      BY <1>1, <1>7 DEF From, Dropped
    <2>6. Cardinality({}) = 0
      BY FS_EmptySet
    <2>7. b - 0 = b /\ top - (e - 1) - 0 = top - (e - 1)
      BY <1>1, <2>2 DEF SeqNum
    <2>8. b % SeqMod = (top - (e - 1)) % SeqMod
      BY <2>2, ModOfMod DEF Number
    <2> QED
      BY <1>2, <1>3, <1>4, <1>5, <2>4, <2>5, <2>6, <2>7, <2>8
  <1>8. CASE ~ syncRequired
    <2>1. Managed(e) = manager /\ From(e) = start /\ Dropped = drops
      BY <1>8 DEF Managed, From, Dropped
    <2> QED
      BY <1>1, <1>2, <1>3, <1>4, <1>5, <1>6, <1>8, <2>1 DEF Manages
  <1> QED
    BY <1>7, <1>8

LEMMA NumberOfType ==
    ASSUME TypeOK, Manages, NEW e \in Packet
    PROVE  /\ NumberOf(e) \in Int
           /\ (\A d \in Dropped : d < e)
                => NumberOf(e) = From(e).number + (e - From(e).packet) - Cardinality(Dropped)
  <1>1. From(e) \in [packet : Packet, number : Int] /\ Dropped \in SUBSET Packet /\ IsFiniteSet(Dropped)
    BY ManagedFacts
  <1>2. From(e).number \in Int /\ From(e).packet \in Int /\ e \in Int
    BY <1>1, PacketFacts
  <1> DEFINE B == {d \in Dropped : d < e}
  <1>3. IsFiniteSet(B)
    BY <1>1, FS_Subset
  <1>4. Cardinality(B) \in Nat
    BY <1>3, FS_CardinalityType
  <1>5. (\A d \in Dropped : d < e) => B = Dropped
    OBVIOUS
  <1>6. NumberOf(e) = From(e).number + (e - From(e).packet) - Cardinality(B)
    BY DEF NumberOf, Renumbered
  <1> HIDE DEF B
  <1> QED
    BY <1>2, <1>4, <1>5, <1>6

\* SeqManager::Input gives the packet the number it ought to have.
LEMMA OutputExact ==
    ASSUME TypeOK, Manages, NEW e \in Packet, NEW res \in Inputs(Managed(e), Number(e)),
           InOrder(Managed(e), Number(e)), syncRequired \/ e - forwarded < Half,
           \A d \in Dropped : d < e
    PROVE  /\ res.output = Number(NumberOf(e))
           /\ res.manager.dropped
                = {x \in Managed(e).dropped : ~ IsSeqLowerThan(x, Oldest(Number(e)))}
           /\ (res.manager.base - Cardinality(res.manager.dropped)) % SeqMod
                = (From(e).number - From(e).packet - Cardinality(Dropped)) % SeqMod
  <1> DEFINE m == Managed(e)
             n == NumberOf(e)
             fr == From(e)
  <1>1. /\ m \in Manager /\ fr \in [packet : Packet, number : Int] /\ Cardinality(Dropped) \in Nat
        /\ (m.base - Cardinality(m.dropped)) % SeqMod = (fr.number - fr.packet - Cardinality(Dropped)) % SeqMod
    BY ManagedFacts
  <1>2. fr.number \in Int /\ fr.packet \in Int /\ e \in Int /\ Number(e) \in SeqNum /\ Number(e) \in Int
    BY <1>1, PacketFacts, NumberType
  <1>3. n = fr.number + (e - fr.packet) - Cardinality(Dropped)
    BY NumberOfType
  <1>4. \A x \in m.dropped : ~ IsSeqLowerThan(x, Oldest(Number(e))) => IsSeqLowerThan(x, Number(e))
    <2>1. CASE syncRequired
      <3>1. m.dropped = {}
        BY <1>1, <2>1 DEF Managed, Sync, TypeOK, Manager
      <3> QED
        BY <3>1
    <2>2. CASE ~ syncRequired
      <3>1. m.dropped = {Number(d) : d \in Kept} /\ Dropped = drops /\ forwarded \in Packet
        BY <2>2 DEF Managed, Manages, Dropped
      <3>2. ASSUME NEW d \in Kept, ~ IsSeqLowerThan(Number(d), Oldest(Number(e)))
            PROVE  IsSeqLowerThan(Number(d), Number(e))
        <4>1. d \in Packet /\ d >= forwarded - Half /\ d < e /\ e - forwarded < Half
          BY <2>2, <3>1 DEF Kept, TypeOK
        <4>2. d \in Int /\ forwarded \in Int /\ Half \in Int
          BY <3>1, <4>1, PacketFacts, Constants
        <4>3. ~ (d < e - Half)
          BY <1>2, <3>2, <4>1, <4>2, KeptCompared
        <4> QED
          BY <1>2, <4>1, <4>2, <4>3, KeptCompared
      <3> QED
        BY <3>1, <3>2
    <2> QED
      BY <2>1, <2>2
  <1> HIDE DEF m, n, fr
  <1>5. /\ res.output = (Number(e) + m.base - Cardinality(m.dropped)) % SeqMod
        /\ res.manager.dropped = {x \in m.dropped : ~ IsSeqLowerThan(x, Oldest(Number(e)))}
        /\ (res.manager.base - Cardinality(res.manager.dropped)) % SeqMod
             = (m.base - Cardinality(m.dropped)) % SeqMod
    BY <1>1, <1>2, <1>4, InputsExact DEF m
  <1>6. m.base \in Int /\ Cardinality(m.dropped) \in Int
    <2>1. m.base \in SeqNum /\ m.dropped \in SUBSET SeqNum
      BY <1>1 DEF Manager
    <2> QED
      BY <2>1, SeqNumFinite DEF SeqNum
  <1> DEFINE x == m.base - Cardinality(m.dropped)
             y == fr.number - fr.packet - Cardinality(Dropped)
  <1>7. x \in Int /\ y \in Int /\ x % SeqMod = y % SeqMod
    BY <1>1, <1>2, <1>6
  <1>8. Number(e) + m.base - Cardinality(m.dropped) = Number(e) + x /\ n = e + y
    BY <1>1, <1>2, <1>3, <1>6
  <1> HIDE DEF x, y
  <1>9. Number(e) % SeqMod = e % SeqMod
    BY <1>2, ModOfMod DEF Number
  <1>10. (Number(e) + x) % SeqMod = (e + y) % SeqMod
    <2> DEFINE z == Number(e)
    <2>1. z \in Int /\ z % SeqMod = e % SeqMod
      BY <1>2, <1>9
    <2> HIDE DEF z
    <2>2. (z + x) % SeqMod = (e + y) % SeqMod
      BY <1>2, <1>7, <2>1, SumCongruent
    <2> QED
      BY <2>2 DEF z
  <1> QED
    BY <1>1, <1>5, <1>8, <1>10 DEF Number, m, n, fr

\* The numbers of a packet and of the highest one forwarded since the start.
LEMMA NumberGrows ==
    ASSUME TypeOK, Manages, ~ syncRequired, NEW e \in Packet, e \notin drops, \A d \in drops : d < e
    PROVE  /\ e > forwarded => top < NumberOf(e)
           /\ e > forwarded => NumberOf(e) - top <= e - forwarded
           /\ e <= forwarded => NumberOf(e) = top - (forwarded - e)
           /\ NumberOf(e) = start.number + (e - start.packet) - Cardinality(drops)
  <1> DEFINE f == forwarded
             n == NumberOf(e)
             C == Cardinality(drops)
             B == Cardinality(Below(f))
  <1>1. Dropped = drops /\ From(e) = start
    BY DEF Dropped, From
  <1>2. /\ IsFiniteSet(drops) /\ C \in Nat /\ start.number \in Int /\ start.packet \in Packet
        /\ drops \in SUBSET Packet
    BY <1>1, ManagedFacts
  <1>3. n = start.number + (e - start.packet) - C
    BY <1>1, NumberOfType
  <1>4. /\ f \in Packet \ drops
        /\ top = start.number + (f - start.packet) - B
    BY DEF Manages
  <1>5. e \in Int /\ f \in Int /\ start.packet \in Int
    BY <1>2, <1>4, PacketFacts
  <1>6. Below(f) \in SUBSET drops /\ IsFiniteSet(Below(f))
    BY <1>2, FS_Subset DEF Below
  <1>7. B \in Nat /\ B <= C
    BY <1>2, <1>6, FS_Subset, FS_CardinalityType
  <1>8. CASE e > f
    <2> DEFINE T == drops \ Below(f)
    <2>1. T \subseteq f + 1 .. e - 1
      <3> SUFFICES ASSUME NEW d \in T PROVE d \in f + 1 .. e - 1
        OBVIOUS
      <3>1. d \in drops /\ d \in Int /\ ~ (d < f) /\ d # f /\ d < e
        BY <1>2, <1>4, PacketFacts DEF Below
      <3> QED
        BY <1>5, <3>1
    <2>2. f + 1 \in Int /\ e - 1 \in Int
      BY <1>5
    <2>3. IsFiniteSet(f + 1 .. e - 1) /\ Cardinality(f + 1 .. e - 1) = e - f - 1
      BY <1>5, <1>8, <2>2, FS_Interval
    <2>4. IsFiniteSet(T) /\ Cardinality(T) = C - Cardinality(drops \cap Below(f))
      BY <1>2, FS_Difference
    <2>5. drops \cap Below(f) = Below(f)
      BY <1>6
    <2>6. Cardinality(T) <= e - f - 1
      <3> HIDE DEF T
      <3>1. Cardinality(T) <= Cardinality(f + 1 .. e - 1)
        BY <2>1, <2>3, FS_Subset
      <3> QED
        BY <2>3, <3>1
    <2>7. C - B <= e - f - 1
      BY <2>4, <2>5, <2>6
    <2> HIDE DEF n, C, B, T
    <2> QED
      BY <1>2, <1>3, <1>4, <1>5, <1>7, <1>8, <2>7 DEF n, C
  <1>9. CASE ~ (e > f)
    <2>1. Below(f) = drops
      <3>1. \A d \in drops : d \in Int /\ d < e
        BY <1>2, PacketFacts
      <3> QED
        BY <1>5, <1>9, <3>1 DEF Below
    <2>2. B = C
      BY <2>1
    <2> HIDE DEF n, C, B
    <2> QED
      BY <1>2, <1>3, <1>4, <1>5, <1>7, <1>9, <2>2 DEF n, C
  <1> QED
    BY <1>8, <1>9

\* The maxima of the manager are the numbers of the highest packet forwarded and
\* of the highest number given out.
LEMMA MaximumFollows ==
    ASSUME NEW a \in Int, NEW b \in Int, NEW c \in Int, NEW d \in Int,
           a - b < Half, b - a < MaxMisorder, c = (IF a > b THEN a ELSE b),
           d = (IF Minus(Number(a), Number(b)) < Half THEN Number(a) ELSE Number(b))
    PROVE  d = Number(c)
  <1>1. /\ SeqMod \in Nat \ {0} /\ Half \in Nat /\ MaxMisorder \in Nat /\ MaxMisorder <= Half
        /\ 2 * Half <= SeqMod - 1
    BY Constants
  <1>2. Minus(Number(a), Number(b)) = (a - b) % SeqMod /\ a - b \in Int
    BY MinusNumber DEF Number
  <1>3. CASE a >= b
    <2>1. (a - b) % SeqMod = a - b
      BY <1>1, <1>2, <1>3, SmallMod
    <2> QED
      BY <1>1, <1>2, <1>3, <2>1
  <1>4. CASE a < b
    <2>1. (a - b) % SeqMod = a - b + SeqMod
      BY <1>1, <1>2, <1>4, SmallMod
    <2> QED
      BY <1>1, <1>2, <1>4, <2>1
  <1> QED
    BY <1>3, <1>4

LEMMA SendManages ==
    ASSUME TypeOK, Manages, NEW e \in Packet, NEW res \in Inputs(Managed(e), Number(e)),
           InOrder(Managed(e), Number(e)), syncRequired \/ e - forwarded < Half,
           \A d \in Dropped : d < e, syncRequired \/ e \notin drops,
           NumberOf(e) - top \in 1 - MaxMisorder .. MaxDropout - 1,
           ~ syncRequired => forwarded - e < MaxMisorder,
           highest \in Int, highest' \in Int, highest <= highest', e <= highest',
           manager' = res.manager, syncRequired' = FALSE, start' = From(e), drops' = Dropped,
           forwarded' = (IF syncRequired \/ e > forwarded THEN e ELSE forwarded),
           top' = (IF NumberOf(e) > top THEN NumberOf(e) ELSE top)
    PROVE  Manages'
  <1> DEFINE m == Managed(e)
             n == NumberOf(e)
             fr == From(e)
             f == forwarded
  <1>1. /\ e \in Int /\ Number(e) \in SeqNum /\ top \in Int /\ n \in Int /\ Number(n) \in Int
        /\ Half \in Nat /\ Half >= 2 /\ MaxMisorder \in Nat /\ MaxDropout \in Nat /\ MaxDropout <= Half
        /\ SeqMod \in Nat \ {0} /\ 2 * Half <= SeqMod - 1
    BY PacketFacts, NumberType, Constants, NumberOfType DEF TypeOK
  <1>2. /\ m \in Manager /\ m.maxOutput = Number(top)
        /\ fr \in [packet : Packet, number : Int]
    BY ManagedFacts
  <1>3. /\ res.output = Number(n)
        /\ manager'.dropped = {x \in m.dropped : ~ IsSeqLowerThan(x, Oldest(Number(e)))}
        /\ (manager'.base - Cardinality(manager'.dropped)) % SeqMod
             = (fr.number - fr.packet - Cardinality(drops')) % SeqMod
    BY OutputExact
  <1>4. /\ manager'.maxInput = (IF Minus(Number(e), m.maxInput) < Half THEN Number(e) ELSE m.maxInput)
        /\ manager'.maxOutput = (IF Minus(Number(n), Number(top)) < Half THEN Number(n) ELSE Number(top))
    BY <1>1, <1>2, <1>3, InputsExact
  <1>5. manager'.maxOutput = Number(top')
    <2>1. n - top < Half /\ top - n < MaxMisorder /\ manager'.maxOutput \in Int /\ top' \in Int
      <3>1. Number(top) \in Int
        BY <1>1, NumberType
      <3> QED
        BY <1>1, <1>4, <3>1
    <2> HIDE DEF n
    <2> QED
      BY <1>1, <1>4, <2>1, MaximumFollows DEF n
  <1>6. CASE syncRequired
    <2>1. m = Sync(manager, Minus(Number(e), 1)) /\ fr = [packet |-> e, number |-> top + 1] /\ Dropped = {}
      BY <1>6 DEF Managed, From, Dropped
    <2>2. Minus(Number(e), 1) = Number(e - 1) /\ e - 1 \in Int
      BY <1>1, MinusNumber
    <2>3. m.maxInput = Number(e - 1) /\ m.dropped = {}
      BY <2>1, <2>2 DEF Sync, TypeOK, Manager
    <2>4. manager'.dropped = {} /\ drops' = {} /\ forwarded' = e
      BY <1>3, <1>6, <2>1, <2>3
    <2>5. manager'.maxInput = Number(e)
      <3>1. Minus(Number(e), Number(e - 1)) = Number(1)
        <4>1. Minus(Number(e), Number(e - 1)) = Number(e - (e - 1))
          BY <1>1, <2>2, MinusNumber
        <4>2. e - (e - 1) = 1
          BY <1>1
        <4> QED
          BY <4>1, <4>2
      <3>2. Number(1) = 1
        BY <1>1, SmallMod DEF Number
      <3> QED
        BY <1>1, <1>4, <2>3, <3>1, <3>2
    <2>6. n = top + 1
      <3>1. n = fr.number + (e - fr.packet) - Cardinality(Dropped)
        BY NumberOfType
      <3>2. Cardinality(Dropped) = 0
        BY <2>1, FS_EmptySet
      <3> QED
        BY <1>1, <2>1, <3>1, <3>2
    <2>7. Kept' = {} /\ Below(forwarded)' = {}
      BY <2>4 DEF Kept, Below
    <2>8. start' = fr /\ fr.number = top + 1 /\ fr.packet = e /\ top' = top + 1
      BY <1>1, <2>1, <2>6
    <2>9. top' = start'.number + (forwarded' - start'.packet) - Cardinality(Below(forwarded)')
      <3>1. Cardinality(Below(forwarded)') = 0
        BY <2>7, FS_EmptySet
      <3> HIDE DEF fr
      <3>2. start'.number = top + 1 /\ start'.packet = e
        BY <2>8
      <3> QED
        BY <1>1, <2>4, <2>8, <3>1, <3>2
    <2>10. (manager'.base - Cardinality(manager'.dropped)) % SeqMod
             = (start'.number - start'.packet - Cardinality(drops')) % SeqMod
      BY <1>3
    <2>11. manager'.dropped = {Number(d) : d \in Kept'}
      BY <2>4, <2>7
    <2> QED
      BY <1>5, <2>4, <2>5, <2>9, <2>10, <2>11 DEF Manages
  <1>7. CASE ~ syncRequired
    <2>1. m = manager /\ fr = start /\ Dropped = drops
      BY <1>7 DEF Managed, From, Dropped
    <2>2. /\ m.maxInput = Number(f) /\ m.dropped = {Number(d) : d \in Kept}
          /\ f \in Packet \ drops /\ f <= highest
          /\ \A d \in drops : d - f < Half
          /\ top = start.number + (f - start.packet) - Cardinality(Below(f))
      BY <1>7, <2>1 DEF Manages
    <2>3. f \in Int /\ drops \subseteq Int /\ drops' = drops /\ start' = start
      BY <2>1, <2>2, PacketFacts DEF TypeOK
    <2>4. forwarded' = (IF e > f THEN e ELSE f) /\ e - f < Half /\ f - e < MaxMisorder /\ e \notin drops
      BY <1>7
    <2>5. manager'.maxInput = Number(forwarded')
      <3>1. Number(e) \in Int /\ Number(f) \in Int /\ forwarded' \in Int
        BY <1>1, <2>3, <2>4, NumberType
      <3>2. manager'.maxInput = (IF Minus(Number(e), Number(f)) < Half THEN Number(e) ELSE Number(f))
        BY <1>4, <2>2
      <3>3. manager'.maxInput \in Int
        BY <3>1, <3>2
      <3> QED
        BY <1>1, <2>3, <2>4, <3>1, <3>2, <3>3, MaximumFollows
    <2>6. forwarded' \in Packet \ drops /\ forwarded' <= highest' /\ \A d \in drops : d - forwarded' < Half
      BY <1>1, <2>2, <2>3, <2>4
    <2>7. /\ e > f => top < n
          /\ e <= f => n = top - (f - e)
          /\ n = start.number + (e - start.packet) - Cardinality(drops)
      BY <1>7, <2>1, <2>4, NumberGrows
    <2>8. top' = start'.number + (forwarded' - start'.packet) - Cardinality(Below(forwarded)')
      <3>1. CASE e > f
        <4>1. forwarded' = e /\ top' = n
          BY <1>1, <2>4, <2>7, <3>1
        <4>2. Below(forwarded)' = drops
          BY <2>1, <2>3, <4>1 DEF Below
        <4> QED
          BY <2>3, <2>7, <4>1, <4>2
      <3>2. CASE ~ (e > f)
        <4>1. forwarded' = f /\ top' = top
          BY <1>1, <2>3, <2>4, <2>7, <3>2
        <4>2. Below(forwarded)' = Below(f)
          BY <2>3, <4>1 DEF Below
        <4> QED
          BY <2>2, <2>3, <4>1, <4>2
      <3> QED
        BY <3>1, <3>2
    <2>9. \A d \in Kept : IsSeqLowerThan(Number(d), Oldest(Number(e))) <=> d < e - Half
      <3> TAKE d \in Kept
      <3>1. d \in Int /\ d >= f - Half /\ d < e
        BY <2>1, <2>3 DEF Kept
      <3> QED
        BY <1>1, <2>3, <2>4, <3>1, KeptCompared
    <2>10. Kept' = {d \in Kept : ~ (d < e - Half)}
      <3>1. Kept' = {d \in drops : d >= forwarded' - Half}
        BY <2>3 DEF Kept
      <3>2. \A d \in drops : d >= forwarded' - Half <=> d >= f - Half /\ ~ (d < e - Half)
        BY <1>1, <2>3, <2>4
      <3> QED
        BY <3>1, <3>2 DEF Kept
    <2>11. manager'.dropped = {Number(d) : d \in Kept'}
      <3>1. manager'.dropped = {x \in {Number(d) : d \in Kept} : ~ IsSeqLowerThan(x, Oldest(Number(e)))}
        BY <1>3, <2>2
      <3> QED
        BY <2>9, <2>10, <3>1
    <2>12. (manager'.base - Cardinality(manager'.dropped)) % SeqMod
             = (start'.number - start'.packet - Cardinality(drops')) % SeqMod
      BY <1>3, <2>1, <2>3
    <2> QED
      BY <1>5, <2>3, <2>5, <2>6, <2>8, <2>11, <2>12 DEF Manages
  <1> QED
    BY <1>6, <1>7

\* The sending stream follows the numbers.
LEMMA SendFollows ==
    ASSUME TypeOK, Manages, Sends, NEW e \in Packet,
           NumberOf(e) - top \in 1 - MaxMisorder .. MaxDropout - 1,
           syncRequired => NumberOf(e) = top + 1,
           sending' = UpdateSeq(Started(sending, Number(NumberOf(e))), Number(NumberOf(e))),
           top' = (IF NumberOf(e) > top THEN NumberOf(e) ELSE top)
    PROVE  /\ Accepts(Started(sending, Number(NumberOf(e))), Number(NumberOf(e)))
           /\ sending'.started /\ sending'.maxSeq = Number(top') /\ Extended(sending') = top'
  <1> DEFINE n == NumberOf(e)
             r == Started(sending, Number(n))
  <1>1. /\ top \in Int /\ n \in Int /\ MaxMisorder \in Nat /\ MaxDropout \in Nat /\ sending \in Stream
        /\ SeqMod \in Nat \ {0}
    BY NumberOfType, Constants DEF TypeOK
  <1>2. Number(n) \in SeqNum
    BY <1>1, NumberType
  <1>3. r \in Stream /\ r.started
    BY <1>1, <1>2, StreamTypes
  <1>4. r.maxSeq = Number(top) /\ Extended(r) = top
    <2>1. CASE sending.started
      <3>1. r = sending
        BY <2>1 DEF Started
      <3> QED
        BY <3>1 DEF Sends
    <2>2. CASE ~ sending.started
      <3>1. top = 0 /\ sending.cycles = 0 /\ n = 1
        BY <2>2 DEF Sends
      <3>2. Minus(Number(1), 1) = Number(1 - 1)
        BY MinusNumber
      <3>3. Number(0) = 0
        BY <1>1, SmallMod DEF Number
      <3>4. Minus(Number(1), 1) = 0
        BY <3>2, <3>3
      <3>5. r.maxSeq = 0 /\ r.cycles = 0
        BY <1>1, <2>2, <3>1, <3>4 DEF Started, InitSeq, Stream
      <3> QED
        BY <1>1, <3>1, <3>3, <3>5 DEF Extended
    <2> QED
      BY <2>1, <2>2
  <1>5. sending' = UpdateSeq(r, Number(n)) /\ top' = (IF n > top THEN n ELSE top)
        /\ n - top < MaxDropout /\ top - n < MaxMisorder
    BY <1>1
  <1> HIDE DEF n, r
  <1>6. sending'.started
    BY <1>2, <1>3, <1>5, StreamTypes
  <1>7. CASE n >= top
    <2>1. /\ Accepts(r, Number(n)) /\ UpdateSeq(r, Number(n)).maxSeq = Number(n)
          /\ Extended(UpdateSeq(r, Number(n))) = top + (n - top)
      BY <1>1, <1>3, <1>4, <1>5, <1>7, HigherAccepted
    <2>2. top' = n /\ top + (n - top) = n
      BY <1>1, <1>5, <1>7
    <2> QED
      BY <1>5, <1>6, <2>1, <2>2 DEF n, r
  <1>8. CASE n < top
    <2>1. Accepts(r, Number(n)) /\ UpdateSeq(r, Number(n)) = r
      BY <1>1, <1>3, <1>4, <1>5, <1>8, MisorderAccepted
    <2>2. top' = top
      BY <1>1, <1>5, <1>8
    <2> QED
      BY <1>4, <1>5, <1>6, <2>1, <2>2 DEF n, r
  <1> QED
    BY <1>1, <1>7, <1>8

\* What is in the buffer after a packet was stored.
LEMMA SendHolds ==
    ASSUME TypeOK, Manages, Holds, NEW e \in Packet,
           \A d \in Dropped : d < e, syncRequired \/ e \notin drops, syncRequired => NumberOf(e) = top + 1,
           syncRequired' = FALSE,
           forwarded' = (IF syncRequired \/ e > forwarded THEN e ELSE forwarded),
           top' = (IF NumberOf(e) > top THEN NumberOf(e) ELSE top),
           maxPacketTs' = (IF e > maxPacketTs THEN e ELSE maxPacketTs),
           \A q \in Used(buffer') : \/ q \in Used(buffer) /\ buffer'[q] = buffer[q]
                                    \/ buffer'[q] = [packet |-> e, number |-> NumberOf(e)]
    PROVE  Holds'
  <1> DEFINE n == NumberOf(e)
             f == forwarded
  <1>1. e \in Int /\ top \in Int /\ n \in Int /\ maxPacketTs \in Int /\ f \in Int
    BY PacketFacts, NumberOfType DEF TypeOK, None
  <1>2. \A q \in Used(buffer) : buffer[q].packet \in Int /\ buffer[q].number \in Int
    <2> TAKE q \in Used(buffer)
    <2>1. buffer[q] \in Entry
      BY DEF Used, TypeOK
    <2>2. buffer[q].packet \in Packet \cup {None} /\ buffer[q].number \in Int
      BY <2>1 DEF Entry
    <2> QED
      BY <2>2, PacketOrNone
  <1>3. forwarded' <= maxPacketTs'
    BY <1>1 DEF Holds
  <1>4. ASSUME NEW q \in Used(buffer')
        PROVE  /\ buffer'[q].packet <= forwarded'
               /\ top' - buffer'[q].number <= forwarded' - buffer'[q].packet
    <2>1. CASE syncRequired
      <3>1. forwarded' = e /\ top' = n
        BY <1>1, <2>1
      <3>2. buffer'[q].packet = e /\ buffer'[q].number = n
        BY <1>4, <2>1 DEF Holds
      <3> QED
        BY <1>1, <3>1, <3>2
    <2>2. CASE ~ syncRequired
      <3>1. /\ e > f => top < n
            /\ e > f => n - top <= e - f
            /\ e <= f => n = top - (f - e)
        BY <2>2, NumberGrows DEF Dropped
      <3>2. forwarded' = (IF e > f THEN e ELSE f) /\ top' = (IF n > top THEN n ELSE top)
        BY <2>2
      <3>3. CASE q \in Used(buffer) /\ buffer'[q] = buffer[q]
        <4>1. buffer[q].packet <= f /\ top - buffer[q].number <= f - buffer[q].packet
          BY <2>2, <3>3 DEF Holds
        <4>2. buffer[q].packet \in Int /\ buffer[q].number \in Int
          BY <1>2, <3>3
        <4> HIDE DEF n
        <4> QED
          BY <1>1, <3>1, <3>2, <3>3, <4>1, <4>2
      <3>4. CASE buffer'[q] = [packet |-> e, number |-> n]
        <4>1. buffer'[q].packet = e /\ buffer'[q].number = n
          BY <3>4
        <4> HIDE DEF n
        <4> QED
          BY <1>1, <3>1, <3>2, <4>1
      <3> QED
        BY <1>4, <3>3, <3>4
    <2> QED
      BY <2>1, <2>2
  <1> QED
    BY <1>3, <1>4 DEF Holds, Used

LEMMA SendRtpPacketInv ==
    ASSUME Inv, comparable, ~ jumped, NEW e \in Packet, SendRtpPacket(e)
    PROVE  Inv'
  <1> DEFINE m == Managed(e)
             n == NumberOf(e)
             D == Dropped
  <1>1. /\ Arrives(e) /\ Accepts(Started(received, Number(e)), Number(e))
        /\ syncRequired \/ e \notin drops
        /\ syncRequired' = FALSE
        /\ jumped' = (jumped \/ Jump(e) \/ n - top \notin 1 - MaxMisorder .. MaxDropout - 1)
        /\ comparable' = /\ comparable /\ InOrder(m, Number(e))
                         /\ syncRequired \/ e - forwarded < Half
                         /\ \A d \in D : d < e
        /\ start' = From(e) /\ drops' = D
        /\ forwarded' = (IF syncRequired \/ e > forwarded THEN e ELSE forwarded)
        /\ top' = (IF n > top THEN n ELSE top)
    BY DEF SendRtpPacket, Managed, NumberOf, Dropped, From
  <1>2. PICK res \in Inputs(m, Number(e)) :
          LET r      == Started(sending, res.output)
              ok     == Accepts(r, res.output)
              stored == StorePacket(buffer, bufferStartIdx, res.output, [packet |-> e, number |-> n])
          IN  /\ manager' = res.manager
              /\ sending' = UpdateSeq(r, res.output)
              /\ last' = [packet |-> e, output |-> res.output, number |-> n, accepted |-> ok]
              /\ maxPacketTs' = IF ok /\ e > maxPacketTs THEN e ELSE maxPacketTs
              /\ IF ok THEN buffer' = stored.buffer /\ bufferStartIdx' = stored.start
                       ELSE UNCHANGED <<buffer, bufferStartIdx>>
    BY DEF SendRtpPacket, Managed, NumberOf, Dropped, From
  <1> DEFINE out == res.output
             r == Started(sending, out)
             ok == Accepts(r, out)
             entry == [packet |-> e, number |-> n]
             s == StorePacket(buffer, bufferStartIdx, out, entry)
  <1>3. /\ manager' = res.manager /\ sending' = UpdateSeq(r, out)
        /\ last' = [packet |-> e, output |-> out, number |-> n, accepted |-> ok]
        /\ maxPacketTs' = (IF ok /\ e > maxPacketTs THEN e ELSE maxPacketTs)
        /\ ok => buffer' = s.buffer /\ bufferStartIdx' = s.start
        /\ ~ ok => UNCHANGED <<buffer, bufferStartIdx>>
    BY <1>2
  <1>4. TypeOK /\ Receives /\ Manages /\ Sends /\ Holds /\ SentIsStored
    BY DEF Inv
  <1>5. /\ m \in Manager /\ From(e) \in [packet : Packet, number : Int] /\ D \in SUBSET Packet
        /\ n \in Int /\ top \in Int /\ e \in Int /\ e # None /\ Number(e) \in SeqNum
    BY <1>4, ManagedFacts, NumberOfType, PacketFacts, NumberType DEF TypeOK
  <1>6. res.manager \in Manager /\ out \in SeqNum
    BY <1>5, InputsExact
  <1> HIDE DEF m, n, D
  <1>7. /\ received' \in Stream /\ highest' \in Packet /\ Receives' /\ e <= highest'
        /\ ~ Jump(e) /\ highest # None => highest - e < MaxMisorder
    BY <1>1, <1>4, ArrivesKeeps
  <1>8. highest \in Int /\ highest' \in Int /\ highest <= highest'
    BY <1>1, <1>4, HighestGrows
  <1>9. entry \in Entry /\ entry.packet = e /\ entry.packet # None
    BY <1>5 DEF Entry
  <1>10. /\ buffer \in [SeqNum -> Entry] /\ bufferStartIdx \in SeqNum /\ sending \in Stream
         /\ Cardinality(Used(buffer)) <= BufferSize /\ (Used(buffer) # {} => bufferStartIdx \in Used(buffer))
    BY <1>4 DEF TypeOK, SentIsStored
  <1> HIDE DEF out, entry
  <1>11. s = StorePacket(buffer, bufferStartIdx, out, entry)
    OBVIOUS
  <1> HIDE DEF s
  <1>12. /\ s.buffer \in [SeqNum -> Entry] /\ s.start \in SeqNum
         /\ e \notin Oversized => s.buffer[out].packet = e
         /\ Cardinality(Used(s.buffer)) <= BufferSize
         /\ Used(s.buffer) # {} => s.start \in Used(s.buffer)
         /\ \A q \in Used(s.buffer) : (q \in Used(buffer) /\ s.buffer[q] = buffer[q]) \/ s.buffer[q] = entry
    <2>1. Indexed(buffer, bufferStartIdx)
      BY <1>10 DEF Indexed
    <2>2. HoldsAlso(buffer, out, entry, s)
      BY <1>6, <1>9, <1>10, <1>11, <2>1, Stored
    <2> QED
      BY <1>9, <2>2, Zenon DEF HoldsAlso, Indexed
  <1>13. r \in Stream /\ sending' \in Stream
    <2>1. r \in Stream
      BY <1>6, <1>10, StreamTypes
    <2> HIDE DEF r
    <2> QED
      BY <1>3, <1>6, <2>1, StreamTypes
  <1>14. ok \in BOOLEAN
    BY DEF Accepts
  <1> HIDE DEF ok, r
  <1>15. TypeOK'
    <2>1. forwarded' \in Packet \cup {None} /\ maxPacketTs' \in Packet \cup {None} /\ top' \in Int
      BY <1>1, <1>3, <1>4, <1>5 DEF TypeOK
    <2>2. last' \in [packet : Packet \cup {None}, output : SeqNum, number : Int, accepted : BOOLEAN]
      BY <1>3, <1>5, <1>6, <1>14
    <2>3. buffer' \in [SeqNum -> Entry] /\ bufferStartIdx' \in SeqNum
      BY <1>3, <1>10, <1>12
    <2>4. comparable' \in BOOLEAN
      <3>1. (/\ comparable /\ InOrder(m, Number(e))
             /\ syncRequired \/ e - forwarded < Half
             /\ \A d \in D : d < e) \in BOOLEAN
        OBVIOUS
      <3> QED
        BY <1>1, <3>1, Zenon
    <2>5. jumped' \in BOOLEAN
      <3>1. (jumped \/ Jump(e) \/ n - top \notin 1 - MaxMisorder .. MaxDropout - 1) \in BOOLEAN
        OBVIOUS
      <3> QED
        BY <1>1, <3>1, Zenon
    <2>6. syncRequired' \in BOOLEAN
      BY <1>1
    <2> QED
      BY <1>1, <1>3, <1>5, <1>6, <1>7, <1>13, <2>1, <2>2, <2>3, <2>4, <2>5, <2>6 DEF TypeOK
  <1>16. SentIsStored'
    <2>1. last'.accepted = ok /\ last'.output = out /\ last'.packet = e
      BY <1>3
    <2>2. CASE ok
      <3>1. buffer' = s.buffer /\ bufferStartIdx' = s.start
        BY <1>3, <2>2
      <3>2. Used(buffer)' = Used(s.buffer)
        BY <3>1 DEF Used
      <3> QED
        BY <1>12, <2>1, <3>1, <3>2 DEF SentIsStored
    <2>3. CASE ~ ok
      <3>1. UNCHANGED <<buffer, bufferStartIdx>> /\ Used(buffer)' = Used(buffer)
        BY <1>3, <2>3 DEF Used
      <3> QED
        BY <1>10, <2>1, <2>3, <3>1 DEF SentIsStored
    <2> QED
      BY <2>2, <2>3
  <1>17. comparable' => out = Number(n)
    <2> SUFFICES ASSUME comparable' PROVE out = Number(n)
      OBVIOUS
    <2>1. /\ InOrder(Managed(e), Number(e)) /\ (syncRequired \/ e - forwarded < Half)
          /\ \A d \in Dropped : d < e
      BY <1>1 DEF m, D
    <2>2. res \in Inputs(Managed(e), Number(e))
      BY DEF m
    <2>3. res.output = Number(NumberOf(e))
      BY <1>4, <2>1, <2>2, OutputExact
    <2> QED
      BY <2>3 DEF out, n
  <1>18. RenumberingExact'
    <2>1. last'.output = out /\ last'.number = n
      BY <1>3
    <2> QED
      BY <1>17, <2>1 DEF RenumberingExact, Number
  <1>19. ASSUME comparable', ~ jumped' PROVE Sends' /\ Manages' /\ Holds'
    <2>1. /\ InOrder(m, Number(e)) /\ (syncRequired \/ e - forwarded < Half)
          /\ \A d \in D : d < e
          /\ ~ Jump(e) /\ n - top \in 1 - MaxMisorder .. MaxDropout - 1
      BY <1>1, <1>19
    <2>2. ~ syncRequired => forwarded - e < MaxMisorder
      <3> SUFFICES ASSUME ~ syncRequired PROVE forwarded - e < MaxMisorder
        OBVIOUS
      <3>1. forwarded \in Packet /\ forwarded <= highest
        BY <1>4 DEF Manages
      <3>2. forwarded \in Int /\ forwarded >= 0 /\ MaxMisorder \in Nat
        BY <3>1, PacketFacts, Constants
      <3>3. highest # None
        BY <1>8, <3>1, <3>2 DEF None
      <3> QED
        BY <1>5, <1>7, <1>8, <2>1, <3>1, <3>2, <3>3
    <2>3. Manages'
      <3>1. res \in Inputs(Managed(e), Number(e))
        BY DEF m
      <3>2. /\ InOrder(Managed(e), Number(e)) /\ (syncRequired \/ e - forwarded < Half)
            /\ \A d \in Dropped : d < e
            /\ NumberOf(e) - top \in 1 - MaxMisorder .. MaxDropout - 1
        BY <2>1 DEF m, n, D
      <3>3. /\ manager' = res.manager /\ syncRequired' = FALSE /\ start' = From(e) /\ drops' = Dropped
            /\ forwarded' = (IF syncRequired \/ e > forwarded THEN e ELSE forwarded)
            /\ top' = (IF NumberOf(e) > top THEN NumberOf(e) ELSE top)
            /\ syncRequired \/ e \notin drops
        BY <1>1, <1>3 DEF n, D
      <3> QED
        BY <1>4, <1>7, <1>8, <2>2, <3>1, <3>2, <3>3, SendManages
    <2>4. syncRequired => n = top + 1
      <3> SUFFICES ASSUME syncRequired PROVE n = top + 1
        OBVIOUS
      <3>1. Dropped = {} /\ From(e).number = top + 1 /\ From(e).packet = e
        BY DEF Dropped, From
      <3>2. Cardinality(Dropped) = 0
        BY <3>1, FS_EmptySet
      <3>3. n = From(e).number + (e - From(e).packet) - Cardinality(Dropped)
        BY <1>4, <3>1, NumberOfType DEF n
      <3> QED
        BY <1>5, <3>1, <3>2, <3>3
    <2>5. out = Number(n)
      BY <1>17, <1>19
    <2>6. sending' = UpdateSeq(Started(sending, Number(n)), Number(n))
      BY <1>3, <2>5 DEF r
    <2>7. /\ Accepts(Started(sending, Number(n)), Number(n))
          /\ sending'.started /\ sending'.maxSeq = Number(top') /\ Extended(sending') = top'
      BY <1>1, <1>4, <2>1, <2>4, <2>6, SendFollows DEF n
    <2>8. ok
      BY <2>5, <2>7 DEF ok, r
    <2>9. Sends'
      <3>1. last'.accepted
        BY <1>3, <2>8
      <3>2. Extended(sending)' = Extended(sending')
        BY DEF Extended
      <3> QED
        BY <2>7, <3>1, <3>2 DEF Sends
    <2>10. Holds'
      <3>1. buffer' = s.buffer /\ maxPacketTs' = (IF e > maxPacketTs THEN e ELSE maxPacketTs)
        BY <1>3, <2>8
      <3>2. \A q \in Used(buffer') : \/ q \in Used(buffer) /\ buffer'[q] = buffer[q]
                                     \/ buffer'[q] = [packet |-> e, number |-> n]
        BY <1>12, <3>1 DEF entry
      <3> QED
        BY <1>1, <1>4, <2>1, <2>4, <3>1, <3>2, SendHolds DEF n, D
    <2> QED
      BY <2>3, <2>9, <2>10
  <1> QED
    BY <1>7, <1>15, <1>16, <1>18, <1>19 DEF Inv

----------------------------------------------------------------------------
(* The theorems.                                                           *)

LEMMA InitInv == Init => Inv
  <1> SUFFICES ASSUME Init PROVE Inv
    OBVIOUS
  <1>1. SeqMod \in Nat \ {0} /\ 0 \in SeqNum /\ SeqMod + 1 \in 0 .. SeqMod + 1 /\ Number(0) = 0
    BY Constants, SmallMod DEF SeqNum, Number
  <1>2. NewStream \in Stream /\ NewManager \in Manager
    BY <1>1 DEF NewStream, Stream, NewManager, Manager, NoBadSeq
  <1>3. EmptyBuffer \in [SeqNum -> Entry] /\ Used(EmptyBuffer) = {}
    BY DEF EmptyBuffer, Used, Entry, Empty
  <1>4. Cardinality(Used(EmptyBuffer)) <= BufferSize
    BY <1>3, FS_EmptySet, SendingAssumption
  <1>5. 0 \in Packet
    BY SendingAssumption DEF Packet
  <1>6. NoPacket \in [packet : Packet \cup {None}, output : SeqNum, number : Int, accepted : BOOLEAN]
    BY <1>1 DEF NoPacket
  <1>7. TypeOK
    <2>1. start \in [packet : Packet, number : Int] /\ top \in Int /\ drops \subseteq Packet
      BY <1>5 DEF Init
    <2> QED
      BY <1>1, <1>2, <1>3, <1>6, <2>1 DEF Init, TypeOK
  <1>8. Receives
    BY DEF Init, Receives, NewStream
  <1>9. RenumberingExact
    BY <1>1 DEF Init, RenumberingExact, NoPacket, Number
  <1>10. SentIsStored
    BY <1>3, <1>4 DEF Init, SentIsStored
  <1>11. Sends
    <2>1. Extended(NewStream) = 0
      BY <1>1 DEF Extended, NewStream
    <2> QED
      BY <1>1, <2>1 DEF Init, Sends, NewStream, NoPacket
  <1>12. Manages /\ Holds
    BY <1>1, <1>3 DEF Init, Manages, Holds, NewManager
  <1> QED
    BY <1>7, <1>8, <1>9, <1>10, <1>11, <1>12 DEF Inv

LEMMA NextInv == Inv /\ [Next]_vars => Inv'
  <1> SUFFICES ASSUME Inv, [Next]_vars PROVE Inv'
    OBVIOUS
  <1>1. CASE Next
    <2>1. comparable /\ ~ jumped
      BY <1>1 DEF Next
    <2>2. CASE \E e \in Packet : Discard(e)
      BY <2>1, <2>2, DiscardInv
    <2>3. CASE \E e \in Packet : DropPacket(e)
      BY <2>1, <2>3, DropPacketInv
    <2>4. CASE \E e \in Packet : SendRtpPacket(e)
      BY <2>1, <2>4, SendRtpPacketInv
    <2>5. CASE PauseAndResume
      BY <2>1, <2>5, PauseAndResumeInv
    <2> QED
      BY <1>1, <2>2, <2>3, <2>4, <2>5 DEF Next
  <1>2. CASE UNCHANGED vars
    BY <1>2 DEF vars, code, Inv, TypeOK, Receives, RenumberingExact, SentIsStored, Sends, Manages,
       Holds, Kept, Below, Extended
  <1> QED
    BY <1>1, <1>2

\* The inductive invariant holds of every behaviour.
THEOREM Invariance == Spec => []Inv
  <1> QED
    BY InitInv, NextInv, PTL DEF Spec

\* SeqManager gives every packet that is forwarded the number that integers give
\* it, for every size of the sequence numbers, as long as it compares numbers
\* that can be compared (SeqManager.cpp:71-122).
THEOREM AlwaysRenumberedExactly == Spec => []RenumberingExact
  <1>1. Inv => RenumberingExact
    BY DEF Inv
  <1> QED
    BY <1>1, Invariance, PTL

\* What was sent and fits in the MTU is found in the buffer of RtpStreamSend, which
\* is never larger than its storage and whose oldest entry is one
\* (RtpStreamSend.cpp:265-394).
THEOREM SentAlwaysStored == Spec => []SentIsStored
  <1>1. Inv => SentIsStored
    BY DEF Inv
  <1> QED
    BY <1>1, Invariance, PTL

\* The two streams accept the same packets and count their cycles right
\* (RtpStream.cpp:109-236).
THEOREM StreamsAlwaysCountRight == Spec => []StreamsCountRight
  <1>1. Inv => StreamsCountRight
    <2> SUFFICES ASSUME Inv PROVE StreamsCountRight
      OBVIOUS
    <2>1. SendingFollows
      BY DEF Inv, Sends, SendingFollows
    <2>2. ExpectedIsRight
      <3> SUFFICES ASSUME received.started, ~ jumped
                   PROVE  LET first == CHOOSE f \in FirstPackets : Number(f) = received.baseSeq
                          IN  Number(first) # 0 => GetExpectedPackets(received) = highest - first + 1
        BY DEF ExpectedIsRight
      <3>1. PICK g \in FirstPackets :
              /\ received.baseSeq = Number(g)
              /\ Number(g) # 0 => Extended(received) - received.baseSeq = highest - g
        BY DEF Inv, Receives
      <3>2. \A f \in FirstPackets : Number(f) = received.baseSeq => f = g
        BY <3>1, SendingAssumption
      <3>3. (CHOOSE f \in FirstPackets : Number(f) = received.baseSeq) = g
        BY <3>1, <3>2
      <3> QED
        BY <3>1, <3>3 DEF GetExpectedPackets
    <2> QED
      BY <2>1, <2>2 DEF StreamsCountRight
  <1> QED
    BY <1>1, Invariance, PTL

\* A packet that is sent again is the last one with the number that the peer
\* asks for (RtpStreamSend.cpp:437-487), if packets that may still be sent again
\* are younger than a circle of numbers, and unless it stayed in the buffer until
\* the computation of its age overflows.
THEOREM RetransmissionsAlwaysRight == Spec => []RetransmissionIsRight
  <1>1. Inv => RetransmissionIsRight
    <2> SUFFICES ASSUME Inv, comparable, ~ jumped, NEW q \in SeqNum, Resent(buffer, q, maxPacketTs),
                        ~ (maxPacketTs - buffer[q].packet >= AgeMod)
                 PROVE  top - buffer[q].number < SeqMod
      BY DEF RetransmissionIsRight
    <2> DEFINE age == maxPacketTs - buffer[q].packet
    <2>1. q \in Used(buffer) /\ age % AgeMod <= MaxAge
      BY DEF Resent, Used
    <2>2. ~ syncRequired
      BY <2>1 DEF Inv, Holds, TypeOK
    <2>3. forwarded <= maxPacketTs /\ top - buffer[q].number <= forwarded - buffer[q].packet
      BY <2>1, <2>2 DEF Inv, Holds
    <2>4. buffer[q].packet \in Int /\ buffer[q].number \in Int
      <3>1. buffer[q] \in Entry
        BY DEF Inv, TypeOK
      <3>2. buffer[q].packet \in Packet \cup {None} /\ buffer[q].number \in Int
        BY <3>1 DEF Entry
      <3> QED
        BY <3>2, PacketOrNone
    <2>5. forwarded \in Int /\ maxPacketTs \in Int /\ top \in Int
      BY PacketFacts DEF Inv, TypeOK, None
    <2>6. /\ MaxAge \in Nat /\ SeqMod \in Nat /\ MaxAge < SeqMod
          /\ AgeMod \in Nat /\ MaxAge < AgeMod
      BY SendingAssumption, Constants
    <2>7. age \in Int /\ age < AgeMod
      BY <2>4, <2>5, <2>6
    <2>8. age <= MaxAge
      <3>1. CASE age < 0
        BY <2>6, <2>7, <3>1
      <3>2. CASE age >= 0
        <4> HIDE DEF age
        <4>1. age % AgeMod = age
          BY <2>6, <2>7, <3>2
        <4> QED
          BY <2>1, <4>1
      <3> QED
        BY <2>7, <3>1, <3>2
    <2> QED
      BY <2>3, <2>4, <2>5, <2>6, <2>8
  <1> QED
    BY <1>1, Invariance, PTL

----------------------------------------------------------------------------
(* The NACK generator: the inductive invariant.                            *)

\* Where x lies on the circle, counted from the oldest packet of interest.
OldestKept == Minus(lastSeq, MaxPacketAge)
Offset(x) == Minus(x, OldestKept)

\* The key frames lie between the oldest packet of interest and the newest one
\* that may have been recovered: within half the circle.
FrameWindow == \A k \in keyFrameList : Offset(k) <= MaxPacketAge + MaxAhead

EmptyBeforeStart == ~ started => Nacks = {} /\ keyFrameList = {}

NackInv == NackTypeOK /\ NackWindow /\ AskedOnce /\ FrameWindow /\ EmptyBeforeStart


----------------------------------------------------------------------------
(* The circle.                                                             *)

LEMMA NackConstants ==
    /\ SeqMod \in Nat \ {0} /\ Half \in Nat /\ 2 * Half <= SeqMod - 1
    /\ MaxPacketAge \in Nat /\ MaxAhead \in Nat /\ MaxPacketAge + MaxAhead <= Half
    /\ MaxPacketAge \in SeqNum
    /\ MaxNackPackets \in Nat /\ MaxNackPackets <= MaxPacketAge /\ MaxNackRetries \in Nat \ {0}
BY SeqModAssumption, NackAssumption DEF Half, MaxValue, SeqNum

LEMMA MinusIs ==
    ASSUME NEW a \in SeqNum, NEW b \in SeqNum
    PROVE  Minus(a, b) \in SeqNum /\ Minus(a, b) = IF a >= b THEN a - b ELSE a - b + SeqMod
  <1>1. a - b \in Int /\ SeqMod \in Nat \ {0} /\ a \in 0 .. SeqMod - 1 /\ b \in 0 .. SeqMod - 1
    BY SeqModNat DEF SeqNum
  <1> DEFINE r == (a - b) % SeqMod
  <1>2. /\ a - b \in 0 .. SeqMod - 1 => r = a - b
        /\ a - b \in - SeqMod .. -1 => r = a - b + SeqMod
    BY <1>1, SmallMod
  <1>3. Minus(a, b) = r
    BY DEF Minus
  <1> HIDE DEF r
  <1> QED
    BY <1>1, <1>2, <1>3 DEF SeqNum

\* Numbers that lie within half the circle from b are compared by their
\* distances from it.
LEMMA CircleOrder ==
    ASSUME NEW b \in SeqNum, NEW x \in SeqNum, NEW y \in SeqNum,
           Minus(x, b) <= Half, Minus(y, b) <= Half
    PROVE  /\ IsSeqLowerThan(x, y) <=> Minus(x, b) < Minus(y, b)
           /\ Minus(x, b) = Minus(y, b) <=> x = y
  <1>1. /\ Minus(x, b) = IF x >= b THEN x - b ELSE x - b + SeqMod
        /\ Minus(y, b) = IF y >= b THEN y - b ELSE y - b + SeqMod
    BY MinusIs
  <1>2. x \in 0 .. SeqMod - 1 /\ y \in 0 .. SeqMod - 1 /\ b \in 0 .. SeqMod - 1
    BY DEF SeqNum
  <1> QED
    BY <1>1, <1>2, NackConstants DEF IsSeqLowerThan

\* Hence they are a chain, and a set of them has a first element.
LEMMA CircleChain ==
    ASSUME NEW b \in SeqNum, NEW S \in SUBSET SeqNum, \A x \in S : Minus(x, b) <= Half
    PROVE  IsChain(S)
  <1> SUFFICES ASSUME NEW x \in S, NEW y \in S, NEW z \in S, IsSeqLowerThan(x, y), IsSeqLowerThan(y, z)
               PROVE  IsSeqLowerThan(x, z)
    BY DEF IsChain
  <1>1. Minus(x, b) < Minus(y, b) /\ Minus(y, b) < Minus(z, b)
    BY CircleOrder
  <1>2. Minus(x, b) \in Int /\ Minus(y, b) \in Int /\ Minus(z, b) \in Int
    BY MinusIs, SeqModNat DEF SeqNum
  <1>3. Minus(x, b) < Minus(z, b)
    BY <1>1, <1>2
  <1> QED
    BY <1>3, CircleOrder

LEMMA CircleFirst ==
    ASSUME NEW b \in SeqNum, NEW S \in SUBSET SeqNum, S # {}, \A x \in S : Minus(x, b) <= Half
    PROVE  \E x \in S : \A y \in S \ {x} : IsSeqLowerThan(x, y)
  <1> DEFINE D == {Minus(x, b) : x \in S}
  <1>1. \A x \in S : Minus(x, b) \in Nat
    BY MinusIs, SeqModNat DEF SeqNum
  <1>2. D \subseteq Nat /\ D # {}
    BY <1>1
  <1>3. PICK m \in D : \A n \in D : m <= n
    <2> HIDE DEF D
    <2> QED
      BY <1>2, LeastExists
  <1>4. PICK x \in S : m = Minus(x, b)
    BY <1>3
  <1>5. \A y \in S \ {x} : IsSeqLowerThan(x, y)
    <2> TAKE y \in S \ {x}
    <2>1. Minus(x, b) <= Minus(y, b)
      BY <1>3, <1>4
    <2>2. Minus(x, b) # Minus(y, b)
      BY CircleOrder
    <2>3. Minus(x, b) < Minus(y, b)
      BY <1>1, <2>1, <2>2
    <2> QED
      BY <2>3, CircleOrder
  <1> QED
    BY <1>5

LEMMA OffsetFacts ==
    ASSUME NackTypeOK
    PROVE  /\ OldestKept \in SeqNum /\ Minus(OldestKept, OldestKept) = 0 /\ lastSeq \in SeqNum
           /\ \A x \in SeqNum : /\ Offset(x) \in Nat
                                /\ Minus(lastSeq, x) \in 1 .. MaxPacketAge <=> Offset(x) < MaxPacketAge
  <1>1. lastSeq \in SeqNum
    BY DEF NackTypeOK
  <1>2. OldestKept \in SeqNum /\ OldestKept = IF lastSeq >= MaxPacketAge THEN lastSeq - MaxPacketAge
                                  ELSE lastSeq - MaxPacketAge + SeqMod
    BY <1>1, MinusIs, NackConstants DEF OldestKept
  <1>3. Minus(OldestKept, OldestKept) = 0
    <2>1. Minus(OldestKept, OldestKept) = IF OldestKept >= OldestKept THEN OldestKept - OldestKept ELSE OldestKept - OldestKept + SeqMod
      BY <1>2, MinusIs
    <2>2. OldestKept \in Int
      BY <1>2 DEF SeqNum
    <2> QED
      BY <2>1, <2>2
  <1>4. ASSUME NEW x \in SeqNum
        PROVE  /\ Offset(x) \in Nat
               /\ Minus(lastSeq, x) \in 1 .. MaxPacketAge <=> Offset(x) < MaxPacketAge
    <2>1. /\ Offset(x) = IF x >= OldestKept THEN x - OldestKept ELSE x - OldestKept + SeqMod
          /\ Minus(lastSeq, x) = IF lastSeq >= x THEN lastSeq - x ELSE lastSeq - x + SeqMod
      BY <1>1, <1>2, MinusIs DEF Offset
    <2>2. x \in 0 .. SeqMod - 1 /\ OldestKept \in 0 .. SeqMod - 1 /\ lastSeq \in 0 .. SeqMod - 1
      BY <1>1, <1>2 DEF SeqNum
    <2> QED
      BY <1>2, <2>1, <2>2, NackConstants
  <1> QED
    BY <1>1, <1>2, <1>3, <1>4

\* A packet that is d numbers ahead of lastSeq, and what its arrival does to the
\* distances.
LEMMA Advance ==
    ASSUME NackTypeOK, NEW seq \in SeqNum, NEW d, d = Minus(seq, lastSeq), d \in 1 .. MaxAhead
    PROVE  /\ Minus(seq, MaxPacketAge) \in SeqNum
           /\ Offset(Minus(seq, MaxPacketAge)) = d /\ Offset(seq) = MaxPacketAge + d
           /\ \A x \in SeqNum :
                /\ Offset(x) >= d => Minus(x, Minus(seq, MaxPacketAge)) = Offset(x) - d
                /\ Minus(x, lastSeq) \in 1 .. d - 1
                   <=> Offset(x) \in MaxPacketAge + 1 .. MaxPacketAge + d - 1
                /\ Minus(x, lastSeq) \in 1 .. d - 1 => Offset(x) = MaxPacketAge + Minus(x, lastSeq)
  <1> DEFINE B == OldestKept
             C == Minus(seq, MaxPacketAge)
  <1>1. lastSeq \in SeqNum /\ B \in SeqNum
    BY OffsetFacts
  <1>2. B = IF lastSeq >= MaxPacketAge THEN lastSeq - MaxPacketAge ELSE lastSeq - MaxPacketAge + SeqMod
    BY <1>1, MinusIs, NackConstants DEF OldestKept
  <1>3. C \in SeqNum /\ C = IF seq >= MaxPacketAge THEN seq - MaxPacketAge ELSE seq - MaxPacketAge + SeqMod
    BY MinusIs, NackConstants
  <1>4. d = IF seq >= lastSeq THEN seq - lastSeq ELSE seq - lastSeq + SeqMod
    BY <1>1, MinusIs
  <1>5. /\ Offset(C) = IF C >= B THEN C - B ELSE C - B + SeqMod
        /\ Offset(seq) = IF seq >= B THEN seq - B ELSE seq - B + SeqMod
    BY <1>1, <1>3, MinusIs DEF Offset
  <1> HIDE DEF B, C
  <1>6. lastSeq \in 0 .. SeqMod - 1 /\ B \in 0 .. SeqMod - 1 /\ C \in 0 .. SeqMod - 1 /\ seq \in 0 .. SeqMod - 1
    BY <1>1, <1>3 DEF SeqNum
  <1>7. Offset(C) = d /\ Offset(seq) = MaxPacketAge + d
    BY <1>2, <1>3, <1>4, <1>5, <1>6, NackConstants
  <1>8. ASSUME NEW x \in SeqNum
        PROVE  /\ Offset(x) >= d => Minus(x, C) = Offset(x) - d
               /\ Minus(x, lastSeq) \in 1 .. d - 1
                   <=> Offset(x) \in MaxPacketAge + 1 .. MaxPacketAge + d - 1
               /\ Minus(x, lastSeq) \in 1 .. d - 1 => Offset(x) = MaxPacketAge + Minus(x, lastSeq)
    <2>1. /\ Offset(x) = IF x >= B THEN x - B ELSE x - B + SeqMod
          /\ Minus(x, C) = IF x >= C THEN x - C ELSE x - C + SeqMod
          /\ Minus(x, lastSeq) = IF x >= lastSeq THEN x - lastSeq ELSE x - lastSeq + SeqMod
      BY <1>1, <1>3, MinusIs DEF Offset, B
    <2>2. x \in 0 .. SeqMod - 1
      BY DEF SeqNum
    <2>3. Offset(x) >= d => Minus(x, C) = Offset(x) - d
      BY <1>2, <1>3, <1>4, <1>6, <2>1, <2>2, NackConstants
    <2>4. Minus(x, lastSeq) \in 1 .. d - 1 => Offset(x) = MaxPacketAge + Minus(x, lastSeq)
      BY <1>2, <1>4, <1>6, <2>1, <2>2, NackConstants
    <2>5. Offset(x) \in MaxPacketAge + 1 .. MaxPacketAge + d - 1 => Minus(x, lastSeq) \in 1 .. d - 1
      BY <1>2, <1>4, <1>6, <2>1, <2>2, NackConstants
    <2> QED
      BY <1>6, <2>3, <2>4, <2>5, NackConstants
  <1> QED
    BY <1>3, <1>7, <1>8 DEF C

LEMMA HigherIsLower ==
    ASSUME NEW a \in SeqNum, NEW b \in SeqNum
    PROVE  IsSeqHigherThan(a, b) <=> IsSeqLowerThan(b, a)
BY DEF IsSeqHigherThan, IsSeqLowerThan

LEMMA GapSize ==
    ASSUME NackTypeOK, NEW seq \in SeqNum, Minus(seq, lastSeq) \in 1 .. MaxAhead
    PROVE  IsFiniteSet(Gap(seq)) /\ Cardinality(Gap(seq)) = Minus(seq, lastSeq) - 1
  <1> DEFINE n == Minus(seq, lastSeq) - 1
             f == [x \in Gap(seq) |-> Minus(x, lastSeq)]
             g(j) == IF lastSeq + j < SeqMod THEN lastSeq + j ELSE lastSeq + j - SeqMod
  <1>1. lastSeq \in SeqNum /\ lastSeq \in 0 .. SeqMod - 1 /\ n \in 0 .. Half
    BY NackConstants DEF NackTypeOK, SeqNum
  <1>2. Gap(seq) = {x \in SeqNum : Minus(x, lastSeq) \in 1 .. n}
    BY DEF Gap
  <1> HIDE DEF n
  <1>3. \A x \in SeqNum : Minus(x, lastSeq) = IF x >= lastSeq THEN x - lastSeq ELSE x - lastSeq + SeqMod
    BY <1>1, MinusIs
  <1>4. \A j \in 1 .. n : g(j) \in Gap(seq) /\ Minus(g(j), lastSeq) = j
    <2> TAKE j \in 1 .. n
    <2>1. g(j) \in 0 .. SeqMod - 1 /\ g(j) \in SeqNum
      BY <1>1, NackConstants DEF SeqNum
    <2>2. Minus(g(j), lastSeq) = IF g(j) >= lastSeq THEN g(j) - lastSeq ELSE g(j) - lastSeq + SeqMod
      BY <1>3, <2>1
    <2>3. Minus(g(j), lastSeq) = j
      BY <1>1, <2>2, NackConstants
    <2> QED
      BY <1>2, <2>1, <2>3
  <1>5. \A x, y \in Gap(seq) : Minus(x, lastSeq) = Minus(y, lastSeq) => x = y
    <2> SUFFICES ASSUME NEW x \in Gap(seq), NEW y \in Gap(seq), Minus(x, lastSeq) = Minus(y, lastSeq)
                 PROVE  x = y
      OBVIOUS
    <2>1. x \in 0 .. SeqMod - 1 /\ y \in 0 .. SeqMod - 1 /\ x \in SeqNum /\ y \in SeqNum
      BY <1>2 DEF SeqNum
    <2> QED
      BY <1>1, <1>3, <2>1, NackConstants
  <1>6. f \in [Gap(seq) -> 1 .. n] /\ DOMAIN f = Gap(seq)
    BY <1>2
  <1>7. f \in Bijection(Gap(seq), 1 .. n)
    <2>1. \A x, y \in Gap(seq) : f[x] = f[y] => x = y
      BY <1>5
    <2>2. \A j \in 1 .. n : \E x \in Gap(seq) : f[x] = j
      BY <1>4
    <2> HIDE DEF f
    <2> QED
      BY <1>6, <2>1, <2>2 DEF Bijection, Injection, Surjection, IsInjective
  <1>8. IsFiniteSet(SeqNum) /\ Gap(seq) \in SUBSET SeqNum
    BY <1>2, SeqModNat, FS_Interval DEF SeqNum
  <1>9. IsFiniteSet(Gap(seq))
    BY <1>8, FS_Subset
  <1>10. Cardinality(1 .. n) = Cardinality(Gap(seq))
    BY <1>7, <1>9, FS_Bijection DEF ExistsBijection
  <1>11. Cardinality(1 .. n) = n
    BY <1>1, FS_Interval
  <1> QED
    BY <1>9, <1>10, <1>11 DEF n

----------------------------------------------------------------------------
(* AddPacketsToNackList.                                                   *)

NewEntry == [age |-> Unsent, retries |-> 0]

\* The list after a packet that is d ahead: entries of before and new ones, none
\* older than MaxPacketAge, and why others are gone.
Extends(seq, d, frames, result) ==
    /\ DOMAIN result.list \subseteq SeqNum /\ Cardinality(DOMAIN result.list) <= MaxNackPackets
    /\ \A e \in DOMAIN result.list :
         /\ Offset(e) \in d .. MaxPacketAge + d - 1
         /\ \/ e \in Nacks /\ result.list[e] = nackList[e]
            \/ e \notin Nacks /\ e \in Gap(seq) /\ result.list[e] = NewEntry
    /\ result.frames \subseteq frames /\ result.required \in BOOLEAN
    /\ \A e \in Nacks \ DOMAIN result.list :
         Offset(e) < d \/ result.required \/ \E k \in result.frames : IsSeqHigherThan(k, e)

LEMMA WithGapExtends ==
    ASSUME NackInv, NEW seq \in SeqNum, NEW d, d = Minus(seq, lastSeq), d \in 1 .. MaxAhead,
           NEW list, DOMAIN list \subseteq Nacks, \A e \in DOMAIN list : list[e] = nackList[e],
           \A e \in DOMAIN list : Offset(e) >= d,
           Cardinality(DOMAIN list) + Cardinality(Gap(seq)) <= MaxNackPackets,
           NEW S, NEW w, w = WithGap(list, Gap(seq), S)
    PROVE  /\ DOMAIN w \subseteq SeqNum /\ Cardinality(DOMAIN w) <= MaxNackPackets
           /\ DOMAIN list \subseteq DOMAIN w
           /\ \A e \in DOMAIN w :
                /\ Offset(e) \in d .. MaxPacketAge + d - 1
                /\ \/ e \in Nacks /\ w[e] = nackList[e]
                   \/ e \notin Nacks /\ e \in Gap(seq) /\ w[e] = NewEntry
  <1>1. /\ DOMAIN w = DOMAIN list \cup (Gap(seq) \ S)
        /\ \A e \in DOMAIN w : w[e] = IF e \in DOMAIN list THEN list[e] ELSE NewEntry
    BY DEF WithGap, NewEntry
  <1>2. Nacks \subseteq SeqNum /\ Gap(seq) \subseteq SeqNum /\ NackTypeOK
    BY DEF NackInv, NackTypeOK, Gap
  <1>3. IsFiniteSet(SeqNum)
    BY SeqModNat, FS_Interval DEF SeqNum
  <1>4. IsFiniteSet(DOMAIN list) /\ IsFiniteSet(Gap(seq)) /\ IsFiniteSet(Gap(seq) \ S)
    <2>1. DOMAIN list \in SUBSET SeqNum /\ Gap(seq) \in SUBSET SeqNum /\ Gap(seq) \ S \in SUBSET SeqNum
      BY <1>2
    <2> QED
      BY <1>3, <2>1, FS_Subset
  <1>5. Cardinality(Gap(seq) \ S) <= Cardinality(Gap(seq))
    <2>1. Gap(seq) \ S \in SUBSET Gap(seq)
      OBVIOUS
    <2> QED
      BY <1>4, <2>1, FS_Subset
  <1>6. Cardinality(DOMAIN w)
          = Cardinality(DOMAIN list) + Cardinality(Gap(seq) \ S) - Cardinality(DOMAIN list \cap (Gap(seq) \ S))
    BY <1>1, <1>4, FS_Union
  <1>7. /\ Cardinality(DOMAIN list) \in Nat /\ Cardinality(Gap(seq)) \in Nat /\ Cardinality(Gap(seq) \ S) \in Nat
        /\ Cardinality(DOMAIN list \cap (Gap(seq) \ S)) \in Nat
    BY <1>4, FS_CardinalityType, FS_Intersection
  <1>8. Cardinality(DOMAIN w) <= MaxNackPackets
    BY <1>5, <1>6, <1>7, NackConstants
  <1>9. \A e \in Nacks : Offset(e) \in Nat /\ Offset(e) < MaxPacketAge
    BY <1>2, OffsetFacts DEF NackInv, NackWindow
  <1>10. Cardinality(Gap(seq)) = d - 1
    BY <1>2, GapSize
  <1>11. d - 1 <= MaxPacketAge /\ d \in Nat
    BY <1>7, <1>10, NackConstants
  <1>12. \A x \in Gap(seq) : Offset(x) \in MaxPacketAge + 1 .. MaxPacketAge + d - 1
    BY <1>2, Advance DEF Gap
  <1>13. ASSUME NEW e \in DOMAIN w
         PROVE  /\ Offset(e) \in d .. MaxPacketAge + d - 1
                /\ \/ e \in Nacks /\ w[e] = nackList[e]
                   \/ e \notin Nacks /\ e \in Gap(seq) /\ w[e] = NewEntry
    <2>1. CASE e \in DOMAIN list
      <3>1. e \in Nacks /\ w[e] = nackList[e] /\ Offset(e) >= d
        BY <1>1, <2>1
      <3> QED
        BY <1>9, <1>11, <3>1, NackConstants
    <2>2. CASE e \notin DOMAIN list
      <3>1. e \in Gap(seq) /\ w[e] = NewEntry
        BY <1>1, <2>2
      <3>2. Offset(e) \in MaxPacketAge + 1 .. MaxPacketAge + d - 1
        BY <1>12, <3>1
      <3>3. e \notin Nacks
        BY <1>9, <3>2, NackConstants
      <3> QED
        BY <1>11, <3>1, <3>2, <3>3, NackConstants
    <2> QED
      BY <2>1, <2>2
  <1> QED
    BY <1>1, <1>2, <1>8, <1>13

LEMMA NotBelowResult ==
    ASSUME NEW list, NEW bound
    PROVE  /\ DOMAIN NotBelow(list, bound) = {e \in DOMAIN list : ~ IsSeqLowerThan(e, bound)}
           /\ \A e \in DOMAIN NotBelow(list, bound) : NotBelow(list, bound)[e] = list[e]
BY DEF NotBelow, Restricted

LEMMA AddPacketsToNackListExtends ==
    ASSUME NackInv, NEW seq \in SeqNum, NEW d, d = Minus(seq, lastSeq), d \in 1 .. MaxAhead,
           NEW frames \in SUBSET SeqNum, \A k \in frames : Offset(k) <= MaxPacketAge + MaxAhead,
           NEW result \in AddPacketsToNackList(seq, frames)
    PROVE  Extends(seq, d, frames, result)
  <1> DEFINE young == NotBelow(nackList, Minus(seq, MaxPacketAge))
             gap == Gap(seq)
             freeing == FreeingKeyFrames(young, Cardinality(gap), frames)
             k == CHOOSE x \in freeing : \A y \in freeing \ {x} : IsSeqLowerThan(x, y)
             freed == NotBelow(young, k)
             left == {x \in frames : ~ IsSeqLowerThan(x, k)}
  <1>1. NackTypeOK /\ Nacks \subseteq SeqNum /\ OldestKept \in SeqNum
    BY OffsetFacts DEF NackInv, NackTypeOK
  <1>2. \A e \in Nacks : Offset(e) \in Nat /\ Offset(e) < MaxPacketAge
    BY <1>1, OffsetFacts DEF NackInv, NackWindow
  <1>3. /\ DOMAIN young = {e \in Nacks : ~ IsSeqLowerThan(e, Minus(seq, MaxPacketAge))}
        /\ \A e \in DOMAIN young : young[e] = nackList[e]
    BY NotBelowResult DEF Nacks
  <1>4. \A e \in Nacks : e \in DOMAIN young <=> Offset(e) >= d
    <2> TAKE e \in Nacks
    <2>1. Minus(seq, MaxPacketAge) \in SeqNum /\ Offset(Minus(seq, MaxPacketAge)) = d
      BY <1>1, Advance
    <2>2. Offset(e) <= Half /\ d <= Half /\ d \in Nat
      BY <1>2, NackConstants
    <2>3. IsSeqLowerThan(e, Minus(seq, MaxPacketAge)) <=> Offset(e) < d
      BY <1>1, <2>1, <2>2, CircleOrder DEF Offset
    <2> QED
      BY <1>2, <1>3, <2>2, <2>3
  <1>5. \/ Cardinality(DOMAIN young) + Cardinality(gap) <= MaxNackPackets
           /\ \E S : result = [list |-> WithGap(young, gap, S), frames |-> frames, required |-> FALSE]
        \/ freeing # {}
           /\ \E S : result = [list |-> WithGap(freed, gap, S), frames |-> left, required |-> FALSE]
        \/ result = Overflowed
    <2>1. CASE Cardinality(DOMAIN young) + Cardinality(gap) <= MaxNackPackets
      BY <2>1 DEF AddPacketsToNackList
    <2>2. CASE ~ (Cardinality(DOMAIN young) + Cardinality(gap) <= MaxNackPackets) /\ freeing # {}
      BY <2>2 DEF AddPacketsToNackList
    <2>3. CASE ~ (Cardinality(DOMAIN young) + Cardinality(gap) <= MaxNackPackets) /\ freeing = {}
      BY <2>3 DEF AddPacketsToNackList
    <2> QED
      BY <2>1, <2>2, <2>3
  <1> HIDE DEF young, freeing, k, freed, left
  <1>6. ASSUME Cardinality(DOMAIN young) + Cardinality(gap) <= MaxNackPackets,
               NEW S, result = [list |-> WithGap(young, gap, S), frames |-> frames, required |-> FALSE]
        PROVE  Extends(seq, d, frames, result)
    <2>1. result.list = WithGap(young, gap, S) /\ result.frames = frames /\ result.required = FALSE
      BY <1>6
    <2>2. /\ DOMAIN young \subseteq Nacks /\ \A e \in DOMAIN young : young[e] = nackList[e]
          /\ \A e \in DOMAIN young : Offset(e) >= d
      BY <1>3, <1>4
    <2> DEFINE w == result.list
    <2>3. /\ DOMAIN w \subseteq SeqNum /\ Cardinality(DOMAIN w) <= MaxNackPackets
          /\ DOMAIN young \subseteq DOMAIN w
          /\ \A e \in DOMAIN w :
               /\ Offset(e) \in d .. MaxPacketAge + d - 1
               /\ \/ e \in Nacks /\ w[e] = nackList[e]
                  \/ e \notin Nacks /\ e \in Gap(seq) /\ w[e] = NewEntry
      BY <1>6, <2>1, <2>2, WithGapExtends
    <2>4. \A e \in Nacks \ DOMAIN w : Offset(e) < d
      BY <1>2, <1>4, <2>3
    <2> QED
      BY <2>1, <2>3, <2>4 DEF Extends
  <1>7. ASSUME freeing # {},
               NEW S, result = [list |-> WithGap(freed, gap, S), frames |-> left, required |-> FALSE]
        PROVE  Extends(seq, d, frames, result)
    <2>1. result.list = WithGap(freed, gap, S) /\ result.frames = left /\ result.required = FALSE
      BY <1>7
    <2>2. freeing \in SUBSET frames /\ freeing \in SUBSET SeqNum
      BY DEF freeing, FreeingKeyFrames
    <2>3. \E x \in freeing : \A y \in freeing \ {x} : IsSeqLowerThan(x, y)
      <3>1. \A x \in freeing : Minus(x, OldestKept) <= Half
        BY <1>1, <2>2, OffsetFacts, NackConstants DEF Offset
      <3> QED
        BY <1>1, <1>7, <2>2, <3>1, CircleFirst
    <2>4. k \in freeing
      BY <2>3 DEF k
    <2>5. k \in frames /\ k \in SeqNum /\ Cardinality(DOMAIN freed) + Cardinality(gap) <= MaxNackPackets
      BY <2>2, <2>4 DEF freeing, FreeingKeyFrames, freed
    <2>6. /\ DOMAIN freed = {e \in DOMAIN young : ~ IsSeqLowerThan(e, k)}
          /\ \A e \in DOMAIN freed : freed[e] = young[e]
      BY NotBelowResult DEF freed
    <2>7. /\ DOMAIN freed \subseteq Nacks /\ \A e \in DOMAIN freed : freed[e] = nackList[e]
          /\ \A e \in DOMAIN freed : Offset(e) >= d
      BY <1>3, <1>4, <2>6
    <2> DEFINE w == result.list
    <2>8. /\ DOMAIN w \subseteq SeqNum /\ Cardinality(DOMAIN w) <= MaxNackPackets
          /\ DOMAIN freed \subseteq DOMAIN w
          /\ \A e \in DOMAIN w :
               /\ Offset(e) \in d .. MaxPacketAge + d - 1
               /\ \/ e \in Nacks /\ w[e] = nackList[e]
                  \/ e \notin Nacks /\ e \in Gap(seq) /\ w[e] = NewEntry
      BY <2>1, <2>5, <2>7, WithGapExtends
    <2>9. k \in left /\ left \subseteq frames
      <3>1. ~ IsSeqLowerThan(k, k)
        BY <2>5, SeqModNat DEF IsSeqLowerThan, SeqNum
      <3> QED
        BY <2>5, <3>1 DEF left
    <2>10. \A e \in Nacks \ DOMAIN w : Offset(e) < d \/ IsSeqHigherThan(k, e)
      <3> TAKE e \in Nacks \ DOMAIN w
      <3>1. e \notin DOMAIN young \/ IsSeqLowerThan(e, k)
        BY <2>6, <2>8
      <3>2. e \notin DOMAIN young => Offset(e) < d
        BY <1>2, <1>4
      <3>3. IsSeqLowerThan(e, k) => IsSeqHigherThan(k, e)
        BY <1>1, <2>5, HigherIsLower
      <3> QED
        BY <3>1, <3>2, <3>3
    <2> QED
      BY <2>1, <2>8, <2>9, <2>10 DEF Extends
  <1>8. CASE result = Overflowed
    <2>1. /\ result.list = EmptyList /\ result.frames = {} /\ result.required = TRUE /\ DOMAIN EmptyList = {}
      BY <1>8 DEF Overflowed, EmptyList
    <2>2. Cardinality(DOMAIN result.list) = 0
      BY <2>1, FS_EmptySet
    <2>3. DOMAIN result.list \subseteq SeqNum /\ Cardinality(DOMAIN result.list) <= MaxNackPackets
      BY <2>1, <2>2, NackConstants
    <2>4. DOMAIN result.list = {}
      BY <2>1
    <2>5. result.frames \subseteq frames /\ result.required \in BOOLEAN /\ result.required
      BY <2>1
    <2> QED
      BY <2>3, <2>4, <2>5, Zenon DEF Extends
  <1> QED
    BY <1>5, <1>6, <1>7, <1>8

\* The key frames that are left when a packet arrives that is d ahead.
LEMMA KeyFramesWithResult ==
    ASSUME NackInv, NEW seq \in SeqNum, NEW d, d = Minus(seq, lastSeq), d \in 1 .. MaxAhead,
           NEW isKeyFrame \in BOOLEAN, NEW frames \in KeyFramesWith(seq, isKeyFrame)
    PROVE  /\ frames \in SUBSET SeqNum
           /\ \A k \in frames : Offset(k) \in d .. MaxPacketAge + MaxAhead
  <1> DEFINE S == IF isKeyFrame THEN keyFrameList \cup {seq} ELSE keyFrameList
             bound == Minus(seq, MaxPacketAge)
  <1>1. NackTypeOK /\ OldestKept \in SeqNum /\ keyFrameList \subseteq SeqNum
    BY OffsetFacts DEF NackInv, NackTypeOK
  <1>2. bound \in SeqNum /\ Offset(bound) = d /\ Offset(seq) = MaxPacketAge + d
    BY <1>1, Advance
  <1>3. \A k \in S : k \in SeqNum /\ Offset(k) \in Nat /\ Offset(k) <= MaxPacketAge + MaxAhead
    <2>1. \A k \in keyFrameList : k \in SeqNum /\ Offset(k) \in Nat /\ Offset(k) <= MaxPacketAge + MaxAhead
      BY <1>1, OffsetFacts DEF NackInv, FrameWindow
    <2>2. Offset(seq) \in Nat /\ Offset(seq) <= MaxPacketAge + MaxAhead
      BY <1>2, NackConstants
    <2> QED
      BY <2>1, <2>2
  <1>4. \A k \in S \cup {bound} : k \in SeqNum /\ Minus(k, OldestKept) <= Half
    BY <1>2, <1>3, NackConstants DEF Offset
  <1>5. frames \in EraseBelow(S, bound)
    BY DEF KeyFramesWith
  <1> HIDE DEF S, bound
  <1>6. IsChain(S \cup {bound})
    BY <1>1, <1>4, CircleChain
  <1>7. frames = {x \in S : ~ IsSeqLowerThan(x, bound)}
    BY <1>5, <1>6 DEF EraseBelow
  <1>8. \A x \in S : ~ IsSeqLowerThan(x, bound) => Offset(x) >= d
    <2> TAKE x \in S
    <2>1. IsSeqLowerThan(x, bound) <=> Offset(x) < Offset(bound)
      BY <1>1, <1>2, <1>4, CircleOrder DEF Offset
    <2> QED
      BY <1>2, <1>3, <2>1
  <1> QED
    BY <1>3, <1>7, <1>8, NackConstants


----------------------------------------------------------------------------
(* The actions preserve the invariant.                                     *)

LEMMA MaxRttBounds == MaxRtt \in Nat /\ MaxRtt \in Rtts /\ \A x \in Rtts : x <= MaxRtt
BY NackAssumption DEF MaxRtt

\* The way from x to y, when both are measured from b and x comes first.
LEMMA CircleDistance ==
    ASSUME NEW b \in SeqNum, NEW x \in SeqNum, NEW y \in SeqNum, Minus(x, b) <= Minus(y, b)
    PROVE  Minus(y, x) = Minus(y, b) - Minus(x, b)
  <1>1. /\ Minus(x, b) = IF x >= b THEN x - b ELSE x - b + SeqMod
        /\ Minus(y, b) = IF y >= b THEN y - b ELSE y - b + SeqMod
        /\ Minus(y, x) = IF y >= x THEN y - x ELSE y - x + SeqMod
    BY MinusIs
  <1>2. x \in 0 .. SeqMod - 1 /\ y \in 0 .. SeqMod - 1 /\ b \in 0 .. SeqMod - 1
    BY DEF SeqNum
  <1> QED
    BY <1>1, <1>2, SeqModNat

LEMMA NewerDistance ==
    ASSUME NackInv, NEW seq \in SeqNum, NEW isKeyFrame \in BOOLEAN, Newer(seq, isKeyFrame)
    PROVE  Minus(seq, lastSeq) \in 1 .. MaxAhead
  <1>1. lastSeq \in SeqNum /\ seq # lastSeq /\ Minus(seq, lastSeq) <= MaxAhead
    BY DEF NackInv, NackTypeOK, Newer
  <1>2. Minus(seq, lastSeq) \in SeqNum
        /\ Minus(seq, lastSeq) = IF seq >= lastSeq THEN seq - lastSeq ELSE seq - lastSeq + SeqMod
    BY <1>1, MinusIs
  <1>3. seq \in 0 .. SeqMod - 1 /\ lastSeq \in 0 .. SeqMod - 1
    BY <1>1 DEF SeqNum
  <1> QED
    BY <1>1, <1>2, <1>3, NackConstants DEF SeqNum

\* What ReceiveNewer does to the list, for the invariant and for the reasons of
\* giving up.
LEMMA ReceiveNewerResult ==
    ASSUME NackInv, NEW seq \in SeqNum, NEW isKeyFrame \in BOOLEAN, ReceiveNewer(seq, isKeyFrame),
           NEW d, d = Minus(seq, lastSeq)
    PROVE  /\ DOMAIN nackList' \subseteq SeqNum /\ Cardinality(DOMAIN nackList') <= MaxNackPackets
           /\ \A e \in DOMAIN nackList' :
                /\ Offset(e) \in d .. MaxPacketAge + d - 1
                /\ \/ e \in Nacks /\ nackList'[e] = nackList[e]
                   \/ 1 < MaxNackRetries /\ nackList'[e] = [age |-> 0, retries |-> 1]
           /\ \A e \in Nacks \ DOMAIN nackList' :
                Offset(e) < d \/ keyFrameRequired' \/ \E k \in keyFrameList' : IsSeqHigherThan(k, e)
           /\ keyFrameList' \subseteq SeqNum
           /\ \A k \in keyFrameList' : Offset(k) \in d .. MaxPacketAge + MaxAhead
           /\ nacked' \subseteq SeqNum /\ keyFrameRequired' \in BOOLEAN
           /\ timer' = TimerAfterPacket(nackList')
  <1>1. NackTypeOK /\ OldestKept \in SeqNum /\ d \in 1 .. MaxAhead
    BY NewerDistance, OffsetFacts DEF NackInv, ReceiveNewer
  <1>2. PICK frames \in KeyFramesWith(seq, isKeyFrame) :
        \E result \in AddPacketsToNackList(seq, frames) :
          /\ keyFrameList' = result.frames
          /\ nackList' = AfterBatch(result.list, DueBySeq(result.list, seq))
          /\ nacked' = DueBySeq(result.list, seq)
          /\ keyFrameRequired' = result.required
          /\ timer' = TimerAfterPacket(AfterBatch(result.list, DueBySeq(result.list, seq)))
    BY DEF ReceiveNewer
  <1>3. PICK result \in AddPacketsToNackList(seq, frames) :
          /\ keyFrameList' = result.frames
          /\ nackList' = AfterBatch(result.list, DueBySeq(result.list, seq))
          /\ nacked' = DueBySeq(result.list, seq)
          /\ keyFrameRequired' = result.required
          /\ timer' = TimerAfterPacket(AfterBatch(result.list, DueBySeq(result.list, seq)))
    BY <1>2
  <1>4. frames \in SUBSET SeqNum /\ \A k \in frames : Offset(k) \in d .. MaxPacketAge + MaxAhead
    BY <1>1, KeyFramesWithResult
  <1>5. Extends(seq, d, frames, result)
    <2>1. \A k \in frames : Offset(k) <= MaxPacketAge + MaxAhead
      BY <1>4
    <2> QED
      BY <1>1, <1>4, <2>1, AddPacketsToNackListExtends
  <1> DEFINE L == result.list
             due == DueBySeq(L, seq)
  <1>6. /\ DOMAIN L \subseteq SeqNum /\ Cardinality(DOMAIN L) <= MaxNackPackets
        /\ \A e \in DOMAIN L :
             /\ Offset(e) \in d .. MaxPacketAge + d - 1
             /\ \/ e \in Nacks /\ L[e] = nackList[e]
                \/ e \notin Nacks /\ L[e] = NewEntry
        /\ result.frames \subseteq frames /\ result.required \in BOOLEAN
        /\ \A e \in Nacks \ DOMAIN L :
             Offset(e) < d \/ result.required \/ \E k \in result.frames : IsSeqHigherThan(k, e)
    BY <1>5, Zenon DEF Extends
  <1>7. Offset(seq) = MaxPacketAge + d
    BY <1>1, Advance
  <1>8. \A e \in DOMAIN L : IsSeqHigherThan(seq, e)
    <2> TAKE e \in DOMAIN L
    <2>1. e \in SeqNum /\ Offset(e) < Offset(seq) /\ Offset(e) <= Half /\ Offset(seq) <= Half
      BY <1>1, <1>6, <1>7, NackConstants
    <2>2. IsSeqLowerThan(e, seq)
      BY <1>1, <2>1, CircleOrder DEF Offset
    <2> QED
      BY <2>1, <2>2, HigherIsLower
  <1>9. due = {e \in DOMAIN L : L[e].age = Unsent}
    BY <1>8 DEF DueBySeq
  <1>10. \A e \in DOMAIN L : /\ e \in Nacks => e \notin due
                             /\ e \notin Nacks => e \in due /\ L[e].retries = 0
    <2> TAKE e \in DOMAIN L
    <2>1. e \in Nacks => L[e] = nackList[e] /\ nackList[e].age # Unsent
      BY <1>6 DEF NackInv, AskedOnce
    <2>2. e \notin Nacks => L[e].age = Unsent /\ L[e].retries = 0
      BY <1>6 DEF NewEntry
    <2> QED
      BY <1>9, <2>1, <2>2
  <1> HIDE DEF due, L
  <1>11. nackList' = AfterBatch(L, due)
    BY <1>3 DEF L, due
  <1>12. /\ DOMAIN nackList' = {e \in DOMAIN L : e \in due => L[e].retries + 1 < MaxNackRetries}
         /\ \A e \in DOMAIN nackList' :
              nackList'[e] = IF e \in due THEN [age |-> 0, retries |-> L[e].retries + 1] ELSE L[e]
    <2>1. /\ DOMAIN AfterBatch(L, due) = {e \in DOMAIN L : e \in due => L[e].retries + 1 < MaxNackRetries}
          /\ \A e \in DOMAIN AfterBatch(L, due) :
               AfterBatch(L, due)[e] = IF e \in due THEN [age |-> 0, retries |-> L[e].retries + 1] ELSE L[e]
      BY DEF AfterBatch
    <2> QED
      BY <1>11, <2>1
  <1>13. DOMAIN nackList' \subseteq SeqNum /\ Cardinality(DOMAIN nackList') <= MaxNackPackets
    <2>1. IsFiniteSet(SeqNum)
      BY SeqModNat, FS_Interval DEF SeqNum
    <2>2. IsFiniteSet(DOMAIN L)
      <3>1. DOMAIN L \in SUBSET SeqNum
        BY <1>6
      <3> QED
        BY <2>1, <3>1, FS_Subset
    <2>3. DOMAIN nackList' \in SUBSET (DOMAIN L)
      BY <1>12
    <2>4. IsFiniteSet(DOMAIN nackList') /\ Cardinality(DOMAIN nackList') <= Cardinality(DOMAIN L)
      BY <2>2, <2>3, FS_Subset
    <2>5. Cardinality(DOMAIN L) \in Nat /\ Cardinality(DOMAIN nackList') \in Nat
      BY <2>2, <2>4, FS_CardinalityType
    <2> QED
      BY <1>6, <2>3, <2>4, <2>5, NackConstants
  <1>14. ASSUME NEW e \in DOMAIN nackList'
         PROVE  /\ Offset(e) \in d .. MaxPacketAge + d - 1
                /\ \/ e \in Nacks /\ nackList'[e] = nackList[e]
                   \/ 1 < MaxNackRetries /\ nackList'[e] = [age |-> 0, retries |-> 1]
    <2>1. e \in DOMAIN L
      BY <1>12
    <2>2. CASE e \in Nacks
      <3>1. nackList'[e] = nackList[e]
        BY <1>6, <1>10, <1>12, <2>1, <2>2
      <3> QED
        BY <1>6, <2>1, <2>2, <3>1
    <2>3. CASE e \notin Nacks
      <3>1. e \in due /\ L[e].retries = 0
        BY <1>10, <2>1, <2>3
      <3>2. 1 < MaxNackRetries /\ nackList'[e] = [age |-> 0, retries |-> 1]
        BY <1>12, <3>1
      <3> QED
        BY <1>6, <2>1, <3>2
    <2> QED
      BY <2>2, <2>3
  <1>15. \A e \in Nacks \ DOMAIN nackList' : e \notin DOMAIN L
    BY <1>10, <1>12
  <1>16. \A e \in Nacks \ DOMAIN nackList' :
            Offset(e) < d \/ keyFrameRequired' \/ \E k \in keyFrameList' : IsSeqHigherThan(k, e)
    BY <1>3, <1>6, <1>15
  <1>17. keyFrameList' \subseteq SeqNum /\ \A k \in keyFrameList' : Offset(k) \in d .. MaxPacketAge + MaxAhead
    BY <1>3, <1>4, <1>6
  <1>18. nacked' \subseteq SeqNum /\ keyFrameRequired' \in BOOLEAN
    <2>1. nacked' = due /\ due \subseteq DOMAIN L
      BY <1>3, <1>9 DEF due, L
    <2> QED
      BY <1>3, <1>6, <2>1
  <1>19. timer' = TimerAfterPacket(nackList')
    BY <1>3
  <1> QED
    BY <1>13, <1>14, <1>16, <1>17, <1>18, <1>19


LEMMA ReceiveNewerInv ==
    ASSUME NackInv, NEW seq \in SeqNum, NEW isKeyFrame \in BOOLEAN, ReceiveNewer(seq, isKeyFrame)
    PROVE  NackInv'
  <1> DEFINE d == Minus(seq, lastSeq)
  <1>1. NackTypeOK /\ OldestKept \in SeqNum /\ d \in 1 .. MaxAhead
    BY NewerDistance, OffsetFacts DEF NackInv, ReceiveNewer
  <1>2. /\ DOMAIN nackList' \subseteq SeqNum /\ Cardinality(DOMAIN nackList') <= MaxNackPackets
        /\ \A e \in DOMAIN nackList' :
             /\ Offset(e) \in d .. MaxPacketAge + d - 1
             /\ \/ e \in Nacks /\ nackList'[e] = nackList[e]
                \/ 1 < MaxNackRetries /\ nackList'[e] = [age |-> 0, retries |-> 1]
        /\ keyFrameList' \subseteq SeqNum
        /\ \A k \in keyFrameList' : Offset(k) \in d .. MaxPacketAge + MaxAhead
        /\ nacked' \subseteq SeqNum /\ keyFrameRequired' \in BOOLEAN
        /\ timer' = TimerAfterPacket(nackList')
    BY ReceiveNewerResult
  <1>3. /\ lastSeq' = seq /\ aheadRecovered' \subseteq aheadRecovered
        /\ started' = started /\ recoveredList' = recoveredList /\ rtt' = rtt /\ started
    BY DEF ReceiveNewer, Newer
  <1>4. /\ Offset(seq) = MaxPacketAge + d
        /\ \A x \in SeqNum : Offset(x) >= d => Minus(x, Minus(seq, MaxPacketAge)) = Offset(x) - d
    BY <1>1, Advance
  <1> HIDE DEF d
  <1>5. \A e \in DOMAIN nackList' : /\ nackList'[e] \in NackInfo /\ nackList'[e].age # Unsent
                                    /\ nackList'[e].retries \in 1 .. MaxNackRetries - 1
    <2> TAKE e \in DOMAIN nackList'
    <2>1. CASE e \in Nacks /\ nackList'[e] = nackList[e]
      BY <2>1 DEF NackInv, NackTypeOK, AskedOnce
    <2>2. CASE 1 < MaxNackRetries /\ nackList'[e] = [age |-> 0, retries |-> 1]
      BY <2>2, MaxRttBounds, NackConstants DEF NackInfo, Unsent
    <2> QED
      BY <1>2, <2>1, <2>2
  <1>6. NackTypeOK'
    <2>1. timer' \in Off .. TimerInterval
      BY <1>1, <1>2, NackAssumption DEF NackTypeOK, TimerAfterPacket, MayRunTimer, Off
    <2> QED
      BY <1>1, <1>2, <1>3, <1>5, <2>1 DEF NackTypeOK, Nacks
  <1>7. NackWindow'
    <2>1. \A e \in DOMAIN nackList' : Minus(seq, e) \in 1 .. MaxPacketAge
      <3> TAKE e \in DOMAIN nackList'
      <3>1. e \in SeqNum /\ Minus(e, OldestKept) \in d .. MaxPacketAge + d - 1 /\ Minus(seq, OldestKept) = MaxPacketAge + d
        BY <1>2, <1>4 DEF Offset
      <3>2. Minus(seq, e) = Minus(seq, OldestKept) - Minus(e, OldestKept)
        <4>1. Minus(e, OldestKept) <= Minus(seq, OldestKept)
          BY <1>1, <3>1, NackConstants
        <4> QED
          BY <1>1, <3>1, <4>1, CircleDistance
      <3> QED
        BY <1>1, <3>1, <3>2, NackConstants
    <2> QED
      BY <1>2, <1>3, <2>1 DEF NackWindow, Nacks
  <1>8. AskedOnce'
    BY <1>5 DEF AskedOnce, Nacks
  <1>9. FrameWindow'
    <2>1. \A k \in keyFrameList' : Minus(k, Minus(seq, MaxPacketAge)) <= MaxPacketAge + MaxAhead
      BY <1>1, <1>2, <1>4, NackConstants
    <2> QED
      BY <1>3, <2>1 DEF FrameWindow, Offset, OldestKept
  <1>10. EmptyBeforeStart'
    BY <1>3 DEF EmptyBeforeStart
  <1> QED
    BY <1>6, <1>7, <1>8, <1>9, <1>10 DEF NackInv

LEMMA ReceiveRecoveredAheadInv ==
    ASSUME NackInv, NEW seq \in SeqNum, NEW isKeyFrame \in BOOLEAN, ReceiveRecoveredAhead(seq, isKeyFrame)
    PROVE  NackInv'
  <1> DEFINE d == Minus(seq, lastSeq)
  <1>1. d \in 1 .. MaxAhead
    BY NewerDistance DEF ReceiveRecoveredAhead
  <1>2. keyFrameList' \subseteq SeqNum /\ \A k \in keyFrameList' : Offset(k) <= MaxPacketAge + MaxAhead
    <2>1. ASSUME NEW frames \in KeyFramesWith(seq, isKeyFrame)
          PROVE  frames \subseteq SeqNum /\ \A k \in frames : Offset(k) <= MaxPacketAge + MaxAhead
      BY <1>1, KeyFramesWithResult
    <2> QED
      BY <2>1 DEF ReceiveRecoveredAhead
  <1>3. UNCHANGED <<started, lastSeq, nackList, rtt, timer>> /\ nacked' = {} /\ keyFrameRequired' = FALSE
        /\ aheadRecovered' = aheadRecovered \cup {seq} /\ started
    BY DEF ReceiveRecoveredAhead, Newer, Silent
  <1>4. recoveredList' \subseteq SeqNum
    <2>1. recoveredList' \subseteq recoveredList \cup {seq}
      BY DEF ReceiveRecoveredAhead, EraseBelow
    <2> QED
      BY <2>1 DEF NackInv, NackTypeOK
  <1>5. NackTypeOK' /\ NackWindow' /\ AskedOnce'
    BY <1>2, <1>3, <1>4 DEF NackInv, NackTypeOK, NackWindow, AskedOnce, Nacks
  <1>6. FrameWindow'
    BY <1>2, <1>3 DEF FrameWindow, Offset, OldestKept
  <1> QED
    BY <1>3, <1>5, <1>6 DEF NackInv, EmptyBeforeStart

LEMMA ReceiveFirstInv ==
    ASSUME NackInv, NEW seq \in SeqNum, NEW isKeyFrame \in BOOLEAN, ReceiveFirst(seq, isKeyFrame)
    PROVE  NackInv'
  <1>1. /\ Nacks = {} /\ keyFrameList = {} /\ nackList' = nackList /\ lastSeq' = seq /\ started' = TRUE
        /\ keyFrameList' \subseteq {seq} /\ nacked' = {} /\ keyFrameRequired' = FALSE
        /\ UNCHANGED <<recoveredList, rtt, timer, aheadRecovered>>
    BY DEF NackInv, EmptyBeforeStart, ReceiveFirst, Silent
  <1>2. NackTypeOK'
    BY <1>1 DEF NackInv, NackTypeOK, Nacks
  <1>3. NackWindow' /\ AskedOnce'
    BY <1>1 DEF NackInv, NackWindow, AskedOnce, Nacks
  <1>4. FrameWindow'
    <2> DEFINE b == Minus(seq, MaxPacketAge)
    <2>1. b \in SeqNum /\ b = IF seq >= MaxPacketAge THEN seq - MaxPacketAge ELSE seq - MaxPacketAge + SeqMod
      BY MinusIs, NackConstants
    <2>2. Minus(seq, b) = IF seq >= b THEN seq - b ELSE seq - b + SeqMod
      BY <2>1, MinusIs
    <2> HIDE DEF b
    <2>3. seq \in 0 .. SeqMod - 1 /\ b \in 0 .. SeqMod - 1
      BY <2>1 DEF SeqNum
    <2>4. Minus(seq, b) <= MaxPacketAge + MaxAhead
      BY <2>1, <2>2, <2>3, NackConstants
    <2> QED
      BY <1>1, <2>4 DEF FrameWindow, Offset, OldestKept, b
  <1> QED
    BY <1>1, <1>2, <1>3, <1>4 DEF NackInv, EmptyBeforeStart


LEMMA SubListSize ==
    ASSUME NackInv, NEW S, S \subseteq Nacks
    PROVE  Cardinality(S) <= MaxNackPackets
  <1>1. IsFiniteSet(SeqNum) /\ Nacks \in SUBSET SeqNum
    BY SeqModNat, FS_Interval DEF SeqNum, NackInv, NackTypeOK
  <1>2. IsFiniteSet(Nacks) /\ S \in SUBSET Nacks
    BY <1>1, FS_Subset
  <1>3. Cardinality(S) <= Cardinality(Nacks) /\ IsFiniteSet(S)
    BY <1>2, FS_Subset
  <1>4. Cardinality(S) \in Nat /\ Cardinality(Nacks) \in Nat /\ Cardinality(Nacks) <= MaxNackPackets
    BY <1>2, <1>3, FS_CardinalityType DEF NackInv, NackWindow
  <1> QED
    BY <1>3, <1>4, NackConstants

LEMMA ReceiveOlderInv ==
    ASSUME NackInv, NEW seq \in SeqNum, ReceiveOlder(seq)
    PROVE  NackInv'
  <1>1. UNCHANGED <<started, lastSeq, keyFrameList, recoveredList, rtt, timer, aheadRecovered>>
        /\ nacked' = {} /\ keyFrameRequired' = FALSE
    BY DEF ReceiveOlder, Silent
  <1>2. DOMAIN nackList' \subseteq Nacks /\ \A e \in DOMAIN nackList' : nackList'[e] = nackList[e]
    BY DEF ReceiveOlder, Restricted, Nacks
  <1>3. started
    BY DEF ReceiveOlder
  <1>4. NackTypeOK'
    BY <1>1, <1>2 DEF NackInv, NackTypeOK, Nacks
  <1>5. Cardinality(DOMAIN nackList') <= MaxNackPackets
    BY <1>2, SubListSize
  <1>6. NackWindow' /\ AskedOnce'
    BY <1>1, <1>2, <1>5 DEF NackInv, NackWindow, AskedOnce, Nacks
  <1> QED
    BY <1>1, <1>3, <1>4, <1>6 DEF NackInv, EmptyBeforeStart, FrameWindow, Offset, OldestKept

LEMMA OnTimerInv ==
    ASSUME NackInv, OnTimer
    PROVE  NackInv'
  <1> DEFINE due == DueByTime(nackList)
  <1>1. /\ nackList' = AfterBatch(nackList, due) /\ nacked' = due /\ keyFrameRequired' = FALSE
        /\ timer' = MayRunTimer(nackList', Off)
        /\ UNCHANGED <<started, lastSeq, keyFrameList, recoveredList, rtt, aheadRecovered>>
    BY DEF OnTimer
  <1>2. due \subseteq Nacks
    BY DEF DueByTime, Nacks
  <1> HIDE DEF due
  <1>3. /\ DOMAIN nackList' = {e \in Nacks : e \in due => nackList[e].retries + 1 < MaxNackRetries}
        /\ \A e \in DOMAIN nackList' :
             nackList'[e] = IF e \in due THEN [age |-> 0, retries |-> nackList[e].retries + 1] ELSE nackList[e]
    BY <1>1 DEF AfterBatch, Nacks
  <1>4. \A e \in DOMAIN nackList' : /\ nackList'[e] \in NackInfo /\ nackList'[e].age # Unsent
                                    /\ nackList'[e].retries \in 1 .. MaxNackRetries - 1
    <2> TAKE e \in DOMAIN nackList'
    <2>1. e \in Nacks /\ nackList[e] \in NackInfo /\ nackList[e].age # Unsent
          /\ nackList[e].retries \in 1 .. MaxNackRetries - 1
      BY <1>3 DEF NackInv, NackTypeOK, AskedOnce
    <2>2. CASE e \in due
      <3>1. nackList'[e] = [age |-> 0, retries |-> nackList[e].retries + 1]
            /\ nackList[e].retries + 1 < MaxNackRetries
        BY <1>3, <2>2
      <3> QED
        BY <2>1, <3>1, MaxRttBounds, NackConstants DEF NackInfo, Unsent
    <2>3. CASE e \notin due
      BY <1>3, <2>1, <2>3
    <2> QED
      BY <2>2, <2>3
  <1>5. timer' \in Off .. TimerInterval
    BY <1>1, NackAssumption DEF MayRunTimer, Off
  <1>6. NackTypeOK'
    BY <1>1, <1>2, <1>3, <1>4, <1>5 DEF NackInv, NackTypeOK, Nacks
  <1>7. Cardinality(DOMAIN nackList') <= MaxNackPackets
    <2>1. DOMAIN nackList' \subseteq Nacks
      BY <1>3
    <2> QED
      BY <2>1, SubListSize
  <1>8. NackWindow' /\ AskedOnce'
    BY <1>1, <1>3, <1>4, <1>7 DEF NackInv, NackWindow, AskedOnce, Nacks
  <1>9. EmptyBeforeStart'
    BY <1>1, <1>3 DEF NackInv, EmptyBeforeStart, Nacks
  <1> QED
    BY <1>1, <1>6, <1>8, <1>9 DEF NackInv, FrameWindow, Offset, OldestKept

LEMMA TickInv ==
    ASSUME NackInv, Tick
    PROVE  NackInv'
  <1>1. /\ UNCHANGED <<started, lastSeq, keyFrameList, recoveredList, rtt, aheadRecovered>>
        /\ nacked' = {} /\ keyFrameRequired' = FALSE
        /\ timer' = IF timer > 0 THEN timer - 1 ELSE timer
    BY DEF Tick, Silent
  <1>2. DOMAIN nackList' = Nacks
    BY DEF Tick
  <1>3. \A e \in Nacks : /\ nackList'[e] \in NackInfo /\ nackList'[e].age # Unsent
                         /\ nackList'[e].retries \in 1 .. MaxNackRetries - 1
    <2> TAKE e \in Nacks
    <2>1. nackList[e] \in NackInfo /\ nackList[e].age # Unsent
          /\ nackList[e].retries \in 1 .. MaxNackRetries - 1
      BY DEF NackInv, NackTypeOK, AskedOnce
    <2>2. CASE nackList[e].age \in 0 .. MaxRtt - 1
      <3>1. nackList'[e] = [nackList[e] EXCEPT !.age = @ + 1]
        BY <2>2 DEF Tick
      <3>2. nackList'[e] = [age |-> nackList[e].age + 1, retries |-> nackList[e].retries]
        BY <2>1, <3>1 DEF NackInfo
      <3> QED
        BY <2>1, <2>2, <3>2, MaxRttBounds DEF NackInfo, Unsent
    <2>3. CASE nackList[e].age \notin 0 .. MaxRtt - 1
      <3>1. nackList'[e] = nackList[e]
        BY <2>3 DEF Tick
      <3> QED
        BY <2>1, <3>1
    <2> QED
      BY <2>2, <2>3
  <1>4. timer' \in Off .. TimerInterval
    BY <1>1, NackAssumption DEF NackInv, NackTypeOK, Off
  <1>5. NackTypeOK'
    BY <1>1, <1>2, <1>3, <1>4 DEF NackInv, NackTypeOK, Nacks
  <1>6. NackWindow' /\ AskedOnce' /\ EmptyBeforeStart'
    BY <1>1, <1>2, <1>3 DEF NackInv, NackWindow, AskedOnce, EmptyBeforeStart, Nacks
  <1> QED
    BY <1>1, <1>5, <1>6 DEF NackInv, FrameWindow, Offset, OldestKept

LEMMA NoNacksInv ==
    ASSUME nackList' = EmptyList, keyFrameList' = {}, NackTypeOK'
    PROVE  NackInv'
  <1>1. DOMAIN nackList' = {} /\ Cardinality(DOMAIN nackList') = 0
    BY FS_EmptySet DEF EmptyList
  <1> QED
    BY <1>1, NackConstants DEF NackInv, NackWindow, AskedOnce, FrameWindow, EmptyBeforeStart, Nacks

LEMMA NackInitInv == NackInit => NackInv
  <1> SUFFICES ASSUME NackInit PROVE NackInv
    OBVIOUS
  <1>1. DOMAIN nackList = {} /\ Cardinality(DOMAIN nackList) = 0
    BY FS_EmptySet DEF NackInit, EmptyList
  <1>2. 0 \in SeqNum /\ Off \in Off .. TimerInterval /\ DefaultRtt \in Rtts
    BY SeqModNat, NackAssumption DEF SeqNum, Off
  <1>3. NackTypeOK
    BY <1>1, <1>2 DEF NackInit, NackTypeOK, Nacks
  <1> QED
    BY <1>1, <1>3, NackConstants
    DEF NackInit, NackInv, NackWindow, AskedOnce, FrameWindow, EmptyBeforeStart, Nacks

LEMMA NackNextInv == NackInv /\ [NackNext]_nackVars => NackInv'
  <1> SUFFICES ASSUME NackInv, [NackNext]_nackVars PROVE NackInv'
    OBVIOUS
  <1>1. ASSUME NEW seq \in SeqNum, NEW isKeyFrame \in BOOLEAN, ReceiveFirst(seq, isKeyFrame) PROVE NackInv'
    BY <1>1, ReceiveFirstInv
  <1>2. ASSUME NEW seq \in SeqNum, NEW isKeyFrame \in BOOLEAN, ReceiveRecoveredAhead(seq, isKeyFrame)
        PROVE  NackInv'
    BY <1>2, ReceiveRecoveredAheadInv
  <1>3. ASSUME NEW seq \in SeqNum, NEW isKeyFrame \in BOOLEAN, ReceiveNewer(seq, isKeyFrame) PROVE NackInv'
    BY <1>3, ReceiveNewerInv
  <1>4. ASSUME NEW seq \in SeqNum, ReceiveOlder(seq) PROVE NackInv'
    BY <1>4, ReceiveOlderInv
  <1>5. ASSUME NEW newRtt \in Rtts, UpdateRtt(newRtt) PROVE NackInv'
    <2>1. UNCHANGED <<started, lastSeq, nackList, keyFrameList, recoveredList, timer, aheadRecovered>>
          /\ rtt' = newRtt /\ nacked' = {} /\ keyFrameRequired' = FALSE
      BY <1>5 DEF UpdateRtt, Silent
    <2>2. NackTypeOK'
      BY <2>1 DEF NackInv, NackTypeOK, Nacks
    <2> QED
      BY <2>1, <2>2 DEF NackInv, NackWindow, AskedOnce, FrameWindow, EmptyBeforeStart, Nacks, Offset, OldestKept
  <1>6. CASE Reset
    <2>1. nackList' = EmptyList /\ keyFrameList' = {}
      BY <1>6 DEF Reset
    <2>2. NackTypeOK'
      <3>1. DOMAIN nackList' = {}
        BY <2>1 DEF EmptyList
      <3>2. 0 \in SeqNum
        BY SeqModNat DEF SeqNum
      <3> QED
        BY <1>6, <3>1, <3>2 DEF Reset, Silent, NackInv, NackTypeOK, Nacks
    <2> QED
      BY <2>1, <2>2, NoNacksInv
  <1>7. CASE OnTimer
    BY <1>7, OnTimerInv
  <1>8. CASE Tick
    BY <1>8, TickInv
  <1>9. CASE UNCHANGED nackVars
    BY <1>9 DEF nackVars, nackCode, NackInv, NackTypeOK, NackWindow, AskedOnce, FrameWindow, EmptyBeforeStart,
                Nacks, Offset, OldestKept
  <1> QED
    BY <1>1, <1>2, <1>3, <1>4, <1>5, <1>6, <1>7, <1>8, <1>9 DEF NackNext

----------------------------------------------------------------------------
(* The theorems about the NACK generator.                                  *)

LEMMA NackInvariance == NackSpec => []NackInv
BY NackInitInv, NackNextInv, PTL DEF NackSpec

\* ReceivePacket, OnTimer, UpdateRtt and Reset of NackGenerator.cpp keep in the
\* list only packets older than the newest by at most MaxPacketAge, no more than
\* MaxNackPackets of them, each asked for at least once and with a retry left,
\* whatever the width of the sequence numbers and however often they wrap.
THEOREM NackListAlwaysRight == NackSpec => []NackListRight
  <1>1. NackInv => NackListRight
    BY DEF NackInv, NackListRight
  <1> QED
    BY <1>1, NackInvariance, PTL

\* Every packet that leaves the list arrived, used up its retries, became too
\* old, made place for a newer key frame or for a key frame request: the reasons
\* AddPacketsToNackList, RemoveNackItemsUntilKeyFrame and GetNackBatch have.
THEOREM GivingUpAlwaysJustified == NackSpec => GivingUpJustified
  <1> DEFINE A == \A e \in Nacks \ DOMAIN nackList' :
                    \/ ~ started'
                    \/ lastSeq' = lastSeq /\ Nacks \ DOMAIN nackList' = {e} /\ nacked' = {}
                    \/ e \in nacked' /\ nackList[e].retries = MaxNackRetries - 1
                    \/ Minus(lastSeq', e) > MaxPacketAge
                    \/ keyFrameRequired'
                    \/ \E k \in keyFrameList' : IsSeqHigherThan(k, e)
  <1>1. NackInv /\ NackNext => A
    <2> SUFFICES ASSUME NackInv, NackNext, NEW e \in Nacks \ DOMAIN nackList'
                 PROVE  \/ ~ started'
                        \/ lastSeq' = lastSeq /\ Nacks \ DOMAIN nackList' = {e} /\ nacked' = {}
                        \/ e \in nacked' /\ nackList[e].retries = MaxNackRetries - 1
                        \/ Minus(lastSeq', e) > MaxPacketAge
                        \/ keyFrameRequired'
                        \/ \E k \in keyFrameList' : IsSeqHigherThan(k, e)
      OBVIOUS
    <2>1. ASSUME NEW seq \in SeqNum, NEW isKeyFrame \in BOOLEAN, ReceiveNewer(seq, isKeyFrame)
          PROVE  \/ Minus(lastSeq', e) > MaxPacketAge
                 \/ keyFrameRequired'
                 \/ \E k \in keyFrameList' : IsSeqHigherThan(k, e)
      <3> DEFINE d == Minus(seq, lastSeq)
      <3>1. NackTypeOK /\ OldestKept \in SeqNum /\ d \in 1 .. MaxAhead /\ e \in SeqNum /\ lastSeq' = seq
        BY <2>1, NewerDistance, OffsetFacts DEF NackInv, NackTypeOK, ReceiveNewer
      <3>2. Offset(e) < d \/ keyFrameRequired' \/ \E k \in keyFrameList' : IsSeqHigherThan(k, e)
        BY <2>1, ReceiveNewerResult
      <3>3. ASSUME Offset(e) < d
            PROVE  Minus(seq, e) > MaxPacketAge
        <4>1. Minus(seq, OldestKept) = MaxPacketAge + d /\ Minus(e, OldestKept) \in Nat /\ Minus(e, OldestKept) < d
          BY <3>1, <3>3, Advance, OffsetFacts DEF Offset
        <4>2. Minus(seq, e) = Minus(seq, OldestKept) - Minus(e, OldestKept)
          <5>1. Minus(e, OldestKept) <= Minus(seq, OldestKept)
            BY <3>1, <4>1, NackConstants
          <5> QED
            BY <3>1, <5>1, CircleDistance
        <4> HIDE DEF d
        <4> QED
          BY <3>1, <4>1, <4>2, NackConstants
      <3> QED
        BY <3>1, <3>2, <3>3
    <2>2. ASSUME NEW seq \in SeqNum, ReceiveOlder(seq)
          PROVE  lastSeq' = lastSeq /\ Nacks \ DOMAIN nackList' = {e} /\ nacked' = {}
      <3>1. lastSeq' = lastSeq /\ nacked' = {} /\ DOMAIN nackList' = Nacks \ {seq}
        BY <2>2 DEF ReceiveOlder, Silent, Restricted, Nacks
      <3> QED
        BY <3>1
    <2>3. CASE OnTimer
      <3> DEFINE due == DueByTime(nackList)
      <3>1. nackList' = AfterBatch(nackList, due) /\ nacked' = due
        BY <2>3 DEF OnTimer
      <3> HIDE DEF due
      <3>2. e \in due /\ ~ (nackList[e].retries + 1 < MaxNackRetries)
        BY <3>1 DEF AfterBatch, Nacks
      <3>3. nackList[e].retries \in 1 .. MaxNackRetries - 1
        BY DEF NackInv, AskedOnce
      <3>4. nackList[e].retries = MaxNackRetries - 1
        BY <3>2, <3>3, NackConstants
      <3> QED
        BY <3>1, <3>2, <3>4
    <2>4. CASE Reset
      BY <2>4 DEF Reset
    <2>5. ~ UNCHANGED nackList
      BY DEF Nacks
    <2>6. ~ Tick
      BY DEF Tick, Nacks
    <2>7. (\E newRtt \in Rtts : UpdateRtt(newRtt)) => UNCHANGED nackList
      BY DEF UpdateRtt
    <2>8. \A seq \in SeqNum, isKeyFrame \in BOOLEAN :
             ReceiveFirst(seq, isKeyFrame) \/ ReceiveRecoveredAhead(seq, isKeyFrame) => UNCHANGED nackList
      BY DEF ReceiveFirst, ReceiveRecoveredAhead
    <2> QED
      BY <2>1, <2>2, <2>3, <2>4, <2>5, <2>6, <2>7, <2>8 DEF NackNext
  <1>2. NackInv /\ [NackNext]_nackVars => [A]_nackVars
    BY <1>1
  <1> QED
    BY <1>2, NackInvariance, PTL DEF NackSpec, GivingUpJustified

=============================================================================
