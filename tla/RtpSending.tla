----------------------------- MODULE RtpSending -----------------------------
(***************************************************************************)
(* The way of a packet through the worker, as far as sequence numbers are   *)
(* concerned: RTC::RtpStream of the producer accepts it, the consumer drops *)
(* or renumbers it with RTC::SeqManager, RTC::RtpStreamSend accepts it again *)
(* and keeps it for retransmission.                                         *)
(*                                                                          *)
(* The packets of the sender are numbered by integers; their sequence       *)
(* numbers are these modulo SeqMod.  The network delays, repeats and loses   *)
(* packets.  The numbers the packets ought to have when they are sent are    *)
(* computed with integers, next to what the code does.                      *)
(***************************************************************************)
EXTENDS SeqManager

CONSTANTS
    MaxDropout, MaxMisorder,    \* of RtpStream
    BufferSize,                 \* number of packets RtpStreamSend keeps
    Oversized,                  \* the packets that are larger than MtuSize
    MaxAge,                     \* MaxRetransmissionDelay, in packets of the sender
    AgeMod,                     \* and the age at which its computation overflows
    FirstPackets,               \* numbers the sender may begin with
    MaxPacket,                  \* bound: the last packet
    Late, Ahead,                \* bound: how far packets are out of order
    MaxDrops, MaxSyncs          \* bounds: drops after a start, and starts

None == -1
Packet == 0 .. MaxPacket
Number(e) == e % SeqMod

\* The network does not keep a packet back for nearly a whole circle of numbers,
\* nor is one that may still be sent again that old.
ASSUME SendingAssumption ==
    /\ MaxDropout \in Nat \ {0, 1} /\ MaxMisorder \in Nat \ {0}
    /\ MaxDropout + MaxMisorder <= SeqMod \div 2
    /\ BufferSize \in Nat \ {0, 1} /\ MaxAge \in 0 .. SeqMod - 1
    /\ AgeMod \in Nat /\ MaxAge < AgeMod
    /\ FirstPackets \subseteq Nat /\ \A f, g \in FirstPackets : Number(f) = Number(g) => f = g
    /\ Late \in 0 .. SeqMod - MaxDropout /\ Ahead \in 0 .. SeqMod - MaxMisorder
    /\ MaxPacket \in Nat /\ MaxDrops \in Nat /\ MaxSyncs \in Nat

VARIABLES
    highest,        \* the highest packet that was accepted, or None
    received,       \* RtpStream of the producer
    manager,        \* rtpSeqManager of the consumer
    syncRequired,   \* the consumer starts again with the next packet
    sending,        \* RtpStream part of the consumer's RtpStreamSend
    maxPacketTs,    \* its highest time stamp: the packet that has it
    buffer,         \* its buffer, by sequence number
    bufferStartIdx

\* What the numbers ought to be.
VARIABLES
    start,          \* the packet the consumer last started with, and its number
    forwarded,      \* the highest packet forwarded since
    drops,          \* packets dropped since, when they were higher than that one
    top,            \* the highest number given to a packet
    last,           \* the last packet forwarded, and what became of it
    comparable,     \* the manager never compared numbers that are too far apart
    jumped,         \* numbers jumped by more than a stream accepts
    syncs           \* how often the consumer started

code == <<highest, received, manager, syncRequired, sending, maxPacketTs, buffer, bufferStartIdx>>
vars == <<code, start, forwarded, drops, top, last, comparable, jumped, syncs>>

---------------------------------------------------------------------------
(* RtpStream.                                                              *)

NoBadSeq == SeqMod + 1

NewStream == [started |-> FALSE, baseSeq |-> 0, maxSeq |-> 0, badSeq |-> NoBadSeq, cycles |-> 0]

InitSeq(r, seq) == [r EXCEPT !.baseSeq = seq, !.maxSeq = seq, !.badSeq = NoBadSeq]

\* The beginning of ReceivePacket.
Started(r, seq) ==
    IF r.started THEN r
    ELSE [InitSeq(r, seq) EXCEPT !.started = TRUE, !.maxSeq = Minus(seq, 1)]

\* The three cases of UpdateSeq: a higher number, one out of the range, and an
\* acceptable misorder.
InRange(r, seq) == Minus(seq, r.maxSeq) < MaxDropout
TooFar(r, seq)  == ~ InRange(r, seq) /\ Minus(seq, r.maxSeq) <= SeqMod - MaxMisorder

Accepts(r, seq) == TooFar(r, seq) => seq = r.badSeq

UpdateSeq(r, seq) ==
    IF InRange(r, seq)
      THEN [r EXCEPT !.maxSeq = seq, !.cycles = IF seq < r.maxSeq THEN @ + 1 ELSE @]
    ELSE IF TooFar(r, seq)
      THEN IF seq = r.badSeq THEN InitSeq(r, seq) ELSE [r EXCEPT !.badSeq = Plus(seq, 1)]
    ELSE r

\* cycles + maxSeq, and GetExpectedPackets.
Extended(r) == r.cycles * SeqMod + r.maxSeq
GetExpectedPackets(r) == Extended(r) - r.baseSeq + 1

---------------------------------------------------------------------------
(* The buffer of RtpStreamSend.  An entry is the packet with the number it  *)
(* ought to have.  Two packets have the same time stamp only if they are    *)
(* copies.                                                                  *)

Empty == [packet |-> None, number |-> 0]
Used(b) == {q \in SeqNum : b[q] # Empty}

\* UpdateBufferStartIdx.
NextUsed(b, idx) ==
    IF Used(b) = {} THEN idx
    ELSE CHOOSE q \in Used(b) :
           \A r \in Used(b) : Minus(q, Plus(idx, 1)) <= Minus(r, Plus(idx, 1))

\* Mutant: the start index is not moved when its entry is taken away.
StoreOnly(b, idx, seq, e) ==
    IF e.packet \in Oversized THEN [buffer |-> b, start |-> idx]
    ELSE IF Used(b) = {} THEN [buffer |-> [b EXCEPT ![seq] = e], start |-> seq]
    ELSE IF b[seq] # Empty \/ Cardinality(Used(b)) < BufferSize
      THEN [buffer |-> [b EXCEPT ![seq] = e], start |-> idx]
    ELSE [buffer |-> [b EXCEPT ![idx] = Empty, ![seq] = e], start |-> idx]

\* A packet that is larger than MtuSize is not stored.
StorePacket(b, idx, seq, e) ==
    IF e.packet \in Oversized THEN [buffer |-> b, start |-> idx]
    ELSE IF Used(b) = {} THEN [buffer |-> [b EXCEPT ![seq] = e], start |-> seq]
    ELSE IF b[seq].packet = e.packet THEN [buffer |-> b, start |-> idx]
    ELSE IF b[seq] # Empty
      THEN [buffer |-> [b EXCEPT ![seq] = e], start |-> IF idx = seq THEN NextUsed(b, idx) ELSE idx]
    ELSE IF Cardinality(Used(b)) < BufferSize
      THEN [buffer |-> [b EXCEPT ![seq] = e], start |-> idx]
    ELSE LET freed == [b EXCEPT ![idx] = Empty]
         IN  [buffer |-> [freed EXCEPT ![seq] = e], start |-> NextUsed(freed, idx)]

\* Mutant: packets are sent again however old they are.
ResentAtAnyAge(b, q, newest) == b[q] # Empty

\* FillRetransmissionContainer: the entry of the number q is sent again, unless
\* that happened in the last round trip.  The age is computed in 32 bits as
\* diffTs * 1000 / clockRate.
Resent(b, q, newest) == b[q] # Empty /\ (newest - b[q].packet) % AgeMod <= MaxAge

EmptyBuffer == [q \in SeqNum |-> Empty]

---------------------------------------------------------------------------
(* The numbers that packets ought to have.                                 *)

NoPacket == [packet |-> None, output |-> 0, number |-> 0, accepted |-> TRUE]

Renumbered(e, from, D) == from.number + (e - from.packet) - Cardinality({d \in D : d < e})

Init ==
    /\ highest = None /\ received = NewStream
    /\ manager = NewManager /\ syncRequired = TRUE
    /\ sending = NewStream /\ maxPacketTs = None /\ buffer = EmptyBuffer /\ bufferStartIdx = 0
    /\ start = [packet |-> 0, number |-> 0] /\ forwarded = None /\ drops = {} /\ top = 0
    /\ last = NoPacket
    /\ comparable = TRUE /\ jumped = FALSE /\ syncs = 0

---------------------------------------------------------------------------
(* Actions.                                                                *)

\* The packet e reaches the producer's stream.
Arrives(e) ==
    LET r == Started(received, Number(e))
    IN  /\ IF highest = None THEN e \in FirstPackets ELSE e \in highest - Late .. highest + Ahead
        /\ highest' = IF e > highest /\ Accepts(r, Number(e)) THEN e ELSE highest
        /\ received' = UpdateSeq(r, Number(e))

\* The producer's stream takes e for a new beginning.
Jump(e) == TooFar(Started(received, Number(e)), Number(e))

\* The stream rejects it.
Discard(e) ==
    /\ Arrives(e)
    /\ ~ Accepts(Started(received, Number(e)), Number(e))
    /\ UNCHANGED <<manager, syncRequired, sending, maxPacketTs, buffer, bufferStartIdx,
                   start, forwarded, drops, top, last, comparable, jumped, syncs>>

\* The codec drops it: its temporal layer is not wanted.
DropPacket(e) ==
    /\ Arrives(e)
    /\ Accepts(Started(received, Number(e)), Number(e))
    /\ ~ syncRequired
    /\ e \notin drops => Cardinality(drops) < MaxDrops
    /\ manager' = Drop(manager, Number(e))
    /\ drops' = IF e > forwarded THEN drops \cup {e} ELSE drops
    /\ jumped' = (jumped \/ Jump(e))
    /\ comparable' = (comparable /\ e - forwarded < Half)
    /\ UNCHANGED <<syncRequired, sending, maxPacketTs, buffer, bufferStartIdx,
                   start, forwarded, top, last, syncs>>

\* SendRtpPacket of a consumer.  A packet that was dropped is not sent later,
\* because the codec keeps the dropped pictures in mind.
SendRtpPacket(e) ==
    LET m    == IF syncRequired THEN Sync(manager, Minus(Number(e), 1)) ELSE manager
        from == IF syncRequired THEN [packet |-> e, number |-> top + 1] ELSE start
        D    == IF syncRequired THEN {} ELSE drops
        n    == Renumbered(e, from, D)
    IN  /\ Arrives(e)
        /\ Accepts(Started(received, Number(e)), Number(e))
        /\ syncRequired \/ e \notin drops
        /\ syncRequired' = FALSE
        /\ syncs' = IF syncRequired THEN syncs + 1 ELSE syncs
        /\ jumped' = (jumped \/ Jump(e) \/ n - top \notin 1 - MaxMisorder .. MaxDropout - 1)
        /\ comparable' = /\ comparable /\ InOrder(m, Number(e))
                         /\ syncRequired \/ e - forwarded < Half
                         /\ \A d \in D : d < e
        /\ start' = from
        /\ drops' = D
        /\ forwarded' = IF syncRequired \/ e > forwarded THEN e ELSE forwarded
        /\ top' = IF n > top THEN n ELSE top
        /\ \E res \in Inputs(m, Number(e)) :
             LET r      == Started(sending, res.output)
                 ok     == Accepts(r, res.output)
                 stored == StorePacket(buffer, bufferStartIdx, res.output, [packet |-> e, number |-> n])
             IN  /\ manager' = res.manager
                 /\ sending' = UpdateSeq(r, res.output)
                 /\ last' = [packet |-> e, output |-> res.output, number |-> n, accepted |-> ok]
                 /\ maxPacketTs' = IF ok /\ e > maxPacketTs THEN e ELSE maxPacketTs
                 /\ IF ok THEN buffer' = stored.buffer /\ bufferStartIdx' = stored.start
                          ELSE UNCHANGED <<buffer, bufferStartIdx>>

\* The consumer is paused, which clears the buffer, and resumed.
PauseAndResume ==
    /\ ~ syncRequired /\ syncs < MaxSyncs
    /\ syncRequired' = TRUE
    /\ buffer' = EmptyBuffer /\ bufferStartIdx' = 0
    /\ UNCHANGED <<highest, received, manager, sending, maxPacketTs,
                   start, forwarded, drops, top, last, comparable, jumped, syncs>>

\* Nothing is said of numbers that have jumped or could not be compared, so the
\* behaviour is not followed any further.
Next ==
    /\ comparable /\ ~ jumped
    /\ \/ \E e \in Packet : Discard(e) \/ DropPacket(e) \/ SendRtpPacket(e)
       \/ PauseAndResume

Spec == Init /\ [][Next]_vars

---------------------------------------------------------------------------
(* Properties.                                                             *)

\* What Input returns is, modulo SeqMod, the number that the packet has when
\* one counts with integers and leaves out what was dropped: no gap for dropped
\* packets, no number twice, whatever was deleted from the set of dropped ones,
\* as long as that set was in order whenever it was searched.
RenumberingExact ==
    comparable => last.output = last.number % SeqMod

\* Not true: the same without a condition.  A packet that overtook another one
\* and was dropped is taken for one that is older by half the circle.
ReorderingHarmless == last.output = last.number % SeqMod

\* The sending stream never refuses a packet that the producer's stream has
\* accepted, and it counts the cycles of the numbers right, across starts,
\* drops and late packets.
SendingFollows ==
    comparable /\ ~ jumped => last.accepted /\ Extended(sending) = top

\* The number of packets the producer's stream expects is the number of packets
\* from the first to the highest one.  Not for a stream whose first sequence
\* number is 0: it counts a cycle at once.
ExpectedIsRight ==
    received.started /\ ~ jumped
    => LET first == CHOOSE f \in FirstPackets : Number(f) = received.baseSeq
       IN  Number(first) # 0 => GetExpectedPackets(received) = highest - first + 1

\* Both streams follow the packets: what the one accepts the other accepts, and
\* both count cycles once (RtpStream.cpp:170-236).
StreamsCountRight == SendingFollows /\ ExpectedIsRight

\* A packet that was sent can be sent again, if it is not larger than MtuSize: its
\* number leads to it, the buffer is not larger than its storage, and the index
\* of the oldest entry is the index of an entry, whatever larger packets, which
\* are sent and not stored, came in between.
SentIsStored ==
    /\ last # NoPacket /\ last.accepted /\ last.packet \notin Oversized /\ Used(buffer) # {}
         => buffer[last.output].packet = last.packet
    /\ Cardinality(Used(buffer)) <= BufferSize
    /\ Used(buffer) # {} => bufferStartIdx \in Used(buffer)

\* A packet that is sent again has the number the peer asks for: the last one
\* with this sequence number.  A late packet may stay in the buffer, under a
\* number the index of the oldest entry has passed, until the numbers have gone
\* round; its age is what keeps it from being sent as the packet of the next
\* round, which may be lost or yet to come.  But only up to the age at which the
\* computation overflows: an older one may be sent.
RetransmissionIsRight ==
    comparable /\ ~ jumped
    => \A q \in SeqNum :
         Resent(buffer, q, maxPacketTs)
         => top - buffer[q].number < SeqMod \/ maxPacketTs - buffer[q].packet >= AgeMod

\* Not true: the same for packets of every age.
OverflowHarmless ==
    comparable /\ ~ jumped
    => \A q \in SeqNum : Resent(buffer, q, maxPacketTs) => top - buffer[q].number < SeqMod

\* Not true: the comment of FillRetransmissionContainer, not to resend a packet
\* older than MaxRetransmissionDelay.
TooOldNotResent ==
    \A q \in SeqNum : Resent(buffer, q, maxPacketTs) => maxPacketTs - buffer[q].packet <= MaxAge
=============================================================================
