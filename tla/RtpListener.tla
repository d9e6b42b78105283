---------------------------- MODULE RtpListener ----------------------------
(***************************************************************************)
(* RTC::RtpListener of the worker: the three tables by which a transport   *)
(* finds the producer of a received RTP packet, as operators on a record   *)
(* of tables.  A producer is its address.  The SSRC 0 stands for an SSRC   *)
(* that is not given, as in the code, and is a legal SSRC of a packet.     *)
(***************************************************************************)
EXTENDS Naturals, Sequences

CONSTANTS Producer,     \* addresses of producers
          Ssrc, Mid, Rid, PayloadType,
          None          \* a field or table entry that is not there

ASSUME SsrcAssumption == Ssrc \subseteq Nat /\ 0 \in Ssrc
ASSUME NoneAssumption == None \notin Producer \cup Ssrc \cup Mid \cup Rid \cup PayloadType

Encoding ==
    [ssrc : Ssrc, rtxSsrc : Ssrc, hasRtx : BOOLEAN, rid : Rid \cup {None},
     codec : PayloadType, rtxCodec : PayloadType \cup {None}]

RtpParameters == [mid : Mid \cup {None}, encodings : Seq(Encoding) \ {<<>>}]

\* What the code reads of a received packet.
RtpPacket == [ssrc : Ssrc, mid : Mid \cup {None}, rid : Rid \cup {None}, payloadType : PayloadType]

Tables ==
    [ssrcTable : [Ssrc -> Producer \cup {None}],
     midTable  : [Mid -> Producer \cup {None}],
     ridTable  : [Rid -> Producer \cup {None}]]

NoEntries ==
    [ssrcTable |-> [s \in Ssrc |-> None],
     midTable  |-> [m \in Mid |-> None],
     ridTable  |-> [r \in Rid |-> None]]

---------------------------------------------------------------------------
(* AddProducer enters the SSRCs of an encoding and then the one of its     *)
(* RTX stream, encoding after encoding, then the MID, then the RIDs.  It   *)
(* stops at the first clash, also with an entry of its own.                *)

\* The loop over the encodings visits <<i, 1>> (media) before <<i, 2>> (RTX).
SsrcPositions(params) == (1 .. Len(params.encodings)) \X {1, 2}

Precedes(a, b) == a[1] < b[1] \/ (a[1] = b[1] /\ a[2] < b[2])

SsrcAt(params, a) ==
    IF a[2] = 1 THEN params.encodings[a[1]].ssrc ELSE params.encodings[a[1]].rtxSsrc

SsrcClash(t, params, a) ==
    /\ SsrcAt(params, a) # 0
    /\ \/ t.ssrcTable[SsrcAt(params, a)] # None
       \/ \E b \in SsrcPositions(params) :
             Precedes(b, a) /\ SsrcAt(params, b) = SsrcAt(params, a)

SsrcsFree(t, params) == \A a \in SsrcPositions(params) : ~ SsrcClash(t, params, a)

\* The SSRCs entered before the first clash.
EnteredSsrcs(t, params) ==
    {SsrcAt(params, a) : a \in {b \in SsrcPositions(params) :
        /\ SsrcAt(params, b) # 0
        /\ ~ SsrcClash(t, params, b)
        /\ \A c \in SsrcPositions(params) : Precedes(c, b) => ~ SsrcClash(t, params, c)}}

WithSsrcs(t, p, params) ==
    [t EXCEPT !.ssrcTable = [s \in Ssrc |-> IF s \in EnteredSsrcs(t, params)
                                            THEN p ELSE t.ssrcTable[s]]]

MidFree(t, params) == params.mid # None => t.midTable[params.mid] = None

WithMid(t, p, params) ==
    [t EXCEPT !.midTable = [m \in Mid |-> IF m = params.mid THEN p ELSE t.midTable[m]]]

\* A RID in use is no clash when the MID tells the producers apart.
RidClash(t, params, i) ==
    LET rid == params.encodings[i].rid
    IN  /\ rid # None /\ params.mid = None
        /\ \/ t.ridTable[rid] # None
           \/ \E j \in 1 .. Len(params.encodings) : j < i /\ params.encodings[j].rid = rid

RidsFree(t, params) == \A i \in 1 .. Len(params.encodings) : ~ RidClash(t, params, i)

WithRids(t, p, params) ==
    [t EXCEPT !.ridTable = [r \in Rid |->
        IF /\ t.ridTable[r] = None
           /\ \E i \in 1 .. Len(params.encodings) :
                 /\ params.encodings[i].rid = r
                 /\ \A j \in 1 .. Len(params.encodings) : j <= i => ~ RidClash(t, params, j)
        THEN p ELSE t.ridTable[r]]]

RemoveProducer(t, p) ==
    [ssrcTable |-> [s \in Ssrc |-> IF t.ssrcTable[s] = p THEN None ELSE t.ssrcTable[s]],
     midTable  |-> [m \in Mid |-> IF t.midTable[m] = p THEN None ELSE t.midTable[m]],
     ridTable  |-> [r \in Rid |-> IF t.ridTable[r] = p THEN None ELSE t.ridTable[r]]]

\* AddProducer does not throw.
Accepted(t, params) == SsrcsFree(t, params) /\ MidFree(t, params) /\ RidsFree(t, params)

\* The tables at the end of AddProducer, or where it meets a clash.
Entered(t, p, params) ==
    IF SsrcsFree(t, params) /\ MidFree(t, params)
    THEN WithRids(WithMid(WithSsrcs(t, p, params), p, params), p, params)
    ELSE WithSsrcs(t, p, params)

AddKeepsPartial(t, p, params) == Entered(t, p, params)

AddProducer(t, p, params) ==
    IF Accepted(t, params) THEN Entered(t, p, params)
    ELSE RemoveProducer(Entered(t, p, params), p)

---------------------------------------------------------------------------
(* GetProducer: by SSRC, else by MID, else by RID.  What MID or RID found  *)
(* is remembered under the packet's SSRC.                                  *)

ByMidFirst(t, packet) ==
    IF packet.mid # None /\ t.midTable[packet.mid] # None THEN t.midTable[packet.mid]
    ELSE IF t.ssrcTable[packet.ssrc] # None THEN t.ssrcTable[packet.ssrc]
    ELSE IF packet.rid # None THEN t.ridTable[packet.rid]
    ELSE None

LookUp(t, packet) ==
    IF t.ssrcTable[packet.ssrc] # None THEN t.ssrcTable[packet.ssrc]
    ELSE IF packet.mid # None /\ t.midTable[packet.mid] # None THEN t.midTable[packet.mid]
    ELSE IF packet.rid # None THEN t.ridTable[packet.rid]
    ELSE None

Learned(t, packet) ==
    [t EXCEPT !.ssrcTable = [s \in Ssrc |->
        IF s = packet.ssrc /\ LookUp(t, packet) # None THEN LookUp(t, packet)
        ELSE t.ssrcTable[s]]]
=============================================================================
