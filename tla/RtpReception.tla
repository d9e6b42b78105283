---------------------------- MODULE RtpReception ----------------------------
(***************************************************************************)
(* How a transport of the worker assigns received RTP packets: to one of   *)
(* its producers through RTC::RtpListener (Transport::ReceiveRtpPacket),   *)
(* and there to one of the producer's streams, which is created by its     *)
(* first packet (Producer::GetRtpStream).  Producers come and go between   *)
(* the packets, and the peer decides the order in which SSRCs appear, with *)
(* or without MID and RID.                                                 *)
(*                                                                         *)
(* A stream is the index of its encoding: RtpStream of the C++ code is an  *)
(* entry of rtpStreamByEncodingIdx, the two maps lead from SSRCs to it.    *)
(***************************************************************************)
EXTENDS RtpListener

CONSTANTS Parameters,       \* RTP parameters the application produces with
          MaxEncodings      \* bound: encodings of a producer

ASSUME ParametersAssumption ==
    /\ MaxEncodings \in Nat \ {0}
    /\ \A params \in Parameters :
          /\ params \in RtpParameters
          /\ Len(params.encodings) <= MaxEncodings
          /\ \A i \in 1 .. Len(params.encodings) :
                params.encodings[i].codec # params.encodings[i].rtxCodec

VARIABLES
    tables,                 \* Transport::rtpListener
    rtpParameters,          \* of each producer in Transport::mapProducers, else None
    rtpStreamByEncodingIdx, \* of each producer
    mapSsrcRtpStream,       \* of each producer: SSRC to encoding index, or 0
    mapRtxSsrcRtpStream,    \* of each producer: RTX SSRC to encoding index, or 0
    aborted                 \* an MS_ASSERT or MS_ABORT ended the worker

streamVars == <<rtpStreamByEncodingIdx, mapSsrcRtpStream, mapRtxSsrcRtpStream>>

vars == <<tables, rtpParameters, streamVars, aborted>>

EncodingIdx == 1 .. MaxEncodings

RtpStream == [ssrc : Ssrc, rtxSsrc : Ssrc \cup {None}]

ASSUME NoneIsNoRecord == None \notin Parameters \cup RtpStream

HasRtx(stream) == stream.rtxSsrc # None

mapProducers == {p \in Producer : rtpParameters[p] # None}

NoStreams == [i \in EncodingIdx |-> None]

NoSsrcs == [s \in Ssrc |-> 0]

Init ==
    /\ tables = NoEntries
    /\ rtpParameters = [p \in Producer |-> None]
    /\ rtpStreamByEncodingIdx = [p \in Producer |-> NoStreams]
    /\ mapSsrcRtpStream = [p \in Producer |-> NoSsrcs]
    /\ mapRtxSsrcRtpStream = [p \in Producer |-> NoSsrcs]
    /\ aborted = FALSE

---------------------------------------------------------------------------
(* Producers.                                                              *)

\* transport.produce: the producer is new, its address p is not in use.
Produce(p, params) ==
    /\ p \notin mapProducers
    /\ Accepted(tables, params)
    /\ tables' = AddProducer(tables, p, params)
    /\ rtpParameters' = [rtpParameters EXCEPT ![p] = params]
    /\ UNCHANGED <<streamVars, aborted>>

\* AddProducer throws: the producer is deleted.
ProduceRefused(p, params) ==
    /\ p \notin mapProducers
    /\ ~ Accepted(tables, params)
    /\ tables' = AddProducer(tables, p, params)
    /\ UNCHANGED <<rtpParameters, streamVars, aborted>>

\* The router has a producer with this id: OnTransportNewProducer throws.
ProduceTwice(p, params) ==
    /\ p \notin mapProducers
    /\ Accepted(tables, params)
    /\ tables' = RemoveProducer(AddProducer(tables, p, params), p)
    /\ UNCHANGED <<rtpParameters, streamVars, aborted>>

\* producer.close, with the producer's destructor.
ProducerClose(p) ==
    /\ p \in mapProducers
    /\ tables' = RemoveProducer(tables, p)
    /\ rtpParameters' = [rtpParameters EXCEPT ![p] = None]
    /\ rtpStreamByEncodingIdx' = [rtpStreamByEncodingIdx EXCEPT ![p] = NoStreams]
    /\ mapSsrcRtpStream' = [mapSsrcRtpStream EXCEPT ![p] = NoSsrcs]
    /\ mapRtxSsrcRtpStream' = [mapRtxSsrcRtpStream EXCEPT ![p] = NoSsrcs]
    /\ UNCHANGED aborted

---------------------------------------------------------------------------
(* Producer::GetRtpStream: what a packet does to the producer's streams.   *)

Ignored == [how |-> "ignored", idx |-> 0]
Found(i) == [how |-> "found", idx |-> i]
Create(i) == [how |-> "create", idx |-> i]

SetRtxAgain(p, i) == IF i = 0 THEN Ignored ELSE [how |-> "rtx", idx |-> i]

\* The packet is the first of the RTX stream of stream i, if there is a
\* stream and its RTX stream is not known yet.
SetRtx(p, i) ==
    IF i = 0 THEN Ignored
    ELSE IF HasRtx(rtpStreamByEncodingIdx[p][i]) THEN Ignored
    ELSE [how |-> "rtx", idx |-> i]

IsMediaPacket(encoding, packet) == encoding.codec = packet.payloadType
IsRtxPacket(encoding, packet) == encoding.rtxCodec = packet.payloadType

First(S) == CHOOSE i \in S : \A j \in S : i <= j

\* The encodings that have the packet's SSRC, as media or as RTX.
EncodingsBySsrc(encodings, packet) ==
    {i \in 1 .. Len(encodings) :
        \/ IsMediaPacket(encodings[i], packet) /\ encodings[i].ssrc = packet.ssrc
        \/ /\ IsRtxPacket(encodings[i], packet)
           /\ encodings[i].hasRtx /\ encodings[i].rtxSsrc = packet.ssrc}

StreamBySsrc(p, encodings, packet) ==
    LET i == First(EncodingsBySsrc(encodings, packet))
    IN  IF IsMediaPacket(encodings[i], packet) THEN Create(i)
        ELSE SetRtx(p, mapSsrcRtpStream[p][encodings[i].ssrc])

\* The encodings that have the packet's RID and a codec for it.
EncodingsByRid(encodings, packet) ==
    {i \in 1 .. Len(encodings) :
        /\ encodings[i].rid = packet.rid
        /\ IsMediaPacket(encodings[i], packet) \/ IsRtxPacket(encodings[i], packet)}

StreamsWithRid(p, encodings, rid) ==
    {i \in 1 .. Len(encodings) : rtpStreamByEncodingIdx[p][i] # None /\ encodings[i].rid = rid}

\* mapSsrcRtpStream is searched in the order of the SSRCs.
FirstWithRid(p, encodings, rid) ==
    IF StreamsWithRid(p, encodings, rid) = {} THEN 0
    ELSE CHOOSE i \in StreamsWithRid(p, encodings, rid) :
            \A j \in StreamsWithRid(p, encodings, rid) :
               rtpStreamByEncodingIdx[p][i].ssrc <= rtpStreamByEncodingIdx[p][j].ssrc

StreamByRid(p, encodings, packet) ==
    IF EncodingsByRid(encodings, packet) = {} THEN Ignored
    ELSE LET i == First(EncodingsByRid(encodings, packet))
             same == FirstWithRid(p, encodings, packet.rid)
         IN  IF IsMediaPacket(encodings[i], packet)
             THEN IF same = 0 THEN Create(i) ELSE Ignored
             ELSE SetRtx(p, same)

\* One encoding without SSRC and RID takes the first stream that comes.
SingleStream(p, encodings, packet) ==
    IF Len(encodings) # 1 \/ encodings[1].ssrc # 0 \/ encodings[1].rid # None THEN Ignored
    ELSE IF IsMediaPacket(encodings[1], packet)
    THEN IF rtpStreamByEncodingIdx[p][1] = None THEN Create(1) ELSE Ignored
    ELSE IF IsRtxPacket(encodings[1], packet)
    THEN IF rtpStreamByEncodingIdx[p][1] = None THEN Ignored ELSE SetRtx(p, 1)
    ELSE Ignored

NewStream(p, encodings, packet) ==
    IF EncodingsBySsrc(encodings, packet) # {} THEN StreamBySsrc(p, encodings, packet)
    ELSE IF packet.rid # None THEN StreamByRid(p, encodings, packet)
    ELSE SingleStream(p, encodings, packet)

GetRtpStream(p, packet) ==
    IF mapSsrcRtpStream[p][packet.ssrc] # 0 THEN Found(mapSsrcRtpStream[p][packet.ssrc])
    ELSE IF mapRtxSsrcRtpStream[p][packet.ssrc] # 0 THEN Found(mapRtxSsrcRtpStream[p][packet.ssrc])
    ELSE NewStream(p, rtpParameters[p].encodings, packet)

---------------------------------------------------------------------------
(* Transport::ReceiveRtpPacket, by what becomes of the packet.             *)

\* No producer: the packet is dropped.  A packet for a known stream and one
\* that GetRtpStream ignores have the same effect on this state: the SSRC is
\* learned, if MID or RID led to the producer.
Received(packet) ==
    LET p == LookUp(tables, packet)
    IN  /\ p # None => GetRtpStream(p, packet).how \in {"ignored", "found"}
        /\ tables' = Learned(tables, packet)
        /\ UNCHANGED <<rtpParameters, streamVars, aborted>>

\* CreateRtpStream, when its assertions hold.
CreateRtpStream(packet) ==
    LET p == LookUp(tables, packet)
        i == GetRtpStream(p, packet).idx
    IN  /\ p # None
        /\ GetRtpStream(p, packet).how = "create"
        /\ rtpStreamByEncodingIdx[p][i] = None
        /\ tables' = Learned(tables, packet)
        /\ rtpStreamByEncodingIdx' =
              [rtpStreamByEncodingIdx EXCEPT ![p][i] = [ssrc |-> packet.ssrc, rtxSsrc |-> None]]
        /\ mapSsrcRtpStream' = [mapSsrcRtpStream EXCEPT ![p][packet.ssrc] = i]
        /\ UNCHANGED <<rtpParameters, mapRtxSsrcRtpStream, aborted>>

\* SetRtx and the entry of the RTX SSRC.
CreateRtxStream(packet) ==
    LET p == LookUp(tables, packet)
        i == GetRtpStream(p, packet).idx
    IN  /\ p # None
        /\ GetRtpStream(p, packet).how = "rtx"
        /\ tables' = Learned(tables, packet)
        /\ rtpStreamByEncodingIdx' = [rtpStreamByEncodingIdx EXCEPT ![p][i].rtxSsrc = packet.ssrc]
        /\ mapRtxSsrcRtpStream' = [mapRtxSsrcRtpStream EXCEPT ![p][packet.ssrc] = i]
        /\ UNCHANGED <<rtpParameters, mapSsrcRtpStream, aborted>>

\* The encoding has a stream with another SSRC: an assertion of
\* CreateRtpStream fails.
EncodingInUse(packet) ==
    LET p == LookUp(tables, packet)
    IN  /\ p # None
        /\ GetRtpStream(p, packet).how = "create"
        /\ rtpStreamByEncodingIdx[p][GetRtpStream(p, packet).idx] # None
        /\ aborted' = TRUE
        /\ UNCHANGED <<tables, rtpParameters, streamVars>>

Next ==
    /\ ~ aborted
    /\ \/ \E p \in Producer, params \in Parameters :
             \/ Produce(p, params)
             \/ ProduceRefused(p, params)
             \/ ProduceTwice(p, params)
       \/ \E p \in Producer : ProducerClose(p)
       \/ \E packet \in RtpPacket :
             \/ Received(packet)
             \/ CreateRtpStream(packet)
             \/ CreateRtxStream(packet)
             \/ EncodingInUse(packet)

Spec == Init /\ [][Next]_vars

---------------------------------------------------------------------------
(* Properties.                                                             *)

TypeOK ==
    /\ tables \in Tables
    /\ rtpParameters \in [Producer -> Parameters \cup {None}]
    /\ rtpStreamByEncodingIdx \in [Producer -> [EncodingIdx -> RtpStream \cup {None}]]
    /\ mapSsrcRtpStream \in [Producer -> [Ssrc -> 0 .. MaxEncodings]]
    /\ mapRtxSsrcRtpStream \in [Producer -> [Ssrc -> 0 .. MaxEncodings]]
    /\ aborted \in BOOLEAN

(***************************************************************************)
(* No table of the RtpListener keeps the address of a deleted producer:    *)
(* not when AddProducer fails half way, not when the router refuses the    *)
(* producer, not for SSRCs that packets have added since.                  *)
(***************************************************************************)
NoDanglingProducers ==
    /\ \A s \in Ssrc : tables.ssrcTable[s] \in mapProducers \cup {None}
    /\ \A m \in Mid : tables.midTable[m] \in mapProducers \cup {None}
    /\ \A r \in Rid : tables.ridTable[r] \in mapProducers \cup {None}

(***************************************************************************)
(* What a producer declares leads to it for as long as it exists, whatever *)
(* GetProducer learned from packets before and since: its SSRCs and its    *)
(* MID, and its RIDs when it has no MID.  (RIDs of producers with a MID    *)
(* may belong to another one, or to none after that one is closed.)        *)
(***************************************************************************)
DeclaredGoToOwner ==
    \A p \in mapProducers :
        LET params == rtpParameters[p]
        IN  /\ \A a \in SsrcPositions(params) :
                  SsrcAt(params, a) # 0 => tables.ssrcTable[SsrcAt(params, a)] = p
            /\ params.mid # None => tables.midTable[params.mid] = p
            /\ params.mid = None =>
                  \A i \in 1 .. Len(params.encodings) :
                     params.encodings[i].rid # None => tables.ridTable[params.encodings[i].rid] = p

(***************************************************************************)
(* The streams of the producers and the tables agree: an SSRC is the media *)
(* SSRC or the RTX SSRC of at most one stream of one producer, that        *)
(* producer is the one the RtpListener gives its packets and reports to,   *)
(* and the stream that GetRtpStream finds for an SSRC has this SSRC, so    *)
(* that "found stream does not match received packet" cannot be reached.   *)
(***************************************************************************)
StreamsMatchTables ==
    \A p \in Producer, s \in Ssrc :
        LET media == mapSsrcRtpStream[p][s]
            rtx == mapRtxSsrcRtpStream[p][s]
        IN  /\ media = 0 \/ rtx = 0
            /\ media # 0 => /\ rtpStreamByEncodingIdx[p][media] # None
                            /\ rtpStreamByEncodingIdx[p][media].ssrc = s
            /\ rtx # 0 => /\ rtpStreamByEncodingIdx[p][rtx] # None
                          /\ rtpStreamByEncodingIdx[p][rtx].rtxSsrc = s
            /\ media # 0 \/ rtx # 0 => tables.ssrcTable[s] = p

(***************************************************************************)
(* The tables lead to producers that exist, and to the streams they have.  *)
(***************************************************************************)
TablesSound == NoDanglingProducers /\ StreamsMatchTables

(***************************************************************************)
(* An SSRC never changes hands: neither a packet nor a new producer takes  *)
(* it from the producer that has it, as long as that one exists, and a     *)
(* stream keeps its SSRC and, once known, its RTX SSRC.                    *)
(***************************************************************************)
SsrcKept ==
    /\ \A s \in Ssrc :
          tables.ssrcTable[s] \in mapProducers' => tables'.ssrcTable[s] = tables.ssrcTable[s]
    /\ \A p \in mapProducers', i \in EncodingIdx :
          LET before == rtpStreamByEncodingIdx[p][i]
              after == rtpStreamByEncodingIdx'[p][i]
          IN  before # None => /\ after # None
                               /\ after.ssrc = before.ssrc
                               /\ HasRtx(before) => after.rtxSsrc = before.rtxSsrc

SsrcsKept == [][SsrcKept]_vars
=============================================================================
