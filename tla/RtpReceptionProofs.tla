------------------------- MODULE RtpReceptionProofs -------------------------
(***************************************************************************)
(* Proofs about RtpReception for every set of producers, SSRCs, MIDs, RIDs *)
(* and RTP parameters.  The invariant is the conjunction of the type       *)
(* invariant with the three properties; they need each other: a stream     *)
(* keeps its SSRC because the listener's table already gives the SSRC to   *)
(* its producer, and an address can be used again because no table has it. *)
(***************************************************************************)
EXTENDS RtpReception, TLAPS, WellFoundedInduction

Inv ==
    /\ TypeOK
    /\ NoDanglingProducers
    /\ DeclaredGoToOwner
    /\ StreamsMatchTables

---------------------------------------------------------------------------
(* The tables.                                                             *)

\* A set of natural numbers that is not empty has a smallest element, the one
\* that First chooses.
LEMMA SmallestExists ==
    ASSUME NEW T, T \subseteq Nat, T # {}
    PROVE  \E x \in T : \A y \in T : x <= y
  <1>1. PICK x \in T : \A y \in T : ~ (<<y, x>> \in OpToRel(<, Nat))
    BY WFMin, NatLessThanWellFounded, Zenon
  <1>2. \A y \in T : <<y, x>> \in Nat \X Nat
    OBVIOUS
  <1>3. \A y \in T : ~ (y < x)
    BY <1>1, <1>2, Zenon DEF OpToRel
  <1> QED
    BY <1>3

\* Taking a producer out of the tables takes out nothing else.
LEMMA RemoveProducerResult ==
    ASSUME NEW t \in Tables, NEW p \in Producer
    PROVE  LET u == RemoveProducer(t, p)
           IN  /\ u \in Tables
               /\ \A s \in Ssrc : u.ssrcTable[s] = IF t.ssrcTable[s] = p THEN None ELSE t.ssrcTable[s]
               /\ \A m \in Mid : u.midTable[m] = IF t.midTable[m] = p THEN None ELSE t.midTable[m]
               /\ \A r \in Rid : u.ridTable[r] = IF t.ridTable[r] = p THEN None ELSE t.ridTable[r]
  BY DEF RemoveProducer, Tables

\* AddProducer, up to a clash, fills entries that are free with the producer
\* and leaves the others alone.
LEMMA EnteredResult ==
    ASSUME NEW t \in Tables, NEW p \in Producer, NEW params \in RtpParameters
    PROVE  LET u == Entered(t, p, params)
           IN  /\ u \in Tables
               /\ \A s \in Ssrc : \/ u.ssrcTable[s] = t.ssrcTable[s]
                                  \/ u.ssrcTable[s] = p /\ t.ssrcTable[s] = None
               /\ \A m \in Mid : \/ u.midTable[m] = t.midTable[m]
                                 \/ u.midTable[m] = p /\ t.midTable[m] = None
               /\ \A r \in Rid : \/ u.ridTable[r] = t.ridTable[r]
                                 \/ u.ridTable[r] = p /\ t.ridTable[r] = None
  <1>1. \A s \in EnteredSsrcs(t, params) : t.ssrcTable[s] = None
    BY DEF EnteredSsrcs, SsrcClash
  <1>2. /\ WithSsrcs(t, p, params) \in Tables
        /\ WithSsrcs(t, p, params).midTable = t.midTable
        /\ WithSsrcs(t, p, params).ridTable = t.ridTable
        /\ \A s \in Ssrc : \/ WithSsrcs(t, p, params).ssrcTable[s] = t.ssrcTable[s]
                           \/ /\ WithSsrcs(t, p, params).ssrcTable[s] = p
                              /\ t.ssrcTable[s] = None
    BY <1>1 DEF WithSsrcs, Tables
  <1>3. ASSUME NEW a \in Tables
        PROVE  /\ WithMid(a, p, params) \in Tables
               /\ WithMid(a, p, params).ssrcTable = a.ssrcTable
               /\ WithMid(a, p, params).ridTable = a.ridTable
               /\ \A m \in Mid : WithMid(a, p, params).midTable[m]
                                    = IF m = params.mid THEN p ELSE a.midTable[m]
    BY DEF WithMid, Tables
  <1>4. ASSUME NEW a \in Tables
        PROVE  /\ WithRids(a, p, params) \in Tables
               /\ WithRids(a, p, params).ssrcTable = a.ssrcTable
               /\ WithRids(a, p, params).midTable = a.midTable
               /\ \A r \in Rid : \/ WithRids(a, p, params).ridTable[r] = a.ridTable[r]
                                 \/ /\ WithRids(a, p, params).ridTable[r] = p
                                    /\ a.ridTable[r] = None
    BY DEF WithRids, Tables
  <1>5. CASE SsrcsFree(t, params) /\ MidFree(t, params)
    <2> DEFINE a == WithSsrcs(t, p, params)
               b == WithMid(a, p, params)
               c == WithRids(b, p, params)
    <2>1. Entered(t, p, params) = c
      BY <1>5 DEF Entered
    <2>2. a \in Tables /\ b \in Tables /\ c \in Tables
      BY <1>2, <1>3, <1>4
    <2>3. \A m \in Mid : m = params.mid => t.midTable[m] = None
      BY <1>5, NoneAssumption DEF MidFree
    <2>4. \A s \in Ssrc : c.ssrcTable[s] = a.ssrcTable[s]
      BY <1>3, <1>4, <2>2
    <2>5. \A m \in Mid : c.midTable[m] = IF m = params.mid THEN p ELSE t.midTable[m]
      BY <1>2, <1>3, <1>4, <2>2
    <2>6. \A r \in Rid : \/ c.ridTable[r] = t.ridTable[r]
                         \/ c.ridTable[r] = p /\ t.ridTable[r] = None
      BY <1>2, <1>3, <1>4, <2>2
    <2> HIDE DEF a, b, c
    <2> QED
      BY <1>2, <2>1, <2>2, <2>3, <2>4, <2>5, <2>6 DEF a
  <1>6. CASE ~ (SsrcsFree(t, params) /\ MidFree(t, params))
    BY <1>2, <1>6 DEF Entered
  <1> QED
    BY <1>5, <1>6

LEMMA SsrcAtType ==
    ASSUME NEW params \in RtpParameters
    PROVE  /\ \A i \in 1 .. Len(params.encodings) : params.encodings[i] \in Encoding
           /\ \A a \in SsrcPositions(params) : SsrcAt(params, a) \in Ssrc
  <1>1. \A i \in 1 .. Len(params.encodings) : params.encodings[i] \in Encoding
    BY DEF RtpParameters
  <1> QED
    BY <1>1 DEF SsrcPositions, SsrcAt, Encoding

\* A producer whose AddProducer does not throw has all it declares.
LEMMA AcceptedResult ==
    ASSUME NEW t \in Tables, NEW p \in Producer, NEW params \in RtpParameters,
           Accepted(t, params)
    PROVE  LET u == Entered(t, p, params)
           IN  /\ \A a \in SsrcPositions(params) :
                     SsrcAt(params, a) # 0 => u.ssrcTable[SsrcAt(params, a)] = p
               /\ params.mid # None => u.midTable[params.mid] = p
               /\ params.mid = None =>
                     \A i \in 1 .. Len(params.encodings) :
                        params.encodings[i].rid # None => u.ridTable[params.encodings[i].rid] = p
  <1> DEFINE a == WithSsrcs(t, p, params)
             b == WithMid(a, p, params)
             c == WithRids(b, p, params)
  <1>1. Entered(t, p, params) = c
    BY DEF Accepted, Entered
  <1>2. \A i \in 1 .. Len(params.encodings) : params.encodings[i] \in Encoding
    BY SsrcAtType
  <1>3. \A x \in SsrcPositions(params) : SsrcAt(params, x) \in Ssrc
    BY SsrcAtType
  <1>4. \A x \in SsrcPositions(params) :
           SsrcAt(params, x) # 0 => SsrcAt(params, x) \in EnteredSsrcs(t, params)
    BY DEF Accepted, SsrcsFree, EnteredSsrcs
  <1>5. \A x \in SsrcPositions(params) :
           SsrcAt(params, x) # 0 => a.ssrcTable[SsrcAt(params, x)] = p
    BY <1>3, <1>4 DEF WithSsrcs, Tables
  <1>6. b.ssrcTable = a.ssrcTable /\ b.ridTable = t.ridTable /\ a.midTable = t.midTable
    BY DEF WithSsrcs, WithMid, Tables
  <1>7. params.mid # None => b.midTable[params.mid] = p
    BY DEF WithSsrcs, WithMid, Tables, RtpParameters
  <1>8. c.ssrcTable = a.ssrcTable /\ c.midTable = b.midTable
    BY DEF WithSsrcs, WithMid, WithRids, Tables
  <1>9. ASSUME params.mid = None, NEW i \in 1 .. Len(params.encodings),
               params.encodings[i].rid # None
        PROVE  c.ridTable[params.encodings[i].rid] = p
    <2>1. params.encodings[i].rid \in Rid
      BY <1>2, <1>9 DEF Encoding
    <2>2. \A j \in 1 .. Len(params.encodings) : ~ RidClash(t, params, j)
      BY DEF Accepted, RidsFree
    <2>3. t.ridTable[params.encodings[i].rid] = None
      BY <1>9, <2>2 DEF RidClash
    <2>4. \A j \in 1 .. Len(params.encodings) : ~ RidClash(b, params, j)
      BY <1>6, <2>2 DEF RidClash
    <2>5. b \in [ssrcTable : [Ssrc -> Producer \cup {None}], midTable : [Mid -> Producer \cup {None}],
                 ridTable : [Rid -> Producer \cup {None}]]
      BY DEF WithSsrcs, WithMid, Tables
    <2> HIDE DEF b
    <2> QED
      BY <1>6, <2>1, <2>3, <2>4, <2>5 DEF WithRids
  <1> HIDE DEF a, b, c
  <1> QED
    BY <1>1, <1>5, <1>7, <1>8, <1>9

\* A producer that is not in the tables and is refused leaves no trace.
LEMMA RefusedResult ==
    ASSUME Inv, NEW p \in Producer, p \notin mapProducers, NEW params \in Parameters
    PROVE  RemoveProducer(Entered(tables, p, params), p) = tables
  <1> DEFINE e == Entered(tables, p, params)
             u == RemoveProducer(e, p)
  <1>1. tables \in Tables /\ params \in RtpParameters
    BY ParametersAssumption DEF Inv, TypeOK
  <1>2. /\ \A s \in Ssrc : tables.ssrcTable[s] # p
        /\ \A m \in Mid : tables.midTable[m] # p
        /\ \A r \in Rid : tables.ridTable[r] # p
    BY NoneAssumption DEF Inv, NoDanglingProducers
  <1>3. e \in Tables
    BY <1>1, EnteredResult
  <1>4. u \in Tables
    BY <1>3, RemoveProducerResult
  <1>5. \A s \in Ssrc : u.ssrcTable[s] = tables.ssrcTable[s]
    BY <1>1, <1>2, <1>3, EnteredResult, RemoveProducerResult
  <1>6. \A m \in Mid : u.midTable[m] = tables.midTable[m]
    BY <1>1, <1>2, <1>3, EnteredResult, RemoveProducerResult
  <1>7. \A r \in Rid : u.ridTable[r] = tables.ridTable[r]
    BY <1>1, <1>2, <1>3, EnteredResult, RemoveProducerResult
  <1> HIDE DEF u, e
  <1>8. u.ssrcTable = tables.ssrcTable /\ u.midTable = tables.midTable /\ u.ridTable = tables.ridTable
    BY <1>1, <1>4, <1>5, <1>6, <1>7 DEF Tables
  <1> QED
    BY <1>1, <1>4, <1>8 DEF Tables, u, e

---------------------------------------------------------------------------
(* What GetRtpStream returns.                                              *)

\* A stream is created for an encoding, and an RTX stream for a stream that
\* has none.
Sound(p, result) ==
    /\ result.how = "create" => result.idx \in EncodingIdx
    /\ result.how = "rtx" => /\ result.idx \in EncodingIdx
                             /\ rtpStreamByEncodingIdx[p][result.idx] # None
                             /\ rtpStreamByEncodingIdx[p][result.idx].rtxSsrc = None

LEMMA SetRtxSound ==
    ASSUME NEW p, NEW i \in 0 .. MaxEncodings,
           i # 0 => rtpStreamByEncodingIdx[p][i] # None
    PROVE  Sound(p, SetRtx(p, i)) /\ SetRtx(p, i).how # "create"
  BY ParametersAssumption DEF Sound, SetRtx, Ignored, HasRtx, EncodingIdx

LEMMA FirstIn ==
    ASSUME NEW n \in Nat, NEW S \in SUBSET (1 .. n), S # {}
    PROVE  First(S) \in S
  <1>1. S \subseteq Nat
    OBVIOUS
  <1>2. \E i \in S : \A j \in S : i <= j
    BY <1>1, SmallestExists
  <1> QED
    BY <1>2, Zenon DEF First

\* The stream with the smallest SSRC is one of the streams with the RID.
LEMMA FirstWithRidIn ==
    ASSUME Inv, NEW p \in mapProducers, NEW rid,
           StreamsWithRid(p, rtpParameters[p].encodings, rid) # {}
    PROVE  FirstWithRid(p, rtpParameters[p].encodings, rid)
              \in StreamsWithRid(p, rtpParameters[p].encodings, rid)
  <1> DEFINE S == StreamsWithRid(p, rtpParameters[p].encodings, rid)
             T == {rtpStreamByEncodingIdx[p][i].ssrc : i \in S}
  <1>1. /\ rtpParameters[p] \in Parameters
        /\ Len(rtpParameters[p].encodings) \in Nat
        /\ Len(rtpParameters[p].encodings) <= MaxEncodings
    BY ParametersAssumption DEF Inv, TypeOK, mapProducers, RtpParameters
  <1>2. \A i \in S : i \in EncodingIdx /\ rtpStreamByEncodingIdx[p][i] # None
    BY <1>1, ParametersAssumption DEF StreamsWithRid, EncodingIdx
  <1>3. \A i \in S : rtpStreamByEncodingIdx[p][i].ssrc \in Nat
    <2>1. \A i \in EncodingIdx : rtpStreamByEncodingIdx[p][i] \in RtpStream \cup {None}
      BY DEF Inv, TypeOK, mapProducers
    <2>2. \A i \in S : rtpStreamByEncodingIdx[p][i] \in RtpStream
      BY <1>2, <2>1
    <2> QED
      BY <2>2, SsrcAssumption DEF RtpStream
  <1>4. \E x \in T : \A y \in T : x <= y
    <2>1. T \subseteq Nat /\ T # {}
      BY <1>3
    <2> HIDE DEF T
    <2> QED
      BY <2>1, SmallestExists
  <1>5. \E i \in S : \A j \in S :
           rtpStreamByEncodingIdx[p][i].ssrc <= rtpStreamByEncodingIdx[p][j].ssrc
    BY <1>4
  <1> QED
    BY <1>5, Zenon DEF FirstWithRid

LEMMA NewStreamSound ==
    ASSUME Inv, NEW p \in mapProducers, NEW packet \in RtpPacket
    PROVE  Sound(p, NewStream(p, rtpParameters[p].encodings, packet))
  <1> DEFINE e == rtpParameters[p].encodings
  <1>1. /\ p \in Producer
        /\ Len(e) \in Nat /\ Len(e) <= MaxEncodings /\ Len(e) >= 1
        /\ \A i \in 1 .. Len(e) : e[i] \in Encoding
    <2>1. rtpParameters[p] \in RtpParameters /\ Len(e) <= MaxEncodings /\ p \in Producer
      BY ParametersAssumption DEF Inv, TypeOK, mapProducers
    <2>2. e \in Seq(Encoding) /\ e # <<>>
      BY <2>1 DEF RtpParameters
    <2> HIDE DEF e
    <2> QED
      BY <2>1, <2>2
  <1> HIDE DEF e
  <1>2. \A i \in 1 .. Len(e) : i \in EncodingIdx /\ Sound(p, Create(i))
    BY <1>1, ParametersAssumption DEF EncodingIdx, Sound, Create
  <1>3. Sound(p, Ignored)
    BY DEF Sound, Ignored
  <1>4. CASE EncodingsBySsrc(e, packet) # {}
    <2> DEFINE i == First(EncodingsBySsrc(e, packet))
    <2>1. i \in 1 .. Len(e)
      <3>1. EncodingsBySsrc(e, packet) \in SUBSET (1 .. Len(e))
        BY DEF EncodingsBySsrc
      <3>2. i \in EncodingsBySsrc(e, packet)
        BY <1>1, <1>4, <3>1, FirstIn
      <3> QED
        BY <3>1, <3>2
    <2>2. LET j == mapSsrcRtpStream[p][e[i].ssrc]
          IN  j \in 0 .. MaxEncodings /\ (j # 0 => rtpStreamByEncodingIdx[p][j] # None)
      BY <1>1, <2>1 DEF Inv, TypeOK, StreamsMatchTables, Encoding
    <2>3. Sound(p, SetRtx(p, mapSsrcRtpStream[p][e[i].ssrc]))
      BY <2>2, SetRtxSound
    <2> QED
      BY <1>2, <1>4, <2>1, <2>3 DEF NewStream, StreamBySsrc, e
  <1>5. CASE EncodingsBySsrc(e, packet) = {} /\ packet.rid # None
    <2> DEFINE i == First(EncodingsByRid(e, packet))
               same == FirstWithRid(p, e, packet.rid)
    <2>1. EncodingsByRid(e, packet) # {} => i \in 1 .. Len(e)
      <3>1. EncodingsByRid(e, packet) \in SUBSET (1 .. Len(e))
        BY DEF EncodingsByRid
      <3>2. EncodingsByRid(e, packet) # {} => i \in EncodingsByRid(e, packet)
        BY <1>1, <3>1, FirstIn
      <3> QED
        BY <3>1, <3>2
    <2>2. same \in 0 .. MaxEncodings /\ (same # 0 => rtpStreamByEncodingIdx[p][same] # None)
      <3>1. CASE StreamsWithRid(p, e, packet.rid) = {}
        BY <3>1, ParametersAssumption DEF FirstWithRid
      <3>2. CASE StreamsWithRid(p, e, packet.rid) # {}
        <4>1. same \in StreamsWithRid(p, e, packet.rid)
          BY <3>2, FirstWithRidIn DEF e
        <4> HIDE DEF same
        <4> QED
          BY <1>1, <4>1, ParametersAssumption DEF StreamsWithRid
      <3> QED
        BY <3>1, <3>2
    <2>3. Sound(p, SetRtx(p, same))
      BY <2>2, SetRtxSound
    <2>4. NewStream(p, e, packet) = StreamByRid(p, e, packet)
      BY <1>5 DEF NewStream
    <2> QED
      BY <1>2, <1>3, <2>1, <2>3, <2>4 DEF StreamByRid, e
  <1>6. CASE EncodingsBySsrc(e, packet) = {} /\ packet.rid = None
    <2>1. NewStream(p, e, packet) = SingleStream(p, e, packet)
      BY <1>6 DEF NewStream
    <2>2. rtpStreamByEncodingIdx[p][1] # None => Sound(p, SetRtx(p, 1))
      BY SetRtxSound, ParametersAssumption
    <2>3. Sound(p, Create(1))
      BY <1>1, <1>2
    <2> QED
      BY <1>3, <2>1, <2>2, <2>3 DEF SingleStream, e
  <1> QED
    BY <1>4, <1>5, <1>6 DEF e

\* GetRtpStream makes a stream only for an SSRC that has none.
LEMMA GetRtpStreamSound ==
    ASSUME Inv, NEW p \in mapProducers, NEW packet \in RtpPacket
    PROVE  /\ Sound(p, GetRtpStream(p, packet))
           /\ GetRtpStream(p, packet).how \in {"create", "rtx"} =>
                 mapSsrcRtpStream[p][packet.ssrc] = 0 /\ mapRtxSsrcRtpStream[p][packet.ssrc] = 0
  <1>1. \A i : Sound(p, Found(i)) /\ Found(i).how \notin {"create", "rtx"}
    BY DEF Sound, Found
  <1> QED
    BY <1>1, NewStreamSound DEF GetRtpStream

---------------------------------------------------------------------------
(* Packets.                                                                *)

\* The producer that LookUp finds exists, and the packet's SSRC is its own
\* afterwards; no other entry changes.
LEMMA LearnedResult ==
    ASSUME Inv, NEW packet \in RtpPacket
    PROVE  LET p == LookUp(tables, packet)
               u == Learned(tables, packet)
           IN  /\ p \in mapProducers \cup {None}
               /\ u \in Tables
               /\ u.midTable = tables.midTable /\ u.ridTable = tables.ridTable
               /\ p # None => u.ssrcTable[packet.ssrc] = p
               /\ \A s \in Ssrc : \/ u.ssrcTable[s] = tables.ssrcTable[s]
                                  \/ /\ s = packet.ssrc /\ u.ssrcTable[s] = p
                                     /\ tables.ssrcTable[s] = None
  <1>1. /\ tables \in Tables /\ packet.ssrc \in Ssrc
        /\ packet.mid \in Mid \cup {None} /\ packet.rid \in Rid \cup {None}
    BY DEF Inv, TypeOK, RtpPacket
  <1>2. LookUp(tables, packet) \in mapProducers \cup {None}
    BY <1>1 DEF Inv, NoDanglingProducers, LookUp
  <1>3. mapProducers \subseteq Producer
    BY DEF mapProducers
  <1>4. tables.ssrcTable[packet.ssrc] # None =>
           LookUp(tables, packet) = tables.ssrcTable[packet.ssrc]
    BY DEF LookUp
  <1> QED
    BY <1>1, <1>2, <1>3, <1>4 DEF Learned, Tables

\* Learning an SSRC disturbs nobody.
LEMMA LearnedStep ==
    ASSUME Inv, NEW packet \in RtpPacket, tables' = Learned(tables, packet),
           UNCHANGED rtpParameters
    PROVE  /\ tables' \in Tables
           /\ mapProducers' = mapProducers
           /\ NoDanglingProducers'
           /\ DeclaredGoToOwner'
           /\ \A s \in Ssrc : tables.ssrcTable[s] # None =>
                 tables'.ssrcTable[s] = tables.ssrcTable[s]
  <1>1. mapProducers' = mapProducers
    BY DEF mapProducers
  <1>2. \A s \in Ssrc : tables.ssrcTable[s] # None => tables'.ssrcTable[s] = tables.ssrcTable[s]
    BY LearnedResult
  <1>3. NoDanglingProducers'
    BY <1>1, LearnedResult DEF Inv, NoDanglingProducers
  <1>4. DeclaredGoToOwner'
    <2> SUFFICES ASSUME NEW p \in mapProducers
                 PROVE  LET params == rtpParameters[p]
                        IN  /\ \A a \in SsrcPositions(params) : SsrcAt(params, a) # 0 =>
                                  tables'.ssrcTable[SsrcAt(params, a)] = p
                            /\ params.mid # None => tables'.midTable[params.mid] = p
                            /\ params.mid = None =>
                                  \A i \in 1 .. Len(params.encodings) :
                                     params.encodings[i].rid # None =>
                                        tables'.ridTable[params.encodings[i].rid] = p
      BY <1>1 DEF DeclaredGoToOwner
    <2>1. rtpParameters[p] \in RtpParameters /\ p # None
      BY ParametersAssumption, NoneAssumption DEF Inv, TypeOK, mapProducers
    <2>2. \A a \in SsrcPositions(rtpParameters[p]) : SsrcAt(rtpParameters[p], a) \in Ssrc
      BY <2>1, SsrcAtType
    <2>3. tables'.midTable = tables.midTable /\ tables'.ridTable = tables.ridTable
      BY LearnedResult
    <2> QED
      BY <1>2, <2>1, <2>2, <2>3 DEF Inv, DeclaredGoToOwner
  <1> QED
    BY <1>1, <1>2, <1>3, <1>4, LearnedResult

---------------------------------------------------------------------------
(* Every action preserves the invariant and keeps the SSRCs.               *)

\* Creating a stream, or an RTX stream, for an SSRC that has none.
LEMMA CreateRtpStreamStep ==
    ASSUME Inv, NEW packet \in RtpPacket, CreateRtpStream(packet)
    PROVE  Inv' /\ SsrcKept
  <1> DEFINE p == LookUp(tables, packet)
             i == GetRtpStream(p, packet).idx
             stream == [ssrc |-> packet.ssrc, rtxSsrc |-> None]
  <1>1. p \in mapProducers /\ p \in Producer /\ packet.ssrc \in Ssrc
    BY LearnedResult DEF CreateRtpStream, mapProducers, RtpPacket
  <1>2. /\ GetRtpStream(p, packet).how = "create"
        /\ rtpStreamByEncodingIdx[p][i] = None
        /\ tables' = Learned(tables, packet)
        /\ rtpStreamByEncodingIdx' = [rtpStreamByEncodingIdx EXCEPT ![p][i] = stream]
        /\ mapSsrcRtpStream' = [mapSsrcRtpStream EXCEPT ![p][packet.ssrc] = i]
        /\ UNCHANGED <<rtpParameters, mapRtxSsrcRtpStream, aborted>>
    BY DEF CreateRtpStream
  <1>3. /\ i \in EncodingIdx
        /\ mapSsrcRtpStream[p][packet.ssrc] = 0 /\ mapRtxSsrcRtpStream[p][packet.ssrc] = 0
    BY <1>1, <1>2, GetRtpStreamSound DEF Sound
  <1>4. stream \in RtpStream /\ stream # None
    BY <1>1, NoneIsNoRecord DEF RtpStream
  <1>5. tables'.ssrcTable[packet.ssrc] = p
    BY <1>1, <1>2, NoneAssumption, LearnedResult
  <1>6. /\ tables' \in Tables /\ mapProducers' = mapProducers
        /\ NoDanglingProducers' /\ DeclaredGoToOwner'
        /\ \A s \in Ssrc : tables.ssrcTable[s] # None => tables'.ssrcTable[s] = tables.ssrcTable[s]
    BY <1>2, LearnedStep
  <1> HIDE DEF p, i, stream
  <1>7. TypeOK'
    BY <1>1, <1>2, <1>3, <1>4, <1>6, ParametersAssumption DEF Inv, TypeOK, EncodingIdx
  <1>8. StreamsMatchTables'
    <2> SUFFICES ASSUME NEW q \in Producer, NEW s \in Ssrc
                 PROVE  LET media == mapSsrcRtpStream'[q][s]
                            rtx == mapRtxSsrcRtpStream'[q][s]
                        IN  /\ media = 0 \/ rtx = 0
                            /\ media # 0 => /\ rtpStreamByEncodingIdx'[q][media] # None
                                            /\ rtpStreamByEncodingIdx'[q][media].ssrc = s
                            /\ rtx # 0 => /\ rtpStreamByEncodingIdx'[q][rtx] # None
                                          /\ rtpStreamByEncodingIdx'[q][rtx].rtxSsrc = s
                            /\ media # 0 \/ rtx # 0 => tables'.ssrcTable[s] = q
      BY DEF StreamsMatchTables
    <2>1. /\ mapSsrcRtpStream[q][s] \in 0 .. MaxEncodings
          /\ mapRtxSsrcRtpStream[q][s] \in 0 .. MaxEncodings
      BY DEF Inv, TypeOK
    <2>2. CASE q = p /\ s = packet.ssrc
      <3>1. mapSsrcRtpStream'[q][s] = i /\ mapRtxSsrcRtpStream'[q][s] = 0
        BY <1>2, <1>3, <2>2 DEF Inv, TypeOK
      <3>2. rtpStreamByEncodingIdx'[q][i] = stream
        BY <1>1, <1>2, <1>3, <2>2 DEF Inv, TypeOK
      <3>3. stream.ssrc = s
        BY <2>2 DEF stream
      <3> QED
        BY <1>4, <1>5, <2>2, <3>1, <3>2, <3>3
    <2>3. CASE ~ (q = p /\ s = packet.ssrc)
      <3>1. /\ mapSsrcRtpStream'[q][s] = mapSsrcRtpStream[q][s]
            /\ mapRtxSsrcRtpStream'[q][s] = mapRtxSsrcRtpStream[q][s]
        BY <1>1, <1>2, <2>3 DEF Inv, TypeOK
      <3>2. \A j \in EncodingIdx : rtpStreamByEncodingIdx[q][j] # None =>
               rtpStreamByEncodingIdx'[q][j] = rtpStreamByEncodingIdx[q][j]
        BY <1>1, <1>2, <1>3 DEF Inv, TypeOK
      <3>3. mapSsrcRtpStream[q][s] # 0 \/ mapRtxSsrcRtpStream[q][s] # 0 =>
               tables'.ssrcTable[s] = q
        BY <1>6, NoneAssumption DEF Inv, StreamsMatchTables
      <3> QED
        BY <2>1, <3>1, <3>2, <3>3, ParametersAssumption DEF Inv, StreamsMatchTables, EncodingIdx
    <2> QED
      BY <2>2, <2>3
  <1>9. SsrcKept
    <2>1. \A q \in Producer, j \in EncodingIdx : rtpStreamByEncodingIdx[q][j] # None =>
             rtpStreamByEncodingIdx'[q][j] = rtpStreamByEncodingIdx[q][j]
      BY <1>1, <1>2, <1>3 DEF Inv, TypeOK
    <2>2. mapProducers' \subseteq Producer
      BY DEF mapProducers
    <2> QED
      BY <1>6, <2>1, <2>2, NoneAssumption DEF SsrcKept
  <1> QED
    BY <1>6, <1>7, <1>8, <1>9 DEF Inv

LEMMA CreateRtxStreamStep ==
    ASSUME Inv, NEW packet \in RtpPacket, CreateRtxStream(packet)
    PROVE  Inv' /\ SsrcKept
  <1> DEFINE p == LookUp(tables, packet)
             i == GetRtpStream(p, packet).idx
  <1>1. p \in mapProducers /\ p \in Producer /\ packet.ssrc \in Ssrc
    BY LearnedResult DEF CreateRtxStream, mapProducers, RtpPacket
  <1>2. /\ GetRtpStream(p, packet).how = "rtx"
        /\ tables' = Learned(tables, packet)
        /\ rtpStreamByEncodingIdx' =
              [rtpStreamByEncodingIdx EXCEPT ![p][i].rtxSsrc = packet.ssrc]
        /\ mapRtxSsrcRtpStream' = [mapRtxSsrcRtpStream EXCEPT ![p][packet.ssrc] = i]
        /\ UNCHANGED <<rtpParameters, mapSsrcRtpStream, aborted>>
    BY DEF CreateRtxStream
  <1>3. /\ i \in EncodingIdx
        /\ rtpStreamByEncodingIdx[p][i] # None
        /\ rtpStreamByEncodingIdx[p][i].rtxSsrc = None
        /\ mapSsrcRtpStream[p][packet.ssrc] = 0 /\ mapRtxSsrcRtpStream[p][packet.ssrc] = 0
    BY <1>1, <1>2, GetRtpStreamSound DEF Sound
  <1>4. tables'.ssrcTable[packet.ssrc] = p
    BY <1>1, <1>2, NoneAssumption, LearnedResult
  <1>5. /\ tables' \in Tables /\ mapProducers' = mapProducers
        /\ NoDanglingProducers' /\ DeclaredGoToOwner'
        /\ \A s \in Ssrc : tables.ssrcTable[s] # None => tables'.ssrcTable[s] = tables.ssrcTable[s]
    BY <1>2, LearnedStep
  <1> HIDE DEF p, i
  <1>6. /\ rtpStreamByEncodingIdx[p][i] \in RtpStream
        /\ rtpStreamByEncodingIdx'[p][i] \in RtpStream
        /\ rtpStreamByEncodingIdx'[p][i].ssrc = rtpStreamByEncodingIdx[p][i].ssrc
        /\ rtpStreamByEncodingIdx'[p][i].rtxSsrc = packet.ssrc
    <2>1. rtpStreamByEncodingIdx[p][i] \in RtpStream
      BY <1>1, <1>3 DEF Inv, TypeOK
    <2>2. rtpStreamByEncodingIdx'[p][i] = [rtpStreamByEncodingIdx[p][i] EXCEPT !.rtxSsrc = packet.ssrc]
      BY <1>1, <1>2, <1>3 DEF Inv, TypeOK
    <2> QED
      BY <1>1, <2>1, <2>2 DEF RtpStream
  <1>7. \A q \in Producer, j \in EncodingIdx : q # p \/ j # i =>
           rtpStreamByEncodingIdx'[q][j] = rtpStreamByEncodingIdx[q][j]
    BY <1>1, <1>2, <1>3 DEF Inv, TypeOK
  <1>8. TypeOK'
    <2>1. rtpStreamByEncodingIdx' \in [Producer -> [EncodingIdx -> RtpStream \cup {None}]]
      <3>1. rtpStreamByEncodingIdx' =
               [rtpStreamByEncodingIdx EXCEPT ![p] =
                  [rtpStreamByEncodingIdx[p] EXCEPT ![i] = rtpStreamByEncodingIdx'[p][i]]]
        BY <1>1, <1>2, <1>3 DEF Inv, TypeOK
      <3>2. [rtpStreamByEncodingIdx[p] EXCEPT ![i] = rtpStreamByEncodingIdx'[p][i]]
               \in [EncodingIdx -> RtpStream \cup {None}]
        BY <1>1, <1>3, <1>6 DEF Inv, TypeOK
      <3> QED
        BY <1>1, <3>1, <3>2 DEF Inv, TypeOK
    <2> QED
      BY <1>1, <1>2, <1>3, <1>5, <2>1, ParametersAssumption DEF Inv, TypeOK, EncodingIdx
  <1>9. rtpStreamByEncodingIdx'[p][i] # None
    BY <1>6, NoneIsNoRecord
  <1>10. StreamsMatchTables'
    <2> SUFFICES ASSUME NEW q \in Producer, NEW s \in Ssrc
                 PROVE  LET media == mapSsrcRtpStream'[q][s]
                            rtx == mapRtxSsrcRtpStream'[q][s]
                        IN  /\ media = 0 \/ rtx = 0
                            /\ media # 0 => /\ rtpStreamByEncodingIdx'[q][media] # None
                                            /\ rtpStreamByEncodingIdx'[q][media].ssrc = s
                            /\ rtx # 0 => /\ rtpStreamByEncodingIdx'[q][rtx] # None
                                          /\ rtpStreamByEncodingIdx'[q][rtx].rtxSsrc = s
                            /\ media # 0 \/ rtx # 0 => tables'.ssrcTable[s] = q
      BY DEF StreamsMatchTables
    <2>1. /\ mapSsrcRtpStream[q][s] \in 0 .. MaxEncodings
          /\ mapRtxSsrcRtpStream[q][s] \in 0 .. MaxEncodings
          /\ mapSsrcRtpStream'[q][s] = mapSsrcRtpStream[q][s]
      BY <1>2 DEF Inv, TypeOK
    <2>2. CASE q = p /\ s = packet.ssrc
      <3>1. mapRtxSsrcRtpStream'[q][s] = i /\ mapSsrcRtpStream'[q][s] = 0
        BY <1>1, <1>2, <1>3, <2>2 DEF Inv, TypeOK
      <3> QED
        BY <1>4, <1>6, <1>9, <2>2, <3>1
    <2>3. CASE ~ (q = p /\ s = packet.ssrc)
      <3>1. mapRtxSsrcRtpStream'[q][s] = mapRtxSsrcRtpStream[q][s]
        BY <1>1, <1>2, <2>3 DEF Inv, TypeOK
      <3>2. q = p => mapRtxSsrcRtpStream[q][s] # i
        BY <1>3, NoneAssumption, ParametersAssumption DEF Inv, StreamsMatchTables, EncodingIdx
      <3>3. \A j \in EncodingIdx : rtpStreamByEncodingIdx[q][j] # None =>
               /\ rtpStreamByEncodingIdx'[q][j] # None
               /\ rtpStreamByEncodingIdx'[q][j].ssrc = rtpStreamByEncodingIdx[q][j].ssrc
        BY <1>6, <1>7, <1>9
      <3>4. mapRtxSsrcRtpStream[q][s] # 0 =>
               rtpStreamByEncodingIdx'[q][mapRtxSsrcRtpStream[q][s]]
                  = rtpStreamByEncodingIdx[q][mapRtxSsrcRtpStream[q][s]]
        BY <1>7, <2>1, <3>2, ParametersAssumption DEF EncodingIdx
      <3>5. mapSsrcRtpStream[q][s] # 0 \/ mapRtxSsrcRtpStream[q][s] # 0 =>
               tables'.ssrcTable[s] = q
        BY <1>5, NoneAssumption DEF Inv, StreamsMatchTables
      <3> QED
        BY <2>1, <3>1, <3>3, <3>4, <3>5, ParametersAssumption
        DEF Inv, StreamsMatchTables, EncodingIdx
    <2> QED
      BY <2>2, <2>3
  <1>11. SsrcKept
    <2>1. mapProducers' \subseteq Producer
      BY DEF mapProducers
    <2>2. \A q \in Producer, j \in EncodingIdx : rtpStreamByEncodingIdx[q][j] # None =>
             /\ rtpStreamByEncodingIdx'[q][j] # None
             /\ rtpStreamByEncodingIdx'[q][j].ssrc = rtpStreamByEncodingIdx[q][j].ssrc
             /\ HasRtx(rtpStreamByEncodingIdx[q][j]) =>
                   rtpStreamByEncodingIdx'[q][j].rtxSsrc = rtpStreamByEncodingIdx[q][j].rtxSsrc
      BY <1>3, <1>6, <1>7, <1>9 DEF HasRtx
    <2> QED
      BY <1>5, <2>1, <2>2, NoneAssumption DEF SsrcKept
  <1> QED
    BY <1>5, <1>8, <1>10, <1>11 DEF Inv

\* A packet that makes no stream.
LEMMA ReceivedStep ==
    ASSUME Inv, NEW packet \in RtpPacket, Received(packet)
    PROVE  Inv' /\ SsrcKept
  <1>1. tables' = Learned(tables, packet) /\ UNCHANGED <<rtpParameters, streamVars, aborted>>
    BY DEF Received
  <1>2. /\ tables' \in Tables /\ mapProducers' = mapProducers
        /\ NoDanglingProducers' /\ DeclaredGoToOwner'
        /\ \A s \in Ssrc : tables.ssrcTable[s] # None => tables'.ssrcTable[s] = tables.ssrcTable[s]
    BY <1>1, LearnedStep
  <1>3. TypeOK'
    BY <1>1, <1>2 DEF Inv, TypeOK, streamVars
  <1>4. StreamsMatchTables'
    BY <1>1, <1>2, NoneAssumption DEF Inv, StreamsMatchTables, streamVars
  <1>5. SsrcKept
    BY <1>1, <1>2, NoneAssumption DEF SsrcKept, streamVars, mapProducers
  <1> QED
    BY <1>2, <1>3, <1>4, <1>5 DEF Inv

\* An accepted producer takes only what was free.
LEMMA ProduceStep ==
    ASSUME Inv, NEW p \in Producer, NEW params \in Parameters, Produce(p, params)
    PROVE  Inv' /\ SsrcKept
  <1>1. tables \in Tables /\ params \in RtpParameters
    BY ParametersAssumption DEF Inv, TypeOK
  <1>2. /\ p \notin mapProducers /\ Accepted(tables, params)
        /\ tables' = Entered(tables, p, params)
        /\ rtpParameters' = [rtpParameters EXCEPT ![p] = params]
        /\ UNCHANGED <<streamVars, aborted>>
    BY DEF Produce, AddProducer
  <1>3. mapProducers' = mapProducers \cup {p}
    BY <1>2, NoneIsNoRecord DEF Inv, TypeOK, mapProducers
  <1>4. TypeOK'
    BY <1>1, <1>2, EnteredResult DEF Inv, TypeOK, streamVars
  <1>5. NoDanglingProducers'
    BY <1>1, <1>2, <1>3, EnteredResult DEF Inv, NoDanglingProducers
  <1>6. /\ \A s \in Ssrc : tables.ssrcTable[s] # None => tables'.ssrcTable[s] = tables.ssrcTable[s]
        /\ \A m \in Mid : tables.midTable[m] # None => tables'.midTable[m] = tables.midTable[m]
        /\ \A r \in Rid : tables.ridTable[r] # None => tables'.ridTable[r] = tables.ridTable[r]
    BY <1>1, <1>2, EnteredResult
  <1>7. DeclaredGoToOwner'
    <2> SUFFICES ASSUME NEW q \in mapProducers \cup {p}
                 PROVE  LET d == rtpParameters'[q]
                        IN  /\ \A a \in SsrcPositions(d) : SsrcAt(d, a) # 0 =>
                                  tables'.ssrcTable[SsrcAt(d, a)] = q
                            /\ d.mid # None => tables'.midTable[d.mid] = q
                            /\ d.mid = None =>
                                  \A i \in 1 .. Len(d.encodings) :
                                     d.encodings[i].rid # None =>
                                        tables'.ridTable[d.encodings[i].rid] = q
      BY <1>3 DEF DeclaredGoToOwner
    <2>1. CASE q = p
      <3>1. rtpParameters'[q] = params
        BY <1>2, <2>1 DEF Inv, TypeOK
      <3> QED
        BY <1>1, <1>2, <2>1, <3>1, AcceptedResult
    <2>2. CASE q # p
      <3>1. /\ rtpParameters'[q] = rtpParameters[q] /\ rtpParameters[q] \in RtpParameters
            /\ q \in mapProducers /\ q # None
        BY <1>2, <2>2, ParametersAssumption, NoneAssumption DEF Inv, TypeOK, mapProducers
      <3>2. /\ \A a \in SsrcPositions(rtpParameters[q]) : SsrcAt(rtpParameters[q], a) \in Ssrc
            /\ \A i \in 1 .. Len(rtpParameters[q].encodings) :
                  rtpParameters[q].encodings[i].rid \in Rid \cup {None}
            /\ rtpParameters[q].mid \in Mid \cup {None}
        BY <3>1, SsrcAtType DEF RtpParameters, Encoding
      <3> QED
        BY <1>6, <3>1, <3>2 DEF Inv, DeclaredGoToOwner
    <2> QED
      BY <2>1, <2>2
  <1>8. StreamsMatchTables'
    BY <1>2, <1>6, NoneAssumption DEF Inv, StreamsMatchTables, streamVars
  <1>9. SsrcKept
    BY <1>2, <1>6, NoneAssumption DEF SsrcKept, streamVars, mapProducers
  <1> QED
    BY <1>4, <1>5, <1>7, <1>8, <1>9 DEF Inv

\* A closed producer takes only its own entries with it.
LEMMA ProducerCloseStep ==
    ASSUME Inv, NEW p \in Producer, ProducerClose(p)
    PROVE  Inv' /\ SsrcKept
  <1>1. /\ tables \in Tables
        /\ tables' = RemoveProducer(tables, p)
        /\ rtpParameters' = [rtpParameters EXCEPT ![p] = None]
        /\ rtpStreamByEncodingIdx' = [rtpStreamByEncodingIdx EXCEPT ![p] = NoStreams]
        /\ mapSsrcRtpStream' = [mapSsrcRtpStream EXCEPT ![p] = NoSsrcs]
        /\ mapRtxSsrcRtpStream' = [mapRtxSsrcRtpStream EXCEPT ![p] = NoSsrcs]
        /\ UNCHANGED aborted
    BY DEF Inv, TypeOK, ProducerClose
  <1>2. mapProducers' = mapProducers \ {p}
    BY <1>1 DEF Inv, TypeOK, mapProducers
  <1>3. /\ tables' \in Tables
        /\ \A s \in Ssrc : tables'.ssrcTable[s]
                             = IF tables.ssrcTable[s] = p THEN None ELSE tables.ssrcTable[s]
        /\ \A m \in Mid : tables'.midTable[m]
                            = IF tables.midTable[m] = p THEN None ELSE tables.midTable[m]
        /\ \A r \in Rid : tables'.ridTable[r]
                            = IF tables.ridTable[r] = p THEN None ELSE tables.ridTable[r]
    BY <1>1, RemoveProducerResult
  <1>4. TypeOK'
    BY <1>1, <1>3, ParametersAssumption DEF Inv, TypeOK, NoStreams, NoSsrcs
  <1>5. NoDanglingProducers'
    BY <1>2, <1>3 DEF Inv, NoDanglingProducers
  <1>6. DeclaredGoToOwner'
    <2> SUFFICES ASSUME NEW q \in mapProducers, q # p
                 PROVE  LET d == rtpParameters'[q]
                        IN  /\ \A a \in SsrcPositions(d) : SsrcAt(d, a) # 0 =>
                                  tables'.ssrcTable[SsrcAt(d, a)] = q
                            /\ d.mid # None => tables'.midTable[d.mid] = q
                            /\ d.mid = None =>
                                  \A i \in 1 .. Len(d.encodings) :
                                     d.encodings[i].rid # None =>
                                        tables'.ridTable[d.encodings[i].rid] = q
      BY <1>2 DEF DeclaredGoToOwner
    <2>1. rtpParameters'[q] = rtpParameters[q] /\ rtpParameters[q] \in RtpParameters
      BY <1>1, ParametersAssumption DEF Inv, TypeOK, mapProducers
    <2>2. /\ \A a \in SsrcPositions(rtpParameters[q]) : SsrcAt(rtpParameters[q], a) \in Ssrc
          /\ \A i \in 1 .. Len(rtpParameters[q].encodings) :
                rtpParameters[q].encodings[i].rid \in Rid \cup {None}
          /\ rtpParameters[q].mid \in Mid \cup {None}
      BY <2>1, SsrcAtType DEF RtpParameters, Encoding
    <2> QED
      BY <1>3, <2>1, <2>2 DEF Inv, DeclaredGoToOwner
  <1>7. StreamsMatchTables'
    <2> SUFFICES ASSUME NEW q \in Producer, NEW s \in Ssrc
                 PROVE  LET media == mapSsrcRtpStream'[q][s]
                            rtx == mapRtxSsrcRtpStream'[q][s]
                        IN  /\ media = 0 \/ rtx = 0
                            /\ media # 0 => /\ rtpStreamByEncodingIdx'[q][media] # None
                                            /\ rtpStreamByEncodingIdx'[q][media].ssrc = s
                            /\ rtx # 0 => /\ rtpStreamByEncodingIdx'[q][rtx] # None
                                          /\ rtpStreamByEncodingIdx'[q][rtx].rtxSsrc = s
                            /\ media # 0 \/ rtx # 0 => tables'.ssrcTable[s] = q
      BY DEF StreamsMatchTables
    <2>1. CASE q = p
      BY <1>1, <2>1 DEF Inv, TypeOK, NoSsrcs
    <2>2. CASE q # p
      <3>1. /\ mapSsrcRtpStream'[q] = mapSsrcRtpStream[q]
            /\ mapRtxSsrcRtpStream'[q] = mapRtxSsrcRtpStream[q]
            /\ rtpStreamByEncodingIdx'[q] = rtpStreamByEncodingIdx[q]
        BY <1>1, <2>2 DEF Inv, TypeOK
      <3> QED
        BY <1>3, <2>2, <3>1 DEF Inv, StreamsMatchTables
    <2> QED
      BY <2>1, <2>2
  <1>8. SsrcKept
    <2>1. \A q \in mapProducers' : rtpStreamByEncodingIdx'[q] = rtpStreamByEncodingIdx[q]
      BY <1>1, <1>2 DEF Inv, TypeOK, mapProducers
    <2> QED
      BY <1>2, <1>3, <2>1 DEF SsrcKept
  <1> QED
    BY <1>4, <1>5, <1>6, <1>7, <1>8 DEF Inv

---------------------------------------------------------------------------
(* The theorems.                                                           *)

LEMMA InitInv == Init => Inv
  <1> SUFFICES ASSUME Init PROVE Inv
    OBVIOUS
  <1>1. TypeOK
    <2>1. NoEntries \in Tables
      BY DEF NoEntries, Tables
    <2>2. /\ NoStreams \in [EncodingIdx -> RtpStream \cup {None}]
          /\ NoSsrcs \in [Ssrc -> 0 .. MaxEncodings]
      BY ParametersAssumption DEF NoStreams, NoSsrcs
    <2> QED
      BY <2>1, <2>2 DEF Init, TypeOK
  <1>2. mapProducers = {}
    BY DEF Init, mapProducers
  <1>3. NoDanglingProducers
    BY DEF Init, NoDanglingProducers, NoEntries
  <1>4. DeclaredGoToOwner
    BY <1>2 DEF DeclaredGoToOwner
  <1>5. StreamsMatchTables
    BY DEF Init, StreamsMatchTables, NoSsrcs
  <1> QED
    BY <1>1, <1>3, <1>4, <1>5 DEF Inv

LEMMA NextInv == Inv /\ [Next]_vars => Inv' /\ (SsrcKept \/ UNCHANGED vars)
  <1> SUFFICES ASSUME Inv, [Next]_vars
               PROVE  Inv' /\ (SsrcKept \/ UNCHANGED vars)
    OBVIOUS
  <1>1. ASSUME tables' = tables, rtpParameters' = rtpParameters, UNCHANGED streamVars,
               aborted' \in BOOLEAN
        PROVE  Inv' /\ SsrcKept
    <2>1. TypeOK' /\ NoDanglingProducers' /\ DeclaredGoToOwner' /\ StreamsMatchTables'
      BY <1>1 DEF Inv, TypeOK, NoDanglingProducers, DeclaredGoToOwner, StreamsMatchTables,
                  streamVars, mapProducers
    <2>2. SsrcKept
      BY <1>1 DEF SsrcKept, streamVars
    <2> QED
      BY <2>1, <2>2 DEF Inv
  <1>2. ASSUME NEW p \in Producer, NEW params \in Parameters, Produce(p, params)
        PROVE  Inv' /\ SsrcKept
    BY <1>2, ProduceStep
  <1>3. ASSUME NEW p \in Producer, NEW params \in Parameters,
               ProduceRefused(p, params) \/ ProduceTwice(p, params)
        PROVE  Inv' /\ SsrcKept
    <2>1. p \notin mapProducers /\ UNCHANGED <<rtpParameters, streamVars, aborted>>
      BY <1>3 DEF ProduceRefused, ProduceTwice
    <2>2. tables' = RemoveProducer(Entered(tables, p, params), p)
      BY <1>3 DEF ProduceRefused, ProduceTwice, AddProducer
    <2>3. tables' = tables
      BY <2>1, <2>2, RefusedResult
    <2>4. aborted' \in BOOLEAN
      BY <2>1 DEF Inv, TypeOK
    <2> QED
      BY <1>1, <2>1, <2>3, <2>4
  <1>4. ASSUME NEW p \in Producer, ProducerClose(p)
        PROVE  Inv' /\ SsrcKept
    BY <1>4, ProducerCloseStep
  <1>5. ASSUME NEW packet \in RtpPacket,
               Received(packet) \/ CreateRtpStream(packet) \/ CreateRtxStream(packet)
        PROVE  Inv' /\ SsrcKept
    BY <1>5, ReceivedStep, CreateRtpStreamStep, CreateRtxStreamStep
  <1>6. ASSUME NEW packet \in RtpPacket, EncodingInUse(packet)
        PROVE  Inv' /\ SsrcKept
    BY <1>1, <1>6 DEF EncodingInUse
  <1>7. CASE UNCHANGED vars
    <2>1. aborted' \in BOOLEAN
      BY <1>7 DEF vars, Inv, TypeOK
    <2> QED
      BY <1>1, <1>7, <2>1 DEF vars
  <1> QED
    BY <1>2, <1>3, <1>4, <1>5, <1>6, <1>7 DEF Next

(***************************************************************************)
(* The inductive invariant: types, tables without deleted producers,       *)
(* declared SSRCs, MIDs and RIDs, and streams that match the tables.       *)
(***************************************************************************)
THEOREM Invariance == Spec => []Inv
  BY InitInv, NextInv, PTL DEF Spec

(***************************************************************************)
(* RtpListener never keeps a pointer to a deleted producer.                *)
(***************************************************************************)
THEOREM NeverDangling == Spec => []NoDanglingProducers
  <1>1. Inv => NoDanglingProducers
    BY DEF Inv
  <1> QED
    BY <1>1, Invariance, PTL

(***************************************************************************)
(* What a producer declared always leads RtpListener::GetProducer to it.   *)
(***************************************************************************)
THEOREM DeclaredAlwaysOwned == Spec => []DeclaredGoToOwner
  <1>1. Inv => DeclaredGoToOwner
    BY DEF Inv
  <1> QED
    BY <1>1, Invariance, PTL

(***************************************************************************)
(* Streams and tables always agree: the MS_ABORT of ReceiveRtpPacket is    *)
(* never reached.                                                          *)
(***************************************************************************)
THEOREM StreamsAlwaysMatch == Spec => []StreamsMatchTables
  <1>1. Inv => StreamsMatchTables
    BY DEF Inv
  <1> QED
    BY <1>1, Invariance, PTL

(***************************************************************************)
(* No step takes an SSRC from the producer or the stream that has it.      *)
(***************************************************************************)
THEOREM SsrcsNeverChangeHands == Spec => SsrcsKept
  <1>1. Inv /\ [Next]_vars => [SsrcKept]_vars
    BY NextInv
  <1> QED
    BY <1>1, Invariance, PTL DEF Spec, SsrcsKept

\* The tables lead to producers and streams that exist.
THEOREM TablesAlwaysSound == Spec => []TablesSound
  <1>1. Inv => TablesSound
    BY DEF Inv, TablesSound
  <1> QED
    BY <1>1, Invariance, PTL
=============================================================================
