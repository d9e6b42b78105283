---------------------------- MODULE DataChannels ----------------------------
(***************************************************************************)
(* The data channels of one transport of the worker: its data producers   *)
(* and data consumers (PRODUCE_DATA, CONSUME_DATA and the two CLOSE        *)
(* requests of Transport.cpp), the stream table of SctpListener.cpp, the   *)
(* data maps of Router.cpp, and the SctpAssociation with its state, its    *)
(* outgoing streams, the amount it has buffered and the buffer in which    *)
(* it puts the chunks of a message together.  usrsctp, below the           *)
(* association, and the remote peer are external: what they report is     *)
(* chosen freely among what they can report.  All of this runs in the      *)
(* worker's one thread.  Payloads are counted in chunks of one unit.       *)
(***************************************************************************)
EXTENDS Integers, FiniteSets, Sequences

CONSTANTS
    Producers,        \* ids of data producers
    Consumers,        \* ids of data consumers
    Streams,          \* SCTP stream ids
    OS,               \* outgoing streams the transport was created with
    AddedStreams,     \* how many streams are asked for at a time (32)
    MaxSctpStreams,   \* the largest number of streams (65535)
    Thresholds,       \* values of setBufferedAmountLowThreshold
    MaxMessageSize,   \* maxSctpMessageSize
    Messages,         \* what the remote may send: stream, SSN and number of chunks
    MaxBuffered,      \* bound: nothing is sent above this buffered amount
    None              \* no object, no message

\* A data consumer.  owed and fresh are history: the application waits for
\* 'bufferedamountlow'; no amount was reported since the consumer was made.
DataConsumer ==
    [producer : Producers, stream : Streams, transport : BOOLEAN, sctp : BOOLEAN,
     amount : Nat, threshold : Nat, force : BOOLEAN, owed : BOOLEAN, fresh : BOOLEAN]

\* A message of size chunks of which usrsctp has handed over got.  cut is
\* history: chunks of another message were handed over since its first one.
ArrivingMessage == [ssn : Nat, size : Nat, got : Nat, cut : BOOLEAN]

\* A chunk in the buffer: its stream, and its number in the message.
Chunk == Streams \X Nat

ASSUME DataAssumption ==
    /\ Streams \subseteq Nat /\ Thresholds \subseteq Nat
    /\ OS \in 1..MaxSctpStreams /\ AddedStreams \in Nat \ {0}
    /\ MaxSctpStreams \in Nat /\ MaxMessageSize \in Nat \ {0} /\ MaxBuffered \in Nat
    /\ IsFiniteSet(Consumers)
    /\ Messages \subseteq Streams \X Nat \X (Nat \ {0})
    /\ None \notin Producers \cup DataConsumer \cup ArrivingMessage

VARIABLES
    connected,      \* Transport::IsConnected()
    streamIdTable,  \* SctpListener: stream -> data producer
    routes,         \* Router: mapDataProducerDataConsumers, of the open producers
    consumers,      \* the data consumers of the transport
    state,          \* SctpAssociation::state
    os,             \* SctpAssociation::os
    desiredOs,      \* SctpAssociation::desiredOs
    adding,         \* external: the streams usrsctp is asking the peer for, or 0
    refused,        \* history: usrsctp or the peer has refused more streams
    buffered,       \* SctpAssociation::sctpBufferedAmount
    arriving,       \* usrsctp: the message of each stream it has handed over in part
    messageBuffer,  \* the chunks of messageBuffer, messageBufferLen of them
    lastSsn,        \* lastSsnReceived
    lawful,         \* history: no message was too large or could be confused
    intact          \* history: while lawful, every message handed on was one sent, or its end

sctpVars == <<state, os, desiredOs, adding, refused>>
chunkVars == <<arriving, messageBuffer, lastSsn, lawful, intact>>
vars == <<connected, streamIdTable, routes, consumers, buffered, sctpVars, chunkVars>>

Open(p) == p \in DOMAIN routes
DataConsumers == {c \in Consumers : consumers[c] # None}

\* CONSUME_DATA tells the new data consumer what it has missed.
NewDataConsumer(p, s) ==
    [producer |-> p, stream |-> s, transport |-> connected, sctp |-> state = "connected",
     amount |-> 0, threshold |-> 0, force |-> FALSE, owed |-> FALSE, fresh |-> TRUE]

-----------------------------------------------------------------------------
(* The buffered amount *)

\* Mutant: an amount equal to the threshold is not reported.
BelowThreshold(d, a) ==
    LET low == (d.force \/ d.amount > d.threshold) /\ a < d.threshold
    IN  [d EXCEPT !.amount = a, !.fresh = FALSE,
                  !.force = @ /\ ~low,
                  !.owed = ~low /\ (@ \/ a > d.threshold)]

\* DataConsumer::SctpAssociationBufferedAmount.
BufferedAmount(d, a) ==
    LET low == (d.force \/ d.amount > d.threshold) /\ a <= d.threshold
    IN  [d EXCEPT !.amount = a, !.fresh = FALSE,
                  !.force = @ /\ ~low,
                  !.owed = ~low /\ (@ \/ a > d.threshold)]

\* The data consumer after each of the amounts was reported to it in turn.
AfterAmounts(d, amounts) ==
    LET heard[i \in 0..Len(amounts)] ==
          IF i = 0 THEN d ELSE BufferedAmount(heard[i - 1], amounts[i])
    IN  heard[Len(amounts)]

\* Transport::OnSctpAssociationBufferedAmount, for each of the amounts.
TellAmounts(amounts) ==
    [c \in Consumers |-> IF consumers[c] = None THEN None
                         ELSE AfterAmounts(consumers[c], amounts)]

\* DataConsumer::IsActive; dataProducerClosed is set only right before the end.
IsActive(d) == d.transport /\ d.sctp

\* SctpAssociation::SendSctpMessage, for the data consumers of set C in turn:
\* the amount grows by the message's length whether usrsctp takes it or not.
SendSctpMessages(C, len) ==
    LET n == Cardinality({c \in C : IsActive(consumers[c])})
    IN  /\ buffered' = buffered + n * len
        /\ consumers' = TellAmounts([i \in 1..n |-> buffered + i * len])

\* SctpAssociation::OnUsrSctpSentData: whatever amount usrsctp, once it was told
\* to connect, has in its buffer.
OnUsrSctpSentData(a) ==
    /\ state # "new" /\ a # buffered
    /\ buffered' = a
    /\ consumers' = TellAmounts(<<a>>)
    /\ UNCHANGED <<connected, streamIdTable, routes, sctpVars, chunkVars>>

\* DATA_CONSUMER_SET_BUFFERED_AMOUNT_LOW_THRESHOLD.
SetBufferedAmountLowThreshold(c, t) ==
    /\ consumers[c] # None
    /\ LET low == consumers[c].amount <= t
       IN  consumers' = [consumers EXCEPT ![c].threshold = t, ![c].owed = ~low,
                                          ![c].force = @ \/ ~low]
    /\ UNCHANGED <<connected, streamIdTable, routes, buffered, sctpVars, chunkVars>>

\* DATA_CONSUMER_SEND, of a message of one chunk.
Send(c) ==
    /\ consumers[c] # None
    /\ buffered < MaxBuffered
    /\ SendSctpMessages({c}, 1)
    /\ UNCHANGED <<connected, streamIdTable, routes, sctpVars, chunkVars>>

-----------------------------------------------------------------------------
(* The outgoing streams *)

\* AddOutgoingStreams, in an association whose streams are n and whose state
\* is st; usrsctp may refuse the request (a reset of streams is under way).
AddOutgoingStreams(force, n, st) ==
    LET additional == IF MaxSctpStreams - n >= AddedStreams THEN AddedStreams
                      ELSE MaxSctpStreams - n
    IN  IF additional = 0 \/ (~force /\ n + additional = desiredOs)
        THEN UNCHANGED <<desiredOs, adding, refused>>
        ELSE /\ desiredOs' = n + additional
             /\ IF st # "connected" THEN UNCHANGED <<adding, refused>>
                ELSE \E taken \in BOOLEAN :
                        /\ taken => adding = 0
                        /\ adding' = IF taken THEN additional ELSE adding
                        /\ refused' = (refused \/ ~taken)

\* HandleDataConsumer.
HandleDataConsumer(s) ==
    IF s > os - 1 THEN AddOutgoingStreams(FALSE, os, state)
    ELSE UNCHANGED <<desiredOs, adding, refused>>

\* SCTP_STREAM_CHANGE_EVENT: the peer has agreed to more streams, or not.
\* The number of streams it reports is one of 16 bits.
StreamChange(granted) ==
    /\ adding > 0 /\ state = "connected"
    /\ granted => os + adding <= MaxSctpStreams
    /\ adding' = 0
    /\ os' = IF granted THEN os + adding ELSE os
    /\ refused' = (refused \/ ~granted)
    /\ UNCHANGED <<connected, streamIdTable, routes, consumers, buffered, state, desiredOs, chunkVars>>

-----------------------------------------------------------------------------
(* The state of the association and of the transport *)

\* Transport::OnSctpAssociationConnected, Failed and Closed.
TellSctp(ds, up) ==
    [c \in Consumers |-> IF ds[c] = None THEN None ELSE [ds[c] EXCEPT !.sctp = up]]
\* Transport::Connected and Disconnected.
TellTransport(ds, up) ==
    [c \in Consumers |-> IF ds[c] = None THEN None ELSE [ds[c] EXCEPT !.transport = up]]

\* Transport::Connected, with SctpAssociation::TransportConnected, in which
\* usrsctp_connect may fail.
Connected ==
    /\ ~connected
    /\ connected' = TRUE
    /\ \/ /\ state = "new"
          /\ state' = "failed"
          /\ consumers' = TellSctp(TellTransport(consumers, TRUE), FALSE)
       \/ /\ state' = IF state = "new" THEN "connecting" ELSE state
          /\ consumers' = TellTransport(consumers, TRUE)
    /\ UNCHANGED <<streamIdTable, routes, buffered, os, desiredOs, adding, refused, chunkVars>>

Disconnected ==
    /\ connected
    /\ connected' = FALSE
    /\ consumers' = TellTransport(consumers, FALSE)
    /\ UNCHANGED <<streamIdTable, routes, buffered, sctpVars, chunkVars>>

\* SCTP_COMM_UP and SCTP_RESTART, once usrsctp was told to connect, with the
\* number of streams that was negotiated.  The streams wanted are asked for
\* before the state is set.
CommUp(n) ==
    /\ state # "new"
    /\ connected
    /\ os' = n
    /\ IF desiredOs > n THEN AddOutgoingStreams(TRUE, n, state)
       ELSE UNCHANGED <<desiredOs, adding, refused>>
    /\ state' = "connected"
    /\ consumers' = IF state = "connected" THEN consumers ELSE TellSctp(consumers, TRUE)
    /\ UNCHANGED <<connected, streamIdTable, routes, buffered, chunkVars>>

\* SCTP_COMM_LOST, SCTP_SHUTDOWN_COMP and SCTP_SHUTDOWN_EVENT ("closed"),
\* SCTP_CANT_STR_ASSOC ("failed").
CommLost(st) ==
    /\ state \notin {"new", st}
    /\ state' = st
    /\ consumers' = TellSctp(consumers, FALSE)
    /\ UNCHANGED <<connected, streamIdTable, routes, buffered, os, desiredOs, adding, refused, chunkVars>>

-----------------------------------------------------------------------------
(* Data producers and data consumers *)

\* PRODUCE_DATA: a stream that has a data producer refuses another one.
ProduceData(p, s) ==
    /\ ~Open(p)
    /\ streamIdTable[s] = None
    /\ streamIdTable' = [streamIdTable EXCEPT ![s] = p]
    /\ routes' = [q \in DOMAIN routes \cup {p} |-> IF q = p THEN {} ELSE routes[q]]
    /\ UNCHANGED <<connected, consumers, buffered, sctpVars, chunkVars>>

\* DATA_PRODUCER_CLOSE: the router closes the data consumers of the producer.
CloseDataProducer(p) ==
    /\ Open(p)
    /\ streamIdTable' = [s \in Streams |-> IF streamIdTable[s] = p THEN None ELSE streamIdTable[s]]
    /\ consumers' = [c \in Consumers |-> IF c \in routes[p] THEN None ELSE consumers[c]]
    /\ routes' = [q \in DOMAIN routes \ {p} |-> routes[q]]
    /\ UNCHANGED <<connected, buffered, sctpVars, chunkVars>>

\* CONSUME_DATA: refused when the router does not know the data producer.
ConsumeData(c, p, s) ==
    /\ consumers[c] = None
    /\ Open(p)
    /\ routes' = [routes EXCEPT ![p] = @ \cup {c}]
    /\ consumers' = [consumers EXCEPT ![c] = NewDataConsumer(p, s)]
    /\ HandleDataConsumer(s)
    /\ UNCHANGED <<connected, streamIdTable, buffered, state, os, chunkVars>>

\* Mutant: the router is not told.
CloseUntold(c) ==
    /\ consumers[c] # None
    /\ consumers' = [consumers EXCEPT ![c] = None]
    /\ UNCHANGED <<connected, streamIdTable, routes, buffered, sctpVars, chunkVars>>

\* DATA_CONSUMER_CLOSE, with Router::OnTransportDataConsumerClosed.
CloseDataConsumer(c) ==
    /\ consumers[c] # None
    /\ routes' = [routes EXCEPT ![consumers[c].producer] = @ \ {c}]
    /\ consumers' = [consumers EXCEPT ![c] = None]
    /\ UNCHANGED <<connected, streamIdTable, buffered, sctpVars, chunkVars>>

-----------------------------------------------------------------------------
(* Messages from the remote *)

\* Mutant: the chunks of an unfinished message stay in the buffer.
KeptAlways(m) == messageBuffer

\* What messageBuffer holds once the chunks of another message are discarded.
Kept(m) == IF messageBuffer # <<>> /\ m.ssn # lastSsn THEN <<>> ELSE messageBuffer

\* OnSctpAssociationMessageReceived: the data producer of the stream passes the
\* message to the router, which passes it to the producer's data consumers.
MessageReceived(s, len) ==
    LET p == streamIdTable[s]
    IN  IF p = None THEN UNCHANGED <<buffered, consumers>>
        ELSE SendSctpMessages(routes[p], len)

\* Chunks a to b of the message that is arriving on stream s.
Run(s, a, b) == [i \in 1..b - a + 1 |-> <<s, a + i - 1>>]

\* OnUsrSctpReceiveSctpData, for chunk m.got of message m of stream s.  (The
\* control messages of ppid 50 change nothing.)
OnUsrSctpReceiveSctpData(s, m) ==
    LET chunks == Append(Kept(m), <<s, m.got>>)
        eor == m.got = m.size
    IN  /\ IF Len(chunks) > MaxMessageSize
           THEN /\ messageBuffer' = Kept(m)
                /\ lastSsn' = 0
                /\ UNCHANGED <<intact, buffered, consumers>>
           ELSE /\ lastSsn' = m.ssn
                /\ messageBuffer' = IF eor THEN <<>> ELSE chunks
                /\ intact' = (intact /\ (lawful' /\ eor => \E a \in 1..m.size :
                                                    /\ chunks = Run(s, a, m.size)
                                                    /\ m.cut \/ a = 1))
                /\ IF eor THEN MessageReceived(s, Len(chunks))
                   ELSE UNCHANGED <<buffered, consumers>>
        /\ UNCHANGED <<connected, streamIdTable, routes, sctpVars>>

\* The chunk looks like one that follows those in the buffer, and is not.
Confused(s, m) ==
    /\ messageBuffer # <<>> /\ m.ssn = lastSsn
    /\ messageBuffer[Len(messageBuffer)] # <<s, m.got - 1>>

\* usrsctp hands over chunk m.got of message m of stream s.  Chunks of other
\* messages may come between those of one: each stream has its own partial
\* delivery, and a message that came in one piece passes all that are under way.
HandOver(s, m) ==
    /\ state = "connected" /\ buffered < MaxBuffered
    /\ arriving' = [t \in Streams |->
                      IF t = s /\ m.size > 1 THEN IF m.got = m.size THEN None ELSE m
                      ELSE IF arriving[t] = None THEN None
                      ELSE [arriving[t] EXCEPT !.cut = TRUE]]
    /\ lawful' = (lawful /\ m.size <= MaxMessageSize /\ ~Confused(s, m))
    /\ OnUsrSctpReceiveSctpData(s, m)

\* The first chunk of a message of n chunks.  SSNs are per stream, and all 0 for
\* unordered messages, so a message may have the SSN of any other.  A message of
\* the stream that is arriving in chunks is one the remote has given up.
FirstChunk(s, ssn, n) ==
    HandOver(s, [ssn |-> ssn, size |-> n, got |-> 1, cut |-> FALSE])

\* The next chunk of the message that is arriving on the stream.
NextChunk(s) ==
    /\ arriving[s] # None
    /\ HandOver(s, [arriving[s] EXCEPT !.got = @ + 1])

-----------------------------------------------------------------------------
Init ==
    /\ connected = FALSE
    /\ streamIdTable = [s \in Streams |-> None]
    /\ routes = [p \in {} |-> {}]
    /\ consumers = [c \in Consumers |-> None]
    /\ state = "new" /\ os = OS /\ desiredOs = 0
    /\ adding = 0 /\ refused = FALSE
    /\ buffered = 0
    /\ arriving = [s \in Streams |-> None] /\ messageBuffer = <<>> /\ lastSsn = 0
    /\ lawful = TRUE /\ intact = TRUE

Next ==
    \/ Connected \/ Disconnected
    \/ \E n \in 1..OS : CommUp(n)
    \/ \E st \in {"closed", "failed"} : CommLost(st)
    \/ \E granted \in BOOLEAN : StreamChange(granted)
    \/ \E p \in Producers, s \in Streams : ProduceData(p, s)
    \/ \E p \in Producers : CloseDataProducer(p)
    \/ \E c \in Consumers, p \in Producers, s \in Streams : ConsumeData(c, p, s)
    \/ \E c \in Consumers : CloseDataConsumer(c) \/ Send(c)
    \/ \E c \in Consumers, t \in Thresholds : SetBufferedAmountLowThreshold(c, t)
    \/ \E a \in 0..buffered \cup 0..MaxBuffered : OnUsrSctpSentData(a)
    \/ \E x \in Messages : FirstChunk(x[1], x[2], x[3])
    \/ \E s \in Streams : NextChunk(s)

Spec == Init /\ [][Next]_vars

-----------------------------------------------------------------------------
(* Properties *)

TypeOK ==
    /\ connected \in BOOLEAN
    /\ streamIdTable \in [Streams -> Producers \cup {None}]
    /\ DOMAIN routes \subseteq Producers
    /\ \A p \in DOMAIN routes : routes[p] \subseteq Consumers
    /\ state \in {"new", "connecting", "connected", "failed", "closed"}
    /\ os \in 1..MaxSctpStreams /\ desiredOs \in 0..MaxSctpStreams /\ adding \in 0..AddedStreams
    /\ buffered \in Nat
    /\ consumers \in [Consumers -> DataConsumer \cup {None}]
    /\ arriving \in [Streams -> ArrivingMessage \cup {None}]
    /\ messageBuffer \in Seq(Chunk)
    /\ lawful \in BOOLEAN /\ intact \in BOOLEAN

\* The stream table, the router's maps and the data consumers agree: a message
\* is handed only to a data producer that is open and to all of its data
\* consumers, and none of them is the pointer of a deleted object, however the
\* closing of producers and of consumers interleaves (Router.cpp:844-975).
DataMapsAgree ==
    /\ \A p \in Producers : Open(p) <=> \E s \in Streams : streamIdTable[s] = p
    /\ \A p \in DOMAIN routes : routes[p] = {c \in DataConsumers : consumers[c].producer = p}
    /\ \A c \in DataConsumers : Open(consumers[c].producer)

\* Every data consumer knows whether the transport and the association are
\* connected, whenever it was created, and the amount the association has
\* buffered, once the association has reported an amount since
\* (Transport.cpp:1194-1212, 2766-2893).
DataConsumersInformed ==
    \A c \in DataConsumers :
        /\ consumers[c].transport = connected
        /\ consumers[c].sctp = (state = "connected")
        /\ consumers[c].fresh \/ consumers[c].amount = buffered

\* The objects that pass a message on know each other and the association,
\* however creation, closing, connecting and failing interleave.
DataChannelsConsistent == DataMapsAgree /\ DataConsumersInformed

\* No 'bufferedamountlow' is lost: an application that has seen the amount
\* above the threshold, or has just set the threshold, is told once the amount
\* is at or below it (DataConsumer.cpp:156-186, 280-304).
LowIsTold ==
    \A c \in DataConsumers :
        consumers[c].owed => consumers[c].amount > consumers[c].threshold

\* Every message handed to a data producer is the chunks of one message of the
\* remote, all of them and in order, although messages are given up half way;
\* when chunks of another message came between them, it is the last of them,
\* in order.  As long as no message exceeds the largest size and no chunk that
\* finds the chunks of another message in the buffer has their SSN
\* (SctpAssociation.cpp:633-707).
MessagesWhole == intact

\* Not true: a message is whole or not handed on.  What the buffer has of a
\* message is discarded when a chunk of another message comes in between; the
\* end of it is then handed on as if it were all (SctpAssociation.cpp:644-676).
NoPartOfMessage ==
    [][\A s \in Streams : lawful' /\ NextChunk(s) /\ arriving'[s] = None =>
           messageBuffer = Run(s, 1, arriving[s].got)]_vars

\* Streams that a data consumer needed before the association was connected
\* are asked for once it is: SctpAssociation.cpp:597 says "If not connected,
\* defer it." and :741 "Increase if requested before connected.".  Not so: the
\* increase is tried while the state is still CONNECTING.
DeferredIsAsked ==
    state = "connected" /\ desiredOs > os => adding > 0 \/ refused
=============================================================================
