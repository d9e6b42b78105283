--------------------------- MODULE SimpleConsumer ---------------------------
(***************************************************************************)
(* RTC::SimpleConsumer of the worker, for a codec with key frames, with    *)
(* the RTC::Producer and the RTC::RtpStreamRecv that feed it: which packets *)
(* it forwards, when it must start again from a key frame and when it asks *)
(* for one.  A consumer whose peer got only a part of the frames since the *)
(* last key frame is of no use until the next one.                         *)
(*                                                                         *)
(* Each action is one event of the worker's libuv loop.  Packets are told  *)
(* apart by being a key frame; packets that ReceivePacket or               *)
(* MangleRtpPacket reject are no events.  How a request for a key frame    *)
(* reaches the sender is the subject of KeyFrameRequestManager.            *)
(***************************************************************************)
VARIABLES
    producer,       \* record: the producer and its stream
    consumer,       \* record: the consumer
    asked,          \* a key frame was requested and none was received since
    synced,         \* the peer got all packets since its last key frame
    scoreDropped    \* the score was 0 since the consumer last sent a key frame

consumerVars == <<producer, consumer, asked, synced, scoreDropped>>

\* stream: the RtpStreamRecv exists; score: its score is above 0; inactive and
\* timer: RtpStreamRecv::inactive, the inactivity timer runs.
ProducerRecord ==
    [paused : BOOLEAN, stream : BOOLEAN, score : BOOLEAN, inactive : BOOLEAN, timer : BOOLEAN]

\* open: the consumer exists; stream: producerRtpStream is set.
ConsumerRecord ==
    [open : BOOLEAN, paused : BOOLEAN, producerPaused : BOOLEAN, transportConnected : BOOLEAN,
     stream : BOOLEAN, syncRequired : BOOLEAN]

NewConsumer ==
    [open |-> FALSE, paused |-> FALSE, producerPaused |-> FALSE, transportConnected |-> FALSE,
     stream |-> FALSE, syncRequired |-> FALSE]

\* The producer was just created, paused or not.
ConsumerInit ==
    /\ producer \in [paused : BOOLEAN, stream : {FALSE}, score : {FALSE}, inactive : {FALSE},
                     timer : {FALSE}]
    /\ consumer = NewConsumer
    /\ asked = FALSE /\ synced = FALSE /\ scoreDropped = FALSE

---------------------------------------------------------------------------
(* Handlers.                                                               *)

IsActive(p, c) ==
    /\ c.open /\ c.transportConnected
    /\ ~ c.paused /\ ~ c.producerPaused
    /\ c.stream /\ p.score

\* Producer::RequestKeyFrame hears only of known streams, and not when paused.
RequestKeyFrame(p) == ~ p.paused /\ p.stream

\* Mutant: the first packets after a pause are sent whatever they are.
ResumedUnsynced(c) == c

UserOnResumed(c) == [c EXCEPT !.syncRequired = TRUE]

\* The key frame request at the end of UserOnTransportConnected.
AskOnConnected(p, c) == IsActive(p, c) /\ RequestKeyFrame(p)

OnTransportConnected(c) == [c EXCEPT !.transportConnected = TRUE, !.syncRequired = TRUE]

\* The end of CONSUMER_RESUME and of ProducerResumed: the child class hears of
\* it only if the consumer is active now.
Resumed(p, c) == IF IsActive(p, c) THEN UserOnResumed(c) ELSE c

\* SimpleConsumer::SendRtpPacket.
Forwards(p, c, key) == IsActive(p, c) /\ (c.syncRequired => key)

\* Mutant: the check of an inactive stream is not resumed.
ResumeStreamUnwatched(p) == p

\* RtpStreamRecv::Pause and Resume.
PauseStream(p)  == [p EXCEPT !.timer = FALSE]
ResumeStream(p) == [p EXCEPT !.timer = p.stream /\ ~ p.inactive]

---------------------------------------------------------------------------
(* Actions.                                                                *)

\* TRANSPORT_CONSUME: the new consumer is told of the pause and the stream of
\* the producer, then of its transport.
Consume(paused, connected) ==
    /\ ~ consumer.open
    /\ LET c == [NewConsumer EXCEPT !.open = TRUE, !.paused = paused,
                                    !.producerPaused = producer.paused, !.stream = producer.stream]
       IN  IF connected
             THEN /\ consumer' = OnTransportConnected(c)
                  /\ asked' = (asked \/ AskOnConnected(producer, OnTransportConnected(c)))
             ELSE consumer' = c /\ UNCHANGED asked
    /\ scoreDropped' = (producer.stream /\ ~ producer.score)
    /\ synced' = FALSE
    /\ UNCHANGED producer

\* CONSUMER_CLOSE; the application may consume the producer again.
ConsumerClose ==
    /\ consumer.open
    /\ consumer' = NewConsumer
    /\ UNCHANGED <<producer, asked, synced, scoreDropped>>

TransportConnected ==
    /\ consumer.open
    /\ consumer' = OnTransportConnected(consumer)
    /\ asked' = (asked \/ AskOnConnected(producer, consumer'))
    /\ UNCHANGED <<producer, synced, scoreDropped>>

TransportDisconnected ==
    /\ consumer.open
    /\ consumer' = [consumer EXCEPT !.transportConnected = FALSE]
    /\ UNCHANGED <<producer, asked, synced, scoreDropped>>

ConsumerPause ==
    /\ consumer.open /\ ~ consumer.paused
    /\ consumer' = [consumer EXCEPT !.paused = TRUE]
    /\ UNCHANGED <<producer, asked, synced, scoreDropped>>

ConsumerResume ==
    /\ consumer.open /\ consumer.paused
    /\ LET c == [consumer EXCEPT !.paused = FALSE]
       IN  /\ consumer' = Resumed(producer, c)
           /\ asked' = (asked \/ (IsActive(producer, c) /\ RequestKeyFrame(producer)))
    /\ UNCHANGED <<producer, synced, scoreDropped>>

ProducerPause ==
    /\ ~ producer.paused
    /\ producer' = [PauseStream(producer) EXCEPT !.paused = TRUE]
    /\ consumer' = [consumer EXCEPT !.producerPaused = consumer.open]
    /\ UNCHANGED <<asked, synced, scoreDropped>>

\* In the end the producer itself asks for a key frame of each of its streams.
ProducerResume ==
    /\ producer.paused
    /\ producer' = [ResumeStream(producer) EXCEPT !.paused = FALSE]
    /\ consumer' = Resumed(producer', [consumer EXCEPT !.producerPaused = FALSE])
    /\ asked' = (asked \/ producer.stream)
    /\ UNCHANGED <<synced, scoreDropped>>

\* A PLI or FIR of the peer, or the request of the application.
KeyFrameRequested ==
    /\ consumer.open
    /\ asked' = (asked \/ (IsActive(producer, consumer) /\ RequestKeyFrame(producer)))
    /\ UNCHANGED <<producer, consumer, synced, scoreDropped>>

\* Producer::ReceiveRtpPacket.  The first packet creates the stream; one that
\* ends inactivity sets the score before the packet is forwarded.  Every
\* packet restarts the inactivity timer, of a paused producer too.
ReceiveRtpPacket(key) ==
    LET new  == ~ producer.stream
        p    == [producer EXCEPT !.stream = TRUE, !.inactive = FALSE, !.timer = TRUE,
                                 !.score = new \/ producer.inactive \/ producer.score]
        c    == [consumer EXCEPT !.stream = consumer.open]
        sent == ~ p.paused /\ Forwards(p, c, key)
    IN  /\ producer' = p
        /\ consumer' = IF sent THEN [c EXCEPT !.syncRequired = FALSE] ELSE c
        /\ asked' = (~ key /\ (asked \/ (new /\ ~ p.paused)))
        /\ synced' = (sent /\ (key \/ synced))
        /\ scoreDropped' = (scoreDropped /\ ~ (sent /\ key))

\* RtpStreamRecv::OnTimer: the consumer is told of the score, and only passes
\* it on.
InactivityTimeout ==
    /\ producer.timer
    /\ producer' = [producer EXCEPT !.inactive = TRUE, !.score = FALSE, !.timer = FALSE]
    /\ scoreDropped' = TRUE
    /\ UNCHANGED <<consumer, asked, synced>>

\* RtpStreamRecv::UpdateScore, when a receiver report is sent: the score may
\* become anything, 0 included.
UpdateScore(score) ==
    /\ producer.stream /\ ~ producer.inactive
    /\ producer' = [producer EXCEPT !.score = score]
    /\ scoreDropped' = (scoreDropped \/ ~ score)
    /\ UNCHANGED <<consumer, asked, synced>>

ConsumerNext ==
    \/ \E paused, connected \in BOOLEAN : Consume(paused, connected)
    \/ ConsumerClose
    \/ TransportConnected
    \/ TransportDisconnected
    \/ ConsumerPause
    \/ ConsumerResume
    \/ ProducerPause
    \/ ProducerResume
    \/ KeyFrameRequested
    \/ \E key \in BOOLEAN : ReceiveRtpPacket(key)
    \/ InactivityTimeout
    \/ \E score \in BOOLEAN : UpdateScore(score)

ConsumerSpec == ConsumerInit /\ [][ConsumerNext]_consumerVars

---------------------------------------------------------------------------
(* Properties.                                                             *)

ConsumerTypeOK ==
    /\ producer \in ProducerRecord /\ consumer \in ConsumerRecord
    /\ asked \in BOOLEAN /\ synced \in BOOLEAN /\ scoreDropped \in BOOLEAN

\* The next packet, if it is not a key frame, is forwarded only to a peer that
\* got everything since its last key frame, in whatever order the consumer,
\* the producer and the transport stopped and went on.  The exception are
\* streams whose score was 0: IsActive looks at the score, but nothing makes
\* the consumer start again from a key frame when the score recovers.
ForwardsDecodable ==
    Forwards(producer, consumer, FALSE) /\ ~ producer.paused => synced \/ scoreDropped

\* A consumer that waits for a key frame does not wait for one nobody asked
\* for, with the same exception.
WaitingConsumerAsked ==
    IsActive(producer, consumer) /\ consumer.syncRequired => asked \/ scoreDropped

\* The inactivity of a stream is noticed: its timer runs unless the producer
\* is paused or the stream known to be inactive, and the score of an inactive
\* stream is 0 until a packet arrives, however the pauses are timed.
InactivityNoticed ==
    /\ producer.stream /\ ~ producer.paused => producer.timer \/ producer.inactive
    /\ producer.inactive => ~ producer.score /\ ~ producer.timer
=============================================================================
