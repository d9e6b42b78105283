------------------------------ MODULE KeyFrames ------------------------------
(***************************************************************************)
(* A video producer as a whole: one stream of it (SimpleConsumer's         *)
(* producer), a consumer that follows it, and the KeyFrameRequestManager    *)
(* through which every request of that consumer, of other consumers and of *)
(* the producer itself goes, and which hears of every key frame.            *)
(***************************************************************************)
EXTENDS KeyFrameRequestManager, SimpleConsumer

\* A producer of the type "simple" has one stream.
ASSUME OneStream == \E s \in Ssrc : Ssrc = {s}

allVars == <<vars, consumerVars>>

\* The manager is not called.
Uncalled ==
    /\ request' = NoRequest
    /\ UNCHANGED <<code, since, sinceFresh, gotKeyFrame, owed, unsolicited>>

\* A step of the consumer that ends with a key frame request if the consumer is
\* active then: Producer::RequestKeyFrame.
ThenRequest(s) ==
    IF IsActive(producer, consumer') /\ RequestKeyFrame(producer) THEN KeyFrameNeeded(s) ELSE Uncalled

ConsumerAsks(s) ==
    /\ \/ \E paused, connected \in BOOLEAN : Consume(paused, connected)
       \/ TransportConnected
       \/ ConsumerResume
       \/ KeyFrameRequested
    /\ ThenRequest(s)

ConsumerSilent ==
    /\ ConsumerClose \/ TransportDisconnected \/ ConsumerPause \/ ProducerPause
    /\ Uncalled

\* Another consumer of the producer requests a key frame.
OtherConsumerAsks(s) ==
    /\ RequestKeyFrame(producer)
    /\ KeyFrameNeeded(s)
    /\ UNCHANGED consumerVars

\* Mutant: the producer does not ask for its streams.
ResumeUnforced(s) == ProducerResume /\ Uncalled

\* PRODUCER_RESUME.  What the consumers ask for is overtaken by the forced
\* request that follows, which restarts both timers.
ProducerResumeForces(s) ==
    /\ ProducerResume
    /\ IF producer.stream THEN ForceKeyFrameNeeded(s) ELSE Uncalled

\* Producer::ReceiveRtpPacket: a key frame ends what is pending; the first
\* packet of the stream, if it is no key frame, forces a request.
PacketReceived(s, key) ==
    /\ ReceiveRtpPacket(key)
    /\ IF key THEN KeyFrameReceived(s)
       ELSE IF ~ producer.stream /\ ~ producer.paused THEN ForceKeyFrameNeeded(s)
       ELSE Uncalled

ScoreChanges ==
    /\ InactivityTimeout \/ \E score \in BOOLEAN : UpdateScore(score)
    /\ Uncalled

ManagerTimers(s) ==
    /\ OnKeyFrameRequestTimeout(s) \/ OnKeyFrameDelayTimeout(s)
    /\ UNCHANGED consumerVars

TimePasses == Tick /\ UNCHANGED consumerVars

\* The producer is closed, with its consumer, and another one is created.
ProducerReplaced ==
    /\ Recreate
    /\ producer' \in [paused : BOOLEAN, stream : {FALSE}, score : {FALSE}, inactive : {FALSE},
                      timer : {FALSE}]
    /\ consumer' = NewConsumer
    /\ asked' = FALSE /\ synced' = FALSE /\ scoreDropped' = FALSE

AllInit == Init /\ ConsumerInit

AllNext ==
    \/ \E s \in Ssrc :
          \/ ConsumerAsks(s)
          \/ OtherConsumerAsks(s)
          \/ ProducerResumeForces(s)
          \/ \E key \in BOOLEAN : PacketReceived(s, key)
          \/ ManagerTimers(s)
    \/ ConsumerSilent
    \/ ScoreChanges
    \/ TimePasses
    \/ ProducerReplaced

\* Time passes, and libuv eventually fires a timer that stays due.
AllSpec ==
    /\ AllInit /\ [][AllNext]_allVars
    /\ WF_allVars(TimePasses)
    /\ \A s \in Ssrc : WF_allVars(OnKeyFrameRequestTimeout(s) /\ UNCHANGED consumerVars)
                       /\ WF_allVars(OnKeyFrameDelayTimeout(s) /\ UNCHANGED consumerVars)

---------------------------------------------------------------------------
(* Properties.  The exception is SimpleConsumer's: after a score of 0       *)
(* nothing makes the consumer ask.                                          *)

\* The consumer can forward nothing before the next key frame.
Waiting == IsActive(producer, consumer) /\ consumer.syncRequired /\ ~ scoreDropped

\* No active consumer waits for a key frame nobody asked for, and while one waits
\* the last request sent to the peer is one no key frame has answered, or the
\* manager remembers that one has to be sent: a request of the consumer is not
\* lost in a delayer that is replaced, in a pending request that is answered by
\* the key frame of an earlier one, nor when consumer and producer are paused and
\* resumed in between.
WaitingIsRemembered ==
    /\ WaitingConsumerAsked
    /\ \A s \in Ssrc : Waiting => s \notin gotKeyFrame \/ s \in requested \cup retryOnTimeout

\* Every need for a key frame is served in the end, and so is a consumer that
\* waits: a request is sent after the last key frame, or it waits no more.
NeedsAreServed ==
    /\ NeedIsServed
    /\ \A s \in Ssrc : Waiting /\ s \in gotKeyFrame ~> ~ Waiting \/ s \notin gotKeyFrame

\* Requests reach the peer neither too often nor too early: RetransmissionSpaced
\* and DelayRespected of KeyFrameRequestManager.
RequestsSpaced == RetransmissionSpaced /\ DelayRespected
=============================================================================
