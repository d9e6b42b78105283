---------------------- MODULE KeyFramesProofs ----------------------
(***************************************************************************)
(* Proofs about the key frame request manager, about SimpleConsumer, and   *)
(* about both together. For every set of streams, every retransmission time*)
(* and every delay, the manager keeps its rate limits, sends a bounded     *)
(* number of requests on its own and loses no need (Inv). Neither property *)
(* of the consumer is inductive alone: both need to know that the consumer *)
(* and the producer agree about the pause and the stream (Linked), that a  *)
(* consumer connected before its stream exists already waits for a key     *)
(* frame (WaitsForStream), and that a score of 0 was noticed (DropNoticed).*)
(* The composition adds what the consumer's wait means for the manager     *)
(* (WaitingIsRemembered).                                                  *)
(***************************************************************************)
EXTENDS KeyFrames, TLAPS

-----------------------------------------------------------------------------
(* The manager.                                                            *)

\* The constructor establishes the invariant: no timer runs, nothing is owed.
LEMMA InitInv == Init => Inv
BY WaitTimeAssumption, DelayAssumption
DEF Init, Inv, TypeOK, TimersCoverHistory, RequestBudget, StillToSend,
    NeedIsRecorded, NoRequest, Horizon

\* Restarting the delayer keeps it consistent with the clocks and spends the
\* part of the request budget that an enabled delayer held (lines 113-120 and
\* 147-159 of KeyFrameRequestManager.cpp).
LEMMA NewDelayerFacts ==
    ASSUME NEW s \in Ssrc, Inv, NewDelayer(s)
    PROVE  /\ delayer' \subseteq Ssrc /\ requested' \subseteq delayer'
           /\ delayTimer' \in [Ssrc -> 0 .. Delay]
           /\ requested' \subseteq requested
           /\ Delay > 0 => s \notin requested' /\ s \in delayer' /\ delayTimer'[s] = Delay
           /\ Delay = 0 => delayer' = delayer /\ requested' = requested
           /\ \A x \in Ssrc \ {s} : /\ x \in delayer' <=> x \in delayer
                                    /\ x \in requested' <=> x \in requested
                                    /\ delayTimer'[x] = delayTimer[x]
BY DelayAssumption DEF NewDelayer, Inv, TypeOK

\* What the recorded needs can still cause is between none and three requests.
LEMMA StillToSendRange ==
    ASSUME NEW s \in Ssrc
    PROVE  StillToSend(s) \in 0 .. 3
BY DEF StillToSend

\* A step sends for s only if it calls the listener for s, with its cause.
LEMMA SenderIsNamed ==
    ASSUME NEW s \in Ssrc, NEW causes, NEW x \in Ssrc, NEW cause,
           OnKeyFrameNeeded(x, cause), Sends(s, causes)
    PROVE  x = s /\ cause \in causes
BY DEF OnKeyFrameNeeded, Sends

\* A step that calls no listener sends nothing.
LEMMA SilentStep ==
    ASSUME NEW s \in Ssrc, NEW causes, request' = NoRequest, "none" \notin causes
    PROVE  ~ Sends(s, causes)
BY DEF Sends, NoRequest

\* Every operation and every timer callback preserves the invariant.
LEMMA NextInv == Inv /\ [Next]_vars => Inv'
<1> USE WaitTimeAssumption, DelayAssumption
        DEF Inv, TypeOK, Horizon, Request, NoRequest
<1> SUFFICES ASSUME Inv, [Next]_vars
             PROVE  Inv'
    OBVIOUS
<1>1. ASSUME NEW s \in Ssrc, KeyFrameNeeded(s)
      PROVE  Inv'
  <2>1. TypeOK'
    BY <1>1 DEF KeyFrameNeeded, Deferred, NoNotification, NewDelayer, JoinOrRequest,
                StartPending, OnKeyFrameNeeded
  <2>2. TimersCoverHistory'
    BY <1>1 DEF KeyFrameNeeded, Deferred, NoNotification, NewDelayer, JoinOrRequest,
                StartPending, OnKeyFrameNeeded, TimersCoverHistory
  <2>3. RequestBudget'
    BY <1>1 DEF KeyFrameNeeded, Deferred, NoNotification, NewDelayer, JoinOrRequest,
                StartPending, OnKeyFrameNeeded, RequestBudget, StillToSend
  <2>4. NeedIsRecorded'
    BY <1>1 DEF KeyFrameNeeded, Deferred, NoNotification, NewDelayer, JoinOrRequest,
                StartPending, OnKeyFrameNeeded, NeedIsRecorded
  <2> QED BY <2>1, <2>2, <2>3, <2>4
<1>2. ASSUME NEW s \in Ssrc, ForceKeyFrameNeeded(s)
      PROVE  Inv'
  <2>1. TypeOK'
    BY <1>2 DEF ForceKeyFrameNeeded, NewDelayer, StartPending, OnKeyFrameNeeded
  <2>2. TimersCoverHistory'
    BY <1>2 DEF ForceKeyFrameNeeded, NewDelayer, StartPending, OnKeyFrameNeeded, TimersCoverHistory
  <2>3. RequestBudget'
    BY <1>2 DEF ForceKeyFrameNeeded, NewDelayer, StartPending, OnKeyFrameNeeded,
                RequestBudget, StillToSend
  <2>4. NeedIsRecorded'
    \* Replacing the delayer drops its flag, but the forced request serves s.
    BY <1>2, NewDelayerFacts
    DEF ForceKeyFrameNeeded, StartPending, OnKeyFrameNeeded, NeedIsRecorded
  <2> QED BY <2>1, <2>2, <2>3, <2>4
<1>3. ASSUME NEW s \in Ssrc, KeyFrameReceived(s)
      PROVE  Inv'
  BY <1>3 DEF KeyFrameReceived, NoNotification, TimersCoverHistory, RequestBudget, StillToSend,
              NeedIsRecorded
<1>4. ASSUME NEW s \in Ssrc, OnKeyFrameRequestTimeout(s)
      PROVE  Inv'
  <2>1. TypeOK'
    BY <1>4 DEF OnKeyFrameRequestTimeout, NoNotification, StartPending, OnKeyFrameNeeded
  <2>2. TimersCoverHistory'
    \* Only a timer that ran down may fire, so WaitTime has elapsed.
    BY <1>4 DEF OnKeyFrameRequestTimeout, NoNotification, StartPending, OnKeyFrameNeeded,
                TimersCoverHistory
  <2>3. RequestBudget'
    BY <1>4 DEF OnKeyFrameRequestTimeout, NoNotification, StartPending, OnKeyFrameNeeded,
                RequestBudget, StillToSend
  <2>4. NeedIsRecorded'
    BY <1>4 DEF OnKeyFrameRequestTimeout, NoNotification, StartPending, OnKeyFrameNeeded,
                NeedIsRecorded
  <2> QED BY <2>1, <2>2, <2>3, <2>4
<1>5. ASSUME NEW s \in Ssrc, OnKeyFrameDelayTimeout(s)
      PROVE  Inv'
  <2>1. TypeOK'
    BY <1>5 DEF OnKeyFrameDelayTimeout, NoNotification, NewDelayer, JoinOrRequest, Deferred,
                StartPending, OnKeyFrameNeeded
  <2>2. TimersCoverHistory'
    BY <1>5 DEF OnKeyFrameDelayTimeout, NoNotification, NewDelayer, JoinOrRequest, Deferred,
                StartPending, OnKeyFrameNeeded, TimersCoverHistory
  <2>3. RequestBudget'
    <3>1. CASE s \notin requested
      BY <1>5, <3>1 DEF OnKeyFrameDelayTimeout, NoNotification, RequestBudget, StillToSend
    <3>2. CASE s \in requested
      \* The delayer's share of two pays for the request and for its retry.
      <4>1. Delay > 0
        BY <1>5 DEF OnKeyFrameDelayTimeout, TimersCoverHistory
      <4>2. CASE s \in pending
        <5>1. unsolicited' = unsolicited
          BY <1>5, <3>2, <4>2 DEF OnKeyFrameDelayTimeout, NoNotification, JoinOrRequest, Deferred
        <5>2. requested' = requested \ {s} /\ retryOnTimeout' = retryOnTimeout \cup {s}
          BY <1>5, <3>2, <4>1, <4>2 DEF OnKeyFrameDelayTimeout, NewDelayer, JoinOrRequest
        <5> QED BY <3>2, <5>1, <5>2 DEF RequestBudget, StillToSend
      <4>3. CASE s \notin pending
        BY <1>5, <3>2, <4>1, <4>3
        DEF OnKeyFrameDelayTimeout, NewDelayer, JoinOrRequest, StartPending, OnKeyFrameNeeded,
            RequestBudget, StillToSend
      <4> QED BY <4>2, <4>3
    <3> QED BY <3>1, <3>2
  <2>4. NeedIsRecorded'
    BY <1>5 DEF OnKeyFrameDelayTimeout, NoNotification, NewDelayer, JoinOrRequest, Deferred,
                StartPending, OnKeyFrameNeeded, NeedIsRecorded
  <2> QED BY <2>1, <2>2, <2>3, <2>4
<1>6. CASE Recreate
  BY <1>6 DEF Recreate, TimersCoverHistory, RequestBudget, StillToSend, NeedIsRecorded
<1>7. CASE Tick
  BY <1>7 DEF Tick, Elapse, Advance, TimersCoverHistory, RequestBudget, StillToSend, NeedIsRecorded
<1>8. CASE UNCHANGED vars
  BY <1>8 DEF vars, code, history, TimersCoverHistory, RequestBudget, StillToSend, NeedIsRecorded
<1> QED BY <1>1, <1>2, <1>3, <1>4, <1>5, <1>6, <1>7, <1>8 DEF Next

\* The manager's invariant holds in every reachable state: type correctness,
\* the relation of timers to elapsed time, the request budget, and that a
\* need which was not answered is recorded.
THEOREM Invariance == Spec => []Inv
<1>1. Init => Inv
  BY InitInv
<1>2. Inv /\ [Next]_vars => Inv'
  BY NextInv
<1> QED BY <1>1, <1>2, PTL DEF Spec

\* No KeyFrameNeeded call is lost by a timeout, a replaced delayer or an
\* erased pending entry.
THEOREM NeedNeverLost == Spec => []NeedIsRecorded
<1>1. Inv => NeedIsRecorded
  BY DEF Inv
<1> QED BY <1>1, Invariance, PTL

\* A call causes at most three more requests, whatever Delay and WaitTime.
THEOREM RetriesAreBounded == Spec => []RetriesBounded
<1>1. Inv => RetriesBounded
  <2> SUFFICES ASSUME Inv, NEW s \in Ssrc
               PROVE  unsolicited[s] <= 3
    BY DEF RetriesBounded
  <2>1. unsolicited[s] \in Nat /\ unsolicited[s] + StillToSend(s) <= 3
    BY DEF Inv, TypeOK, RequestBudget
  <2>2. StillToSend(s) \in 0 .. 3
    BY StillToSendRange
  <2> QED BY <2>1, <2>2
<1> QED BY <1>1, Invariance, PTL

\* A step that sends an unforced request: no request is pending, or the timer of
\* the pending one has run down.
LEMMA SpacedStep ==
    ASSUME Inv, Next, NEW s \in Ssrc, Sends(s, {"need", "retry", "delayed"})
    PROVE  s \in gotKeyFrame \/ since[s] >= WaitTime
<1>1. request' # NoRequest
  BY SilentStep
<1>2. ASSUME NEW x \in Ssrc, KeyFrameNeeded(x) \/ OnKeyFrameDelayTimeout(x)
      PROVE  x = s /\ s \notin pending
  BY <1>1, <1>2, SenderIsNamed
  DEF KeyFrameNeeded, OnKeyFrameDelayTimeout, JoinOrRequest, Deferred, NoNotification
<1>3. ASSUME NEW x \in Ssrc, OnKeyFrameRequestTimeout(x)
      PROVE  x = s /\ s \in pending /\ pendingTimer[s] = 0
  BY <1>1, <1>3, SenderIsNamed DEF OnKeyFrameRequestTimeout, NoNotification
<1>4. ASSUME NEW x \in Ssrc, ForceKeyFrameNeeded(x)
      PROVE  FALSE
  <2>1. "force" \in {"need", "retry", "delayed"}
    BY <1>4, SenderIsNamed DEF ForceKeyFrameNeeded
  <2> QED BY <2>1
<1>5. ~ Recreate /\ ~ Tick /\ \A x \in Ssrc : ~ KeyFrameReceived(x)
  BY <1>1 DEF KeyFrameReceived, NoNotification, Recreate, Tick
<1>6. s \notin pending \/ (s \in pending /\ pendingTimer[s] = 0)
  BY <1>2, <1>3, <1>4, <1>5 DEF Next
<1> QED BY <1>6, WaitTimeAssumption, DelayAssumption
        DEF Inv, TypeOK, TimersCoverHistory, Horizon

\* A step that sends for a need: there is no delayer, or its timer has run down.
LEMMA DelayedStep ==
    ASSUME Inv, Next, NEW s \in Ssrc, Sends(s, {"need", "delayed"})
    PROVE  sinceFresh[s] >= Delay
<1>1. request' # NoRequest
  BY SilentStep
<1>2. ASSUME NEW x \in Ssrc, KeyFrameNeeded(x)
      PROVE  x = s /\ (Delay = 0 \/ s \notin delayer)
  BY <1>1, <1>2, SenderIsNamed DEF KeyFrameNeeded, JoinOrRequest, Deferred, NoNotification
<1>3. ASSUME NEW x \in Ssrc, OnKeyFrameDelayTimeout(x)
      PROVE  x = s /\ s \in delayer /\ delayTimer[s] = 0
  BY <1>1, <1>3, SenderIsNamed DEF OnKeyFrameDelayTimeout, JoinOrRequest, Deferred, NoNotification
<1>4. ASSUME NEW x \in Ssrc, ForceKeyFrameNeeded(x) \/ OnKeyFrameRequestTimeout(x)
      PROVE  FALSE
  <2>1. "force" \in {"need", "delayed"} \/ "retry" \in {"need", "delayed"}
    BY <1>1, <1>4, SenderIsNamed
    DEF ForceKeyFrameNeeded, OnKeyFrameRequestTimeout, NoNotification
  <2> QED BY <2>1
<1>5. ~ Recreate /\ ~ Tick /\ \A x \in Ssrc : ~ KeyFrameReceived(x)
  BY <1>1 DEF KeyFrameReceived, NoNotification, Recreate, Tick
<1>6. Delay = 0 \/ s \notin delayer \/ (s \in delayer /\ delayTimer[s] = 0)
  BY <1>2, <1>3, <1>4, <1>5 DEF Next
<1> QED BY <1>6, WaitTimeAssumption, DelayAssumption
        DEF Inv, TypeOK, TimersCoverHistory, Horizon

\* Without a key frame, requests that are not forced are WaitTime apart.
THEOREM RetransmissionsAreSpaced == Spec => RetransmissionSpaced
<1> DEFINE Spaced == \A s \in Ssrc : Sends(s, {"need", "retry", "delayed"})
                                       => s \in gotKeyFrame \/ since[s] >= WaitTime
<1>1. Inv /\ [Next]_vars => [Spaced]_vars
  BY SpacedStep
<1> QED BY <1>1, Invariance, PTL DEF Spec, RetransmissionSpaced, Spaced

\* keyFrameRequestDelay is respected by every request made for a need.
THEOREM DelayIsRespected == Spec => DelayRespected
<1> DEFINE Delayed == \A s \in Ssrc : Sends(s, {"need", "delayed"}) => sinceFresh[s] >= Delay
<1>1. Inv /\ [Next]_vars => [Delayed]_vars
  BY DelayedStep
<1> QED BY <1>1, Invariance, PTL DEF Spec, DelayRespected, Delayed

-----------------------------------------------------------------------------
(* The consumer, and both together.                                        *)

\* What the consumer was told of the producer is true.
Linked ==
    /\ consumer.producerPaused <=> consumer.open /\ producer.paused
    /\ consumer.stream <=> consumer.open /\ producer.stream

WaitsForStream ==
    consumer.open /\ consumer.transportConnected /\ ~ consumer.stream => consumer.syncRequired

DropNoticed == consumer.open /\ producer.stream /\ ~ producer.score => scoreDropped

ConsumerInv ==
    /\ ConsumerTypeOK
    /\ Linked
    /\ WaitsForStream
    /\ DropNoticed
    /\ ForwardsDecodable
    /\ WaitingConsumerAsked
    /\ InactivityNoticed

---------------------------------------------------------------------------
(* Every action preserves the invariant.                                   *)

\* A consumer starts to wait with its transport's connection.
LEMMA ConsumeStep ==
    ASSUME ConsumerInv, NEW paused \in BOOLEAN, NEW connected \in BOOLEAN, Consume(paused, connected)
    PROVE  ConsumerInv'
  BY DEF ConsumerInv, ConsumerTypeOK, ProducerRecord, ConsumerRecord, Linked, WaitsForStream, DropNoticed,
         ForwardsDecodable, WaitingConsumerAsked, InactivityNoticed, Forwards, IsActive,
         RequestKeyFrame, Consume, NewConsumer, OnTransportConnected, AskOnConnected

\* A closed consumer forwards nothing.
LEMMA ConsumerCloseStep ==
    ASSUME ConsumerInv, ConsumerClose
    PROVE  ConsumerInv'
  BY DEF ConsumerInv, ConsumerTypeOK, ProducerRecord, ConsumerRecord, Linked, WaitsForStream, DropNoticed,
         ForwardsDecodable, WaitingConsumerAsked, InactivityNoticed, Forwards, IsActive,
         RequestKeyFrame, ConsumerClose, NewConsumer

\* Every connection makes the consumer wait, and ask if it is active.
LEMMA TransportConnectedStep ==
    ASSUME ConsumerInv, TransportConnected
    PROVE  ConsumerInv'
  BY DEF ConsumerInv, ConsumerTypeOK, ProducerRecord, ConsumerRecord, Linked, WaitsForStream, DropNoticed,
         ForwardsDecodable, WaitingConsumerAsked, InactivityNoticed, Forwards, IsActive,
         RequestKeyFrame, TransportConnected, OnTransportConnected, AskOnConnected

\* A disconnected consumer forwards nothing.
LEMMA TransportDisconnectedStep ==
    ASSUME ConsumerInv, TransportDisconnected
    PROVE  ConsumerInv'
  BY DEF ConsumerInv, ConsumerTypeOK, ProducerRecord, ConsumerRecord, Linked, WaitsForStream, DropNoticed,
         ForwardsDecodable, WaitingConsumerAsked, InactivityNoticed, Forwards, IsActive,
         RequestKeyFrame, TransportDisconnected

\* A paused consumer forwards nothing.
LEMMA ConsumerPauseStep ==
    ASSUME ConsumerInv, ConsumerPause
    PROVE  ConsumerInv'
  BY DEF ConsumerInv, ConsumerTypeOK, ProducerRecord, ConsumerRecord, Linked, WaitsForStream, DropNoticed,
         ForwardsDecodable, WaitingConsumerAsked, InactivityNoticed, Forwards, IsActive,
         RequestKeyFrame, ConsumerPause

\* A resumed consumer waits, unless something else stops it or the score is 0.
LEMMA ConsumerResumeStep ==
    ASSUME ConsumerInv, ConsumerResume
    PROVE  ConsumerInv'
  BY DEF ConsumerInv, ConsumerTypeOK, ProducerRecord, ConsumerRecord, Linked, WaitsForStream, DropNoticed,
         ForwardsDecodable, WaitingConsumerAsked, InactivityNoticed, Forwards, IsActive,
         RequestKeyFrame, ConsumerResume, Resumed, UserOnResumed

\* The consumers of a paused producer know it.
LEMMA ProducerPauseStep ==
    ASSUME ConsumerInv, ProducerPause
    PROVE  ConsumerInv'
  BY DEF ConsumerInv, ConsumerTypeOK, ProducerRecord, ConsumerRecord, Linked, WaitsForStream, DropNoticed,
         ForwardsDecodable, WaitingConsumerAsked, InactivityNoticed, Forwards, IsActive,
         RequestKeyFrame, ProducerPause, PauseStream

\* The consumers wait, and the producer asks for all of them.
LEMMA ProducerResumeStep ==
    ASSUME ConsumerInv, ProducerResume
    PROVE  ConsumerInv'
  BY DEF ConsumerInv, ConsumerTypeOK, ProducerRecord, ConsumerRecord, Linked, WaitsForStream, DropNoticed,
         ForwardsDecodable, WaitingConsumerAsked, InactivityNoticed, Forwards, IsActive,
         RequestKeyFrame, ProducerResume, ResumeStream, Resumed, UserOnResumed

\* A request more does no harm.
LEMMA KeyFrameRequestedStep ==
    ASSUME ConsumerInv, KeyFrameRequested
    PROVE  ConsumerInv'
  BY DEF ConsumerInv, ConsumerTypeOK, ProducerRecord, ConsumerRecord, Linked, WaitsForStream, DropNoticed,
         ForwardsDecodable, WaitingConsumerAsked, InactivityNoticed, Forwards, IsActive,
         RequestKeyFrame, KeyFrameRequested

\* A key frame that is dropped leaves nobody waiting for it: those who wait are
\* not active, and ask again.
LEMMA ReceiveRtpPacketStep ==
    ASSUME ConsumerInv, NEW key \in BOOLEAN, ReceiveRtpPacket(key)
    PROVE  ConsumerInv'
  BY DEF ConsumerInv, ConsumerTypeOK, ProducerRecord, ConsumerRecord, Linked, WaitsForStream, DropNoticed,
         ForwardsDecodable, WaitingConsumerAsked, InactivityNoticed, Forwards, IsActive,
         RequestKeyFrame, ReceiveRtpPacket

\* An inactive stream has score 0.
LEMMA InactivityTimeoutStep ==
    ASSUME ConsumerInv, InactivityTimeout
    PROVE  ConsumerInv'
  BY DEF ConsumerInv, ConsumerTypeOK, ProducerRecord, ConsumerRecord, Linked, WaitsForStream, DropNoticed,
         ForwardsDecodable, WaitingConsumerAsked, InactivityNoticed, Forwards, IsActive,
         RequestKeyFrame, InactivityTimeout

\* A score that recovers was 0 before.
LEMMA UpdateScoreStep ==
    ASSUME ConsumerInv, NEW score \in BOOLEAN, UpdateScore(score)
    PROVE  ConsumerInv'
  BY DEF ConsumerInv, ConsumerTypeOK, ProducerRecord, ConsumerRecord, Linked, WaitsForStream, DropNoticed,
         ForwardsDecodable, WaitingConsumerAsked, InactivityNoticed, Forwards, IsActive,
         RequestKeyFrame, UpdateScore

---------------------------------------------------------------------------
(* The theorems.                                                           *)

\* The invariant holds when the producer was just created.
LEMMA ConsumerInitInv == ConsumerInit => ConsumerInv
  <1> SUFFICES ASSUME ConsumerInit
               PROVE  ConsumerInv
    OBVIOUS
  <1>1. producer \in ProducerRecord /\ ~ producer.stream /\ ~ producer.inactive
    BY DEF ConsumerInit, ProducerRecord
  <1>2. /\ consumer \in ConsumerRecord
        /\ ~ consumer.open /\ ~ consumer.producerPaused /\ ~ consumer.stream
    BY DEF ConsumerInit, NewConsumer, ConsumerRecord
  <1>3. asked \in BOOLEAN /\ synced \in BOOLEAN /\ scoreDropped \in BOOLEAN
    BY DEF ConsumerInit
  <1> QED
    BY <1>1, <1>2, <1>3 DEF ConsumerInv, ConsumerTypeOK, Linked, WaitsForStream, DropNoticed, ForwardsDecodable,
                            WaitingConsumerAsked, InactivityNoticed, Forwards, IsActive

\* Every event preserves the invariant.
LEMMA ConsumerNextInv == ConsumerInv /\ [ConsumerNext]_consumerVars => ConsumerInv'
  <1> SUFFICES ASSUME ConsumerInv, [ConsumerNext]_consumerVars
               PROVE  ConsumerInv'
    OBVIOUS
  <1>1. CASE ConsumerNext
    BY <1>1, ConsumeStep, ConsumerCloseStep, TransportConnectedStep, TransportDisconnectedStep,
       ConsumerPauseStep, ConsumerResumeStep, ProducerPauseStep, ProducerResumeStep, KeyFrameRequestedStep,
       ReceiveRtpPacketStep, InactivityTimeoutStep, UpdateScoreStep
       DEF ConsumerNext
  <1>2. CASE UNCHANGED consumerVars
    BY <1>2 DEF consumerVars, ConsumerInv, ConsumerTypeOK, Linked, WaitsForStream, DropNoticed, ForwardsDecodable,
                WaitingConsumerAsked, InactivityNoticed, Forwards, IsActive
  <1> QED
    BY <1>1, <1>2

\* The conjuncts of the invariant hold in every reachable state.
THEOREM ConsumerInvariance == ConsumerSpec => []ConsumerInv
  BY ConsumerInitInv, ConsumerNextInv, PTL DEF ConsumerSpec

\* What SendRtpPacket sends can be decoded, but for scores of 0.
THEOREM SentCanBeDecoded == ConsumerSpec => []ForwardsDecodable
  <1>1. ConsumerInv => ForwardsDecodable
    BY DEF ConsumerInv
  <1> QED
    BY <1>1, ConsumerInvariance, PTL

\* No active consumer waits for a key frame nobody asked for, but for scores
\* of 0.
THEOREM WaitingIsAsked == ConsumerSpec => []WaitingConsumerAsked
  <1>1. ConsumerInv => WaitingConsumerAsked
    BY DEF ConsumerInv
  <1> QED
    BY <1>1, ConsumerInvariance, PTL

\* RtpStreamRecv's timer runs whenever the silence of a stream must be noticed.
THEOREM SilenceIsNoticed == ConsumerSpec => []InactivityNoticed
  <1>1. ConsumerInv => InactivityNoticed
    BY DEF ConsumerInv
  <1> QED
    BY <1>1, ConsumerInvariance, PTL

---------------------------------------------------------------------------
(* The composition.                                                        *)

\* What a step of the composition is for the manager: a step of its own, or it
\* is not called.
LEMMA ManagerStep ==
    ASSUME AllNext
    PROVE  Next \/ Uncalled
  BY DEF AllNext, Next, ConsumerAsks, ThenRequest, OtherConsumerAsks, ProducerResumeForces,
         PacketReceived, ManagerTimers, ConsumerSilent, ScoreChanges, TimePasses, ProducerReplaced

\* A step without a call leaves the manager alone.
LEMMA UncalledInv ==
    ASSUME Inv, Uncalled
    PROVE  Inv'
  BY DEF Inv, Uncalled, TypeOK, TimersCoverHistory, RequestBudget, StillToSend, NeedIsRecorded, code,
         NoRequest

\* What a step of the composition is for the consumer.
LEMMA ConsumerStep ==
    ASSUME AllNext
    PROVE  ConsumerNext \/ UNCHANGED consumerVars \/ ProducerReplaced
  BY DEF AllNext, ConsumerNext, ConsumerAsks, OtherConsumerAsks, ProducerResumeForces,
         PacketReceived, ManagerTimers, ConsumerSilent, ScoreChanges, TimePasses

\* The next producer starts as the first one did.
LEMMA ReplacedInv ==
    ASSUME ProducerReplaced
    PROVE  ConsumerInv'
  BY DEF ProducerReplaced, ConsumerInv, ConsumerTypeOK, ProducerRecord, ConsumerRecord, NewConsumer,
         Linked, WaitsForStream, DropNoticed, ForwardsDecodable, WaitingConsumerAsked,
         InactivityNoticed, Forwards, IsActive

\* The invariant of the composition.
AllInv == Inv /\ ConsumerInv /\ WaitingIsRemembered

\* The part of WaitingIsRemembered that joins consumer and manager.
Remembered(s) == Waiting => s \notin gotKeyFrame \/ s \in requested \cup retryOnTimeout

\* The manager serves or records whatever it is asked for.
LEMMA NeededIsRemembered ==
    ASSUME Inv, NEW s \in Ssrc, KeyFrameNeeded(s) \/ ForceKeyFrameNeeded(s)
    PROVE  s \notin gotKeyFrame' \/ s \in requested' \cup retryOnTimeout'
  BY DEF KeyFrameNeeded, ForceKeyFrameNeeded, Deferred, NoNotification, NewDelayer, JoinOrRequest,
         StartPending, OnKeyFrameNeeded, Inv, TypeOK

\* The timers turn a recorded need into a request or keep it.
LEMMA TimersRemember ==
    ASSUME Inv, NEW s \in Ssrc, OnKeyFrameRequestTimeout(s) \/ OnKeyFrameDelayTimeout(s),
           s \notin gotKeyFrame \/ s \in requested \cup retryOnTimeout
    PROVE  s \notin gotKeyFrame' \/ s \in requested' \cup retryOnTimeout'
  BY DEF OnKeyFrameRequestTimeout, OnKeyFrameDelayTimeout, Deferred, NoNotification, NewDelayer,
         JoinOrRequest, StartPending, OnKeyFrameNeeded, Inv, TypeOK

\* Whatever makes the consumer wait, or ends the wait of the manager.
LEMMA RememberedStep ==
    ASSUME AllInv, AllNext, ConsumerInv', NEW s \in Ssrc
    PROVE  Remembered(s)'
  <1>1. Remembered(s)
    BY DEF AllInv, WaitingIsRemembered, Remembered
  <1>2. \A x \in Ssrc : x = s
    BY OneStream
  <1>3. ASSUME ConsumerAsks(s)
        PROVE  Remembered(s)'
    <2>1. producer' = producer
      BY <1>3 DEF ConsumerAsks, Consume, TransportConnected, ConsumerResume, KeyFrameRequested
    <2>2. CASE ~ Waiting'
      BY <2>2 DEF Remembered
    <2>3. CASE Waiting'
      <3>1. IsActive(producer, consumer') /\ RequestKeyFrame(producer)
        BY <2>1, <2>3 DEF Waiting, IsActive, RequestKeyFrame, ConsumerInv, Linked
      <3> QED
        BY <1>3, <3>1, NeededIsRemembered DEF ConsumerAsks, ThenRequest, AllInv, Remembered
    <2> QED
      BY <2>2, <2>3
  <1>4. ASSUME OtherConsumerAsks(s)
        PROVE  Remembered(s)'
    BY <1>4, NeededIsRemembered DEF OtherConsumerAsks, AllInv, Remembered
  <1>5. ASSUME ProducerResumeForces(s)
        PROVE  Remembered(s)'
    <2>1. CASE producer.stream
      BY <1>5, <2>1, NeededIsRemembered DEF ProducerResumeForces, AllInv, Remembered
    <2>2. CASE ~ producer.stream
      BY <1>5, <2>2 DEF ProducerResumeForces, ProducerResume, Resumed, UserOnResumed, ResumeStream,
                        AllInv, ConsumerInv, ConsumerTypeOK, ProducerRecord, ConsumerRecord, Linked,
                        Remembered, Waiting, IsActive
    <2> QED
      BY <2>1, <2>2
  <1>6. ASSUME NEW key \in BOOLEAN, PacketReceived(s, key)
        PROVE  Remembered(s)'
    <2>1. CASE key
      BY <1>6, <2>1 DEF PacketReceived, ReceiveRtpPacket, Forwards, IsActive, Remembered, Waiting,
                        AllInv, ConsumerInv, ConsumerTypeOK, ProducerRecord, ConsumerRecord, Linked
    <2>2. CASE ~ key /\ ~ producer.stream /\ ~ producer.paused
      BY <1>6, <2>2, NeededIsRemembered DEF PacketReceived, AllInv, Remembered
    <2>3. CASE ~ key /\ (producer.stream \/ producer.paused)
      BY <1>1, <1>6, <2>3
         DEF PacketReceived, Uncalled, code, ReceiveRtpPacket, Forwards, IsActive, Remembered,
             Waiting, AllInv, ConsumerInv, ConsumerTypeOK, ProducerRecord, ConsumerRecord, Linked,
             DropNoticed
    <2> QED
      BY <2>1, <2>2, <2>3
  <1>7. ASSUME ManagerTimers(s)
        PROVE  Remembered(s)'
    BY <1>1, <1>7, TimersRemember
       DEF ManagerTimers, AllInv, Remembered, Waiting, IsActive, consumerVars
  <1>8. CASE ConsumerSilent
    BY <1>1, <1>8 DEF ConsumerSilent, Uncalled, code, ConsumerClose, TransportDisconnected,
                      ConsumerPause, ProducerPause, PauseStream, NewConsumer, Remembered, Waiting,
                      IsActive, AllInv, ConsumerInv, ConsumerTypeOK, ProducerRecord, ConsumerRecord
  <1>9. CASE ScoreChanges
    BY <1>1, <1>9 DEF ScoreChanges, Uncalled, code, InactivityTimeout, UpdateScore, Remembered,
                      Waiting, IsActive, AllInv, ConsumerInv, ConsumerTypeOK, ProducerRecord,
                      ConsumerRecord, Linked, DropNoticed
  <1>10. CASE TimePasses
    BY <1>1, <1>10 DEF TimePasses, Tick, consumerVars, Remembered, Waiting, IsActive
  <1>11. CASE ProducerReplaced
    BY <1>11 DEF ProducerReplaced, Recreate, Remembered
  <1> QED
    BY <1>2, <1>3, <1>4, <1>5, <1>6, <1>7, <1>8, <1>9, <1>10, <1>11 DEF AllNext

\* The manager, the consumer and what joins them, in every reachable state.
THEOREM AllInvariance == AllSpec => []AllInv
  <1>1. AllInit => AllInv
    BY InitInv, ConsumerInitInv
       DEF AllInit, AllInv, WaitingIsRemembered, ConsumerInv, Init
  <1>2. AllInv /\ [AllNext]_allVars => AllInv'
    <2> SUFFICES ASSUME AllInv, [AllNext]_allVars
                 PROVE  AllInv'
      OBVIOUS
    <2>1. CASE AllNext
      <3>1. Inv'
        BY <2>1, ManagerStep, UncalledInv, NextInv DEF AllInv
      <3>2. ConsumerInv'
        BY <2>1, ConsumerStep, ConsumerNextInv, ReplacedInv DEF AllInv
      <3>3. WaitingConsumerAsked'
        BY <3>2 DEF ConsumerInv
      <3>4. \A s \in Ssrc : Remembered(s)'
        BY <2>1, <3>2, RememberedStep
      <3> QED
        BY <3>1, <3>2, <3>3, <3>4 DEF AllInv, WaitingIsRemembered, Remembered
    <2>2. CASE UNCHANGED allVars
      <3>1. UNCHANGED vars /\ UNCHANGED consumerVars
        BY <2>2 DEF allVars
      <3>2. Inv' /\ ConsumerInv'
        BY <3>1, NextInv, ConsumerNextInv DEF AllInv
      <3>3. WaitingIsRemembered'
        BY <3>1, <3>2 DEF AllInv, ConsumerInv, WaitingIsRemembered, Waiting, IsActive, vars, code,
                          history, consumerVars
      <3> QED
        BY <3>2, <3>3 DEF AllInv
    <2> QED
      BY <2>1, <2>2
  <1> QED
    BY <1>1, <1>2, PTL DEF AllSpec

\* A consumer that waits is remembered, by the peer or by the manager, for every
\* delay and retransmission time.
THEOREM WaitingAlwaysRemembered == AllSpec => []WaitingIsRemembered
  <1>1. AllInv => WaitingIsRemembered
    BY DEF AllInv
  <1> QED
    BY <1>1, AllInvariance, PTL

\* The rate limits hold for the requests of the consumers and the producer.
THEOREM RequestsAlwaysSpaced == AllSpec => RequestsSpaced
  <1> DEFINE Spaced == \A s \in Ssrc : Sends(s, {"need", "retry", "delayed"})
                                         => s \in gotKeyFrame \/ since[s] >= WaitTime
             Delayed == \A s \in Ssrc : Sends(s, {"need", "delayed"}) => sinceFresh[s] >= Delay
  <1>1. AllInv /\ [AllNext]_allVars => [Spaced]_vars /\ [Delayed]_vars
    <2> SUFFICES ASSUME AllInv, [AllNext]_allVars, ~ UNCHANGED vars
                 PROVE  Spaced /\ Delayed
      OBVIOUS
    <2>1. AllNext
      BY DEF allVars
    <2>2. CASE Next
      BY <2>2, SpacedStep, DelayedStep DEF AllInv
    <2>3. CASE Uncalled
      BY <2>3, SilentStep DEF Uncalled
    <2> QED
      BY <2>1, <2>2, <2>3, ManagerStep
  <1> QED
    BY <1>1, AllInvariance, PTL
       DEF AllSpec, RequestsSpaced, RetransmissionSpaced, DelayRespected, Spaced, Delayed
=============================================================================
