---------------------------- MODULE RouterProofs ----------------------------
(***************************************************************************)
(* Proofs about Router for every set of ids.                               *)
(*                                                                         *)
(* The properties need each other: the maps of the router, the transports  *)
(* and the observers are inductive only together.  That a closed producer  *)
(* leaves nothing behind (CloseStep) rests on the agreement of the maps of *)
(* the router; that a consumer knows about its producer rests on both maps *)
(* leading to the same producer.                                           *)
(***************************************************************************)
EXTENDS Router, TLAPS

Inv ==
    /\ TypeOK
    /\ NoDanglingPointers
    /\ MapsAgree
    /\ PauseKnown
    /\ ConnectionKnown
    /\ ObserversFollowProducers

---------------------------------------------------------------------------
(* Every action preserves the invariant.                                   *)

\* Closing the producers P and the consumers C, and possibly their transport.
LEMMA CloseStep ==
    ASSUME Inv, NEW P \in SUBSET producers, NEW C \in SUBSET consumers,
           CloseProducersAndConsumers(P, C),
           transports' \subseteq transports, connected' \subseteq connected,
           \A x \in (producers \ P) \cup (consumers \ C) :
              x[1] \in transports' /\ (x[1] \in connected' <=> x[1] \in connected)
    PROVE  Inv'
  <1> DEFINE D == ConsumersOf(P) \cup C
  <1>1. /\ D \subseteq consumers
        /\ \A c \in consumers : c \in D <=> c \in C \/ mapConsumerProducer[c] \in P
        /\ \A p \in producers \ P : mapProducerConsumers[p] \cap ConsumersOf(P) = {}
    BY DEF Inv, NoDanglingPointers, MapsAgree, ConsumersOf
  <1>2. /\ producers' = producers \ P /\ consumers' = consumers \ D
        /\ producerPaused' = [p \in producers' |-> producerPaused[p]]
        /\ consumerStatus' = [c \in consumers' |-> consumerStatus[c]]
        /\ mapConsumerProducer' = [c \in consumers' |-> mapConsumerProducer[c]]
        /\ mapProducerRtpObservers' = [p \in producers' |-> mapProducerRtpObservers[p]]
    BY DEF Inv, NoDanglingPointers, MapsAgree, CloseProducersAndConsumers, DeleteConsumers,
           OnTransportProducerClosed, Without, Restrict
  <1>3. mapProducerConsumers' = [p \in producers' |-> mapProducerConsumers[p] \ D]
    BY <1>1, <1>2 DEF Inv, MapsAgree, CloseProducersAndConsumers, OnTransportConsumerClosed,
                      Without, Restrict
  <1>4. mapProducerDBovs' = [o \in RtpObservers |-> mapProducerDBovs[o] \ P]
    BY DEF Inv, NoDanglingPointers, MapsAgree, ObserversFollowProducers, RtpObservers,
           CloseProducersAndConsumers, OnTransportProducerClosed
  <1>5. /\ mapProducers' = [id \in DOMAIN mapProducers \ {p[2] : p \in P} |-> mapProducers[id]]
        /\ \A id \in DOMAIN mapProducers' : mapProducers[id] \in producers'
        /\ \A p \in producers' : p[2] \in DOMAIN mapProducers'
    <2>1. mapProducers' = [id \in DOMAIN mapProducers \ {p[2] : p \in P} |-> mapProducers[id]]
      BY DEF CloseProducersAndConsumers, OnTransportProducerClosed, Without, Restrict
    <2>2. \A id \in DOMAIN mapProducers : mapProducers[id][2] = id
      BY DEF Inv, MapsAgree
    <2> QED
      BY <1>2, <2>1, <2>2 DEF Inv, NoDanglingPointers, MapsAgree
  <1> HIDE DEF D
  <1>6. TypeOK'
    BY <1>1, <1>2, <1>3, <1>4, <1>5 DEF Inv, TypeOK, IsMap, RtpObservers, NoDanglingPointers, MapsAgree
  <1>7. NoDanglingPointers'
    BY <1>1, <1>2, <1>3, <1>4, <1>5 DEF Inv, NoDanglingPointers, MapsAgree, RtpObservers
  <1>8. MapsAgree'
    BY <1>1, <1>2, <1>3, <1>5 DEF Inv, NoDanglingPointers, MapsAgree
  <1>9. PauseKnown'
    <2>1. \A c \in consumers' : c \in consumers /\ mapConsumerProducer[c] \in producers'
      BY <1>1, <1>2 DEF Inv, TypeOK, IsMap, MapsAgree, NoDanglingPointers
    <2> QED
      BY <1>2, <2>1 DEF Inv, PauseKnown
  <1>10. ConnectionKnown'
    BY <1>1, <1>2 DEF Inv, ConnectionKnown
  <1>11. ObserversFollowProducers'
    BY <1>2, <1>4 DEF Inv, ObserversFollowProducers, RtpObservers
  <1> QED
    BY <1>6, <1>7, <1>8, <1>9, <1>10, <1>11 DEF Inv

\* The transport goes with all that it owns.
LEMMA TransportCloseStep ==
    ASSUME Inv, NEW t \in Transport, TransportClose(t)
    PROVE  Inv'
  <1>1. \A x \in (producers \ OfTransport(producers, t)) \cup (consumers \ OfTransport(consumers, t)) :
           x[1] # t /\ x[1] \in transports
    BY DEF OfTransport, Inv, NoDanglingPointers
  <1>2. OfTransport(producers, t) \in SUBSET producers /\ OfTransport(consumers, t) \in SUBSET consumers
    BY DEF OfTransport
  <1> QED
    BY <1>1, <1>2, CloseStep DEF TransportClose

\* A producer takes its consumers with it.
LEMMA ProducerCloseStep ==
    ASSUME Inv, NEW p \in Producer, ProducerClose(p)
    PROVE  Inv'
  <1>1. {p} \in SUBSET producers /\ {} \in SUBSET consumers
    BY DEF ProducerClose
  <1> QED
    BY <1>1, CloseStep DEF ProducerClose, Inv, NoDanglingPointers

\* A consumer is closed alone.
LEMMA ConsumerCloseStep ==
    ASSUME Inv, NEW c \in Consumer, ConsumerClose(c)
    PROVE  Inv'
  <1>1. {} \in SUBSET producers /\ {c} \in SUBSET consumers
    BY DEF ConsumerClose
  <1> QED
    BY <1>1, CloseStep DEF ConsumerClose, Inv, NoDanglingPointers

\* A new transport has neither producers nor consumers.
LEMMA CreateTransportStep ==
    ASSUME Inv, NEW t \in Transport, CreateTransport(t)
    PROVE  Inv'
  <1>1. TypeOK'
    BY DEF Inv, TypeOK, IsMap, CreateTransport, mediaVars
  <1>2. NoDanglingPointers'
    BY DEF Inv, NoDanglingPointers, MapsAgree, RtpObservers, CreateTransport, mediaVars
  <1>3. MapsAgree'
    BY DEF Inv, MapsAgree, NoDanglingPointers, CreateTransport, mediaVars
  <1>4. PauseKnown'
    BY DEF Inv, PauseKnown, MapsAgree, NoDanglingPointers, CreateTransport, mediaVars
  <1>5. ConnectionKnown'
    BY DEF Inv, ConnectionKnown, NoDanglingPointers, CreateTransport, mediaVars
  <1>6. ObserversFollowProducers'
    BY DEF Inv, ObserversFollowProducers, MapsAgree, NoDanglingPointers, RtpObservers,
           CreateTransport, mediaVars
  <1> QED
    BY <1>1, <1>2, <1>3, <1>4, <1>5, <1>6 DEF Inv

\* A new observer observes nothing.
LEMMA CreateAudioLevelObserverStep ==
    ASSUME Inv, NEW o \in RtpObserver, CreateAudioLevelObserver(o)
    PROVE  Inv'
  <1>1. TypeOK'
    BY DEF Inv, TypeOK, IsMap, CreateAudioLevelObserver, Put, mediaVars
  <1>2. NoDanglingPointers'
    BY DEF Inv, NoDanglingPointers, MapsAgree, RtpObservers, CreateAudioLevelObserver, Put,
           mediaVars
  <1>3. MapsAgree'
    BY DEF Inv, MapsAgree, NoDanglingPointers, CreateAudioLevelObserver, Put, mediaVars
  <1>4. PauseKnown'
    BY DEF Inv, PauseKnown, MapsAgree, NoDanglingPointers, CreateAudioLevelObserver, Put,
           mediaVars
  <1>5. ConnectionKnown'
    BY DEF Inv, ConnectionKnown, NoDanglingPointers, CreateAudioLevelObserver, Put,
           mediaVars
  <1>6. ObserversFollowProducers'
    BY DEF Inv, ObserversFollowProducers, MapsAgree, NoDanglingPointers, RtpObservers,
           CreateAudioLevelObserver, Put, mediaVars
  <1> QED
    BY <1>1, <1>2, <1>3, <1>4, <1>5, <1>6 DEF Inv

\* A closed observer is taken out of the set of every producer.
LEMMA RtpObserverCloseStep ==
    ASSUME Inv, NEW o \in RtpObserver, RtpObserverClose(o)
    PROVE  Inv'
  <1>1. TypeOK'
    BY DEF Inv, TypeOK, IsMap, RtpObserverClose, Without, Restrict
  <1>2. NoDanglingPointers'
    BY DEF Inv, NoDanglingPointers, MapsAgree, RtpObservers, RtpObserverClose, Without,
           Restrict
  <1>3. MapsAgree'
    BY DEF Inv, MapsAgree, NoDanglingPointers, RtpObserverClose, Without, Restrict
  <1>4. PauseKnown'
    BY DEF Inv, PauseKnown, MapsAgree, NoDanglingPointers, RtpObserverClose, Without,
           Restrict
  <1>5. ConnectionKnown'
    BY DEF Inv, ConnectionKnown, NoDanglingPointers, RtpObserverClose, Without, Restrict
  <1>6. ObserversFollowProducers'
    BY DEF Inv, ObserversFollowProducers, MapsAgree, NoDanglingPointers, RtpObservers,
           RtpObserverClose, Without, Restrict
  <1> QED
    BY <1>1, <1>2, <1>3, <1>4, <1>5, <1>6 DEF Inv

\* Both maps gain the entry.
LEMMA RtpObserverAddProducerStep ==
    ASSUME Inv, NEW o \in RtpObserver, NEW id \in ProducerId, RtpObserverAddProducer(o, id)
    PROVE  Inv'
  <1>1. TypeOK'
    BY DEF Inv, TypeOK, IsMap, NoDanglingPointers, MapsAgree, RtpObserverAddProducer, SetObserved,
           Put, RtpObservers
  <1>2. NoDanglingPointers'
    BY DEF Inv, NoDanglingPointers, MapsAgree, RtpObservers, RtpObserverAddProducer,
           SetObserved, Put
  <1>3. MapsAgree'
    BY DEF Inv, TypeOK, IsMap, NoDanglingPointers, MapsAgree, RtpObserverAddProducer, SetObserved,
           Put, RtpObservers
  <1>4. PauseKnown'
    BY DEF Inv, PauseKnown, MapsAgree, NoDanglingPointers, RtpObserverAddProducer,
           SetObserved, Put
  <1>5. ConnectionKnown'
    BY DEF Inv, ConnectionKnown, NoDanglingPointers, RtpObserverAddProducer, SetObserved,
           Put
  <1>6. ObserversFollowProducers'
    BY DEF Inv, ObserversFollowProducers, MapsAgree, NoDanglingPointers, RtpObservers,
           RtpObserverAddProducer, SetObserved, Put
  <1> QED
    BY <1>1, <1>2, <1>3, <1>4, <1>5, <1>6 DEF Inv

\* Both maps lose the entry.
LEMMA RtpObserverRemoveProducerStep ==
    ASSUME Inv, NEW o \in RtpObserver, NEW id \in ProducerId, RtpObserverRemoveProducer(o, id)
    PROVE  Inv'
  <1>1. TypeOK'
    BY DEF Inv, TypeOK, IsMap, NoDanglingPointers, MapsAgree, RtpObserverRemoveProducer, SetObserved,
           Put, RtpObservers
  <1>2. NoDanglingPointers'
    BY DEF Inv, NoDanglingPointers, MapsAgree, RtpObservers, RtpObserverRemoveProducer,
           SetObserved, Put
  <1>3. MapsAgree'
    BY DEF Inv, TypeOK, IsMap, NoDanglingPointers, MapsAgree, RtpObserverRemoveProducer, SetObserved,
           Put, RtpObservers
  <1>4. PauseKnown'
    BY DEF Inv, PauseKnown, MapsAgree, NoDanglingPointers, RtpObserverRemoveProducer,
           SetObserved, Put
  <1>5. ConnectionKnown'
    BY DEF Inv, ConnectionKnown, NoDanglingPointers, RtpObserverRemoveProducer, SetObserved,
           Put
  <1>6. ObserversFollowProducers'
    BY DEF Inv, ObserversFollowProducers, MapsAgree, NoDanglingPointers, RtpObservers,
           RtpObserverRemoveProducer, SetObserved, Put
  <1> QED
    BY <1>1, <1>2, <1>3, <1>4, <1>5, <1>6 DEF Inv

\* Nothing is left of a closed router.
LEMMA RouterCloseStep ==
    ASSUME Inv, RouterClose
    PROVE  Inv'
  <1>1. TypeOK'
    BY DEF Inv, TypeOK, IsMap, RouterClose, Empty
  <1>2. NoDanglingPointers'
    BY DEF Inv, NoDanglingPointers, MapsAgree, RtpObservers, RouterClose, Empty
  <1>3. MapsAgree'
    BY DEF Inv, MapsAgree, NoDanglingPointers, RouterClose, Empty
  <1>4. PauseKnown'
    BY DEF Inv, PauseKnown, MapsAgree, NoDanglingPointers, RouterClose, Empty
  <1>5. ConnectionKnown'
    BY DEF Inv, ConnectionKnown, NoDanglingPointers, RouterClose, Empty
  <1>6. ObserversFollowProducers'
    BY DEF Inv, ObserversFollowProducers, MapsAgree, NoDanglingPointers, RtpObservers,
           RouterClose, Empty
  <1> QED
    BY <1>1, <1>2, <1>3, <1>4, <1>5, <1>6 DEF Inv

\* A new producer has an id no other has, and no consumers.
LEMMA ProduceStep ==
    ASSUME Inv, NEW t \in Transport, NEW id \in ProducerId, NEW paused \in BOOLEAN, Produce(t, id, paused)
    PROVE  Inv'
  <1>1. TypeOK'
    BY DEF Inv, TypeOK, IsMap, Produce, Put, Producer
  <1>2. NoDanglingPointers'
    BY DEF Inv, NoDanglingPointers, MapsAgree, RtpObservers, Produce, Put, Producer
  <1>3. MapsAgree'
    BY DEF Inv, MapsAgree, NoDanglingPointers, Produce, Put, Producer
  <1>4. PauseKnown'
    BY DEF Inv, PauseKnown, MapsAgree, NoDanglingPointers, Produce, Put, Producer
  <1>5. ConnectionKnown'
    BY DEF Inv, ConnectionKnown, NoDanglingPointers, Produce, Put, Producer
  <1>6. ObserversFollowProducers'
    BY DEF Inv, ObserversFollowProducers, MapsAgree, NoDanglingPointers, RtpObservers,
           Produce, Put, Producer
  <1> QED
    BY <1>1, <1>2, <1>3, <1>4, <1>5, <1>6 DEF Inv

\* A new consumer learns at once about its producer and its transport.
LEMMA ConsumeStep ==
    ASSUME Inv, NEW t \in Transport, NEW id \in ConsumerId,
           NEW producerId \in ProducerId, NEW paused \in BOOLEAN, Consume(t, id, producerId, paused)
    PROVE  Inv'
  <1>1. TypeOK'
    BY DEF Inv, TypeOK, IsMap, NoDanglingPointers, MapsAgree, Consume, NewConsumer, Put, Consumer,
           Status
  <1>2. NoDanglingPointers'
    BY DEF Inv, NoDanglingPointers, MapsAgree, RtpObservers, Consume, NewConsumer, Put,
           Consumer, Status
  <1>3. MapsAgree'
    <2> DEFINE c == <<t, id>>
               p == mapProducers[producerId]
    <2>1. p \in producers /\ c \notin consumers /\ consumers' = consumers \cup {c}
          /\ UNCHANGED <<producers, mapProducers, mapProducerRtpObservers>>
      BY DEF Inv, NoDanglingPointers, Consume
    <2>2. mapConsumerProducer' = [d \in consumers' |-> IF d = c THEN p ELSE mapConsumerProducer[d]]
      BY <2>1 DEF Inv, MapsAgree, Consume, Put
    <2>3. mapProducerConsumers' = [q \in producers |-> IF q = p THEN mapProducerConsumers[p] \cup {c}
                                                                ELSE mapProducerConsumers[q]]
      BY <2>1 DEF Inv, TypeOK, IsMap, MapsAgree, Consume
    <2>4. \A q \in producers : c \notin mapProducerConsumers[q]
      BY <2>1 DEF Inv, NoDanglingPointers, MapsAgree
    <2> HIDE DEF c, p
    <2> QED
      BY <2>1, <2>2, <2>3, <2>4 DEF Inv, MapsAgree
  <1>4. PauseKnown'
    BY DEF Inv, PauseKnown, MapsAgree, NoDanglingPointers, Consume, NewConsumer, Put,
           Consumer, Status
  <1>5. ConnectionKnown'
    <2> DEFINE c == <<t, id>>
               s == NewConsumer(t, mapProducers[producerId], paused)
    <2>1. consumerStatus' = [d \in consumers \cup {c} |-> IF d = c THEN s ELSE consumerStatus[d]]
          /\ consumers' = consumers \cup {c} /\ UNCHANGED connected
      BY DEF Inv, NoDanglingPointers, Consume, Put
    <2>2. c[1] = t /\ (s.transportConnected <=> t \in connected)
      BY DEF NewConsumer
    <2> HIDE DEF c, s
    <2> QED
      BY <2>1, <2>2 DEF Inv, ConnectionKnown
  <1>6. ObserversFollowProducers'
    BY DEF Inv, ObserversFollowProducers, MapsAgree, NoDanglingPointers, RtpObservers,
           Consume, NewConsumer, Put, Consumer, Status
  <1> QED
    BY <1>1, <1>2, <1>3, <1>4, <1>5, <1>6 DEF Inv

\* All consumers and observers of the producer are told.
LEMMA ProducerPauseStep ==
    ASSUME Inv, NEW p \in Producer, ProducerPause(p)
    PROVE  Inv'
  <1>1. TypeOK'
    <2>1. consumerStatus' \in [DOMAIN consumerStatus -> Status]
      BY DEF Inv, TypeOK, IsMap, ProducerPause, TellConsumers, ProducerPaused, Status
    <2>2. IsMap(mapProducerDBovs, RtpObserver, SUBSET Producer)'
      BY DEF Inv, TypeOK, IsMap, ProducerPause, RtpObservers
    <2> QED
      BY <2>1, <2>2 DEF Inv, TypeOK, IsMap, ProducerPause, TellConsumers
  <1>2. NoDanglingPointers'
    BY DEF Inv, NoDanglingPointers, MapsAgree, RtpObservers, ProducerPause, TellConsumers,
           ProducerPaused, Status
  <1>3. MapsAgree'
    BY DEF Inv, MapsAgree, NoDanglingPointers, ProducerPause, TellConsumers, ProducerPaused,
           Status
  <1>4. PauseKnown'
    <2>1. producerPaused' = [q \in producers |-> IF q = p THEN TRUE ELSE producerPaused[q]]
      BY DEF Inv, TypeOK, IsMap, NoDanglingPointers, ProducerPause
    <2>2. \A c \in consumers : mapConsumerProducer[c] \in producers
      BY DEF Inv, NoDanglingPointers, MapsAgree
    <2>3. \A c \in consumers : c \in mapProducerConsumers[p] <=> mapConsumerProducer[c] = p
      BY DEF Inv, MapsAgree, ProducerPause
    <2>4. \A c \in consumers : consumerStatus'[c].producerPaused =
             IF c \in mapProducerConsumers[p] THEN TRUE ELSE consumerStatus[c].producerPaused
      BY DEF Inv, TypeOK, IsMap, NoDanglingPointers, ProducerPause, TellConsumers, ProducerPaused, Status
    <2> QED
      BY <2>1, <2>2, <2>3, <2>4 DEF Inv, PauseKnown, ProducerPause
  <1>5. ConnectionKnown'
    BY DEF Inv, ConnectionKnown, NoDanglingPointers, ProducerPause, TellConsumers,
           ProducerPaused, Status
  <1>6. ObserversFollowProducers'
    BY DEF Inv, ObserversFollowProducers, MapsAgree, NoDanglingPointers, RtpObservers,
           ProducerPause, TellConsumers, ProducerPaused, Status
  <1> QED
    BY <1>1, <1>2, <1>3, <1>4, <1>5, <1>6 DEF Inv

\* All consumers and observers of the producer are told.
LEMMA ProducerResumeStep ==
    ASSUME Inv, NEW p \in Producer, ProducerResume(p)
    PROVE  Inv'
  <1>1. TypeOK'
    <2>1. consumerStatus' \in [DOMAIN consumerStatus -> Status]
      BY DEF Inv, TypeOK, IsMap, ProducerResume, TellConsumers, ProducerResumed, Status
    <2>2. IsMap(mapProducerDBovs, RtpObserver, SUBSET Producer)'
      BY DEF Inv, TypeOK, IsMap, ProducerResume, RtpObservers
    <2> QED
      BY <2>1, <2>2 DEF Inv, TypeOK, IsMap, ProducerResume, TellConsumers
  <1>2. NoDanglingPointers'
    BY DEF Inv, NoDanglingPointers, MapsAgree, RtpObservers, ProducerResume, TellConsumers,
           ProducerResumed, Status
  <1>3. MapsAgree'
    BY DEF Inv, MapsAgree, NoDanglingPointers, ProducerResume, TellConsumers,
           ProducerResumed, Status
  <1>4. PauseKnown'
    <2>1. producerPaused' = [q \in producers |-> IF q = p THEN FALSE ELSE producerPaused[q]]
      BY DEF Inv, TypeOK, IsMap, NoDanglingPointers, ProducerResume
    <2>2. \A c \in consumers : mapConsumerProducer[c] \in producers
      BY DEF Inv, NoDanglingPointers, MapsAgree
    <2>3. \A c \in consumers : c \in mapProducerConsumers[p] <=> mapConsumerProducer[c] = p
      BY DEF Inv, MapsAgree, ProducerResume
    <2>4. \A c \in consumers : consumerStatus'[c].producerPaused =
             IF c \in mapProducerConsumers[p] THEN FALSE ELSE consumerStatus[c].producerPaused
      BY DEF Inv, TypeOK, IsMap, NoDanglingPointers, ProducerResume, TellConsumers, ProducerResumed, Status
    <2> QED
      BY <2>1, <2>2, <2>3, <2>4 DEF Inv, PauseKnown, ProducerResume
  <1>5. ConnectionKnown'
    BY DEF Inv, ConnectionKnown, NoDanglingPointers, ProducerResume, TellConsumers,
           ProducerResumed, Status
  <1>6. ObserversFollowProducers'
    BY DEF Inv, ObserversFollowProducers, MapsAgree, NoDanglingPointers, RtpObservers,
           ProducerResume, TellConsumers, ProducerResumed, Status
  <1> QED
    BY <1>1, <1>2, <1>3, <1>4, <1>5, <1>6 DEF Inv

\* A consumer's own pause is none of the others' business.
LEMMA ConsumerSetPausedStep ==
    ASSUME Inv, NEW c \in Consumer, NEW paused \in BOOLEAN, ConsumerSetPaused(c, paused)
    PROVE  Inv'
  <1>1. TypeOK'
    <2>1. consumerStatus' \in [DOMAIN consumerStatus -> Status]
      BY DEF Inv, TypeOK, IsMap, ConsumerSetPaused, Status
    <2> QED
      BY <2>1 DEF Inv, TypeOK, IsMap, ConsumerSetPaused
  <1>2. NoDanglingPointers'
    BY DEF Inv, NoDanglingPointers, MapsAgree, RtpObservers, ConsumerSetPaused, Status
  <1>3. MapsAgree'
    BY DEF Inv, MapsAgree, NoDanglingPointers, ConsumerSetPaused, Status
  <1>4. PauseKnown'
    BY DEF Inv, PauseKnown, MapsAgree, NoDanglingPointers, ConsumerSetPaused, Status
  <1>5. ConnectionKnown'
    BY DEF Inv, ConnectionKnown, NoDanglingPointers, ConsumerSetPaused, Status
  <1>6. ObserversFollowProducers'
    BY DEF Inv, ObserversFollowProducers, MapsAgree, NoDanglingPointers, RtpObservers,
           ConsumerSetPaused, Status
  <1> QED
    BY <1>1, <1>2, <1>3, <1>4, <1>5, <1>6 DEF Inv

\* All consumers of the transport are told.
LEMMA ConnectedStep ==
    ASSUME Inv, NEW t \in Transport, Connected(t)
    PROVE  Inv'
  <1>1. TypeOK'
    <2>1. consumerStatus' \in [DOMAIN consumerStatus -> Status]
      BY DEF Inv, TypeOK, IsMap, Connected, TellConsumers, TransportConnected, Status
    <2> QED
      BY <2>1 DEF Inv, TypeOK, IsMap, Connected, TellConsumers
  <1>2. NoDanglingPointers'
    BY DEF Inv, NoDanglingPointers, MapsAgree, RtpObservers, Connected, TellConsumers,
           OfTransport, TransportConnected, Status
  <1>3. MapsAgree'
    BY DEF Inv, MapsAgree, NoDanglingPointers, Connected, TellConsumers, OfTransport,
           TransportConnected, Status
  <1>4. PauseKnown'
    BY DEF Inv, PauseKnown, MapsAgree, NoDanglingPointers, Connected, TellConsumers,
           OfTransport, TransportConnected, Status
  <1>5. ConnectionKnown'
    BY DEF Inv, ConnectionKnown, NoDanglingPointers, Connected, TellConsumers, OfTransport,
           TransportConnected, Status
  <1>6. ObserversFollowProducers'
    BY DEF Inv, ObserversFollowProducers, MapsAgree, NoDanglingPointers, RtpObservers,
           Connected, TellConsumers, OfTransport, TransportConnected, Status
  <1> QED
    BY <1>1, <1>2, <1>3, <1>4, <1>5, <1>6 DEF Inv

\* All consumers of the transport are told.
LEMMA DisconnectedStep ==
    ASSUME Inv, NEW t \in Transport, Disconnected(t)
    PROVE  Inv'
  <1>1. TypeOK'
    <2>1. consumerStatus' \in [DOMAIN consumerStatus -> Status]
      BY DEF Inv, TypeOK, IsMap, Disconnected, TellConsumers, TransportDisconnected, Status
    <2> QED
      BY <2>1 DEF Inv, TypeOK, IsMap, Disconnected, TellConsumers
  <1>2. NoDanglingPointers'
    BY DEF Inv, NoDanglingPointers, MapsAgree, RtpObservers, Disconnected, TellConsumers,
           OfTransport, TransportDisconnected, Status
  <1>3. MapsAgree'
    BY DEF Inv, MapsAgree, NoDanglingPointers, Disconnected, TellConsumers, OfTransport,
           TransportDisconnected, Status
  <1>4. PauseKnown'
    BY DEF Inv, PauseKnown, MapsAgree, NoDanglingPointers, Disconnected, TellConsumers,
           OfTransport, TransportDisconnected, Status
  <1>5. ConnectionKnown'
    BY DEF Inv, ConnectionKnown, NoDanglingPointers, Disconnected, TellConsumers,
           OfTransport, TransportDisconnected, Status
  <1>6. ObserversFollowProducers'
    BY DEF Inv, ObserversFollowProducers, MapsAgree, NoDanglingPointers, RtpObservers,
           Disconnected, TellConsumers, OfTransport, TransportDisconnected, Status
  <1> QED
    BY <1>1, <1>2, <1>3, <1>4, <1>5, <1>6 DEF Inv

---------------------------------------------------------------------------
(* The theorems.                                                           *)

\* The conjuncts of the invariant hold in every reachable state.
THEOREM Invariance == Spec => []Inv
  <1>1. Init => Inv
    BY DEF Init, Empty, Inv, TypeOK, IsMap, NoDanglingPointers, MapsAgree, PauseKnown,
           ConnectionKnown, ObserversFollowProducers, RtpObservers
  <1>2. Inv /\ [Next]_vars => Inv'
    <2> SUFFICES ASSUME Inv, [Next]_vars
                 PROVE  Inv'
      OBVIOUS
    <2>1. CASE Next
      BY <2>1, CreateTransportStep, TransportCloseStep, CreateAudioLevelObserverStep,
         RtpObserverCloseStep, RtpObserverAddProducerStep, RtpObserverRemoveProducerStep,
         RouterCloseStep, ProduceStep, ConsumeStep, ProducerCloseStep, ConsumerCloseStep,
         ProducerPauseStep, ProducerResumeStep, ConsumerSetPausedStep, ConnectedStep,
         DisconnectedStep
         DEF Next
    <2>2. CASE UNCHANGED vars
      BY <2>2 DEF vars, mediaVars, Inv, TypeOK, IsMap, NoDanglingPointers, MapsAgree, PauseKnown,
                  ConnectionKnown, ObserversFollowProducers, RtpObservers
    <2> QED
      BY <2>1, <2>2
  <1> QED
    BY <1>1, <1>2, PTL DEF Spec

\* Whatever the application closes first, no map of the router, a transport or
\* an observer keeps a pointer to a deleted producer or consumer.
THEOREM PointersValid == Spec => []NoDanglingPointers
  <1>1. Inv => NoDanglingPointers
    BY DEF Inv
  <1> QED
    BY <1>1, Invariance, PTL

\* The assertions of the handlers of the router never fail.
THEOREM AssertionsHold == Spec => []MapsAgree
  <1>1. Inv => MapsAgree
    BY DEF Inv
  <1> QED
    BY <1>1, Invariance, PTL

\* Consumers always know whether their producer is paused and their transport
\* connected, so that Consumer::IsActive is right.
THEOREM ConsumersAlwaysInformed == Spec => []ConsumersInformed
  <1>1. Inv => ConsumersInformed
    BY DEF Inv, ConsumersInformed
  <1> QED
    BY <1>1, Invariance, PTL

\* An audio level observer never receives a packet it has no entry for.
THEOREM ObserversAlwaysFollow == Spec => []ObserversFollowProducers
  <1>1. Inv => ObserversFollowProducers
    BY DEF Inv
  <1> QED
    BY <1>1, Invariance, PTL

\* No request takes the consumers of other producers and transports with it.
THEOREM OrphansOnly == Spec => OnlyOrphansClosed
  <1> DEFINE Allowed(c) == \/ c[1] \notin transports'
                           \/ mapConsumerProducer[c] \notin producers'
                           \/ consumers' = consumers \ {c} /\ producers' = producers
  <1>1. ASSUME Inv, Next, NEW c \in consumers \ consumers'
        PROVE  Allowed(c)
    <2>1. CASE \E t \in Transport : TransportClose(t)
      <3>1. PICK t \in Transport : TransportClose(t)
        BY <2>1
      <3>2. t \notin transports' /\ producers' = producers \ OfTransport(producers, t)
            /\ (c[1] = t \/ \E p \in OfTransport(producers, t) : c \in mapProducerConsumers[p])
        BY <1>1, <3>1 DEF TransportClose, CloseProducersAndConsumers, DeleteConsumers, ConsumersOf,
                          OfTransport
      <3> QED
        BY <1>1, <3>2 DEF Inv, MapsAgree, OfTransport
    <2>2. CASE \E p \in Producer : ProducerClose(p)
      <3>1. PICK p \in Producer : ProducerClose(p)
        BY <2>2
      <3>2. p \in producers /\ p \notin producers' /\ c \in mapProducerConsumers[p]
        BY <1>1, <3>1 DEF ProducerClose, CloseProducersAndConsumers, DeleteConsumers, ConsumersOf
      <3> QED
        BY <1>1, <3>2 DEF Inv, MapsAgree
    <2>3. CASE \E d \in Consumer : ConsumerClose(d)
      <3>1. PICK d \in Consumer : ConsumerClose(d)
        BY <2>3
      <3> QED
        BY <1>1, <3>1 DEF ConsumerClose, CloseProducersAndConsumers, DeleteConsumers, ConsumersOf
    <2>4. CASE RouterClose
      BY <2>4 DEF RouterClose
    <2>5. CASE consumers \subseteq consumers'
      BY <1>1, <2>5
    <2> QED
      BY <1>1, <2>1, <2>2, <2>3, <2>4, <2>5
         DEF Next, CreateTransport, CreateAudioLevelObserver, RtpObserverClose,
             RtpObserverAddProducer, RtpObserverRemoveProducer, SetObserved, Produce, Consume,
             ProducerPause, ProducerResume, ConsumerSetPaused, Connected, Disconnected, mediaVars
  <1>2. Inv /\ [Next]_vars => [\A c \in consumers \ consumers' : Allowed(c)]_vars
    BY <1>1
  <1> QED
    BY <1>2, Invariance, PTL DEF Spec, OnlyOrphansClosed

\* The six maps describe the same objects, all of them allocated.
THEOREM MapsAlwaysConsistent == Spec => []MapsConsistent
  <1>1. Inv => MapsConsistent
    BY DEF Inv, MapsConsistent
  <1> QED
    BY <1>1, Invariance, PTL

\* Consumers and observers always know what their next packet relies on.
THEOREM FollowersAlwaysInformed == Spec => []FollowersInformed
  <1>1. Inv => FollowersInformed
    BY DEF Inv, FollowersInformed, ConsumersInformed
  <1> QED
    BY <1>1, Invariance, PTL
=============================================================================
