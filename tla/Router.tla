------------------------------- MODULE Router -------------------------------
(***************************************************************************)
(* RTC::Router of the worker with the RTC::Transports, RTC::Producers,     *)
(* RTC::Consumers and RTC::AudioLevelObservers it holds together: raw      *)
(* pointers kept in the maps of three classes, deleted by one of them.     *)
(*                                                                         *)
(* Each action is one request of the application or one change of a        *)
(* transport's connection, run to its end by the single-threaded worker    *)
(* with every callback it makes.  A request that throws changes nothing    *)
(* (what it had added is taken back before it throws), so only the         *)
(* requests that are accepted are actions.                                 *)
(*                                                                         *)
(* A pointer to a producer or a consumer is the pair of the transport that *)
(* owns it and its id: only the router compares ids across transports.     *)
(***************************************************************************)
EXTENDS Functions

CONSTANTS Transport, ProducerId, ConsumerId, RtpObserver    \* ids the application may use

Producer == Transport \X ProducerId
Consumer == Transport \X ConsumerId

VARIABLES
    transports,                 \* Router::mapTransports
    connected,                  \* the transports that are connected
    producers,                  \* Transport::mapProducers, of all transports
    consumers,                  \* Transport::mapConsumers, of all transports
    producerPaused,             \* the allocated producers: Producer::paused
    consumerStatus,             \* the allocated consumers: their three flags
    mapProducers,               \* Router::mapProducers: id to producer
    mapProducerConsumers,       \* Router::mapProducerConsumers
    mapConsumerProducer,        \* Router::mapConsumerProducer
    mapProducerRtpObservers,    \* Router::mapProducerRtpObservers
    mapProducerDBovs            \* the allocated observers: AudioLevelObserver::mapProducerDBovs

mediaVars == <<producers, consumers, producerPaused, consumerStatus, mapProducers,
               mapProducerConsumers, mapConsumerProducer, mapProducerRtpObservers>>

vars == <<transports, connected, mediaVars, mapProducerDBovs>>

Status == [paused : BOOLEAN, producerPaused : BOOLEAN, transportConnected : BOOLEAN]

\* f is a map with keys in S and values in T.
IsMap(f, S, T) == f \in [DOMAIN f -> T] /\ DOMAIN f \subseteq S

Empty == [x \in {} |-> x]

Put(f, x, v) == [y \in DOMAIN f \cup {x} |-> IF y = x THEN v ELSE f[y]]

Without(f, S) == Restrict(f, DOMAIN f \ S)

RtpObservers == DOMAIN mapProducerDBovs     \* Router::mapRtpObservers

OfTransport(objects, t) == {x \in objects : x[1] = t}

Init ==
    /\ transports = {} /\ connected = {}
    /\ producers = {} /\ consumers = {}
    /\ producerPaused = Empty /\ consumerStatus = Empty
    /\ mapProducers = Empty /\ mapProducerConsumers = Empty /\ mapConsumerProducer = Empty
    /\ mapProducerRtpObservers = Empty /\ mapProducerDBovs = Empty

---------------------------------------------------------------------------
(* What the handlers of the classes do, called by the actions.             *)

\* Mutant: the observers keep the pointers to the closed producers.
ProducerClosedUnobserved(P) ==
    /\ mapProducers' = Without(mapProducers, {p[2] : p \in P})
    /\ mapProducerRtpObservers' = Without(mapProducerRtpObservers, P)
    /\ UNCHANGED mapProducerDBovs

\* The producers P are closed: only the observers the map names are told.
OnTransportProducerClosed(P) ==
    /\ mapProducers' = Without(mapProducers, {p[2] : p \in P})
    /\ mapProducerRtpObservers' = Without(mapProducerRtpObservers, P)
    /\ mapProducerDBovs' =
         [o \in RtpObservers |-> mapProducerDBovs[o] \ {p \in P : o \in mapProducerRtpObservers[p]}]

\* Mutant: the consumers in the transports of the producers.
ConsumersBeside(P) == {c \in consumers : \E p \in P : c[1] = p[1]}

ConsumersOf(P) == UNION {mapProducerConsumers[p] : p \in P}

\* The consumers C are closed while their producers may live on.
OnTransportConsumerClosed(C) ==
    [p \in DOMAIN mapProducerConsumers |-> mapProducerConsumers[p] \ C]

\* Transport::OnConsumerProducerClosed, and the deletion of consumers that
\* were closed for another reason.
DeleteConsumers(D) ==
    /\ mapConsumerProducer' = Without(mapConsumerProducer, D)
    /\ consumers' = consumers \ D
    /\ consumerStatus' = Without(consumerStatus, D)

\* The producers P are closed first, with all their consumers, then what is
\* left of the consumers C.
CloseProducersAndConsumers(P, C) ==
    LET orphans == ConsumersOf(P)
    IN  /\ OnTransportProducerClosed(P)
        /\ mapProducerConsumers' = Without(OnTransportConsumerClosed(C \ orphans), P)
        /\ DeleteConsumers(orphans \cup C)
        /\ producers' = producers \ P
        /\ producerPaused' = Without(producerPaused, P)

\* A handler of Consumer, called for all the consumers C.
TellConsumers(C, Handler(_)) ==
    consumerStatus' = [c \in DOMAIN consumerStatus |->
                          IF c \in C THEN Handler(consumerStatus[c]) ELSE consumerStatus[c]]

ProducerPaused(status)        == [status EXCEPT !.producerPaused = TRUE]
ProducerResumed(status)       == [status EXCEPT !.producerPaused = FALSE]
TransportConnected(status)    == [status EXCEPT !.transportConnected = TRUE]
TransportDisconnected(status) == [status EXCEPT !.transportConnected = FALSE]

---------------------------------------------------------------------------
(* Requests to the router.                                                 *)

\* The kind of the transport is abstracted, and when it gets connected.
CreateTransport(t) ==
    /\ t \notin transports
    /\ transports' = transports \cup {t}
    /\ UNCHANGED <<connected, mediaVars, mapProducerDBovs>>

TransportClose(t) ==
    /\ t \in transports
    /\ CloseProducersAndConsumers(OfTransport(producers, t), OfTransport(consumers, t))
    /\ transports' = transports \ {t}
    /\ connected' = connected \ {t}

CreateAudioLevelObserver(o) ==
    /\ o \notin RtpObservers
    /\ mapProducerDBovs' = Put(mapProducerDBovs, o, {})
    /\ UNCHANGED <<transports, connected, mediaVars>>

RtpObserverClose(o) ==
    /\ o \in RtpObservers
    /\ mapProducerRtpObservers' =
         [p \in DOMAIN mapProducerRtpObservers |-> mapProducerRtpObservers[p] \ {o}]
    /\ mapProducerDBovs' = Without(mapProducerDBovs, {o})
    /\ UNCHANGED <<transports, connected, producers, consumers, producerPaused, consumerStatus,
                   mapProducers, mapProducerConsumers, mapConsumerProducer>>

\* Changes the entry of one producer and one observer in both maps.
SetObserved(p, observers, o, dBovs) ==
    /\ mapProducerRtpObservers' = Put(mapProducerRtpObservers, p, observers)
    /\ mapProducerDBovs' = [mapProducerDBovs EXCEPT ![o] = dBovs]
    /\ UNCHANGED <<transports, connected, producers, consumers, producerPaused, consumerStatus,
                   mapProducers, mapProducerConsumers, mapConsumerProducer>>

\* AddProducer takes a paused producer too; it refuses video producers.
RtpObserverAddProducer(o, id) ==
    /\ o \in RtpObservers /\ id \in DOMAIN mapProducers
    /\ LET p == mapProducers[id]
       IN  SetObserved(p, mapProducerRtpObservers[p] \cup {o}, o, mapProducerDBovs[o] \cup {p})

RtpObserverRemoveProducer(o, id) ==
    /\ o \in RtpObservers /\ id \in DOMAIN mapProducers
    /\ LET p == mapProducers[id]
       IN  SetObserved(p, mapProducerRtpObservers[p] \ {o}, o, mapProducerDBovs[o] \ {p})

\* ROUTER_CLOSE: the destructors delete everything silently.
RouterClose ==
    /\ transports' = {} /\ connected' = {}
    /\ producers' = {} /\ consumers' = {}
    /\ producerPaused' = Empty /\ consumerStatus' = Empty
    /\ mapProducers' = Empty /\ mapProducerConsumers' = Empty /\ mapConsumerProducer' = Empty
    /\ mapProducerRtpObservers' = Empty /\ mapProducerDBovs' = Empty

---------------------------------------------------------------------------
(* Requests to a transport.                                                *)

\* The id must be new in the transport and, for OnTransportNewProducer, in
\* the whole router.
Produce(t, id, paused) ==
    LET p == <<t, id>>
    IN  /\ t \in transports /\ p \notin producers /\ id \notin DOMAIN mapProducers
        /\ producers' = producers \cup {p}
        /\ producerPaused' = Put(producerPaused, p, paused)
        /\ mapProducers' = Put(mapProducers, id, p)
        /\ mapProducerConsumers' = Put(mapProducerConsumers, p, {})
        /\ mapProducerRtpObservers' = Put(mapProducerRtpObservers, p, {})
        /\ UNCHANGED <<transports, connected, consumers, consumerStatus, mapConsumerProducer,
                       mapProducerDBovs>>

\* Mutant: the new consumer is not told of the paused producer.
ConsumerOfRunning(t, p, paused) ==
    [paused |-> paused, producerPaused |-> FALSE, transportConnected |-> t \in connected]

\* The new consumer is told of the paused producer by the router, of the
\* connected transport at the end of the request.
NewConsumer(t, p, paused) ==
    [paused |-> paused, producerPaused |-> producerPaused[p], transportConnected |-> t \in connected]

Consume(t, id, producerId, paused) ==
    LET c == <<t, id>>
        p == mapProducers[producerId]
    IN  /\ t \in transports /\ c \notin consumers /\ producerId \in DOMAIN mapProducers
        /\ consumers' = consumers \cup {c}
        /\ consumerStatus' = Put(consumerStatus, c, NewConsumer(t, p, paused))
        /\ mapProducerConsumers' = [mapProducerConsumers EXCEPT ![p] = @ \cup {c}]
        /\ mapConsumerProducer' = Put(mapConsumerProducer, c, p)
        /\ UNCHANGED <<transports, connected, producers, producerPaused, mapProducers,
                       mapProducerRtpObservers, mapProducerDBovs>>

ProducerClose(p) ==
    /\ p \in producers
    /\ CloseProducersAndConsumers({p}, {})
    /\ UNCHANGED <<transports, connected>>

ConsumerClose(c) ==
    /\ c \in consumers
    /\ CloseProducersAndConsumers({}, {c})
    /\ UNCHANGED <<transports, connected>>

\* Of the observers only those the router names are told.
ProducerPause(p) ==
    /\ p \in producers /\ ~ producerPaused[p]
    /\ producerPaused' = [producerPaused EXCEPT ![p] = TRUE]
    /\ TellConsumers(mapProducerConsumers[p], ProducerPaused)
    /\ mapProducerDBovs' =
         [o \in RtpObservers |-> IF o \in mapProducerRtpObservers[p] THEN mapProducerDBovs[o] \ {p}
                                                                     ELSE mapProducerDBovs[o]]
    /\ UNCHANGED <<transports, connected, producers, consumers, mapProducers, mapProducerConsumers,
                   mapConsumerProducer, mapProducerRtpObservers>>

ProducerResume(p) ==
    /\ p \in producers /\ producerPaused[p]
    /\ producerPaused' = [producerPaused EXCEPT ![p] = FALSE]
    /\ TellConsumers(mapProducerConsumers[p], ProducerResumed)
    /\ mapProducerDBovs' =
         [o \in RtpObservers |-> IF o \in mapProducerRtpObservers[p] THEN mapProducerDBovs[o] \cup {p}
                                                                     ELSE mapProducerDBovs[o]]
    /\ UNCHANGED <<transports, connected, producers, consumers, mapProducers, mapProducerConsumers,
                   mapConsumerProducer, mapProducerRtpObservers>>

\* 'pause' and 'resume' of a consumer.
ConsumerSetPaused(c, paused) ==
    /\ c \in consumers /\ consumerStatus[c].paused # paused
    /\ consumerStatus' = [consumerStatus EXCEPT ![c].paused = paused]
    /\ UNCHANGED <<transports, connected, producers, consumers, producerPaused, mapProducers,
                   mapProducerConsumers, mapConsumerProducer, mapProducerRtpObservers,
                   mapProducerDBovs>>

---------------------------------------------------------------------------
(* Connection of a transport.  Whether IsConnected and the calls of        *)
(* Connected and Disconnected agree is the subject of WebRtcTransport.     *)

Connected(t) ==
    /\ t \in transports \ connected
    /\ connected' = connected \cup {t}
    /\ TellConsumers(OfTransport(consumers, t), TransportConnected)
    /\ UNCHANGED <<transports, producers, consumers, producerPaused, mapProducers,
                   mapProducerConsumers, mapConsumerProducer, mapProducerRtpObservers,
                   mapProducerDBovs>>

Disconnected(t) ==
    /\ t \in connected
    /\ connected' = connected \ {t}
    /\ TellConsumers(OfTransport(consumers, t), TransportDisconnected)
    /\ UNCHANGED <<transports, producers, consumers, producerPaused, mapProducers,
                   mapProducerConsumers, mapConsumerProducer, mapProducerRtpObservers,
                   mapProducerDBovs>>

---------------------------------------------------------------------------

Next ==
    \/ \E t \in Transport : CreateTransport(t)
    \/ \E t \in Transport : TransportClose(t)
    \/ \E o \in RtpObserver : CreateAudioLevelObserver(o)
    \/ \E o \in RtpObserver : RtpObserverClose(o)
    \/ \E o \in RtpObserver, id \in ProducerId : RtpObserverAddProducer(o, id)
    \/ \E o \in RtpObserver, id \in ProducerId : RtpObserverRemoveProducer(o, id)
    \/ RouterClose
    \/ \E t \in Transport, id \in ProducerId, paused \in BOOLEAN : Produce(t, id, paused)
    \/ \E t \in Transport, id \in ConsumerId, producerId \in ProducerId, paused \in BOOLEAN :
          Consume(t, id, producerId, paused)
    \/ \E p \in Producer : ProducerClose(p)
    \/ \E c \in Consumer : ConsumerClose(c)
    \/ \E p \in Producer : ProducerPause(p)
    \/ \E p \in Producer : ProducerResume(p)
    \/ \E c \in Consumer, paused \in BOOLEAN : ConsumerSetPaused(c, paused)
    \/ \E t \in Transport : Connected(t)
    \/ \E t \in Transport : Disconnected(t)

Spec == Init /\ [][Next]_vars

---------------------------------------------------------------------------
(* Properties.                                                             *)

TypeOK ==
    /\ transports \subseteq Transport /\ connected \subseteq Transport
    /\ producers \subseteq Producer /\ consumers \subseteq Consumer
    /\ IsMap(producerPaused, Producer, BOOLEAN)
    /\ IsMap(consumerStatus, Consumer, Status)
    /\ IsMap(mapProducers, ProducerId, Producer)
    /\ IsMap(mapProducerConsumers, Producer, SUBSET Consumer)
    /\ IsMap(mapConsumerProducer, Consumer, Producer)
    /\ IsMap(mapProducerRtpObservers, Producer, SUBSET RtpObserver)
    /\ IsMap(mapProducerDBovs, RtpObserver, SUBSET Producer)

\* No map points to a deleted object and none is leaked: the producers and
\* consumers that are allocated are those in the maps of an open transport,
\* and the router and the observers point to no other, whatever was closed
\* first.
NoDanglingPointers ==
    /\ producers = DOMAIN producerPaused /\ consumers = DOMAIN consumerStatus
    /\ \A x \in producers \cup consumers : x[1] \in transports
    /\ \A id \in DOMAIN mapProducers : mapProducers[id] \in producers
    /\ \A p \in DOMAIN mapProducerConsumers : mapProducerConsumers[p] \subseteq consumers
    /\ \A c \in DOMAIN mapConsumerProducer : mapConsumerProducer[c] \in producers
    /\ \A p \in DOMAIN mapProducerRtpObservers : mapProducerRtpObservers[p] \subseteq RtpObservers
    /\ \A o \in RtpObservers : mapProducerDBovs[o] \subseteq producers

\* What the assertions and the at() of the router's handlers rely on: every
\* producer is found by its id alone and has an entry in each map, and a
\* consumer is in the set of a producer exactly when that is its producer.
MapsAgree ==
    /\ DOMAIN mapProducerConsumers = producers /\ DOMAIN mapProducerRtpObservers = producers
    /\ \A p \in producers : p[2] \in DOMAIN mapProducers /\ mapProducers[p[2]] = p
    /\ \A id \in DOMAIN mapProducers : mapProducers[id][2] = id
    /\ DOMAIN mapConsumerProducer = consumers
    /\ \A p \in producers, c \in consumers :
          c \in mapProducerConsumers[p] <=> mapConsumerProducer[c] = p

\* A consumer knows whether its producer is paused, whichever of the two was
\* created, paused or resumed last.
PauseKnown ==
    \A c \in consumers : consumerStatus[c].producerPaused = producerPaused[mapConsumerProducer[c]]

\* A consumer knows whether its transport is connected.
ConnectionKnown ==
    \A c \in consumers : consumerStatus[c].transportConnected <=> c[1] \in connected

\* A consumer knows of its producer and of its transport what it was to be
\* told, whatever of the three was created or changed last: Consumer::IsActive
\* relies on both.
ConsumersInformed == PauseKnown /\ ConnectionKnown

\* An observer has an entry for every producer that may send it packets
\* (mapProducerDBovs.at throws otherwise), and for no producer the router
\* does not connect with it.
ObserversFollowProducers ==
    \A p \in producers, o \in RtpObservers :
       /\ o \in mapProducerRtpObservers[p] /\ ~ producerPaused[p] => p \in mapProducerDBovs[o]
       /\ p \in mapProducerDBovs[o] => o \in mapProducerRtpObservers[p]

\* The maps of the router, the transports and the observers describe the same
\* objects, and only objects that exist.
MapsConsistent == NoDanglingPointers /\ MapsAgree

\* Whoever follows a producer, a consumer or an observer, knows of it what its
\* next packet relies on.
FollowersInformed == ConsumersInformed /\ ObserversFollowProducers

\* A consumer goes only with its transport or its producer, or alone: a
\* request never takes the consumers of another producer with it.
OnlyOrphansClosed ==
    [][\A c \in consumers \ consumers' :
          \/ c[1] \notin transports'
          \/ mapConsumerProducer[c] \notin producers'
          \/ consumers' = consumers \ {c} /\ producers' = producers]_vars
=============================================================================
