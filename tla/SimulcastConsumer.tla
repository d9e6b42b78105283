-------------------------- MODULE SimulcastConsumer --------------------------
(***************************************************************************)
(* RTC::SimulcastConsumer of the worker: one consumer of a producer that    *)
(* sends the same picture in several streams, one per spatial layer.  The   *)
(* consumer forwards one of them, the current one, and moves to the target  *)
(* layer at a key frame of it.  The target is computed from the scores and  *)
(* sender reports of the streams or, when the transport manages the         *)
(* bitrate, by Transport::DistributeAvailableOutgoingBitrate.               *)
(*                                                                          *)
(* Each action is one event of the worker's libuv loop.  A packet is told   *)
(* apart by what the code reads of it: its stream, whether it is a key      *)
(* frame, its temporal layer, the layer-sync flag of VP8, whether its       *)
(* picture is older than the newest one, whether its ids were dropped, and  *)
(* how its time stamp compares with the last one sent.  Bitrates and the    *)
(* ages of streams are inputs.                                              *)
(***************************************************************************)
EXTENDS Integers

CONSTANTS
    SpatialLayers,      \* number of streams of the producer
    TemporalLayers,     \* number of temporal layers of each
    Preferred,          \* the layers the application may prefer
    Timeless            \* the streams whose sender reports may be without a time

None      == -1
Spatial   == 0 .. SpatialLayers - 1
Temporal  == 0 .. TemporalLayers - 1
NoLayers  == <<None, None>>
Layers    == (Spatial \X Temporal) \cup {NoLayers}

ASSUME SimulcastAssumption ==
    /\ SpatialLayers \in Nat \ {0, 1} /\ TemporalLayers \in Nat \ {0}
    /\ Preferred \subseteq Spatial \X Temporal /\ Timeless \subseteq Spatial

\* Scores as the code compares them: 0, below and at least StreamGoodScore.
Dead  == 0
Poor  == 1
Good  == 2

VARIABLES
    streams,    \* the producer's streams, by spatial layer
    consumer,   \* record: the consumer
    asked,      \* a key frame of the target layer was requested and none came since
    told,       \* the layers of the last "layerschange" event
    got,        \* what the peer got of the current layer since a key frame of it
    skipped,    \* tl0PictureIndexManager has dropped a group of which nothing was sent
    outlived,   \* all scores were 0 while the target layers were kept
    aborted     \* an assertion of SendRtpPacket has ended the worker

vars == <<streams, consumer, asked, told, got, skipped, outlived, aborted>>

\* known: producerRtpStreams has the stream; report: whether its last sender
\* report has a time, "withdrawn" when one had and the last has not.
StreamRecord == [known : BOOLEAN, score : {Dead, Poor, Good},
                 report : {"none", "given", "withdrawn"}]

\* got: all of the base layer, all but pictures that were hidden from the peer
\* since packets of their own group overtook them, or less, as may be with
\* outlived.
Received == {"all", "hidden", "gap"}

\* pausedBy holds "consumer" and "producer" for paused and producerPaused;
\* context is the target temporal layer of encodingContext, temporal its current
\* one; downgraded: lastBweDowngradeAtMs is recent; managed:
\* externallyManagedBitrate; offsetAsked: keyFrameForTsOffsetRequested.
ConsumerRecord ==
    [transportConnected : BOOLEAN, pausedBy : SUBSET {"consumer", "producer"},
     preferred : Spatial \X Temporal, target : Layers, current : Spatial \cup {None},
     context : Temporal \cup {None}, temporal : Temporal \cup {None},
     reference : Spatial \cup {None}, syncRequired : BOOLEAN, offsetAsked : BOOLEAN,
     downgraded : BOOLEAN, managed : BOOLEAN]

\* The consumer was just created, of a producer that may have streams.
Init ==
    /\ streams \in {st \in [Spatial -> StreamRecord] :
                      \A l \in Spatial : /\ st[l].report # "withdrawn"
                                         /\ st[l].known \/ (st[l].score = Dead /\ st[l].report = "none")}
    /\ consumer \in
         [transportConnected : {FALSE}, pausedBy : SUBSET {"consumer", "producer"},
          preferred : Preferred, target : {NoLayers}, current : {None},
          context : {None}, temporal : {None}, reference : {None}, syncRequired : {FALSE},
          offsetAsked : {FALSE}, downgraded : {FALSE}, managed : BOOLEAN]
    /\ asked = FALSE /\ told = NoLayers /\ got = "gap" /\ skipped = FALSE
    /\ outlived = FALSE /\ aborted = FALSE

---------------------------------------------------------------------------
(* Layers.                                                                 *)

\* RTC::Consumer::IsActive, and that of SimulcastConsumer.
BaseActive(c)   == c.transportConnected /\ c.pausedBy = {}
IsActive(st, c) == BaseActive(c) /\ \E l \in Spatial : st[l].score > Dead

\* Mutant: a layer is taken before its sender report is there.
SwitchUnreported(st, c, l) == c.reference \in {None, l} \/ st[c.reference].report = "given"

CanSwitchToSpatialLayer(st, c, l) ==
    c.reference \in {None, l} \/ (st[c.reference].report = "given" /\ st[l].report = "given")

\* RecalculateTargetLayers: the layers that its loop takes one after the other,
\* of which the last one stays.  young: streams that have been active for less
\* than StreamMinActiveMs.
TakenLayers(st, c, young) ==
    {T \in SUBSET Spatial : \A l \in Spatial :
        LET below == {q \in T : q < l}
        IN  l \in T <=>
              /\ st[l].score > Dead
              /\ below # {} => ~ (c.downgraded /\ l > c.current) /\ ~ (c.managed /\ l \in young)
              /\ CanSwitchToSpatialLayer(st, c, l)
              /\ \A q \in below : (\A r \in below : r <= q)
                   => st[l].score = Good \/ st[l].score >= st[q].score
              /\ \A q \in below : ~ (q >= c.preferred[1] /\ st[q].score = Good)}

TargetIn(c, T) ==
    IF T = {} THEN NoLayers
    ELSE LET layer == CHOOSE l \in T : \A q \in T : q <= l
         IN  <<layer, IF layer = c.preferred[1] THEN c.preferred[2]
                      ELSE IF layer < c.preferred[1] THEN TemporalLayers - 1 ELSE 0>>

RecalculateTargetLayers(st, c, young) == {TargetIn(c, T) : T \in TakenLayers(st, c, young)}

\* IncreaseLayer as DistributeAvailableOutgoingBitrate calls it, from no layers
\* on, until the bitrate is used up: the provisional layers it may end with,
\* over all bitrates.  A call passes over a spatial layer that sends nothing at
\* the moment, but not over the preferred one; it goes up one temporal layer at
\* a time, up to the preferred one, and in a layer above the current one not
\* for some time after a downgrade.
ProvisionalLayers(st, c) ==
    LET usable(l) == st[l].score = Good /\ CanSwitchToSpatialLayer(st, c, l)
    IN  {NoLayers} \cup
        {p \in Spatial \X Temporal :
            /\ usable(p[1])
            /\ \A q \in Spatial : q < p[1] /\ usable(q) => q < c.preferred[1]
            /\ p[1] = c.preferred[1] => p[2] <= c.preferred[2]
            /\ c.downgraded /\ p[1] > c.current => p[2] = 0}

\* UpdateTargetLayers, without the key frame request and the event.
UpdateTargetLayers(c, layers) ==
    IF layers[1] = None
      THEN [c EXCEPT !.target = NoLayers, !.current = None, !.context = None, !.temporal = None]
      ELSE [c EXCEPT !.target = layers,
                     !.reference = IF c.reference = None THEN layers[1] ELSE c.reference,
                     !.context = IF layers[1] = c.current THEN layers[2] ELSE c.context]

\* ApplyLayers.  old: our stream has been active for BweDowngradeMinActiveMs.
ApplyLayers(c, layers, old) ==
    IF layers = c.target THEN c
    ELSE [UpdateTargetLayers(c, layers) EXCEPT
            !.downgraded = c.downgraded \/ LET d == UpdateTargetLayers(c, layers)
                                           IN  /\ old /\ d.target[1] < d.current
                                               /\ d.current <= c.preferred[1]]

\* What may come of a call of DistributeAvailableOutgoingBitrate.
Distributed(st, c) ==
    IF ~ IsActive(st, c) THEN {c}
    ELSE {ApplyLayers(c, p, old) : old \in BOOLEAN, p \in ProvisionalLayers(st, c)}

\* MayChangeLayers.
MayChangeLayers(st, c, force) ==
    UNION {IF new = c.target THEN {c}
           ELSE IF ~ c.managed THEN {UpdateTargetLayers(c, new)}
           ELSE IF new[1] # c.target[1] \/ force THEN Distributed(st, c)
           ELSE {c} : new \in UNION {RecalculateTargetLayers(st, c, young) :
                                       young \in IF c.managed THEN SUBSET Spatial ELSE {{}}}}

\* Mutant: no key frame is requested for a new target layer.
NothingRequested(c, d) == FALSE

\* UpdateTargetLayers requests a key frame, when it changed c to d.
Requested(c, d) == d.target # c.target /\ d.target[1] \notin {None, d.current}

\* The consumer waits for a key frame to take its target layer.
Waiting(c) == c.target # NoLayers /\ c.current # c.target[1]

\* A request is pending after c changed to d, and others were made.
Pending(c, d, others) ==
    /\ Waiting(d)
    /\ Requested(c, d) \/ others \/ (asked /\ d.target[1] = c.target[1])

\* Mutant: the event is sent only when a layer is taken.
UnsetUntold(c, d) == IF d.current = None THEN told ELSE <<d.current, d.temporal>>

\* The "layerschange" event of UpdateTargetLayers.
Told(c, d) == IF d.current = None THEN NoLayers ELSE told

\* All that an event outside SendRtpPacket that changes the consumer to d does.
ConsumerChanges(st, d) ==
    /\ streams' = st
    /\ consumer' = d
    /\ asked' = Pending(consumer, d, FALSE)
    /\ told' = Told(consumer, d)
    /\ outlived' = (d.target # NoLayers /\ (outlived \/ \A l \in Spatial : st[l].score = Dead))
    /\ got' = IF d.current = None \/ outlived' THEN "gap" ELSE got
    /\ skipped' = (skipped /\ d.current # None)

---------------------------------------------------------------------------
(* Events other than packets.                                              *)

\* UserOnTransportConnected and UserOnResumed.
Restarted(st, c) ==
    LET d == [c EXCEPT !.syncRequired = TRUE, !.offsetAsked = FALSE]
    IN  IF IsActive(st, d) THEN MayChangeLayers(st, d, FALSE) ELSE {d}

\* UserOnTransportDisconnected and UserOnPaused.  With a managed bitrate the
\* latter calls OnConsumerNeedZeroBitrate, which leaves an inactive consumer
\* alone.
Stopped(c) == UpdateTargetLayers([c EXCEPT !.downgraded = FALSE], NoLayers)

TransportConnected ==
    /\ ~ consumer.transportConnected
    /\ \E d \in Restarted(streams, [consumer EXCEPT !.transportConnected = TRUE]) :
         ConsumerChanges(streams, d)

TransportDisconnected ==
    /\ consumer.transportConnected
    /\ ConsumerChanges(streams, Stopped([consumer EXCEPT !.transportConnected = FALSE]))

\* CONSUMER_PAUSE and ProducerPaused: the child class hears of it only if the
\* consumer was active.
Pause(who) ==
    /\ who \notin consumer.pausedBy
    /\ LET d == [consumer EXCEPT !.pausedBy = @ \cup {who}]
       IN  ConsumerChanges(streams, IF IsActive(streams, consumer) THEN Stopped(d) ELSE d)

\* CONSUMER_RESUME and ProducerResumed.  A producer that resumes asks for a
\* key frame of each of its streams afterwards.
Resume(who) ==
    /\ who \in consumer.pausedBy
    /\ LET c == [consumer EXCEPT !.pausedBy = @ \ {who}]
       IN  \E d \in (IF IsActive(streams, c) THEN Restarted(streams, c) ELSE {c}) :
             /\ streams' = streams /\ consumer' = d
             /\ asked' = Pending(consumer, d, who = "producer")
             /\ told' = Told(consumer, d)
             /\ outlived' = (outlived /\ d.target # NoLayers)
             /\ got' = IF d.current = None \/ outlived' THEN "gap" ELSE got
             /\ skipped' = (skipped /\ d.current # None)

\* CONSUMER_SET_PREFERRED_LAYERS.
SetPreferredLayers(layers) ==
    /\ layers # consumer.preferred
    /\ LET c == [consumer EXCEPT !.preferred = layers]
       IN  \E d \in (IF IsActive(streams, c) THEN MayChangeLayers(streams, c, TRUE) ELSE {c}) :
             ConsumerChanges(streams, d)

\* CONSUMER_REQUEST_KEY_FRAME asks for the target layer and for the current
\* one; a PLI or FIR of the peer asks for the current one.
KeyFrameRequested ==
    /\ IsActive(streams, consumer)
    /\ asked' = Pending(consumer, consumer, TRUE)
    /\ UNCHANGED <<streams, consumer, told, got, skipped, outlived>>

\* ProducerRtpStreamScore.
ScoreChanges(st, c, l, score) ==
    LET s == [st EXCEPT ![l].score = score]
    IN  IF BaseActive(c) /\ (c.managed => Dead \in {score, st[l].score})
          THEN MayChangeLayers(s, c, FALSE) ELSE {c}

ProducerRtpStreamScore(l, score) ==
    /\ streams[l].known /\ score # streams[l].score
    /\ \E d \in ScoreChanges(streams, consumer, l, score) :
         ConsumerChanges([streams EXCEPT ![l].score = score], d)

\* ProducerRtcpSenderReport.  Each report replaces the one before it, and it is
\* a first one when that had no time; timed: its NTP time is not 0 ms.
ProducerRtcpSenderReport(l, timed) ==
    /\ streams[l].known /\ (timed \/ l \in Timeless)
    /\ LET first == streams[l].report # "given"
           st    == [streams EXCEPT ![l].report = IF timed THEN "given"
                                                  ELSE IF first THEN @ ELSE "withdrawn"]
       IN  \E d \in (IF /\ first /\ consumer.current # None
                        /\ st[consumer.current].report = "given" /\ IsActive(st, consumer)
                       THEN MayChangeLayers(st, consumer, FALSE) ELSE {consumer}) :
             ConsumerChanges(st, d)

\* OnRtpStreamScore of our own stream: a new receiver report of the peer.
OnRtpStreamScore ==
    /\ IsActive(streams, consumer) /\ ~ consumer.managed
    /\ \E d \in MayChangeLayers(streams, consumer, FALSE) : ConsumerChanges(streams, d)

\* OnTransportCongestionControlClientBitrates, or another consumer's need.
BitrateChanged ==
    /\ consumer.managed
    /\ \E d \in Distributed(streams, consumer) : ConsumerChanges(streams, d)

\* A later consumer makes the transport estimate bandwidth for all of them.
SetExternallyManagedBitrate ==
    /\ ~ consumer.managed
    /\ consumer' = [consumer EXCEPT !.managed = TRUE]
    /\ UNCHANGED <<streams, asked, told, got, skipped, outlived>>

\* BweDowngradeConservativeMs have passed.
DowngradeForgotten ==
    /\ consumer.downgraded
    /\ consumer' = [consumer EXCEPT !.downgraded = FALSE]
    /\ UNCHANGED <<streams, asked, told, got, skipped, outlived>>

---------------------------------------------------------------------------
(* Packets.                                                                *)

\* tl is None when the payload descriptor has no temporal layer.  late: the
\* picture is older than the newest one sent, or the descriptor has no ids.  ids:
\* the packet's tl0PictureIndex is that of a group some packet of which was sent,
\* or a higher one, or an id of the packet is one of those that were dropped.  far:
\* the time stamp, moved to the clock of the reference stream, is lower than the
\* highest one sent by more than 75 ms.
Packet == [key : BOOLEAN, tl : Temporal \cup {None}, y : BOOLEAN, late : BOOLEAN,
           far : BOOLEAN, ids : {"sent", "ahead", "dropped"}]

\* Key frames are in the lowest temporal layer, as VP8 has them.  What makes no
\* difference to the code is fixed: time stamps but of one kind of key frame, since
\* they matter only at a switch, where the rest of the packet does not; and for the packets that Process does not filter, those of the lowest
\* layer and the late ones, the sync flag and whether their group is new.
Packets ==
    {p \in Packet : /\ p.key => p.tl <= 0
                    /\ p.far => p.key /\ p.tl = 0 /\ p.ids = "sent"
                    /\ p.tl <= 0 => ~ p.late
                    /\ p.tl <= 0 \/ p.late => ~ p.y /\ p.ids # "ahead"
                    /\ p.tl > 0 /\ p.ids = "dropped" => p.late}

\* Pictures above the base layer may have been dropped at any time, the base layer
\* is dropped with its group.
MayBeDropped(p) == p.ids = "dropped" => skipped \/ p.tl > 0

\* VP8::PayloadDescriptorHandler::Process: the packet is not wanted, ...
Filtered(c, p) == ~ p.late /\ (p.tl > c.context \/ (p.tl > c.temporal /\ ~ p.y))

\* ... in which case its ids are dropped, and what comes later with them is not
\* sent either, be it late or of the base layer: the group is one of those if
\* nothing of it was sent before.
Skipping(p) == skipped \/ p.ids = "ahead"

\* The current temporal layer after a packet that goes on.
Processed(c, p) ==
    LET t == IF p.tl = None THEN 0 ELSE IF p.tl > c.temporal THEN p.tl ELSE c.temporal
    IN  [c EXCEPT !.temporal = IF t > c.context THEN c.context ELSE t]

\* Mutant: a key frame of the target layer is not required to switch.
SwitchAnywhere(c, l, key) ==
    /\ c.target[2] # None
    /\ c.current # c.target[1] /\ l = c.target[1]

\* SendRtpPacket: the packet is one to switch to the target layer at, ...
Switches(c, l, key) == c.target[2] # None /\ c.current # c.target[1] /\ l = c.target[1] /\ key

\* ... it is too far behind to switch, and the next key frame may be better, ...
PutOff(c, l, p) == Switches(c, l, p.key) /\ p.far /\ ~ c.offsetAsked

\* ... it goes on to the payload, at once or as the one to synchronise with.
Accepted(c, l, p) ==
    /\ c.target[2] # None
    /\ IF c.current # c.target[1] /\ l = c.target[1]
         THEN Switches(c, l, p.key) /\ ~ PutOff(c, l, p)
         ELSE l = c.current /\ (c.syncRequired => p.key)

\* The packet is one to synchronise with: the time stamps of another layer than
\* the reference are computed from the reports of the reference and the target.
Synchronises(c, l, key) ==
    Switches(c, l, key) \/ (c.target[2] # None /\ l = c.current /\ c.syncRequired /\ key)

Unreported(st, c, l) ==
    l # c.reference /\ "given" \notin {st[c.reference].report} \cap {st[c.target[1]].report}

\* The consumer after an accepted packet.
AfterSync(c, l, p) ==
    IF Synchronises(c, l, p.key)
      THEN [c EXCEPT !.syncRequired = FALSE, !.offsetAsked = FALSE] ELSE c

AfterSwitch(c, p) ==
    [c EXCEPT !.current = c.target[1], !.context = c.target[2],
              !.temporal = IF p.tl = None THEN 0 ELSE p.tl]

\* ReceiveRtpPacket of the producer up to SendRtpPacket: the first packet of a
\* stream makes it known, and a packet may revive a stream that was inactive.
Arrives(st, c, l, revived) ==
    IF ~ st[l].known
      THEN LET s == [st EXCEPT ![l] = [known |-> TRUE, score |-> Good, report |-> "none"]]
           IN  {<<s, d>> : d \in IF IsActive(s, c) THEN MayChangeLayers(s, c, FALSE) ELSE {c}}
    ELSE IF revived
      THEN {<<[st EXCEPT ![l].score = Good], d>> : d \in ScoreChanges(st, c, l, Good)}
    ELSE {<<st, c>>}

\* MS_ASSERT of SendRtpPacket: one of the two reports has no time, whatever the
\* packet is apart from a key frame.
NoSenderReport(l, revived) ==
    /\ revived => streams[l].known /\ streams[l].score = Dead
    /\ \E r \in Arrives(streams, consumer, l, revived) :
         IsActive(r[1], r[2]) /\ Synchronises(r[2], l, TRUE) /\ Unreported(r[1], r[2], l)
    /\ aborted' = TRUE
    /\ UNCHANGED <<streams, consumer, asked, told, got, skipped, outlived>>

ReceiveRtpPacket(l, p, revived) ==
    /\ revived => streams[l].known /\ streams[l].score = Dead
    /\ MayBeDropped(p)
    /\ \E r \in Arrives(streams, consumer, l, revived) :
         LET st     == r[1]
             c      == r[2]
             forced == l = c.target[1] /\ ~ streams[l].known /\ "producer" \notin c.pausedBy
             before == Pending(consumer, c, forced) /\ ~ (l = c.target[1] /\ p.key)
             active == IsActive(st, c)
             late   == active /\ PutOff(c, l, p)
             ok     == active /\ Accepted(c, l, p)
             switch == Switches(c, l, p.key)
             sync   == Synchronises(c, l, p.key)
             synced == AfterSync(c, l, p)
             wanted == ~ Filtered(synced, p)
             sent   == ok /\ (switch \/ (wanted /\ (sync \/ p.ids # "dropped")))
             after  == IF ~ ok THEN [c EXCEPT !.syncRequired = @ \/ late, !.offsetAsked = @ \/ late]
                       ELSE IF switch THEN Processed(AfterSwitch(synced, p), p)
                       ELSE IF sent THEN Processed(synced, p) ELSE synced
         IN  /\ ~ (active /\ sync /\ Unreported(st, c, l))
             /\ streams' = st
             /\ consumer' = after
             /\ asked' = (Waiting(consumer') /\ (before \/ late))
             /\ told' = IF sent /\ (switch \/ consumer'.temporal # synced.temporal)
                          THEN <<consumer'.current, consumer'.temporal>>
                        ELSE Told(consumer, c)
             /\ outlived' = /\ consumer'.target # NoLayers
                            /\ outlived \/ \A m \in Spatial : st[m].score = Dead
                            /\ ~ (sent /\ p.key /\ consumer'.current = consumer'.target[1])
             /\ got' = IF consumer'.current = None \/ outlived' THEN "gap"
                       ELSE IF sent /\ p.key THEN "all"
                       ELSE IF l # c.current \/ sent \/ (ok /\ (~ wanted \/ p.tl > 0)) THEN got
                       ELSE IF ok /\ got = "all" THEN "hidden"
                       ELSE IF ok THEN got ELSE "gap"
             /\ skipped' = /\ consumer'.current # None /\ ~ (ok /\ sync)
                           /\ IF ok /\ ~ wanted THEN Skipping(p) ELSE skipped

Step ==
    \/ TransportConnected
    \/ TransportDisconnected
    \/ \E who \in {"consumer", "producer"} : Pause(who) \/ Resume(who)
    \/ \E layers \in Preferred : SetPreferredLayers(layers)
    \/ KeyFrameRequested
    \/ \E l \in Spatial, score \in {Dead, Poor, Good} : ProducerRtpStreamScore(l, score)
    \/ \E l \in Spatial, timed \in BOOLEAN : ProducerRtcpSenderReport(l, timed)
    \/ OnRtpStreamScore
    \/ BitrateChanged
    \/ SetExternallyManagedBitrate
    \/ DowngradeForgotten
    \/ \E l \in Spatial, p \in Packets, revived \in BOOLEAN : ReceiveRtpPacket(l, p, revived)

Next ==
    /\ ~ aborted
    /\ \/ Step /\ UNCHANGED aborted
       \/ \E l \in Spatial, revived \in BOOLEAN : NoSenderReport(l, revived)

Spec == Init /\ [][Next]_vars

---------------------------------------------------------------------------
(* Properties.                                                             *)

TypeOK ==
    /\ streams \in [Spatial -> StreamRecord]
    /\ consumer \in ConsumerRecord
    /\ told \in Layers
    /\ asked \in BOOLEAN /\ got \in Received /\ skipped \in BOOLEAN
    /\ outlived \in BOOLEAN /\ aborted \in BOOLEAN

\* The assertions of SendRtpPacket and of the codec: when a packet of a layer
\* that is not the time stamp reference can be the one to synchronise with,
\* the reference and the target have had sender reports, however streams, reports
\* and layers came and went, so that the worker is ended only after a report
\* without a time followed one with a time; and a packet that is processed finds
\* a target temporal layer.
ReportsForSync ==
    /\ \A l \in {consumer.target[1], consumer.current} \ {None, consumer.reference} :
         /\ consumer.reference # None /\ streams[consumer.reference].report # "none"
         /\ streams[consumer.target[1]].report # "none"
    /\ consumer.current # None => consumer.context # None /\ consumer.target # NoLayers
    /\ aborted => \E l \in Spatial : streams[l].report = "withdrawn"

\* Not true: the assertion, and the note before it that both streams have sender
\* reports at this point.
ReportsStay == ~ aborted

\* The next packet, if it is not a key frame, is forwarded only to a peer that
\* got every packet of the base layer that came since a key frame of it, whatever
\* the switches, pauses and switches put off in between, but for those that a
\* packet of their group which is not wanted has overtaken: its index is dropped,
\* and they with it.  The other exception are consumers whose streams all had
\* score 0 while the bitrate was managed: the transport leaves them their target
\* layers, and nothing makes them wait for a key frame.
LayersDecodable ==
    /\ IsActive(streams, consumer) /\ consumer.current # None /\ ~ consumer.syncRequired
    => got # "gap" \/ outlived

\* Not true: nothing of the base layer is kept from the peer.
NothingHidden == got # "hidden"

\* A consumer that waits for a key frame of its target layer does not wait for
\* one nobody asked for, with the same exception.
SwitchIsAsked ==
    IsActive(streams, consumer) /\ Waiting(consumer) => asked \/ outlived

\* The layers of the last "layerschange" event are the current ones, after any
\* mix of switches, temporal upgrades and stops.
ApplicationKnowsLayers == told = <<consumer.current, consumer.temporal>>

\* Not true: the target is the best layer the consumer can switch to.
TargetIsBest ==
    IsActive(streams, consumer) /\ ~ consumer.managed
    => consumer.target \in RecalculateTargetLayers(streams, consumer, {})
=============================================================================
