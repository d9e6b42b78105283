---------------------- MODULE SimulcastConsumerProofs ----------------------
(***************************************************************************)
(* Proofs about SimulcastConsumer, for every number of spatial and of      *)
(* temporal layers.  The properties are not inductive alone.  They need    *)
(* that a stream the consumer does not know has sent no report             *)
(* (UnknownIsSilent), that the fields of the consumer are set and unset    *)
(* together (Sound), and that target layers outlast the consumer's         *)
(* activity only where the history variable outlived says so               *)
(* (IdleIsOutlived), which lets the properties be stated for a consumer    *)
(* that is not active as well (StillWhole, StillAsked).                    *)
(***************************************************************************)
EXTENDS SimulcastConsumer, TLAPS, WellFoundedInduction

\* The sender reports that SendRtpPacket asserts are there.
Reported(st, c) ==
    \A l \in {c.target[1], c.current} \ {None, c.reference} :
        /\ c.reference # None /\ st[c.reference].report # "none"
        /\ st[c.target[1]].report # "none"

\* A consumer has a current layer only with a target, and then a codec context;
\* a target layer comes with a time stamp reference.
Sound(st, c) ==
    /\ c \in ConsumerRecord
    /\ Reported(st, c)
    /\ c.target # NoLayers => c.reference # None
    /\ c.current # None => c.target # NoLayers /\ c.context # None /\ c.temporal # None
    /\ c.current = None => c.context = None /\ c.temporal = None

UnknownIsSilent == \A l \in Spatial : streams[l].known \/ streams[l].report = "none"

\* A consumer that is not active has target layers only if its streams died.
IdleIsOutlived == consumer.target # NoLayers => IsActive(streams, consumer) \/ outlived

StillWhole == consumer.current # None => consumer.syncRequired \/ got # "gap" \/ outlived

StillAsked == Waiting(consumer) => asked \/ outlived

\* TypeOK of what a step of the worker changes.
Typed ==
    /\ streams \in [Spatial -> StreamRecord]
    /\ consumer \in ConsumerRecord
    /\ told \in Layers
    /\ asked \in BOOLEAN /\ got \in Received /\ skipped \in BOOLEAN
    /\ outlived \in BOOLEAN

Inv ==
    /\ Typed
    /\ UnknownIsSilent
    /\ Sound(streams, consumer)
    /\ IdleIsOutlived
    /\ StillWhole
    /\ StillAsked
    /\ ApplicationKnowsLayers

\* With the worker running or ended by an assertion.
IInv ==
    /\ Inv /\ aborted \in BOOLEAN
    /\ aborted => \E l \in Spatial : streams[l].report = "withdrawn"

----------------------------------------------------------------------------
(* Layers.                                                                 *)

\* The one pair of layers that is no pair of layers.
LEMMA LayerFacts ==
    /\ None \notin Spatial /\ None \notin Temporal /\ NoLayers \notin Spatial \X Temporal
    /\ NoLayers \in Layers /\ NoLayers[1] = None /\ NoLayers[2] = None
    /\ \A x \in Layers : x # NoLayers => x \in Spatial \X Temporal
    /\ \A x \in Spatial \X Temporal :
         x \in Layers /\ x # NoLayers /\ x[1] \in Spatial /\ x[2] \in Temporal
         /\ x[1] # None /\ x[2] # None
BY SimulcastAssumption DEF None, Spatial, Temporal, NoLayers, Layers

\* A set of layers that is not empty has a highest one: the one that the loop
\* of RecalculateTargetLayers leaves in newTargetSpatialLayer.
LEMMA HighestExists ==
    ASSUME NEW T \in SUBSET Spatial, T # {}
    PROVE  \E l \in T : \A q \in T : q <= l
  <1> DEFINE D == {SpatialLayers - l : l \in T}
  <1>1. \A l \in T : l \in Int /\ l < SpatialLayers /\ SpatialLayers - l \in Nat
    BY SimulcastAssumption DEF Spatial
  <1>2. D \subseteq Nat /\ D # {}
    BY <1>1
  <1>3. PICK x \in D : \A y \in D : ~ (<<y, x>> \in OpToRel(<, Nat))
    BY <1>2, WFMin, NatLessThanWellFounded, Zenon
  <1>4. \A y \in D : <<y, x>> \in Nat \X Nat
    BY <1>2
  <1>5. \A y \in D : ~ (y < x)
    BY <1>3, <1>4, Zenon DEF OpToRel
  <1>6. PICK l \in T : x = SpatialLayers - l
    OBVIOUS
  <1>7. ASSUME NEW q \in T PROVE q <= l
    <2>1. ~ (SpatialLayers - q < SpatialLayers - l)
      BY <1>5, <1>6
    <2> QED
      BY <2>1, <1>1, SimulcastAssumption
  <1> QED
    BY <1>7

\* RecalculateTargetLayers proposes only layers the consumer can switch to.
LEMMA RecalculatedLayers ==
    ASSUME NEW st, NEW c \in ConsumerRecord, NEW young,
           NEW new \in RecalculateTargetLayers(st, c, young)
    PROVE  new \in Layers /\ (new # NoLayers => CanSwitchToSpatialLayer(st, c, new[1]))
  <1>1. PICK T \in TakenLayers(st, c, young) : new = TargetIn(c, T)
    BY DEF RecalculateTargetLayers
  <1>2. T \in SUBSET Spatial /\ \A l \in T : CanSwitchToSpatialLayer(st, c, l)
    BY <1>1 DEF TakenLayers
  <1>3. CASE T = {}
    BY <1>1, <1>3, LayerFacts DEF TargetIn
  <1>4. CASE T # {}
    <2> DEFINE layer == CHOOSE l \in T : \A q \in T : q <= l
    <2>1. layer \in T
      BY <1>2, <1>4, HighestExists
    <2> DEFINE temporal == IF layer = c.preferred[1] THEN c.preferred[2]
                           ELSE IF layer < c.preferred[1] THEN TemporalLayers - 1 ELSE 0
    <2>2. new = <<layer, temporal>>
      BY <1>1, <1>4 DEF TargetIn
    <2>3. temporal \in Temporal
      <3>1. c.preferred \in Spatial \X Temporal
        BY DEF ConsumerRecord
      <3>2. c.preferred[2] \in Temporal /\ TemporalLayers - 1 \in Temporal /\ 0 \in Temporal
        BY <3>1, SimulcastAssumption DEF Temporal
      <3> QED
        BY <3>2
    <2> HIDE DEF layer, temporal
    <2>4. new \in Spatial \X Temporal /\ new[1] = layer
      BY <1>2, <2>1, <2>2, <2>3
    <2> QED
      BY <1>2, <2>1, <2>4, LayerFacts
  <1> QED
    BY <1>3, <1>4

\* So does IncreaseLayer.
LEMMA ProvidedLayers ==
    ASSUME NEW st, NEW c, NEW p \in ProvisionalLayers(st, c)
    PROVE  p \in Layers /\ (p # NoLayers => CanSwitchToSpatialLayer(st, c, p[1]))
BY LayerFacts DEF ProvisionalLayers

----------------------------------------------------------------------------
(* The operators that change the target.                                   *)

\* What no change of the target touches: the consumer is as active as before,
\* waits for the same synchronisation, and stays in its layer or has none.
Follows(c, d) ==
    /\ d.transportConnected = c.transportConnected /\ d.pausedBy = c.pausedBy
    /\ d.syncRequired = c.syncRequired
    /\ d.target # NoLayers => d.current = c.current /\ d.temporal = c.temporal

\* UpdateTargetLayers keeps the consumer sound if it can switch to the layers.
LEMMA UpdateSound ==
    ASSUME NEW st \in [Spatial -> StreamRecord], NEW c, Sound(st, c), NEW layers \in Layers,
           layers # NoLayers => CanSwitchToSpatialLayer(st, c, layers[1])
    PROVE  LET d == UpdateTargetLayers(c, layers)
           IN  Sound(st, d) /\ Follows(c, d) /\ d.target = layers
  <1> DEFINE d == UpdateTargetLayers(c, layers)
  <1>0. c \in ConsumerRecord
    BY DEF Sound
  <1>1. CASE layers[1] = None
    <2>0. layers = NoLayers
      BY <1>1, LayerFacts
    <2>1. d = [c EXCEPT !.target = NoLayers, !.current = None, !.context = None, !.temporal = None]
      BY <1>1 DEF UpdateTargetLayers
    <2>2. /\ d \in ConsumerRecord /\ d.target = NoLayers /\ d.current = None
          /\ d.context = None /\ d.temporal = None
          /\ d.transportConnected = c.transportConnected /\ d.pausedBy = c.pausedBy
          /\ d.syncRequired = c.syncRequired
      BY <1>0, <2>1, LayerFacts DEF ConsumerRecord
    <2>3. Reported(st, d)
      BY <2>2, LayerFacts DEF Reported
    <2> HIDE DEF d
    <2>4. Sound(st, d) /\ Follows(c, d) /\ d.target = layers
      BY <2>0, <2>2, <2>3 DEF Sound, Follows
    <2> QED
      BY <2>4 DEF d
  <1>2. CASE layers[1] # None
    <2>0. layers # NoLayers /\ layers \in Spatial \X Temporal /\ layers[1] \in Spatial
          /\ layers[2] \in Temporal /\ layers[2] # None
      BY <1>2, LayerFacts
    <2>1. d = [c EXCEPT !.target = layers,
                        !.reference = IF c.reference = None THEN layers[1] ELSE c.reference,
                        !.context = IF layers[1] = c.current THEN layers[2] ELSE c.context]
      BY <1>2 DEF UpdateTargetLayers
    <2>2. /\ d \in ConsumerRecord /\ d.target = layers /\ d.current = c.current
          /\ d.temporal = c.temporal
          /\ d.reference = (IF c.reference = None THEN layers[1] ELSE c.reference)
          /\ d.context = (IF layers[1] = c.current THEN layers[2] ELSE c.context)
          /\ d.transportConnected = c.transportConnected /\ d.pausedBy = c.pausedBy
          /\ d.syncRequired = c.syncRequired
      BY <1>0, <2>0, <2>1, LayerFacts DEF ConsumerRecord
    <2>3. Reported(st, d)
      <3>1. CanSwitchToSpatialLayer(st, c, layers[1])
        BY <2>0
      <3>2. c.reference = None => c.current = None
        BY DEF Sound
      <3>3. c.current \notin {None, c.reference} =>
              c.reference # None /\ st[c.reference].report # "none"
        BY DEF Sound, Reported
      <3> QED
        BY <1>2, <2>2, <3>1, <3>2, <3>3 DEF Reported, CanSwitchToSpatialLayer
    <2>4. d.target # NoLayers => d.reference # None
      BY <1>2, <2>2
    <2> HIDE DEF d
    <2>5. Sound(st, d) /\ Follows(c, d) /\ d.target = layers
      BY <2>0, <2>2, <2>3, <2>4, LayerFacts DEF Sound, Follows
    <2> QED
      BY <2>5 DEF d
  <1> QED
    BY <1>1, <1>2

\* So does ApplyLayers, whatever it remembers of a downgrade.
LEMMA ApplySound ==
    ASSUME NEW st \in [Spatial -> StreamRecord], NEW c, Sound(st, c), NEW layers \in Layers,
           layers # NoLayers => CanSwitchToSpatialLayer(st, c, layers[1]), NEW old \in BOOLEAN
    PROVE  LET d == ApplyLayers(c, layers, old) IN Sound(st, d) /\ Follows(c, d)
  <1> DEFINE u == UpdateTargetLayers(c, layers)
             w == c.downgraded \/ (/\ old /\ u.target[1] < u.current
                                   /\ u.current <= c.preferred[1])
             d == ApplyLayers(c, layers, old)
  <1>1. CASE layers = c.target
    <2>1. d = c
      BY <1>1 DEF ApplyLayers
    <2> QED
      BY <2>1 DEF Follows
  <1>2. CASE layers # c.target
    <2>1. d = [u EXCEPT !.downgraded = w]
      BY <1>2 DEF ApplyLayers
    <2>2. Sound(st, u) /\ Follows(c, u)
      BY UpdateSound
    <2>3. c.downgraded \in BOOLEAN /\ c \in ConsumerRecord
      BY DEF Sound, ConsumerRecord
    <2>4. w \in BOOLEAN
      BY <2>3
    <2> HIDE DEF u, w
    <2>5. /\ d \in ConsumerRecord /\ d.target = u.target /\ d.current = u.current
          /\ d.temporal = u.temporal /\ d.reference = u.reference /\ d.context = u.context
          /\ d.transportConnected = u.transportConnected /\ d.pausedBy = u.pausedBy
          /\ d.syncRequired = u.syncRequired
      BY <2>1, <2>2, <2>4 DEF Sound, ConsumerRecord
    <2> HIDE DEF d
    <2>6. Sound(st, d) /\ Follows(c, d)
      BY <2>2, <2>5 DEF Sound, Follows, Reported
    <2> QED
      BY <2>6 DEF d
  <1> QED
    BY <1>1, <1>2

\* Whatever the distribution of the bitrate gives the consumer.
LEMMA DistributedSound ==
    ASSUME NEW st \in [Spatial -> StreamRecord], NEW c, Sound(st, c), NEW d \in Distributed(st, c)
    PROVE  Sound(st, d) /\ Follows(c, d)
  <1>1. CASE d = c
    BY <1>1 DEF Follows
  <1>2. CASE d # c
    <2>1. PICK old \in BOOLEAN, p \in ProvisionalLayers(st, c) : d = ApplyLayers(c, p, old)
      BY <1>2 DEF Distributed
    <2>2. p \in Layers /\ (p # NoLayers => CanSwitchToSpatialLayer(st, c, p[1]))
      BY ProvidedLayers
    <2> QED
      BY <2>1, <2>2, ApplySound
  <1> QED
    BY <1>1, <1>2

\* Whatever MayChangeLayers decides.
LEMMA MayChangeSound ==
    ASSUME NEW st \in [Spatial -> StreamRecord], NEW c, Sound(st, c), NEW force,
           NEW d \in MayChangeLayers(st, c, force)
    PROVE  Sound(st, d) /\ Follows(c, d)
  <1> DEFINE Ys == IF c.managed THEN SUBSET Spatial ELSE {{}}
             News == UNION {RecalculateTargetLayers(st, c, young) : young \in Ys}
  <1>0. c \in ConsumerRecord
    BY DEF Sound
  <1>1. PICK new \in News :
               d \in (IF new = c.target THEN {c}
                      ELSE IF ~ c.managed THEN {UpdateTargetLayers(c, new)}
                      ELSE IF new[1] # c.target[1] \/ force THEN Distributed(st, c) ELSE {c})
    BY DEF MayChangeLayers
  <1>2. PICK young \in Ys : new \in RecalculateTargetLayers(st, c, young)
    OBVIOUS
  <1>3. new \in Layers /\ (new # NoLayers => CanSwitchToSpatialLayer(st, c, new[1]))
    BY <1>0, <1>2, RecalculatedLayers
  <1>4. d = c \/ d = UpdateTargetLayers(c, new) \/ d \in Distributed(st, c)
    BY <1>1
  <1>5. CASE d = c
    BY <1>5 DEF Follows
  <1>6. CASE d = UpdateTargetLayers(c, new)
    BY <1>3, <1>6, UpdateSound
  <1>7. CASE d \in Distributed(st, c)
    BY <1>7, DistributedSound
  <1> QED
    BY <1>4, <1>5, <1>6, <1>7

----------------------------------------------------------------------------
(* Events other than packets.                                              *)

\* The consumer d may take the place of c: it waits for a synchronisation if c
\* does, and is in c's layer or in none.
Succeeds(c, d) ==
    /\ c.syncRequired => d.syncRequired
    /\ d.target # NoLayers => d.current = c.current /\ d.temporal = c.temporal

\* The layers of a sound consumer are layers.
LEMMA SoundLayers ==
    ASSUME NEW st, NEW c, Sound(st, c)
    PROVE  <<c.current, c.temporal>> \in Layers /\ (c.target = NoLayers => c.current = None)
  <1>1. c.current \in Spatial \cup {None} /\ c.temporal \in Temporal \cup {None}
    BY DEF Sound, ConsumerRecord
  <1>2. CASE c.current = None
    BY <1>1, <1>2 DEF Sound, Layers, NoLayers
  <1>3. CASE c.current # None
    BY <1>1, <1>3 DEF Sound, Layers
  <1> QED
    BY <1>2, <1>3

\* An event that is not a packet keeps the invariant if it keeps the consumer
\* sound, forgets no request and no death of the streams, and leaves no target
\* layers to a consumer that falls idle.
LEMMA EventKeepsInv ==
    ASSUME Inv, NEW st \in [Spatial -> StreamRecord], NEW d, Sound(st, d), Succeeds(consumer, d),
           \A l \in Spatial : st[l].known \/ st[l].report = "none",
           streams' = st, consumer' = d, told' = Told(consumer, d),
           skipped' = (skipped /\ d.current # None),
           got' = (IF d.current = None \/ outlived' THEN "gap" ELSE got),
           asked' \in BOOLEAN, Pending(consumer, d, FALSE) => asked',
           outlived' \in BOOLEAN, outlived /\ d.target # NoLayers => outlived',
           d.target # NoLayers => IsActive(st, d) \/ outlived'
    PROVE  Inv'
  <1>1. d \in ConsumerRecord /\ consumer \in ConsumerRecord
    BY DEF Inv, Sound
  <1>2. ApplicationKnowsLayers'
    <2>1. CASE d.current = None
      <3>1. d.temporal = None
        BY <2>1 DEF Sound
      <3> QED
        BY <2>1, <3>1 DEF ApplicationKnowsLayers, Told, NoLayers
    <2>2. CASE d.current # None
      <3>1. d.current = consumer.current /\ d.temporal = consumer.temporal
        BY <2>2 DEF Sound, Succeeds
      <3> QED
        BY <2>2, <3>1 DEF ApplicationKnowsLayers, Told, Inv
    <2> QED
      BY <2>1, <2>2
  <1>3. told' \in Layers
    BY <1>2, SoundLayers DEF ApplicationKnowsLayers
  <1>4. Typed'
    BY <1>1, <1>3 DEF Typed, Inv, Received
  <1>5. UnknownIsSilent'
    BY DEF UnknownIsSilent
  <1>6. Sound(streams, consumer)'
    BY DEF Sound, Reported
  <1>7. IdleIsOutlived'
    BY DEF IdleIsOutlived, IsActive, BaseActive
  <1>8. StillWhole'
    <2> SUFFICES ASSUME d.current # None, ~ d.syncRequired PROVE got' # "gap" \/ outlived'
      BY DEF StillWhole
    <2>1. d.target # NoLayers /\ d.current = consumer.current /\ ~ consumer.syncRequired
      BY DEF Sound, Succeeds
    <2>2. got # "gap" \/ outlived
      BY <2>1 DEF Inv, StillWhole
    <2> QED
      BY <2>1, <2>2
  <1>9. StillAsked'
    <2> SUFFICES ASSUME Waiting(d) PROVE asked' \/ outlived'
      BY DEF StillAsked, Waiting
    <2>1. d.target # NoLayers /\ d.current # d.target[1] /\ d.current = consumer.current
      BY DEF Succeeds, Waiting
    <2>2. CASE d.target # consumer.target
      <3>1. d.target[1] # None
        BY <1>1, <2>1, LayerFacts DEF ConsumerRecord
      <3> QED
        BY <2>1, <2>2, <3>1 DEF Pending, Requested
    <2>3. CASE d.target = consumer.target
      <3>1. Waiting(consumer)
        BY <2>1, <2>3 DEF Waiting
      <3>2. asked \/ outlived
        BY <3>1 DEF Inv, StillAsked
      <3> QED
        BY <2>1, <2>3, <3>2 DEF Pending
    <2> QED
      BY <2>2, <2>3
  <1> QED
    BY <1>2, <1>4, <1>5, <1>6, <1>7, <1>8, <1>9 DEF Inv

\* The same for the events that end in ConsumerChanges.
LEMMA ChangesKeepInv ==
    ASSUME Inv, NEW st \in [Spatial -> StreamRecord], NEW d, Sound(st, d), Succeeds(consumer, d),
           \A l \in Spatial : st[l].known \/ st[l].report = "none", ConsumerChanges(st, d),
           d.target # NoLayers =>
             IsActive(st, d) \/ outlived \/ \A l \in Spatial : st[l].score = Dead
    PROVE  Inv'
  <1>1. /\ streams' = st /\ consumer' = d /\ told' = Told(consumer, d)
        /\ skipped' = (skipped /\ d.current # None)
        /\ got' = IF d.current = None \/ outlived' THEN "gap" ELSE got
    BY DEF ConsumerChanges
  <1>2. asked' \in BOOLEAN /\ (Pending(consumer, d, FALSE) => asked')
    BY DEF ConsumerChanges, Pending
  <1>3. /\ outlived' \in BOOLEAN /\ (outlived /\ d.target # NoLayers => outlived')
        /\ d.target # NoLayers => IsActive(st, d) \/ outlived'
    BY DEF ConsumerChanges
  <1> QED
    BY <1>1, <1>2, <1>3, EventKeepsInv

\* Changes of the fields that are not about layers keep a consumer sound.
LEMMA OtherFields ==
    ASSUME NEW st, NEW c, Sound(st, c), NEW d \in ConsumerRecord,
           d.target = c.target, d.current = c.current, d.context = c.context,
           d.temporal = c.temporal, d.reference = c.reference
    PROVE  Sound(st, d)
BY DEF Sound, Reported

\* An inactive consumer that stays as it is keeps its history.
LEMMA IdleStays ==
    ASSUME Inv, NEW d, d.target = consumer.target, ~ IsActive(streams, consumer)
    PROVE  d.target # NoLayers => outlived
BY DEF Inv, IdleIsOutlived

\* A restarted consumer waits for a key frame, and is in its layer or in none.
LEMMA RestartedSound ==
    ASSUME NEW st \in [Spatial -> StreamRecord], NEW c, Sound(st, c), NEW d \in Restarted(st, c)
    PROVE  /\ Sound(st, d) /\ d.syncRequired
           /\ d.target # NoLayers => d.current = c.current /\ d.temporal = c.temporal
           /\ IsActive(st, d) \/ (~ IsActive(st, c) /\ d.target = c.target)
  <1> DEFINE e == [c EXCEPT !.syncRequired = TRUE, !.offsetAsked = FALSE]
  <1>1. /\ e \in ConsumerRecord /\ e.target = c.target /\ e.current = c.current
        /\ e.context = c.context /\ e.temporal = c.temporal /\ e.reference = c.reference
        /\ e.transportConnected = c.transportConnected /\ e.pausedBy = c.pausedBy
        /\ e.syncRequired
    BY DEF Sound, ConsumerRecord
  <1>2. d \in (IF IsActive(st, e) THEN MayChangeLayers(st, e, FALSE) ELSE {e})
    BY DEF Restarted
  <1> HIDE DEF e
  <1>3. Sound(st, e)
    BY <1>1, OtherFields
  <1>4. IsActive(st, e) <=> IsActive(st, c)
    BY <1>1 DEF IsActive, BaseActive
  <1>5. CASE IsActive(st, e)
    <2>1. Sound(st, d) /\ Follows(e, d)
      BY <1>2, <1>3, <1>5, MayChangeSound
    <2> QED
      BY <1>1, <1>5, <2>1 DEF Follows, IsActive, BaseActive
  <1>6. CASE ~ IsActive(st, e)
    BY <1>1, <1>2, <1>3, <1>4, <1>6
  <1> QED
    BY <1>5, <1>6

\* A stopped consumer has no layers.
LEMMA StoppedSound ==
    ASSUME NEW st \in [Spatial -> StreamRecord], NEW c, Sound(st, c)
    PROVE  LET d == Stopped(c)
           IN  Sound(st, d) /\ d.target = NoLayers /\ d.syncRequired = c.syncRequired
  <1> DEFINE e == [c EXCEPT !.downgraded = FALSE]
  <1>1. /\ e \in ConsumerRecord /\ e.target = c.target /\ e.current = c.current
        /\ e.context = c.context /\ e.temporal = c.temporal /\ e.reference = c.reference
        /\ e.syncRequired = c.syncRequired
    BY DEF Sound, ConsumerRecord
  <1>2. Stopped(c) = UpdateTargetLayers(e, NoLayers)
    BY DEF Stopped
  <1> HIDE DEF e
  <1>3. Sound(st, e)
    BY <1>1, OtherFields
  <1>4. NoLayers \in Layers
    BY LayerFacts
  <1> QED
    BY <1>1, <1>2, <1>3, <1>4, UpdateSound DEF Follows

LEMMA TransportConnectedInv == Inv /\ TransportConnected => Inv'
  <1> SUFFICES ASSUME Inv, TransportConnected PROVE Inv'
    OBVIOUS
  <1> DEFINE c == [consumer EXCEPT !.transportConnected = TRUE]
  <1>1. PICK d \in Restarted(streams, c) : ConsumerChanges(streams, d)
    BY DEF TransportConnected
  <1>2. /\ c \in ConsumerRecord /\ c.target = consumer.target /\ c.current = consumer.current
        /\ c.context = consumer.context /\ c.temporal = consumer.temporal
        /\ c.reference = consumer.reference
    BY DEF Inv, Sound, ConsumerRecord
  <1>3. ~ IsActive(streams, consumer)
    BY DEF TransportConnected, IsActive, BaseActive
  <1> HIDE DEF c
  <1>4. Sound(streams, c) /\ streams \in [Spatial -> StreamRecord]
    BY <1>2, OtherFields DEF Inv, Typed
  <1>5. Sound(streams, d) /\ Succeeds(consumer, d)
    BY <1>2, <1>4, RestartedSound DEF Succeeds
  <1>6. d.target # NoLayers => IsActive(streams, d) \/ outlived
    <2>1. IsActive(streams, d) \/ d.target = consumer.target
      BY <1>2, <1>4, RestartedSound
    <2> QED
      BY <1>3, <2>1, IdleStays
  <1>7. \A l \in Spatial : streams[l].known \/ streams[l].report = "none"
    BY DEF Inv, UnknownIsSilent
  <1> QED
    BY <1>1, <1>4, <1>5, <1>6, <1>7, ChangesKeepInv

LEMMA TransportDisconnectedInv == Inv /\ TransportDisconnected => Inv'
  <1> SUFFICES ASSUME Inv, TransportDisconnected PROVE Inv'
    OBVIOUS
  <1> DEFINE c == [consumer EXCEPT !.transportConnected = FALSE]
             d == Stopped(c)
  <1>1. ConsumerChanges(streams, d)
    BY DEF TransportDisconnected
  <1>2. /\ c \in ConsumerRecord /\ c.target = consumer.target /\ c.current = consumer.current
        /\ c.context = consumer.context /\ c.temporal = consumer.temporal
        /\ c.reference = consumer.reference /\ c.syncRequired = consumer.syncRequired
    BY DEF Inv, Sound, ConsumerRecord
  <1> HIDE DEF c
  <1>3. Sound(streams, c) /\ streams \in [Spatial -> StreamRecord]
    BY <1>2, OtherFields DEF Inv, Typed
  <1>4. Sound(streams, d) /\ d.target = NoLayers /\ d.syncRequired = consumer.syncRequired
    BY <1>2, <1>3, StoppedSound
  <1> HIDE DEF d
  <1>5. Succeeds(consumer, d)
    BY <1>4 DEF Succeeds
  <1>6. \A l \in Spatial : streams[l].known \/ streams[l].report = "none"
    BY DEF Inv, UnknownIsSilent
  <1> QED
    BY <1>1, <1>3, <1>4, <1>5, <1>6, ChangesKeepInv

LEMMA PauseInv == ASSUME Inv, NEW who \in {"consumer", "producer"}, Pause(who) PROVE Inv'
  <1> DEFINE c == [consumer EXCEPT !.pausedBy = @ \cup {who}]
             d == IF IsActive(streams, consumer) THEN Stopped(c) ELSE c
  <1>1. ConsumerChanges(streams, d)
    BY DEF Pause
  <1>2. consumer \in ConsumerRecord /\ consumer.pausedBy \cup {who} \in SUBSET {"consumer", "producer"}
    BY DEF Inv, Sound, ConsumerRecord
  <1>3. /\ c \in ConsumerRecord /\ c.target = consumer.target /\ c.current = consumer.current
        /\ c.context = consumer.context /\ c.temporal = consumer.temporal
        /\ c.reference = consumer.reference /\ c.syncRequired = consumer.syncRequired
    BY <1>2 DEF ConsumerRecord
  <1> HIDE DEF c
  <1>4. Sound(streams, c) /\ streams \in [Spatial -> StreamRecord]
    BY <1>3, OtherFields DEF Inv, Typed
  <1>5. Sound(streams, d) /\ Succeeds(consumer, d) /\ (d.target # NoLayers => outlived)
    <2>1. CASE IsActive(streams, consumer)
      <3>1. Sound(streams, d) /\ d.target = NoLayers /\ d.syncRequired = consumer.syncRequired
        BY <1>3, <1>4, <2>1, StoppedSound
      <3> HIDE DEF d
      <3> QED
        BY <3>1 DEF Succeeds
    <2>2. CASE ~ IsActive(streams, consumer)
      <3>1. d = c
        BY <2>2
      <3> HIDE DEF d
      <3> QED
        BY <1>3, <1>4, <2>2, <3>1, IdleStays DEF Succeeds
    <2> QED
      BY <2>1, <2>2
  <1> HIDE DEF d
  <1>6. \A l \in Spatial : streams[l].known \/ streams[l].report = "none"
    BY DEF Inv, UnknownIsSilent
  <1> QED
    BY <1>1, <1>4, <1>5, <1>6, ChangesKeepInv

LEMMA ResumeInv == ASSUME Inv, NEW who \in {"consumer", "producer"}, Resume(who) PROVE Inv'
  <1> DEFINE c == [consumer EXCEPT !.pausedBy = @ \ {who}]
  <1>1. PICK d \in (IF IsActive(streams, c) THEN Restarted(streams, c) ELSE {c}) :
             /\ streams' = streams /\ consumer' = d
             /\ asked' = Pending(consumer, d, who = "producer")
             /\ told' = Told(consumer, d)
             /\ outlived' = (outlived /\ d.target # NoLayers)
             /\ got' = IF d.current = None \/ outlived' THEN "gap" ELSE got
             /\ skipped' = (skipped /\ d.current # None)
    BY DEF Resume
  <1>2. consumer \in ConsumerRecord /\ consumer.pausedBy \ {who} \in SUBSET {"consumer", "producer"}
    BY DEF Inv, Sound, ConsumerRecord
  <1>3. /\ c \in ConsumerRecord /\ c.target = consumer.target /\ c.current = consumer.current
        /\ c.context = consumer.context /\ c.temporal = consumer.temporal
        /\ c.reference = consumer.reference /\ c.syncRequired = consumer.syncRequired
    BY <1>2 DEF ConsumerRecord
  <1>4. ~ IsActive(streams, consumer)
    BY DEF Resume, IsActive, BaseActive
  <1> HIDE DEF c
  <1>5. Sound(streams, c) /\ streams \in [Spatial -> StreamRecord]
    BY <1>3, OtherFields DEF Inv, Typed
  <1>6. /\ Sound(streams, d) /\ Succeeds(consumer, d)
        /\ IsActive(streams, d) \/ d.target = consumer.target
    <2>1. CASE IsActive(streams, c)
      BY <1>1, <1>3, <1>5, <2>1, RestartedSound DEF Succeeds
    <2>2. CASE ~ IsActive(streams, c)
      BY <1>1, <1>3, <1>5, <2>2 DEF Succeeds
    <2> QED
      BY <2>1, <2>2
  <1>7. d.target # NoLayers => IsActive(streams, d) \/ outlived'
    BY <1>1, <1>4, <1>6, IdleStays
  <1>8. outlived' \in BOOLEAN /\ (outlived /\ d.target # NoLayers => outlived')
    BY <1>1
  <1>9. asked' \in BOOLEAN /\ (Pending(consumer, d, FALSE) => asked')
    BY <1>1 DEF Pending
  <1>10. \A l \in Spatial : streams[l].known \/ streams[l].report = "none"
    BY DEF Inv, UnknownIsSilent
  <1> QED
    BY <1>1, <1>5, <1>6, <1>7, <1>8, <1>9, <1>10, EventKeepsInv

LEMMA SetPreferredLayersInv ==
    ASSUME Inv, NEW layers \in Preferred, SetPreferredLayers(layers)
    PROVE  Inv'
  <1> DEFINE c == [consumer EXCEPT !.preferred = layers]
  <1>1. PICK d \in (IF IsActive(streams, c) THEN MayChangeLayers(streams, c, TRUE) ELSE {c}) :
             ConsumerChanges(streams, d)
    BY DEF SetPreferredLayers
  <1>2. /\ c \in ConsumerRecord /\ c.target = consumer.target /\ c.current = consumer.current
        /\ c.context = consumer.context /\ c.temporal = consumer.temporal
        /\ c.reference = consumer.reference /\ c.syncRequired = consumer.syncRequired
        /\ c.transportConnected = consumer.transportConnected /\ c.pausedBy = consumer.pausedBy
    BY SimulcastAssumption DEF Inv, Sound, ConsumerRecord
  <1> HIDE DEF c
  <1>3. Sound(streams, c) /\ streams \in [Spatial -> StreamRecord]
    BY <1>2, OtherFields DEF Inv, Typed
  <1>4. Sound(streams, d) /\ Succeeds(consumer, d) /\ (d.target # NoLayers => IsActive(streams, d) \/ outlived)
    <2>1. CASE IsActive(streams, c)
      <3>1. Sound(streams, d) /\ Follows(c, d)
        BY <1>1, <1>3, <2>1, MayChangeSound
      <3>2. IsActive(streams, d)
        BY <2>1, <3>1 DEF Follows, IsActive, BaseActive
      <3> QED
        BY <1>2, <3>1, <3>2 DEF Follows, Succeeds
    <2>2. CASE ~ IsActive(streams, c)
      <3>1. ~ IsActive(streams, consumer)
        BY <1>2, <2>2 DEF IsActive, BaseActive
      <3>2. d = c
        BY <1>1, <2>2
      <3> QED
        BY <1>2, <1>3, <3>1, <3>2, IdleStays DEF Succeeds
    <2> QED
      BY <2>1, <2>2
  <1>5. \A l \in Spatial : streams[l].known \/ streams[l].report = "none"
    BY DEF Inv, UnknownIsSilent
  <1> QED
    BY <1>1, <1>3, <1>4, <1>5, ChangesKeepInv

\* A consumer that waits and asks once more is asked for.
LEMMA KeyFrameRequestedInv == Inv /\ KeyFrameRequested => Inv'
  <1> SUFFICES ASSUME Inv, KeyFrameRequested PROVE Inv'
    OBVIOUS
  <1>1. asked' \in BOOLEAN /\ (Waiting(consumer) => asked')
    BY Zenon DEF KeyFrameRequested, Pending
  <1>2. /\ streams' = streams /\ consumer' = consumer /\ told' = told /\ got' = got
        /\ outlived' = outlived /\ skipped' = skipped
    BY DEF KeyFrameRequested
  <1>3. asked' \in BOOLEAN /\ StillAsked'
    BY <1>1, <1>2 DEF StillAsked, Waiting
  <1> QED
    BY <1>2, <1>3 DEF Inv, Typed, UnknownIsSilent, Sound, Reported, IdleIsOutlived, IsActive,
       BaseActive, StillWhole, ApplicationKnowsLayers

\* Reports that come in keep a consumer sound.
LEMMA MoreReports ==
    ASSUME NEW st, NEW s, NEW c, Sound(st, c), \A l \in Spatial : st[l].report # "none" => s[l].report # "none"
    PROVE  Sound(s, c)
  <1>1. c.target \in Layers /\ c.current \in Spatial \cup {None} /\ c.reference \in Spatial \cup {None}
    BY DEF Sound, ConsumerRecord
  <1>2. c.target = NoLayers => {c.target[1], c.current} \ {None, c.reference} = {}
    BY LayerFacts DEF Sound
  <1>3. c.target # NoLayers => c.target[1] \in Spatial
    BY <1>1, LayerFacts
  <1>4. Reported(s, c)
    BY <1>1, <1>2, <1>3 DEF Sound, Reported
  <1> QED
    BY <1>4 DEF Sound

\* ProducerRtpStreamScore keeps target layers without activity only where the
\* streams have all died, now or before.
LEMMA ScoreChangesSound ==
    ASSUME NEW st \in [Spatial -> StreamRecord], NEW c, Sound(st, c),
           NEW s \in [Spatial -> StreamRecord],
           \A m \in Spatial : s[m].report = st[m].report,
           NEW dies, NEW d \in IF BaseActive(c) /\ dies THEN MayChangeLayers(s, c, FALSE) ELSE {c}
    PROVE  /\ Sound(s, d) /\ Follows(c, d)
           /\ \/ IsActive(s, d) \/ (\A m \in Spatial : s[m].score = Dead)
              \/ d = c /\ ~ IsActive(st, c)
  <1>1. Sound(s, c)
    BY MoreReports
  <1>2. Sound(s, d) /\ Follows(c, d)
    <2>1. CASE d = c
      BY <1>1, <2>1 DEF Follows
    <2>2. CASE d \in MayChangeLayers(s, c, FALSE)
      BY <1>1, <2>2, MayChangeSound
    <2> QED
      BY <2>1, <2>2
  <1>3. \/ IsActive(s, d) \/ (\A m \in Spatial : s[m].score = Dead)
        \/ d = c /\ ~ IsActive(st, c)
    <2>1. CASE BaseActive(c)
      <3>1. BaseActive(d)
        BY <1>2, <2>1 DEF Follows, BaseActive
      <3>2. \A m \in Spatial : s[m].score > Dead \/ s[m].score = Dead
        BY DEF StreamRecord, Dead, Poor, Good
      <3> QED
        BY <3>1, <3>2 DEF IsActive
    <2>2. CASE ~ BaseActive(c)
      BY <2>2 DEF IsActive
    <2> QED
      BY <2>1, <2>2
  <1> QED
    BY <1>2, <1>3

LEMMA ProducerRtpStreamScoreInv ==
    ASSUME Inv, NEW l \in Spatial, NEW score \in {Dead, Poor, Good},
           ProducerRtpStreamScore(l, score)
    PROVE  Inv'
  <1> DEFINE s == [streams EXCEPT ![l].score = score]
             dies == consumer.managed => Dead \in {score, streams[l].score}
  <1>1. PICK d \in (IF BaseActive(consumer) /\ dies
                      THEN MayChangeLayers(s, consumer, FALSE) ELSE {consumer}) :
             ConsumerChanges(s, d)
    BY DEF ProducerRtpStreamScore, ScoreChanges
  <1>2. Sound(streams, consumer) /\ streams \in [Spatial -> StreamRecord]
    BY DEF Inv, Typed
  <1>3. /\ s \in [Spatial -> StreamRecord]
        /\ \A m \in Spatial : s[m].known = streams[m].known /\ s[m].report = streams[m].report
    BY <1>2 DEF StreamRecord
  <1> HIDE DEF s, dies
  <1>4. /\ Sound(s, d) /\ Follows(consumer, d)
        /\ \/ IsActive(s, d) \/ (\A m \in Spatial : s[m].score = Dead)
           \/ d = consumer /\ ~ IsActive(streams, consumer)
    BY <1>1, <1>2, <1>3, ScoreChangesSound
  <1>5. Succeeds(consumer, d)
    BY <1>4 DEF Follows, Succeeds
  <1>6. d.target # NoLayers =>
          IsActive(s, d) \/ outlived \/ \A m \in Spatial : s[m].score = Dead
    BY <1>4, IdleStays
  <1>7. \A m \in Spatial : s[m].known \/ s[m].report = "none"
    BY <1>3 DEF Inv, UnknownIsSilent
  <1> QED
    BY <1>1, <1>3, <1>4, <1>5, <1>6, <1>7, ChangesKeepInv

LEMMA ProducerRtcpSenderReportInv ==
    ASSUME Inv, NEW l \in Spatial, NEW timed \in BOOLEAN, ProducerRtcpSenderReport(l, timed)
    PROVE  Inv'
  <1> DEFINE first == streams[l].report # "given"
             w == IF timed THEN "given" ELSE IF first THEN streams[l].report ELSE "withdrawn"
             s == [streams EXCEPT ![l].report = w]
  <1>1. PICK d \in (IF /\ first /\ consumer.current # None
                       /\ s[consumer.current].report = "given" /\ IsActive(s, consumer)
                      THEN MayChangeLayers(s, consumer, FALSE) ELSE {consumer}) :
             ConsumerChanges(s, d)
    BY DEF ProducerRtcpSenderReport
  <1>2. Sound(streams, consumer) /\ streams \in [Spatial -> StreamRecord]
    BY DEF Inv, Typed
  <1>3. /\ s \in [Spatial -> StreamRecord]
        /\ \A m \in Spatial : s[m].known = streams[m].known /\ s[m].score = streams[m].score
        /\ \A m \in Spatial : streams[m].report # "none" => s[m].report # "none"
        /\ \A m \in Spatial : m # l => s[m].report = streams[m].report
    <2>1. w \in {"none", "given", "withdrawn"} /\ (streams[l].report # "none" => w # "none")
      BY <1>2 DEF StreamRecord
    <2> HIDE DEF w
    <2> QED
      BY <1>2, <2>1 DEF StreamRecord
  <1>4. streams[l].known
    BY DEF ProducerRtcpSenderReport
  <1> HIDE DEF s, first
  <1>5. Sound(s, consumer)
    BY <1>2, <1>3, MoreReports
  <1>6. IsActive(s, consumer) <=> IsActive(streams, consumer)
    BY <1>3 DEF IsActive
  <1>7. /\ Sound(s, d) /\ Follows(consumer, d)
        /\ IsActive(s, d) \/ d = consumer
    <2>1. CASE d = consumer
      BY <1>5, <2>1 DEF Follows
    <2>2. CASE IsActive(s, consumer) /\ d \in MayChangeLayers(s, consumer, FALSE)
      <3>1. Sound(s, d) /\ Follows(consumer, d)
        BY <1>3, <1>5, <2>2, MayChangeSound
      <3> QED
        BY <2>2, <3>1 DEF Follows, IsActive, BaseActive
    <2> QED
      BY <1>1, <2>1, <2>2
  <1>8. Succeeds(consumer, d)
    BY <1>7 DEF Follows, Succeeds
  <1>9. d.target # NoLayers => IsActive(s, d) \/ outlived
    <2>1. CASE IsActive(s, d)
      BY <2>1
    <2>2. CASE ~ IsActive(s, d)
      <3>1. d = consumer /\ ~ IsActive(streams, consumer)
        BY <1>6, <1>7, <2>2
      <3> QED
        BY <3>1, IdleStays
    <2> QED
      BY <2>1, <2>2
  <1>10. \A m \in Spatial : s[m].known \/ s[m].report = "none"
    BY <1>3, <1>4 DEF Inv, UnknownIsSilent
  <1> QED
    BY <1>1, <1>3, <1>7, <1>8, <1>9, <1>10, ChangesKeepInv

LEMMA OnRtpStreamScoreInv == Inv /\ OnRtpStreamScore => Inv'
  <1> SUFFICES ASSUME Inv, OnRtpStreamScore PROVE Inv'
    OBVIOUS
  <1>1. PICK d \in MayChangeLayers(streams, consumer, FALSE) : ConsumerChanges(streams, d)
    BY DEF OnRtpStreamScore
  <1>2. Sound(streams, consumer) /\ streams \in [Spatial -> StreamRecord]
    BY DEF Inv, Typed
  <1>3. Sound(streams, d) /\ Follows(consumer, d)
    BY <1>2, MayChangeSound
  <1>4. Succeeds(consumer, d) /\ IsActive(streams, d)
    BY <1>3 DEF Follows, Succeeds, IsActive, BaseActive, OnRtpStreamScore
  <1>5. \A m \in Spatial : streams[m].known \/ streams[m].report = "none"
    BY DEF Inv, UnknownIsSilent
  <1> QED
    BY <1>1, <1>2, <1>3, <1>4, <1>5, ChangesKeepInv

LEMMA BitrateChangedInv == Inv /\ BitrateChanged => Inv'
  <1> SUFFICES ASSUME Inv, BitrateChanged PROVE Inv'
    OBVIOUS
  <1>1. PICK d \in Distributed(streams, consumer) : ConsumerChanges(streams, d)
    BY DEF BitrateChanged
  <1>2. Sound(streams, consumer) /\ streams \in [Spatial -> StreamRecord]
    BY DEF Inv, Typed
  <1>3. Sound(streams, d) /\ Follows(consumer, d)
    BY <1>2, DistributedSound
  <1>4. Succeeds(consumer, d)
    BY <1>3 DEF Follows, Succeeds
  <1>5. d.target # NoLayers => IsActive(streams, d) \/ outlived
    <2>1. CASE IsActive(streams, consumer)
      BY <1>3, <2>1 DEF Follows, IsActive, BaseActive
    <2>2. CASE ~ IsActive(streams, consumer)
      <3>1. d = consumer
        BY <2>2 DEF Distributed
      <3> QED
        BY <2>2, <3>1, IdleStays
    <2> QED
      BY <2>1, <2>2
  <1>6. \A m \in Spatial : streams[m].known \/ streams[m].report = "none"
    BY DEF Inv, UnknownIsSilent
  <1> QED
    BY <1>1, <1>2, <1>3, <1>4, <1>5, <1>6, ChangesKeepInv

\* The two events that only set a flag of the consumer.
LEMMA FlagInv == Inv /\ (SetExternallyManagedBitrate \/ DowngradeForgotten) => Inv'
  <1> SUFFICES ASSUME Inv, SetExternallyManagedBitrate \/ DowngradeForgotten PROVE Inv'
    OBVIOUS
  <1>1. consumer \in ConsumerRecord
    BY DEF Inv, Sound
  <1>2. UNCHANGED <<streams, asked, told, got, skipped, outlived>>
    BY DEF SetExternallyManagedBitrate, DowngradeForgotten
  <1>3. /\ consumer' \in ConsumerRecord /\ consumer'.target = consumer.target
        /\ consumer'.current = consumer.current
        /\ consumer'.context = consumer.context /\ consumer'.temporal = consumer.temporal
        /\ consumer'.reference = consumer.reference /\ consumer'.syncRequired = consumer.syncRequired
        /\ consumer'.transportConnected = consumer.transportConnected
        /\ consumer'.pausedBy = consumer.pausedBy
    <2>1. CASE SetExternallyManagedBitrate
      <3>1. consumer' = [consumer EXCEPT !.managed = TRUE]
        BY <2>1 DEF SetExternallyManagedBitrate
      <3> QED
        BY <1>1, <3>1 DEF ConsumerRecord
    <2>2. CASE DowngradeForgotten
      <3>1. consumer' = [consumer EXCEPT !.downgraded = FALSE]
        BY <2>2 DEF DowngradeForgotten
      <3> QED
        BY <1>1, <3>1 DEF ConsumerRecord
    <2> QED
      BY <2>1, <2>2
  <1>4. Sound(streams, consumer)'
    BY <1>2, <1>3 DEF Inv, Sound, Reported
  <1>5. IsActive(streams, consumer)' <=> IsActive(streams, consumer)
    BY <1>2, <1>3 DEF IsActive, BaseActive
  <1>6. Waiting(consumer)' <=> Waiting(consumer)
    BY <1>3 DEF Waiting
  <1> QED
    BY <1>2, <1>3, <1>4, <1>5, <1>6 DEF Inv, Typed, UnknownIsSilent, IdleIsOutlived,
       StillWhole, StillAsked, ApplicationKnowsLayers

----------------------------------------------------------------------------
(* Packets.                                                                *)

\* The first packet of a stream, or one that revives it, may move the target;
\* it brings in no report and leaves an idle consumer alone.
LEMMA ArrivesSound ==
    ASSUME Inv, NEW l \in Spatial, NEW revived \in BOOLEAN,
           NEW r \in Arrives(streams, consumer, l, revived)
    PROVE  /\ r[1] \in [Spatial -> StreamRecord]
           /\ \A m \in Spatial : r[1][m].known \/ r[1][m].report = "none"
           /\ Sound(r[1], r[2]) /\ Follows(consumer, r[2])
           /\ r[2].target # NoLayers =>
                IsActive(r[1], r[2]) \/ outlived \/ \A m \in Spatial : r[1][m].score = Dead
           /\ \A m \in Spatial : r[1][m].report = streams[m].report
  <1>1. Sound(streams, consumer) /\ streams \in [Spatial -> StreamRecord]
    BY DEF Inv, Typed
  <1>2. CASE ~ streams[l].known
    <2> DEFINE s == [streams EXCEPT ![l] = [known |-> TRUE, score |-> Good, report |-> "none"]]
               alive == \E m \in Spatial : s[m].score > Dead
    <2>1. PICK d \in (IF IsActive(s, consumer) THEN MayChangeLayers(s, consumer, FALSE)
                      ELSE {consumer}) : r = <<s, d>>
      BY <1>2 DEF Arrives
    <2>2. d \in (IF BaseActive(consumer) /\ alive THEN MayChangeLayers(s, consumer, FALSE)
                 ELSE {consumer})
      BY <2>1 DEF IsActive
    <2>3. streams[l].report = "none"
      BY <1>2 DEF Inv, UnknownIsSilent
    <2>4. s \in [Spatial -> StreamRecord]
      BY <1>1 DEF StreamRecord, Good
    <2>5. \A m \in Spatial : s[m].report = streams[m].report
      BY <1>1, <2>3 DEF StreamRecord
    <2>6. \A m \in Spatial : s[m].known \/ s[m].report = "none"
      BY <1>1 DEF Inv, UnknownIsSilent
    <2> HIDE DEF s, alive
    <2>7. /\ Sound(s, d) /\ Follows(consumer, d)
          /\ \/ IsActive(s, d) \/ (\A m \in Spatial : s[m].score = Dead)
             \/ d = consumer /\ ~ IsActive(streams, consumer)
      BY <1>1, <2>2, <2>4, <2>5, ScoreChangesSound
    <2>8. d.target # NoLayers =>
            IsActive(s, d) \/ outlived \/ \A m \in Spatial : s[m].score = Dead
      BY <2>7, IdleStays
    <2>9. r[1] = s /\ r[2] = d
      BY <2>1
    <2> QED
      BY <2>4, <2>5, <2>6, <2>7, <2>8, <2>9
  <1>3. CASE streams[l].known /\ revived
    <2> DEFINE s == [streams EXCEPT ![l].score = Good]
               dies == consumer.managed => Dead \in {Good, streams[l].score}
    <2>1. PICK d \in (IF BaseActive(consumer) /\ dies THEN MayChangeLayers(s, consumer, FALSE)
                      ELSE {consumer}) : r = <<s, d>>
      BY <1>3 DEF Arrives, ScoreChanges
    <2>2. /\ s \in [Spatial -> StreamRecord]
          /\ \A m \in Spatial : s[m].known = streams[m].known /\ s[m].report = streams[m].report
      BY <1>1 DEF StreamRecord
    <2> HIDE DEF s, dies
    <2>3. /\ Sound(s, d) /\ Follows(consumer, d)
          /\ \/ IsActive(s, d) \/ (\A m \in Spatial : s[m].score = Dead)
             \/ d = consumer /\ ~ IsActive(streams, consumer)
      BY <1>1, <2>1, <2>2, ScoreChangesSound
    <2>4. d.target # NoLayers =>
            IsActive(s, d) \/ outlived \/ \A m \in Spatial : s[m].score = Dead
      BY <2>3, IdleStays
    <2>5. \A m \in Spatial : s[m].known \/ s[m].report = "none"
      BY <2>2 DEF Inv, UnknownIsSilent
    <2>6. r[1] = s /\ r[2] = d
      BY <2>1
    <2> QED
      BY <2>2, <2>3, <2>4, <2>5, <2>6
  <1>4. CASE streams[l].known /\ ~ revived
    <2>1. r = <<streams, consumer>>
      BY <1>4 DEF Arrives
    <2>2. r[1] = streams /\ r[2] = consumer
      BY <2>1
    <2>3. consumer.target # NoLayers => IsActive(streams, consumer) \/ outlived
      BY DEF Inv, IdleIsOutlived
    <2>4. \A m \in Spatial : streams[m].known \/ streams[m].report = "none"
      BY DEF Inv, UnknownIsSilent
    <2> QED
      BY <1>1, <2>2, <2>3, <2>4 DEF Follows
  <1> QED
    BY <1>2, <1>3, <1>4

\* d has the fields of c that no packet changes.
SameRoute(c, d) ==
    /\ d.transportConnected = c.transportConnected /\ d.pausedBy = c.pausedBy
    /\ d.target = c.target /\ d.reference = c.reference

\* The payload handler stays within its target temporal layer.
LEMMA ProcessedResult ==
    ASSUME NEW c \in ConsumerRecord, c.context # None, c.temporal # None, NEW p \in Packets
    PROVE  LET d == Processed(c, p)
           IN  /\ d \in ConsumerRecord /\ SameRoute(c, d)
               /\ d.current = c.current /\ d.context = c.context /\ d.temporal # None
               /\ d.syncRequired = c.syncRequired
               /\ c.temporal = 0 /\ p.key => d.temporal = 0
  <1> DEFINE t == IF p.tl = None THEN 0 ELSE IF p.tl > c.temporal THEN p.tl ELSE c.temporal
             w == IF t > c.context THEN c.context ELSE t
             d == Processed(c, p)
  <1>1. c.context \in Temporal /\ c.temporal \in Temporal /\ p.tl \in Temporal \cup {None}
    BY DEF ConsumerRecord, Packets, Packet
  <1>2. d = [c EXCEPT !.temporal = w]
    BY DEF Processed
  <1>3. w \in Temporal
    <2>1. 0 \in Temporal
      BY SimulcastAssumption DEF Temporal
    <2> QED
      BY <1>1, <2>1
  <1>4. c.temporal = 0 /\ p.key => w = 0
    <2>1. p.key => p.tl <= 0
      BY DEF Packets
    <2> QED
      BY <1>1, <2>1 DEF Temporal
  <1> HIDE DEF w
  <1>5. /\ d \in ConsumerRecord /\ d.temporal = w /\ d.current = c.current
        /\ d.context = c.context /\ d.syncRequired = c.syncRequired
        /\ d.transportConnected = c.transportConnected /\ d.pausedBy = c.pausedBy
        /\ d.target = c.target /\ d.reference = c.reference
    BY <1>2, <1>3 DEF ConsumerRecord
  <1>6. w # None
    BY <1>3, LayerFacts
  <1> HIDE DEF d
  <1>7. /\ d \in ConsumerRecord /\ SameRoute(c, d)
        /\ d.current = c.current /\ d.context = c.context /\ d.temporal # None
        /\ d.syncRequired = c.syncRequired
        /\ c.temporal = 0 /\ p.key => d.temporal = 0
    BY <1>4, <1>5, <1>6 DEF SameRoute
  <1> QED
    BY <1>7 DEF d

\* A packet that is accepted ends the wait for a synchronisation.
LEMMA AfterSyncResult ==
    ASSUME NEW c \in ConsumerRecord, NEW l, NEW p
    PROVE  LET d == AfterSync(c, l, p)
           IN  /\ d \in ConsumerRecord /\ SameRoute(c, d)
               /\ d.current = c.current /\ d.context = c.context /\ d.temporal = c.temporal
               /\ (Accepted(c, l, p) => ~ d.syncRequired)
  <1> DEFINE e == [c EXCEPT !.syncRequired = FALSE, !.offsetAsked = FALSE]
             d == AfterSync(c, l, p)
  <1>1. /\ e \in ConsumerRecord /\ e.transportConnected = c.transportConnected
        /\ e.pausedBy = c.pausedBy /\ e.target = c.target /\ e.reference = c.reference
        /\ e.current = c.current /\ e.context = c.context /\ e.temporal = c.temporal
        /\ ~ e.syncRequired
    BY DEF ConsumerRecord
  <1>2. d = IF Synchronises(c, l, p.key) THEN e ELSE c
    BY DEF AfterSync
  <1>3. Accepted(c, l, p) /\ ~ Synchronises(c, l, p.key) => ~ c.syncRequired
    BY DEF Accepted, Synchronises
  <1> HIDE DEF e, d
  <1>4. /\ d \in ConsumerRecord /\ SameRoute(c, d)
        /\ d.current = c.current /\ d.context = c.context /\ d.temporal = c.temporal
        /\ (Accepted(c, l, p) => ~ d.syncRequired)
    BY <1>1, <1>2, <1>3 DEF SameRoute
  <1> QED
    BY <1>4 DEF d

\* Switching takes the target layers.
LEMMA AfterSwitchResult ==
    ASSUME NEW c \in ConsumerRecord, c.target # NoLayers, NEW p \in Packets, p.key
    PROVE  LET d == AfterSwitch(c, p)
           IN  /\ d \in ConsumerRecord /\ SameRoute(c, d)
               /\ d.current = c.target[1] /\ d.context = c.target[2] /\ d.temporal = 0
               /\ d.current # None /\ d.context # None
               /\ d.syncRequired = c.syncRequired
  <1> DEFINE d == AfterSwitch(c, p)
             t == IF p.tl = None THEN 0 ELSE p.tl
  <1>1. c.target[1] \in Spatial /\ c.target[2] \in Temporal
    BY LayerFacts DEF ConsumerRecord
  <1>2. d = [c EXCEPT !.current = c.target[1], !.context = c.target[2], !.temporal = t]
    BY DEF AfterSwitch
  <1>3. p.tl \in Temporal \cup {None} /\ p.tl <= 0
    BY DEF Packets, Packet
  <1>4. t = 0 /\ t \in Temporal
    BY <1>3, SimulcastAssumption DEF Temporal
  <1> HIDE DEF t
  <1>5. /\ d \in ConsumerRecord /\ d.current = c.target[1] /\ d.context = c.target[2]
        /\ d.temporal = t /\ d.syncRequired = c.syncRequired
        /\ d.transportConnected = c.transportConnected /\ d.pausedBy = c.pausedBy
        /\ d.target = c.target /\ d.reference = c.reference
    BY <1>1, <1>2, <1>4 DEF ConsumerRecord
  <1> HIDE DEF d
  <1>6. /\ d \in ConsumerRecord /\ SameRoute(c, d)
        /\ d.current = c.target[1] /\ d.context = c.target[2] /\ d.temporal = 0
        /\ d.current # None /\ d.context # None
        /\ d.syncRequired = c.syncRequired
    BY <1>1, <1>4, <1>5, LayerFacts DEF SameRoute
  <1> QED
    BY <1>6 DEF d

\* A packet leaves the consumer sound when its fields are set together.
LEMMA PacketSound ==
    ASSUME NEW st, NEW c, Sound(st, c), NEW d \in ConsumerRecord, SameRoute(c, d),
           d.current \in {c.current, c.target[1]},
           d.current # None => d.context # None /\ d.temporal # None,
           d.current = None => d.context = None /\ d.temporal = None
    PROVE  Sound(st, d)
  <1>1. Reported(st, d)
    BY DEF Sound, Reported, SameRoute
  <1>2. d.current # None => d.target # NoLayers
    BY LayerFacts DEF Sound, SameRoute
  <1> QED
    BY <1>1, <1>2 DEF Sound, SameRoute

LEMMA ReceiveRtpPacketInv ==
    ASSUME Inv, NEW l \in Spatial, NEW p \in Packets, NEW revived \in BOOLEAN,
           ReceiveRtpPacket(l, p, revived)
    PROVE  Inv'
  <1>0. PICK r \in Arrives(streams, consumer, l, revived) :
         LET st     == r[1]
             c      == r[2]
             forced == l = c.target[1] /\ ~ streams[l].known /\ "producer" \notin c.pausedBy
             before == Pending(consumer, c, forced) /\ ~ (l = c.target[1] /\ p.key)
             active == IsActive(st, c)
             late   == active /\ PutOff(c, l, p)
             ok     == active /\ Accepted(c, l, p)
             switch == Switches(c, l, p.key)
             sync   == Synchronises(c, l, p.key)
             synced == AfterSync(c, l, p)
             wanted == ~ Filtered(synced, p)
             sent   == ok /\ (switch \/ (wanted /\ (sync \/ p.ids # "dropped")))
             after  == IF ~ ok THEN [c EXCEPT !.syncRequired = @ \/ late, !.offsetAsked = @ \/ late]
                       ELSE IF switch THEN Processed(AfterSwitch(synced, p), p)
                       ELSE IF sent THEN Processed(synced, p) ELSE synced
         IN  /\ ~ (active /\ sync /\ Unreported(st, c, l))
             /\ streams' = st
             /\ consumer' = after
             /\ asked' = (Waiting(consumer') /\ (before \/ late))
             /\ told' = IF sent /\ (switch \/ consumer'.temporal # synced.temporal)
                          THEN <<consumer'.current, consumer'.temporal>>
                        ELSE Told(consumer, c)
             /\ outlived' = /\ consumer'.target # NoLayers
                            /\ outlived \/ \A m \in Spatial : st[m].score = Dead
                            /\ ~ (sent /\ p.key /\ consumer'.current = consumer'.target[1])
             /\ got' = IF consumer'.current = None \/ outlived' THEN "gap"
                       ELSE IF sent /\ p.key THEN "all"
                       ELSE IF l # c.current \/ sent \/ (ok /\ (~ wanted \/ p.tl > 0)) THEN got
                       ELSE IF ok /\ got = "all" THEN "hidden"
                       ELSE IF ok THEN got ELSE "gap"
             /\ skipped' = /\ consumer'.current # None /\ ~ (ok /\ sync)
                           /\ IF ok /\ ~ wanted THEN Skipping(p) ELSE skipped
    BY DEF ReceiveRtpPacket
  <1> DEFINE st     == r[1]
             c      == r[2]
             forced == l = c.target[1] /\ ~ streams[l].known /\ "producer" \notin c.pausedBy
             before == Pending(consumer, c, forced) /\ ~ (l = c.target[1] /\ p.key)
             active == IsActive(st, c)
             late   == active /\ PutOff(c, l, p)
             ok     == active /\ Accepted(c, l, p)
             switch == Switches(c, l, p.key)
             sync   == Synchronises(c, l, p.key)
             synced == AfterSync(c, l, p)
             wanted == ~ Filtered(synced, p)
             sent   == ok /\ (switch \/ (wanted /\ (sync \/ p.ids # "dropped")))
             after  == IF ~ ok THEN [c EXCEPT !.syncRequired = @ \/ late, !.offsetAsked = @ \/ late]
                       ELSE IF switch THEN Processed(AfterSwitch(synced, p), p)
                       ELSE IF sent THEN Processed(synced, p) ELSE synced
  <1>1. /\ st \in [Spatial -> StreamRecord]
        /\ \A m \in Spatial : st[m].known \/ st[m].report = "none"
        /\ Sound(st, c) /\ Follows(consumer, c)
        /\ c.target # NoLayers =>
             active \/ outlived \/ \A m \in Spatial : st[m].score = Dead
    BY ArrivesSound
  <1>2. streams' = st /\ consumer' = after
    BY <1>0
  <1>3. /\ asked' \in BOOLEAN
        /\ Waiting(after) /\ (before \/ late) => asked'
    BY <1>0
  <1>4. told' = IF sent /\ (switch \/ after.temporal # synced.temporal)
                  THEN <<after.current, after.temporal>> ELSE Told(consumer, c)
    BY <1>0
  <1>5. /\ got' \in Received
        /\ after.current # None /\ ~ outlived' /\ sent /\ p.key => got' # "gap"
        /\ after.current # None /\ ~ outlived' /\ got # "gap" /\ (l = c.current => ok)
             => got' # "gap"
    BY <1>0 DEF Inv, Typed, Received
  <1>6. skipped' \in BOOLEAN
    BY <1>0 DEF Inv, Typed, Skipping
  <1>7. /\ outlived' \in BOOLEAN
        /\ /\ after.target # NoLayers /\ (outlived \/ \A m \in Spatial : st[m].score = Dead)
           /\ ~ (sent /\ p.key /\ after.current = after.target[1])
           => outlived'
    BY <1>0
  <1>8. late => active /\ PutOff(c, l, p)
    OBVIOUS
  <1>9. ok <=> active /\ Accepted(c, l, p)
    OBVIOUS
  <1>10. sent <=> ok /\ (switch \/ (~ Filtered(synced, p) /\ (sync \/ p.ids # "dropped")))
    OBVIOUS
  <1>11. active /\ PutOff(c, l, p) => late
    OBVIOUS
  <1>12. /\ ~ ok => after = [c EXCEPT !.syncRequired = @ \/ late, !.offsetAsked = @ \/ late]
         /\ ok /\ switch => after = Processed(AfterSwitch(synced, p), p)
         /\ ok /\ ~ switch /\ sent => after = Processed(synced, p)
         /\ ok /\ ~ switch /\ ~ sent => after = synced
    OBVIOUS
  <1>13. /\ c \in ConsumerRecord /\ late \in BOOLEAN
         /\ p.key => p.tl <= 0
         /\ c.current # None => c.target # NoLayers /\ c.context # None /\ c.temporal # None
         /\ c.current = None => c.context = None /\ c.temporal = None
    BY <1>1 DEF Sound, Packets
  <1>14. /\ synced \in ConsumerRecord /\ SameRoute(c, synced)
         /\ synced.current = c.current /\ synced.context = c.context
         /\ synced.temporal = c.temporal /\ (ok => ~ synced.syncRequired)
    BY <1>13, AfterSyncResult
  <1>15. before <=> Pending(consumer, c, forced) /\ ~ (l = c.target[1] /\ p.key)
    OBVIOUS
  <1>16. active <=> IsActive(st, c)
    OBVIOUS
  <1>17. (switch <=> Switches(c, l, p.key)) /\ (sync <=> Synchronises(c, l, p.key))
    OBVIOUS
  <1> HIDE DEF st, c, forced, before, active, late, ok, switch, sync, synced, wanted, sent, after
  <1>18. c.target[2] # None => c.target # NoLayers
    BY LayerFacts
  <1>19. ok /\ ~ switch => l = c.current /\ c.current # None
    BY <1>9, <1>17, LayerFacts DEF Accepted
  <1>20. /\ after \in ConsumerRecord /\ SameRoute(c, after)
         /\ after.current = (IF ok /\ switch THEN c.target[1] ELSE c.current)
         /\ after.current # None => after.context # None /\ after.temporal # None
         /\ after.current = None => after.context = None /\ after.temporal = None
         /\ ~ ok => after.temporal = c.temporal /\ after.syncRequired = (c.syncRequired \/ late)
         /\ ok => ~ after.syncRequired
         /\ ok /\ ~ switch /\ ~ sent => after.temporal = c.temporal
    <2>1. CASE ~ ok
      <3>1. after = [c EXCEPT !.syncRequired = @ \/ late, !.offsetAsked = @ \/ late]
        BY <1>12, <2>1
      <3> DEFINE v == c.syncRequired \/ late
                 w == c.offsetAsked \/ late
      <3>2. after = [c EXCEPT !.syncRequired = v, !.offsetAsked = w] /\ v \in BOOLEAN /\ w \in BOOLEAN
        BY <3>1, Zenon
      <3> HIDE DEF v, w
      <3>3. /\ after \in ConsumerRecord /\ after.current = c.current
            /\ after.context = c.context /\ after.temporal = c.temporal
            /\ after.syncRequired = v
            /\ after.transportConnected = c.transportConnected /\ after.pausedBy = c.pausedBy
            /\ after.target = c.target /\ after.reference = c.reference
        BY <1>13, <3>2 DEF ConsumerRecord
      <3>4. /\ after \in ConsumerRecord /\ after.current = c.current
            /\ after.context = c.context /\ after.temporal = c.temporal
            /\ after.syncRequired = (c.syncRequired \/ late)
            /\ after.transportConnected = c.transportConnected /\ after.pausedBy = c.pausedBy
            /\ after.target = c.target /\ after.reference = c.reference
        BY <3>3 DEF v
      <3> QED
        BY <1>13, <2>1, <3>4 DEF SameRoute
    <2>2. CASE ok /\ switch
      <3> DEFINE s == AfterSwitch(synced, p)
      <3>1. p.key /\ synced.target # NoLayers /\ synced.target = c.target
        BY <1>14, <1>17, <1>18, <2>2 DEF Switches, SameRoute
      <3>2. /\ s \in ConsumerRecord /\ SameRoute(synced, s)
            /\ s.current = c.target[1] /\ s.temporal # None
            /\ s.current # None /\ s.context # None
            /\ s.syncRequired = synced.syncRequired
        BY <1>14, <3>1, AfterSwitchResult DEF None
      <3>3. after = Processed(s, p)
        BY <1>12, <2>2
      <3> HIDE DEF s
      <3>4. /\ after \in ConsumerRecord /\ SameRoute(s, after)
            /\ after.current = s.current /\ after.context = s.context /\ after.temporal # None
            /\ after.syncRequired = s.syncRequired
        BY <3>2, <3>3, ProcessedResult
      <3> QED
        BY <1>14, <2>2, <3>1, <3>2, <3>4 DEF SameRoute
    <2>3. CASE ok /\ ~ switch /\ sent
      <3>1. after = Processed(synced, p)
        BY <1>12, <2>3
      <3>2. synced.context # None /\ synced.temporal # None
        BY <1>13, <1>14, <1>19, <2>3
      <3>3. /\ after \in ConsumerRecord /\ SameRoute(synced, after)
            /\ after.current = synced.current /\ after.context = synced.context
            /\ after.temporal # None /\ after.syncRequired = synced.syncRequired
        BY <1>14, <3>1, <3>2, ProcessedResult
      <3> QED
        BY <1>14, <1>19, <2>3, <3>2, <3>3 DEF SameRoute
    <2>4. CASE ok /\ ~ switch /\ ~ sent
      BY <1>12, <1>13, <1>14, <1>19, <2>4
    <2> QED
      BY <2>1, <2>2, <2>3, <2>4
  <1>21. Sound(st, after)
    BY <1>1, <1>13, <1>20, PacketSound
  <1>22. ok /\ ~ switch /\ p.key /\ c.syncRequired => sent
    <2> SUFFICES ASSUME ok, ~ switch, p.key, c.syncRequired PROVE ~ Filtered(synced, p) /\ sync
      BY <1>10
    <2>1. synced.context \in Temporal /\ synced.temporal \in Temporal
      BY <1>13, <1>14, <1>19 DEF ConsumerRecord
    <2>2. p.tl \in Temporal \cup {None}
      BY DEF Packets, Packet
    <2>3. ~ Filtered(synced, p)
      BY <1>13, <2>1, <2>2, SimulcastAssumption DEF Filtered, Temporal, None
    <2>4. sync
      BY <1>9, <1>17 DEF Accepted, Synchronises
    <2> QED
      BY <2>3, <2>4
  <1>23. ApplicationKnowsLayers'
    <2>1. CASE sent /\ (switch \/ after.temporal # synced.temporal)
      BY <1>2, <1>4, <2>1 DEF ApplicationKnowsLayers
    <2>2. CASE ~ (sent /\ (switch \/ after.temporal # synced.temporal))
      <3>1. told' = Told(consumer, c)
        BY <1>4, <2>2
      <3>2. after.current = c.current /\ after.temporal = c.temporal
        BY <1>10, <1>14, <1>20, <2>2
      <3>3. Told(consumer, c) = <<c.current, c.temporal>>
        <4>1. CASE c.current = None
          BY <1>13, <4>1 DEF Told, NoLayers
        <4>2. CASE c.current # None
          <5>1. c.current = consumer.current /\ c.temporal = consumer.temporal
            BY <1>1, <1>13, <4>2 DEF Follows
          <5> QED
            BY <4>2, <5>1 DEF Told, Inv, ApplicationKnowsLayers
        <4> QED
          BY <4>1, <4>2
      <3> QED
        BY <1>2, <3>1, <3>2, <3>3 DEF ApplicationKnowsLayers
    <2> QED
      BY <2>1, <2>2
  <1>24. told' \in Layers
    BY <1>2, <1>21, <1>23, SoundLayers DEF ApplicationKnowsLayers
  <1>25. Typed'
    BY <1>1, <1>2, <1>3, <1>5, <1>6, <1>7, <1>20, <1>24 DEF Typed
  <1>26. UnknownIsSilent' /\ Sound(streams, consumer)'
    BY <1>1, <1>2, <1>21 DEF UnknownIsSilent, Sound, Reported
  <1>27. ok => active
    BY <1>9
  <1>28. IsActive(st, after) <=> active
    BY <1>16, <1>20 DEF SameRoute, IsActive, BaseActive
  <1>29. IdleIsOutlived'
    <2> SUFFICES ASSUME after.target # NoLayers, ~ active PROVE outlived'
      BY <1>2, <1>28 DEF IdleIsOutlived, IsActive, BaseActive
    <2>1. c.target # NoLayers
      BY <1>20 DEF SameRoute
    <2>2. ~ sent
      BY <1>10, <1>27
    <2> QED
      BY <1>1, <1>7, <2>1, <2>2
  <1>30. StillWhole'
    <2> SUFFICES ASSUME after.current # None, ~ after.syncRequired PROVE got' # "gap" \/ outlived'
      BY <1>2 DEF StillWhole
    <2>1. after.target # NoLayers /\ after.target = c.target
      BY <1>20, <1>21 DEF Sound, SameRoute
    <2>2. CASE sent /\ p.key
      BY <1>5, <2>2
    <2>3. CASE ~ (sent /\ p.key)
      <3>1. ~ (ok /\ switch)
        BY <1>10, <1>17, <2>3 DEF Switches
      <3>2. after.current = c.current /\ c.current # None /\ c.target # NoLayers
        BY <1>20, <2>1, <3>1
      <3>3. c.current = consumer.current /\ c.syncRequired = consumer.syncRequired
        BY <1>1, <3>2 DEF Follows
      <3>4. outlived => outlived'
        BY <1>7, <2>1, <2>3
      <3>5. CASE ~ c.syncRequired
        <4>1. got # "gap" \/ outlived
          BY <3>2, <3>3, <3>5 DEF Inv, StillWhole
        <4>2. CASE l = c.current /\ ~ ok
          <5>1. c.target[2] # None
            BY <1>13, <3>2, LayerFacts DEF ConsumerRecord
          <5>2. ~ active
            BY <1>9, <3>5, <4>2, <5>1 DEF Accepted
          <5> QED
            BY <1>1, <1>7, <2>1, <2>3, <3>2, <5>2
        <4>3. CASE ~ (l = c.current /\ ~ ok)
          BY <1>5, <3>4, <4>1, <4>3
        <4> QED
          BY <4>2, <4>3
      <3>6. CASE c.syncRequired
        <4>1. ok
          BY <1>20, <3>6
        <4>2. p.key
          BY <1>9, <1>17, <3>1, <3>6, <4>1 DEF Accepted
        <4> QED
          BY <1>22, <2>3, <3>1, <3>6, <4>1, <4>2
      <3> QED
        BY <3>5, <3>6
    <2> QED
      BY <2>2, <2>3
  <1>31. StillAsked'
    <2> SUFFICES ASSUME Waiting(after) PROVE asked' \/ outlived'
      BY <1>2 DEF StillAsked, Waiting
    <2>1. after.target # NoLayers /\ after.target = c.target /\ after.current # after.target[1]
      BY <1>20 DEF Waiting, SameRoute
    <2>2. ~ (ok /\ switch) /\ after.current = c.current
      BY <1>20, <2>1
    <2>3. Waiting(c) /\ c.target[1] # None /\ c.target[2] # None
      BY <1>13, <2>1, <2>2, LayerFacts DEF Waiting, ConsumerRecord
    <2>4. outlived => outlived'
      BY <1>7, <2>1
    <2>5. CASE l = c.target[1] /\ p.key
      <3>1. switch
        BY <1>17, <2>3, <2>5 DEF Switches, Waiting
      <3>2. CASE active
        <4>1. PutOff(c, l, p)
          BY <1>9, <1>17, <2>2, <2>3, <3>1, <3>2 DEF Accepted, Switches
        <4> QED
          BY <1>3, <1>11, <3>2, <4>1
      <3>3. CASE ~ active
        BY <1>1, <1>7, <2>1, <3>3
      <3> QED
        BY <3>2, <3>3
    <2>6. CASE ~ (l = c.target[1] /\ p.key)
      <3>1. c.current = consumer.current
        BY <1>1, <2>3 DEF Follows, Waiting
      <3>2. CASE c.target # consumer.target
        <4>1. Requested(consumer, c)
          BY <2>3, <3>2 DEF Requested, Waiting
        <4>2. before
          BY <1>15, <2>3, <2>6, <4>1 DEF Pending
        <4> QED
          BY <1>3, <4>2
      <3>3. CASE c.target = consumer.target
        <4>1. asked \/ outlived
          BY <2>3, <3>1, <3>3 DEF Inv, StillAsked, Waiting
        <4>2. asked => before
          BY <1>15, <2>3, <2>6, <3>3 DEF Pending
        <4> QED
          BY <1>3, <2>4, <4>1, <4>2
      <3> QED
        BY <3>2, <3>3
    <2> QED
      BY <2>5, <2>6
  <1> QED
    BY <1>23, <1>25, <1>26, <1>29, <1>30, <1>31 DEF Inv

----------------------------------------------------------------------------
(* The theorems.                                                           *)

LEMMA InitInv == Init => Inv
  <1> SUFFICES ASSUME Init PROVE Inv
    OBVIOUS
  <1>1. streams \in [Spatial -> StreamRecord] /\ UnknownIsSilent
    BY DEF Init, UnknownIsSilent
  <1>2. /\ consumer \in ConsumerRecord /\ consumer.target = NoLayers /\ consumer.current = None
        /\ consumer.context = None /\ consumer.temporal = None
    BY LayerFacts, SimulcastAssumption DEF Init, ConsumerRecord
  <1>3. asked = FALSE /\ told = NoLayers /\ got = "gap" /\ skipped = FALSE /\ outlived = FALSE
    BY DEF Init
  <1>4. Typed
    BY <1>1, <1>2, <1>3, LayerFacts DEF Typed, Received
  <1>5. Sound(streams, consumer)
    BY <1>2, LayerFacts DEF Sound, Reported
  <1>6. ApplicationKnowsLayers
    BY <1>2, <1>3 DEF ApplicationKnowsLayers, NoLayers
  <1> QED
    BY <1>1, <1>2, <1>4, <1>5, <1>6 DEF Inv, IdleIsOutlived, StillWhole, StillAsked, Waiting

\* A step that does not end the worker.
LEMMA StepInv == Inv /\ Step => Inv'
  <1> SUFFICES ASSUME Inv, Step PROVE Inv'
    OBVIOUS
  <1>1. CASE \E who \in {"consumer", "producer"} : Pause(who) \/ Resume(who)
    BY <1>1, PauseInv, ResumeInv
  <1>2. CASE \E layers \in Preferred : SetPreferredLayers(layers)
    BY <1>2, SetPreferredLayersInv
  <1>3. CASE \E l \in Spatial, score \in {Dead, Poor, Good} : ProducerRtpStreamScore(l, score)
    BY <1>3, ProducerRtpStreamScoreInv
  <1>4. CASE \E l \in Spatial, timed \in BOOLEAN : ProducerRtcpSenderReport(l, timed)
    BY <1>4, ProducerRtcpSenderReportInv
  <1>5. CASE \E l \in Spatial, p \in Packets, revived \in BOOLEAN : ReceiveRtpPacket(l, p, revived)
    BY <1>5, ReceiveRtpPacketInv
  <1> QED
    BY <1>1, <1>2, <1>3, <1>4, <1>5, TransportConnectedInv, TransportDisconnectedInv,
       KeyFrameRequestedInv, OnRtpStreamScoreInv, BitrateChangedInv, FlagInv DEF Step

\* What the rest of the invariant is about stays.
LEMMA Unchanged ==
    ASSUME Inv, UNCHANGED <<streams, consumer, asked, told, got, skipped, outlived>>
    PROVE  Inv'
BY DEF Inv, Typed, UnknownIsSilent, Sound, Reported, IdleIsOutlived, IsActive,
   BaseActive, StillWhole, StillAsked, Waiting, ApplicationKnowsLayers

\* The two layers whose reports SendRtpPacket reads have had some, so one that has
\* none now had one withdrawn.
LEMMA NoSenderReportInv ==
    ASSUME Inv, NEW l \in Spatial, NEW revived \in BOOLEAN, NoSenderReport(l, revived)
    PROVE  Inv' /\ aborted' = TRUE /\ \E m \in Spatial : streams'[m].report = "withdrawn"
  <1>1. PICK r \in Arrives(streams, consumer, l, revived) :
             Synchronises(r[2], l, TRUE) /\ Unreported(r[1], r[2], l)
    BY DEF NoSenderReport
  <1> DEFINE st == r[1]
             c  == r[2]
  <1>2. /\ st \in [Spatial -> StreamRecord] /\ Sound(st, c)
        /\ \A m \in Spatial : st[m].report = streams[m].report
    BY ArrivesSound
  <1>3. l \in {c.target[1], c.current} /\ c.target[2] # None
    BY <1>1 DEF Synchronises, Switches
  <1>4. l # c.reference /\ "given" \notin {st[c.reference].report} \cap {st[c.target[1]].report}
    BY <1>1 DEF Unreported
  <1> HIDE DEF st, c
  <1>5. /\ c.reference # None /\ st[c.reference].report # "none"
        /\ st[c.target[1]].report # "none"
    BY <1>2, <1>3, <1>4, LayerFacts DEF Sound, Reported
  <1>6. c.reference \in Spatial /\ c.target[1] \in Spatial
    BY <1>2, <1>3, <1>5, LayerFacts DEF Sound, ConsumerRecord
  <1>7. \E m \in {c.reference, c.target[1]} : st[m].report = "withdrawn"
    BY <1>2, <1>4, <1>5, <1>6 DEF StreamRecord
  <1>8. \E m \in Spatial : streams[m].report = "withdrawn"
    BY <1>2, <1>6, <1>7
  <1>9. Inv' /\ aborted' = TRUE /\ streams' = streams
    BY Unchanged DEF NoSenderReport
  <1> QED
    BY <1>8, <1>9

LEMMA NextInv == IInv /\ [Next]_vars => IInv'
  <1> SUFFICES ASSUME IInv, [Next]_vars PROVE IInv'
    OBVIOUS
  <1>1. CASE ~ aborted /\ Step /\ UNCHANGED aborted
    BY <1>1, StepInv DEF IInv
  <1>2. CASE \E l \in Spatial, revived \in BOOLEAN : NoSenderReport(l, revived)
    BY <1>2, NoSenderReportInv DEF IInv
  <1>3. CASE UNCHANGED vars
    BY <1>3, Unchanged DEF IInv, vars
  <1> QED
    BY <1>1, <1>2, <1>3 DEF Next

\* The inductive invariant holds for every number of layers.
THEOREM Invariance == Spec => []IInv
  <1>1. Init => IInv
    BY InitInv DEF IInv, Init
  <1>2. IInv /\ [Next]_vars => IInv'
    BY NextInv
  <1> QED
    BY <1>1, <1>2, PTL DEF Spec

\* The assertions of SendRtpPacket about sender reports fail only after a report
\* without a time has followed one with a time on a stream, and that of the codec
\* about its target temporal layer never fails (ReportsForSync).
THEOREM AssertionsHold == Spec => []ReportsForSync
  <1>1. IInv => ReportsForSync
    BY DEF IInv, Inv, Sound, Reported, ReportsForSync
  <1> QED
    BY <1>1, Invariance, PTL

\* What is forwarded goes to a peer that got the base layer since a key frame of
\* it, but for what a packet of its own group has overtaken, and for the consumers
\* whose streams all died while the bitrate was managed (LayersDecodable).
THEOREM AlwaysDecodable == Spec => []LayersDecodable
  <1>1. IInv => LayersDecodable
    BY DEF IInv, Inv, StillWhole, LayersDecodable
  <1> QED
    BY <1>1, Invariance, PTL

\* Nobody waits for a key frame that was not asked for, with the same
\* exception (SwitchIsAsked).
THEOREM SwitchesAlwaysAsked == Spec => []SwitchIsAsked
  <1>1. IInv => SwitchIsAsked
    BY DEF IInv, Inv, StillAsked, SwitchIsAsked
  <1> QED
    BY <1>1, Invariance, PTL

\* The last "layerschange" event told the current layers
\* (ApplicationKnowsLayers).
THEOREM ApplicationAlwaysKnows == Spec => []ApplicationKnowsLayers
  <1>1. IInv => ApplicationKnowsLayers
    BY DEF IInv, Inv
  <1> QED
    BY <1>1, Invariance, PTL
=============================================================================
