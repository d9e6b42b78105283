------------------------ MODULE DataChannelsProofs ------------------------
(***************************************************************************)
(* Proofs about DataChannels, for every set of data producers, every       *)
(* finite set of data consumers, all streams, thresholds and sizes.  The   *)
(* maps, what the data consumers know and what the application is owed are *)
(* inductive together with the types; that messages are whole needs in     *)
(* addition what the buffer holds of the messages that are arriving        *)
(* (ChunksInOrder).  A message is passed to several data consumers, and    *)
(* each of them is told of every amount on the way: what that comes to is  *)
(* proved by induction over the amounts (AfterAmountsResult).              *)
(***************************************************************************)
EXTENDS DataChannels, TLAPS, WellFoundedInduction, FiniteSetTheorems

\* Message m of stream s, of which m.got chunks were handed over: all of them are
\* in the buffer, unless chunks of another message came in between.
InOrder(s, m) ==
    /\ m.got \in 1 .. m.size - 1 /\ m.size <= MaxMessageSize
    /\ ~ m.cut => lastSsn = m.ssn /\ messageBuffer = Run(s, 1, m.got)

\* The buffer holds the latest chunks of the message that arrives on stream s.
HeldOf(s) ==
    /\ arriving[s] # None
    /\ \E a \in 1..arriving[s].got : messageBuffer = Run(s, a, arriving[s].got)

\* As long as the peer keeps the rules, the messages that are arriving are in
\* order and the buffer holds chunks of one of them.
ChunksInOrder ==
    lawful =>
        /\ \A s \in Streams : arriving[s] # None => InOrder(s, arriving[s])
        /\ messageBuffer # <<>> => \E s \in Streams : HeldOf(s)

Inv ==
    /\ TypeOK
    /\ DataMapsAgree
    /\ DataConsumersInformed
    /\ LowIsTold
    /\ ChunksInOrder
    /\ MessagesWhole

----------------------------------------------------------------------------
(* The amounts.                                                            *)

\* No 'bufferedamountlow' is owed for an amount that is low.
Told(d) == d.owed => d.amount > d.threshold

\* d differs from c only in what the buffered amount changes.
SameConsumer(c, d) ==
    /\ d.producer = c.producer /\ d.transport = c.transport /\ d.sctp = c.sctp

\* DataConsumer::SctpAssociationBufferedAmount tells the application in time.
LEMMA BufferedAmountResult ==
    ASSUME NEW d \in DataConsumer, Told(d), NEW a \in Nat
    PROVE  LET e == BufferedAmount(d, a)
           IN  e \in DataConsumer /\ SameConsumer(d, e) /\ Told(e) /\ e.amount = a /\ ~ e.fresh
  <1> DEFINE low == (d.force \/ d.amount > d.threshold) /\ a <= d.threshold
             f == d.force /\ ~low
             o == ~low /\ (d.owed \/ a > d.threshold)
             e == BufferedAmount(d, a)
  <1>1. e = [d EXCEPT !.amount = a, !.fresh = FALSE, !.force = f, !.owed = o]
    BY DEF BufferedAmount
  <1>2. f \in BOOLEAN /\ o \in BOOLEAN
    BY DEF DataConsumer
  <1>3. o => a > d.threshold
    <2>1. d.amount \in Nat /\ d.threshold \in Nat
      BY DEF DataConsumer
    <2> QED
      BY <2>1 DEF Told
  <1> HIDE DEF f, o
  <1>4. /\ e \in DataConsumer /\ e.amount = a /\ e.fresh = FALSE /\ e.owed = o
        /\ e.threshold = d.threshold /\ e.producer = d.producer
        /\ e.transport = d.transport /\ e.sctp = d.sctp
    BY <1>1, <1>2 DEF DataConsumer
  <1> HIDE DEF e
  <1>5. e \in DataConsumer /\ SameConsumer(d, e) /\ Told(e) /\ e.amount = a /\ ~ e.fresh
    BY <1>3, <1>4 DEF SameConsumer, Told
  <1> QED
    BY <1>5 DEF e

\* A set of natural numbers that is not empty has a smallest element.
LEMMA SmallestExists ==
    ASSUME NEW T, T \subseteq Nat, T # {}
    PROVE  \E x \in T : \A y \in T : x <= y
  <1>1. PICK x \in T : \A y \in T : ~ (<<y, x>> \in OpToRel(<, Nat))
    BY WFMin, NatLessThanWellFounded, Zenon
  <1>2. \A y \in T : <<y, x>> \in Nat \X Nat
    OBVIOUS
  <1>3. \A y \in T : ~ (y < x)
    BY <1>1, <1>2, Zenon DEF OpToRel
  <1> QED
    BY <1>3

\* g is what the data consumer d becomes with each of the first n amounts.
Hears(g, d, amounts, n) ==
    g = [i \in 0..n |-> IF i = 0 THEN d ELSE BufferedAmount(g[i - 1], amounts[i])]

\* There is such a function, for any number of amounts.
LEMMA HeardExists ==
    ASSUME NEW d, NEW amounts, NEW n \in Nat
    PROVE  \E g : Hears(g, d, amounts, n)
  <1> DEFINE T == {m \in Nat : ~ \E g : Hears(g, d, amounts, m)}
  <1> SUFFICES ASSUME T # {} PROVE FALSE
    OBVIOUS
  <1>1. PICK m \in T : \A k \in T : m <= k
    BY SmallestExists
  <1>2. m \in Nat /\ ~ \E g : Hears(g, d, amounts, m)
    OBVIOUS
  <1>3. CASE m = 0
    <2> DEFINE g == [i \in 0..0 |-> d]
    <2>1. g = [i \in 0..0 |-> IF i = 0 THEN d ELSE BufferedAmount(g[i - 1], amounts[i])]
      OBVIOUS
    <2> QED
      BY <1>2, <1>3, <2>1 DEF Hears
  <1>4. CASE m > 0
    <2>1. m - 1 \in Nat /\ m - 1 \notin T
      BY <1>1, <1>2, <1>4
    <2>2. PICK g : Hears(g, d, amounts, m - 1)
      BY <2>1
    <2> DEFINE F(h, i) == IF i = 0 THEN d ELSE BufferedAmount(h[i - 1], amounts[i])
               h == [i \in 0..m |-> IF i = m THEN BufferedAmount(g[m - 1], amounts[m]) ELSE g[i]]
    <2>3. \A i \in 0 .. m - 1 : g[i] = F(g, i)
      BY <2>2 DEF Hears
    <2>4. \A i \in 0..m - 1 : h[i] = g[i]
      BY <1>2
    <2>5. h[m] = BufferedAmount(g[m - 1], amounts[m])
      BY <1>2
    <2>6. ASSUME NEW i \in 0..m PROVE h[i] = F(h, i)
      <3>1. CASE i = 0
        BY <1>2, <1>4, <2>3, <2>4, <3>1
      <3>2. CASE i # 0 /\ i # m
        <4>1. i \in 0 .. m - 1 /\ i - 1 \in 0 .. m - 1
          BY <1>2, <3>2
        <4> HIDE DEF h
        <4> QED
          BY <2>3, <2>4, <3>2, <4>1
      <3>3. CASE i = m
        <4>1. m - 1 \in 0 .. m - 1
          BY <1>2, <1>4
        <4> HIDE DEF h
        <4> QED
          BY <1>4, <2>4, <2>5, <3>3, <4>1
      <3> QED
        BY <3>1, <3>2, <3>3
    <2>7. h = [i \in 0..m |-> h[i]]
      OBVIOUS
    <2> HIDE DEF h
    <2>8. h = [i \in 0..m |-> F(h, i)]
      BY <2>6, <2>7
    <2> QED
      BY <1>2, <2>8 DEF Hears
  <1> QED
    BY <1>2, <1>3, <1>4

\* What any number of amounts, reported one after the other, comes to.
LEMMA AfterAmountsResult ==
    ASSUME NEW d \in DataConsumer, Told(d), NEW amounts \in Seq(Nat)
    PROVE  LET e == AfterAmounts(d, amounts)
           IN  /\ e \in DataConsumer /\ SameConsumer(d, e) /\ Told(e)
               /\ IF Len(amounts) = 0 THEN e = d
                  ELSE e.amount = amounts[Len(amounts)] /\ ~ e.fresh
  <1> DEFINE n == Len(amounts)
             heard == CHOOSE g : Hears(g, d, amounts, n)
  <1>1. n \in Nat
    OBVIOUS
  <1>2. AfterAmounts(d, amounts) = heard[n]
    BY DEF AfterAmounts, Hears
  <1>3. heard = [i \in 0..n |-> IF i = 0 THEN d ELSE BufferedAmount(heard[i - 1], amounts[i])]
    <2>1. \E g : Hears(g, d, amounts, n)
      BY <1>1, HeardExists
    <2>2. Hears(heard, d, amounts, n)
      BY <2>1, Zenon
    <2> QED
      BY <2>2, Zenon DEF Hears
  <1> HIDE DEF heard
  <1>4. heard[0] = d /\ \A i \in 1..n : heard[i] = BufferedAmount(heard[i - 1], amounts[i])
    BY <1>1, <1>3
  <1> DEFINE Good(i) == heard[i] \in DataConsumer /\ SameConsumer(d, heard[i]) /\ Told(heard[i])
             T == {i \in Nat : i <= n /\ ~ Good(i)}
  <1>5. ASSUME NEW i \in 1..n, Good(i - 1)
        PROVE  Good(i) /\ heard[i].amount = amounts[i] /\ ~ heard[i].fresh
    <2>1. amounts[i] \in Nat
      BY <1>1
    <2>2. LET e == BufferedAmount(heard[i - 1], amounts[i])
          IN  /\ e \in DataConsumer /\ SameConsumer(heard[i - 1], e) /\ Told(e)
              /\ e.amount = amounts[i] /\ ~ e.fresh
      BY <1>5, <2>1, BufferedAmountResult
    <2> QED
      BY <1>4, <1>5, <2>2 DEF SameConsumer
  <1>6. Good(0)
    BY <1>4 DEF SameConsumer
  <1>7. T = {}
    <2> SUFFICES ASSUME T # {} PROVE FALSE
      OBVIOUS
    <2>1. PICK m \in T : \A k \in T : m <= k
      BY SmallestExists
    <2>2. m # 0 /\ m \in Nat /\ m <= n /\ ~ Good(m)
      BY <1>6
    <2>3. m - 1 \in Nat /\ m - 1 <= n /\ m - 1 \notin T
      BY <1>1, <2>1, <2>2
    <2>4. Good(m - 1) /\ m \in 1..n
      BY <1>1, <2>2, <2>3
    <2> QED
      BY <1>5, <2>2, <2>4
  <1>8. Good(n)
    BY <1>1, <1>7
  <1>9. CASE n = 0
    BY <1>2, <1>4, <1>8, <1>9
  <1>10. CASE n # 0
    <2>1. n \in 1..n /\ n - 1 \in Nat /\ n - 1 <= n
      BY <1>1, <1>10
    <2>2. Good(n - 1)
      BY <1>7, <2>1
    <2> QED
      BY <1>2, <1>5, <1>10, <2>1, <2>2
  <1> QED
    BY <1>9, <1>10

----------------------------------------------------------------------------
(* The data consumers.                                                     *)

\* The parts of the invariant that are about data producers and consumers.
ChannelsInv == DataMapsAgree /\ DataConsumersInformed /\ LowIsTold

\* The data consumers are those of before, each of the producer it was of.
LEMMA MapsKept ==
    ASSUME DataMapsAgree, UNCHANGED <<streamIdTable, routes>>,
           \A c \in Consumers : /\ consumers'[c] = None <=> consumers[c] = None
                                /\ consumers[c] # None =>
                                     consumers'[c].producer = consumers[c].producer
    PROVE  DataMapsAgree'
  <1>1. DataConsumers' = DataConsumers
    BY DEF DataConsumers
  <1>2. \A c \in DataConsumers : consumers'[c].producer = consumers[c].producer
    BY DEF DataConsumers
  <1>3. ASSUME NEW p \in DOMAIN routes
        PROVE  routes[p] = {c \in DataConsumers : consumers'[c].producer = p}
    BY <1>2 DEF DataMapsAgree
  <1> QED
    BY <1>1, <1>2, <1>3 DEF DataMapsAgree, Open

\* Amounts that are reported reach every data consumer, and every application.
LEMMA AmountsReported ==
    ASSUME TypeOK, ChannelsInv, NEW amounts \in Seq(Nat), consumers' = TellAmounts(amounts),
           buffered' = IF Len(amounts) = 0 THEN buffered ELSE amounts[Len(amounts)],
           UNCHANGED <<connected, streamIdTable, routes, state>>
    PROVE  /\ consumers' \in [Consumers -> DataConsumer \cup {None}]
           /\ buffered' \in Nat
           /\ ChannelsInv'
  <1>0. None \notin DataConsumer
    BY DataAssumption
  <1>1. ASSUME NEW c \in Consumers, consumers[c] # None
        PROVE  /\ consumers'[c] \in DataConsumer /\ SameConsumer(consumers[c], consumers'[c])
               /\ Told(consumers'[c])
               /\ IF Len(amounts) = 0 THEN consumers'[c] = consumers[c]
                  ELSE consumers'[c].amount = amounts[Len(amounts)] /\ ~ consumers'[c].fresh
    <2>1. consumers[c] \in DataConsumer
      BY <1>1 DEF TypeOK
    <2>2. Told(consumers[c])
      BY <1>1 DEF ChannelsInv, LowIsTold, DataConsumers, Told
    <2>3. consumers'[c] = AfterAmounts(consumers[c], amounts)
      BY <1>1 DEF TellAmounts
    <2> QED
      BY <2>1, <2>2, <2>3, AfterAmountsResult
  <1>2. \A c \in Consumers : consumers[c] = None => consumers'[c] = None
    BY DEF TellAmounts
  <1>3. consumers' \in [Consumers -> DataConsumer \cup {None}]
    BY <1>1, <1>2 DEF TellAmounts
  <1>4. buffered' \in Nat
    BY DEF TypeOK
  <1>5. DataMapsAgree'
    <2>1. \A c \in Consumers : /\ consumers'[c] = None <=> consumers[c] = None
                               /\ consumers[c] # None =>
                                    consumers'[c].producer = consumers[c].producer
      BY <1>0, <1>1, <1>2 DEF SameConsumer
    <2> QED
      BY <2>1, MapsKept DEF ChannelsInv
  <1>6. ASSUME NEW c \in DataConsumers'
        PROVE  /\ consumers'[c].transport = connected' /\ consumers'[c].sctp = (state' = "connected")
               /\ consumers'[c].fresh \/ consumers'[c].amount = buffered'
               /\ consumers'[c].owed => consumers'[c].amount > consumers'[c].threshold
    <2>1. c \in Consumers /\ consumers[c] # None /\ c \in DataConsumers
      BY <1>2, <1>6 DEF DataConsumers
    <2>2. /\ consumers[c].transport = connected /\ consumers[c].sctp = (state = "connected")
          /\ consumers[c].fresh \/ consumers[c].amount = buffered
      BY <2>1 DEF ChannelsInv, DataConsumersInformed
    <2>3. consumers'[c].owed => consumers'[c].amount > consumers'[c].threshold
      BY <1>1, <2>1 DEF Told
    <2>4. consumers'[c].transport = connected' /\ consumers'[c].sctp = (state' = "connected")
      BY <1>1, <2>1, <2>2 DEF SameConsumer
    <2>5. consumers'[c].fresh \/ consumers'[c].amount = buffered'
      BY <1>1, <2>1, <2>2
    <2> QED
      BY <2>3, <2>4, <2>5
  <1> QED
    BY <1>3, <1>4, <1>5, <1>6 DEF ChannelsInv, DataConsumersInformed, LowIsTold

\* Messages that are sent to data consumers one after the other are reported
\* to all of them.
LEMMA MessagesReported ==
    ASSUME TypeOK, ChannelsInv, NEW C \in SUBSET Consumers, NEW len \in Nat,
           SendSctpMessages(C, len), UNCHANGED <<connected, streamIdTable, routes, state>>
    PROVE  /\ consumers' \in [Consumers -> DataConsumer \cup {None}]
           /\ buffered' \in Nat
           /\ ChannelsInv'
  <1> DEFINE A == {c \in C : IsActive(consumers[c])}
             n == Cardinality(A)
             amounts == [i \in 1..n |-> buffered + i * len]
  <1>1. buffered' = buffered + n * len /\ consumers' = TellAmounts(amounts)
    BY DEF SendSctpMessages
  <1>2. n \in Nat
    <2>1. IsFiniteSet(Consumers) /\ A \subseteq Consumers
      BY DataAssumption
    <2> QED
      BY <2>1, FS_Subset, FS_CardinalityType
  <1>3. buffered \in Nat
    BY DEF TypeOK
  <1> HIDE DEF n
  <1>4. \A i \in Nat : buffered + i * len \in Nat
    BY <1>3
  <1>5. amounts \in Seq(Nat) /\ Len(amounts) = n
    BY <1>2, <1>4
  <1>6. n > 0 => amounts[Len(amounts)] = buffered + n * len
    BY <1>2, <1>5
  <1> HIDE DEF amounts
  <1>7. n = 0 => buffered + n * len = buffered
    BY <1>3
  <1>8. buffered' = IF Len(amounts) = 0 THEN buffered ELSE amounts[Len(amounts)]
    BY <1>1, <1>2, <1>5, <1>6, <1>7
  <1> QED
    BY <1>1, <1>5, <1>8, AmountsReported

\* A message of the remote reaches the data consumers of its data producer.
LEMMA MessageReceivedReported ==
    ASSUME TypeOK, ChannelsInv, NEW s \in Streams, NEW len \in Nat,
           MessageReceived(s, len), UNCHANGED <<connected, streamIdTable, routes, state>>
    PROVE  /\ consumers' \in [Consumers -> DataConsumer \cup {None}]
           /\ buffered' \in Nat
           /\ ChannelsInv'
  <1> DEFINE p == streamIdTable[s]
  <1>1. CASE p = None
    <2>1. UNCHANGED <<buffered, consumers>>
      BY <1>1 DEF MessageReceived
    <2> QED
      BY <2>1 DEF TypeOK, ChannelsInv, DataMapsAgree, DataConsumersInformed, LowIsTold,
         DataConsumers, Open
  <1>2. CASE p # None
    <2>1. p \in Producers /\ p \in DOMAIN routes
      BY <1>2 DEF TypeOK, ChannelsInv, DataMapsAgree, Open
    <2>2. routes[p] \in SUBSET Consumers
      BY <2>1 DEF TypeOK
    <2>3. SendSctpMessages(routes[p], len)
      BY <1>2 DEF MessageReceived
    <2> QED
      BY <2>2, <2>3, MessagesReported
  <1> QED
    BY <1>1, <1>2

----------------------------------------------------------------------------
(* The operations, outside the reception of messages.                      *)

\* They leave the message that is arriving alone.
LEMMA ChunksKept ==
    ASSUME Inv, UNCHANGED chunkVars
    PROVE  /\ ChunksInOrder' /\ MessagesWhole'
           /\ arriving' \in [Streams -> ArrivingMessage \cup {None}]
           /\ messageBuffer' \in Seq(Chunk)
           /\ lawful' \in BOOLEAN /\ intact' \in BOOLEAN
BY DEF Inv, TypeOK, ChunksInOrder, InOrder, HeldOf, MessagesWhole, chunkVars

\* The rest of what such an operation has to keep.
LEMMA OperationKeepsInv ==
    ASSUME Inv, UNCHANGED chunkVars, ChannelsInv',
           connected' \in BOOLEAN,
           streamIdTable' \in [Streams -> Producers \cup {None}],
           DOMAIN routes' \subseteq Producers,
           \A p \in DOMAIN routes' : routes'[p] \subseteq Consumers,
           state' \in {"new", "connecting", "connected", "failed", "closed"},
           os' \in 1..MaxSctpStreams, desiredOs' \in 0..MaxSctpStreams, adding' \in 0..AddedStreams,
           buffered' \in Nat,
           consumers' \in [Consumers -> DataConsumer \cup {None}]
    PROVE  Inv'
BY ChunksKept DEF Inv, ChannelsInv, TypeOK

LEMMA OnUsrSctpSentDataInv ==
    ASSUME Inv, NEW a \in Nat, OnUsrSctpSentData(a)
    PROVE  Inv'
  <1> DEFINE amounts == <<a>>
  <1>1. amounts \in Seq(Nat) /\ Len(amounts) = 1 /\ amounts[Len(amounts)] = a
    OBVIOUS
  <1>2. /\ buffered' = a /\ consumers' = TellAmounts(amounts)
        /\ UNCHANGED <<connected, streamIdTable, routes, state, os, desiredOs, adding>>
        /\ UNCHANGED chunkVars
    BY DEF OnUsrSctpSentData, sctpVars
  <1> HIDE DEF amounts
  <1>3. /\ consumers' \in [Consumers -> DataConsumer \cup {None}] /\ buffered' \in Nat
        /\ ChannelsInv'
    <2>1. TypeOK /\ ChannelsInv
      BY DEF Inv, ChannelsInv
    <2>2. buffered' = IF Len(amounts) = 0 THEN buffered ELSE amounts[Len(amounts)]
      BY <1>1, <1>2
    <2> QED
      BY <1>1, <1>2, <2>1, <2>2, AmountsReported
  <1> QED
    BY <1>2, <1>3, OperationKeepsInv DEF Inv, TypeOK

LEMMA SendInv == ASSUME Inv, NEW c \in Consumers, Send(c) PROVE Inv'
  <1>1. /\ SendSctpMessages({c}, 1)
        /\ UNCHANGED <<connected, streamIdTable, routes, state, os, desiredOs, adding>>
        /\ UNCHANGED chunkVars
    BY DEF Send, sctpVars
  <1>2. /\ consumers' \in [Consumers -> DataConsumer \cup {None}] /\ buffered' \in Nat
        /\ ChannelsInv'
    BY <1>1, MessagesReported DEF Inv, ChannelsInv
  <1> QED
    BY <1>1, <1>2, OperationKeepsInv DEF Inv, TypeOK

\* The data consumers of before and after an operation that sets some of their
\* fields but keeps their producers.
LEMMA FieldsSet ==
    ASSUME Inv, consumers' \in [Consumers -> DataConsumer \cup {None}],
           UNCHANGED <<streamIdTable, routes>>,
           \A c \in Consumers : consumers'[c] = None <=> consumers[c] = None,
           \A c \in DataConsumers : /\ consumers'[c].producer = consumers[c].producer
                                    /\ consumers'[c].transport = connected'
                                    /\ consumers'[c].sctp = (state' = "connected")
                                    /\ consumers'[c].fresh \/ consumers'[c].amount = buffered'
                                    /\ Told(consumers'[c])
    PROVE  ChannelsInv'
  <1>1. DataConsumers' = DataConsumers
    BY DEF DataConsumers
  <1>2. DataMapsAgree'
    BY MapsKept DEF Inv, DataConsumers
  <1> QED
    BY <1>1, <1>2 DEF ChannelsInv, DataConsumersInformed, LowIsTold, Told

\* What the invariant says of each data consumer.
LEMMA ConsumerFacts ==
    ASSUME Inv, NEW c \in DataConsumers
    PROVE  /\ c \in Consumers /\ consumers[c] \in DataConsumer /\ consumers[c] # None
           /\ consumers[c].transport = connected /\ consumers[c].sctp = (state = "connected")
           /\ consumers[c].fresh \/ consumers[c].amount = buffered
           /\ Told(consumers[c])
           /\ consumers[c].producer \in DOMAIN routes
BY DEF Inv, TypeOK, DataConsumers, DataConsumersInformed, LowIsTold, Told, DataMapsAgree, Open

LEMMA SetBufferedAmountLowThresholdInv ==
    ASSUME Inv, NEW c \in Consumers, NEW t \in Thresholds, SetBufferedAmountLowThreshold(c, t)
    PROVE  Inv'
  <1> DEFINE d == consumers[c]
             low == d.amount <= t
             e == [d EXCEPT !.threshold = t, !.owed = ~low, !.force = @ \/ ~low]
  <1>1. /\ d # None
        /\ consumers' = [consumers EXCEPT ![c].threshold = t, ![c].owed = ~low,
                                          ![c].force = @ \/ ~low]
        /\ UNCHANGED <<connected, streamIdTable, routes, buffered, state, os, desiredOs, adding>>
        /\ UNCHANGED chunkVars
    BY DEF SetBufferedAmountLowThreshold, sctpVars
  <1>2. consumers \in [Consumers -> DataConsumer \cup {None}] /\ t \in Nat /\ None \notin DataConsumer
    BY DataAssumption DEF Inv, TypeOK
  <1>3. d \in DataConsumer /\ c \in DataConsumers
    BY <1>1, <1>2 DEF DataConsumers
  <1>4. consumers' = [consumers EXCEPT ![c] = e]
    BY <1>1, <1>2
  <1>5. /\ e \in DataConsumer /\ e.threshold = t /\ e.owed = ~low /\ e.amount = d.amount
        /\ e.producer = d.producer /\ e.transport = d.transport /\ e.sctp = d.sctp
        /\ e.fresh = d.fresh /\ d.amount \in Nat
    BY <1>2, <1>3 DEF DataConsumer
  <1> HIDE DEF e
  <1>6. Told(e)
    <2>1. e.owed => ~ low
      BY <1>5, Zenon
    <2> SUFFICES ASSUME ~ low PROVE e.amount > e.threshold
      BY <2>1 DEF Told
    <2> QED
      BY <1>2, <1>5
  <1>7. consumers' \in [Consumers -> DataConsumer \cup {None}]
    BY <1>2, <1>4, <1>5
  <1>8. \A b \in Consumers : consumers'[b] = IF b = c THEN e ELSE consumers[b]
    BY <1>2, <1>4
  <1>9. \A b \in Consumers : consumers'[b] = None <=> consumers[b] = None
    <2>1. e # None
      BY <1>2, <1>5
    <2> QED
      BY <1>1, <1>8, <2>1
  <1>10. ASSUME NEW b \in DataConsumers
         PROVE  /\ consumers'[b].producer = consumers[b].producer
                /\ consumers'[b].transport = connected'
                /\ consumers'[b].sctp = (state' = "connected")
                /\ consumers'[b].fresh \/ consumers'[b].amount = buffered'
                /\ Told(consumers'[b])
    <2>1. /\ b \in Consumers
          /\ consumers[b].transport = connected /\ consumers[b].sctp = (state = "connected")
          /\ consumers[b].fresh \/ consumers[b].amount = buffered
          /\ Told(consumers[b])
      BY ConsumerFacts
    <2>2. CASE b = c
      <3>1. consumers'[b] = e
        BY <1>3, <1>8, <2>2 DEF DataConsumers
      <3> QED
        BY <1>1, <1>5, <1>6, <2>1, <2>2, <3>1
    <2>3. CASE b # c
      <3>1. consumers'[b] = consumers[b]
        BY <1>8, <2>1, <2>3
      <3> QED
        BY <1>1, <2>1, <3>1
    <2> QED
      BY <2>2, <2>3
  <1>11. ChannelsInv'
    BY <1>1, <1>7, <1>9, <1>10, FieldsSet
  <1> QED
    BY <1>1, <1>7, <1>11, OperationKeepsInv DEF Inv, TypeOK

\* AddOutgoingStreams asks for no more streams than there may be.
LEMMA AddOutgoingStreamsResult ==
    ASSUME TypeOK, NEW force \in BOOLEAN, NEW n \in 1..MaxSctpStreams, NEW st,
           AddOutgoingStreams(force, n, st)
    PROVE  desiredOs' \in 0..MaxSctpStreams /\ adding' \in 0..AddedStreams
  <1> DEFINE additional == IF MaxSctpStreams - n >= AddedStreams THEN AddedStreams
                           ELSE MaxSctpStreams - n
  <1>1. additional \in 0..AddedStreams /\ n + additional \in 0..MaxSctpStreams
    BY DataAssumption
  <1>2. \/ UNCHANGED <<desiredOs, adding, refused>>
        \/ /\ desiredOs' = n + additional
           /\ adding' \in {additional, adding}
    BY DEF AddOutgoingStreams
  <1> QED
    BY <1>1, <1>2 DEF TypeOK

LEMMA StreamChangeInv == ASSUME Inv, NEW granted \in BOOLEAN, StreamChange(granted) PROVE Inv'
  <1>1. /\ adding' = 0 /\ os' = (IF granted THEN os + adding ELSE os)
        /\ granted => os + adding <= MaxSctpStreams
        /\ UNCHANGED <<connected, streamIdTable, routes, consumers, buffered, state, desiredOs>>
        /\ UNCHANGED chunkVars
    BY DEF StreamChange
  <1>2. ChannelsInv'
    BY <1>1 DEF Inv, ChannelsInv, DataMapsAgree, DataConsumersInformed, LowIsTold, DataConsumers, Open
  <1>3. os' \in 1..MaxSctpStreams /\ adding' \in 0..AddedStreams
    BY <1>1, DataAssumption DEF Inv, TypeOK
  <1> QED
    BY <1>1, <1>2, <1>3, OperationKeepsInv DEF Inv, TypeOK

\* What OnSctpAssociationConnected, Failed and Closed set, and what not.
LEMMA TellSctpResult ==
    ASSUME NEW ds \in [Consumers -> DataConsumer \cup {None}], NEW up \in BOOLEAN
    PROVE  LET es == TellSctp(ds, up)
           IN  /\ es \in [Consumers -> DataConsumer \cup {None}]
               /\ \A c \in Consumers : es[c] = None <=> ds[c] = None
               /\ \A c \in Consumers : ds[c] # None =>
                     /\ es[c].sctp = up /\ es[c].transport = ds[c].transport
                     /\ es[c].producer = ds[c].producer /\ es[c].fresh = ds[c].fresh
                     /\ es[c].amount = ds[c].amount /\ (Told(ds[c]) => Told(es[c]))
  <1> DEFINE es == TellSctp(ds, up)
  <1>0. None \notin DataConsumer
    BY DataAssumption
  <1>1. ASSUME NEW c \in Consumers, ds[c] # None
        PROVE  /\ es[c] \in DataConsumer
               /\ es[c].sctp = up /\ es[c].transport = ds[c].transport
               /\ es[c].producer = ds[c].producer /\ es[c].fresh = ds[c].fresh
               /\ es[c].amount = ds[c].amount /\ es[c].owed = ds[c].owed
               /\ es[c].threshold = ds[c].threshold
    <2>1. es[c] = [ds[c] EXCEPT !.sctp = up] /\ ds[c] \in DataConsumer
      BY <1>1 DEF TellSctp
    <2> HIDE DEF es
    <2> QED
      BY <2>1 DEF DataConsumer
  <1>2. \A c \in Consumers : ds[c] = None => es[c] = None
    BY DEF TellSctp
  <1>3. es = [c \in Consumers |-> es[c]]
    BY DEF TellSctp
  <1> HIDE DEF es
  <1>4. /\ es \in [Consumers -> DataConsumer \cup {None}]
        /\ \A c \in Consumers : es[c] = None <=> ds[c] = None
    BY <1>0, <1>1, <1>2, <1>3
  <1> QED
    BY <1>1, <1>4 DEF Told, es

\* What Transport::Connected and Disconnected set, and what not.
LEMMA TellTransportResult ==
    ASSUME NEW ds \in [Consumers -> DataConsumer \cup {None}], NEW up \in BOOLEAN
    PROVE  LET es == TellTransport(ds, up)
           IN  /\ es \in [Consumers -> DataConsumer \cup {None}]
               /\ \A c \in Consumers : es[c] = None <=> ds[c] = None
               /\ \A c \in Consumers : ds[c] # None =>
                     /\ es[c].transport = up /\ es[c].sctp = ds[c].sctp
                     /\ es[c].producer = ds[c].producer /\ es[c].fresh = ds[c].fresh
                     /\ es[c].amount = ds[c].amount /\ (Told(ds[c]) => Told(es[c]))
  <1> DEFINE es == TellTransport(ds, up)
  <1>0. None \notin DataConsumer
    BY DataAssumption
  <1>1. ASSUME NEW c \in Consumers, ds[c] # None
        PROVE  /\ es[c] \in DataConsumer
               /\ es[c].transport = up /\ es[c].sctp = ds[c].sctp
               /\ es[c].producer = ds[c].producer /\ es[c].fresh = ds[c].fresh
               /\ es[c].amount = ds[c].amount /\ es[c].owed = ds[c].owed
               /\ es[c].threshold = ds[c].threshold
    <2>1. es[c] = [ds[c] EXCEPT !.transport = up] /\ ds[c] \in DataConsumer
      BY <1>1 DEF TellTransport
    <2> HIDE DEF es
    <2> QED
      BY <2>1 DEF DataConsumer
  <1>2. \A c \in Consumers : ds[c] = None => es[c] = None
    BY DEF TellTransport
  <1>3. es = [c \in Consumers |-> es[c]]
    BY DEF TellTransport
  <1> HIDE DEF es
  <1>4. /\ es \in [Consumers -> DataConsumer \cup {None}]
        /\ \A c \in Consumers : es[c] = None <=> ds[c] = None
    BY <1>0, <1>1, <1>2, <1>3
  <1> QED
    BY <1>1, <1>4 DEF Told, es

LEMMA ConnectedInv == Inv /\ Connected => Inv'
  <1> SUFFICES ASSUME Inv, Connected PROVE Inv'
    OBVIOUS
  <1> DEFINE ds == TellTransport(consumers, TRUE)
             es == TellSctp(ds, FALSE)
  <1>1. /\ connected' = TRUE
        /\ UNCHANGED <<streamIdTable, routes, buffered, os, desiredOs, adding>>
        /\ UNCHANGED chunkVars
    BY DEF Connected
  <1>2. consumers \in [Consumers -> DataConsumer \cup {None}]
    BY DEF Inv, TypeOK
  <1>3. /\ ds \in [Consumers -> DataConsumer \cup {None}]
        /\ \A c \in Consumers : ds[c] = None <=> consumers[c] = None
        /\ \A c \in Consumers : consumers[c] # None =>
              /\ ds[c].transport = TRUE /\ ds[c].sctp = consumers[c].sctp
              /\ ds[c].producer = consumers[c].producer /\ ds[c].fresh = consumers[c].fresh
              /\ ds[c].amount = consumers[c].amount /\ (Told(consumers[c]) => Told(ds[c]))
    BY <1>2, TellTransportResult
  <1> HIDE DEF ds
  <1>4. CASE state = "new" /\ state' = "failed" /\ consumers' = es
    <2>1. /\ es \in [Consumers -> DataConsumer \cup {None}]
          /\ \A c \in Consumers : es[c] = None <=> ds[c] = None
          /\ \A c \in Consumers : ds[c] # None =>
                /\ es[c].sctp = FALSE /\ es[c].transport = ds[c].transport
                /\ es[c].producer = ds[c].producer /\ es[c].fresh = ds[c].fresh
                /\ es[c].amount = ds[c].amount /\ (Told(ds[c]) => Told(es[c]))
      BY <1>3, TellSctpResult
    <2> HIDE DEF es
    <2>2. ASSUME NEW c \in DataConsumers
          PROVE  /\ consumers'[c].producer = consumers[c].producer
                 /\ consumers'[c].transport = connected'
                 /\ consumers'[c].sctp = (state' = "connected")
                 /\ consumers'[c].fresh \/ consumers'[c].amount = buffered'
                 /\ Told(consumers'[c])
      <3>1. /\ c \in Consumers /\ consumers[c] # None /\ Told(consumers[c])
            /\ consumers[c].fresh \/ consumers[c].amount = buffered
        BY ConsumerFacts
      <3>2. /\ ds[c] # None /\ ds[c].transport = TRUE /\ Told(ds[c])
            /\ ds[c].producer = consumers[c].producer /\ ds[c].fresh = consumers[c].fresh
            /\ ds[c].amount = consumers[c].amount
        BY <1>3, <3>1
      <3>3. /\ es[c].sctp = FALSE /\ es[c].transport = TRUE /\ Told(es[c])
            /\ es[c].producer = consumers[c].producer /\ es[c].fresh = consumers[c].fresh
            /\ es[c].amount = consumers[c].amount
        BY <2>1, <3>1, <3>2
      <3>4. consumers'[c] = es[c] /\ connected' = TRUE /\ (state' = "connected") = FALSE
            /\ buffered' = buffered
        BY <1>1, <1>4
      <3> QED
        BY <3>1, <3>3, <3>4
    <2>3. \A c \in Consumers : consumers'[c] = None <=> consumers[c] = None
      BY <1>3, <1>4, <2>1
    <2>4. consumers' \in [Consumers -> DataConsumer \cup {None}]
      BY <1>4, <2>1
    <2>5. ChannelsInv'
      BY <1>1, <2>2, <2>3, <2>4, FieldsSet
    <2> QED
      BY <1>1, <1>4, <2>4, <2>5, OperationKeepsInv DEF Inv, TypeOK
  <1>5. CASE state' = (IF state = "new" THEN "connecting" ELSE state) /\ consumers' = ds
    <2>1. ASSUME NEW c \in DataConsumers
          PROVE  /\ consumers'[c].producer = consumers[c].producer
                 /\ consumers'[c].transport = connected'
                 /\ consumers'[c].sctp = (state' = "connected")
                 /\ consumers'[c].fresh \/ consumers'[c].amount = buffered'
                 /\ Told(consumers'[c])
      BY <1>1, <1>3, <1>5, ConsumerFacts
    <2>2. \A c \in Consumers : consumers'[c] = None <=> consumers[c] = None
      BY <1>3, <1>5
    <2>3. consumers' \in [Consumers -> DataConsumer \cup {None}]
      BY <1>3, <1>5
    <2>4. ChannelsInv'
      BY <1>1, <2>1, <2>2, <2>3, FieldsSet
    <2>5. state' \in {"new", "connecting", "connected", "failed", "closed"}
      BY <1>5 DEF Inv, TypeOK
    <2> QED
      BY <1>1, <2>3, <2>4, <2>5, OperationKeepsInv DEF Inv, TypeOK
  <1> QED
    BY <1>4, <1>5 DEF Connected, ds

LEMMA DisconnectedInv == Inv /\ Disconnected => Inv'
  <1> SUFFICES ASSUME Inv, Disconnected PROVE Inv'
    OBVIOUS
  <1> DEFINE ds == TellTransport(consumers, FALSE)
  <1>1. /\ connected' = FALSE /\ consumers' = ds
        /\ UNCHANGED <<streamIdTable, routes, buffered, state, os, desiredOs, adding>>
        /\ UNCHANGED chunkVars
    BY DEF Disconnected, sctpVars
  <1>2. consumers \in [Consumers -> DataConsumer \cup {None}]
    BY DEF Inv, TypeOK
  <1>3. /\ ds \in [Consumers -> DataConsumer \cup {None}]
        /\ \A c \in Consumers : ds[c] = None <=> consumers[c] = None
        /\ \A c \in Consumers : consumers[c] # None =>
              /\ ds[c].transport = FALSE /\ ds[c].sctp = consumers[c].sctp
              /\ ds[c].producer = consumers[c].producer /\ ds[c].fresh = consumers[c].fresh
              /\ ds[c].amount = consumers[c].amount /\ (Told(consumers[c]) => Told(ds[c]))
    BY <1>2, TellTransportResult
  <1> HIDE DEF ds
  <1>4. ASSUME NEW c \in DataConsumers
        PROVE  /\ consumers'[c].producer = consumers[c].producer
               /\ consumers'[c].transport = connected'
               /\ consumers'[c].sctp = (state' = "connected")
               /\ consumers'[c].fresh \/ consumers'[c].amount = buffered'
               /\ Told(consumers'[c])
    BY <1>1, <1>3, ConsumerFacts
  <1>5. ChannelsInv'
    BY <1>1, <1>3, <1>4, FieldsSet
  <1> QED
    BY <1>1, <1>3, <1>5, OperationKeepsInv DEF Inv, TypeOK

\* The association tells all of the data consumers that it is up, or down.
LEMMA SctpTold ==
    ASSUME Inv, NEW up \in BOOLEAN, consumers' = TellSctp(consumers, up),
           up = (state' = "connected"), UNCHANGED <<connected, streamIdTable, routes, buffered>>
    PROVE  ChannelsInv' /\ consumers' \in [Consumers -> DataConsumer \cup {None}]
  <1> DEFINE es == TellSctp(consumers, up)
  <1>1. consumers \in [Consumers -> DataConsumer \cup {None}]
    BY DEF Inv, TypeOK
  <1>2. /\ es \in [Consumers -> DataConsumer \cup {None}]
        /\ \A c \in Consumers : es[c] = None <=> consumers[c] = None
        /\ \A c \in Consumers : consumers[c] # None =>
              /\ es[c].sctp = up /\ es[c].transport = consumers[c].transport
              /\ es[c].producer = consumers[c].producer /\ es[c].fresh = consumers[c].fresh
              /\ es[c].amount = consumers[c].amount /\ (Told(consumers[c]) => Told(es[c]))
    BY <1>1, TellSctpResult
  <1>3. consumers' = es
    OBVIOUS
  <1> HIDE DEF es
  <1>4. ASSUME NEW c \in DataConsumers
        PROVE  /\ consumers'[c].producer = consumers[c].producer
               /\ consumers'[c].transport = connected'
               /\ consumers'[c].sctp = (state' = "connected")
               /\ consumers'[c].fresh \/ consumers'[c].amount = buffered'
               /\ Told(consumers'[c])
    BY <1>2, <1>3, ConsumerFacts
  <1>5. ChannelsInv'
    BY <1>2, <1>3, <1>4, FieldsSet
  <1> QED
    BY <1>2, <1>3, <1>5

LEMMA CommUpInv == ASSUME Inv, NEW n \in 1..OS, CommUp(n) PROVE Inv'
  <1>1. /\ os' = n /\ state' = "connected"
        /\ consumers' = IF state = "connected" THEN consumers ELSE TellSctp(consumers, TRUE)
        /\ UNCHANGED <<connected, streamIdTable, routes, buffered>>
        /\ UNCHANGED chunkVars
        /\ AddOutgoingStreams(TRUE, n, state) \/ UNCHANGED <<desiredOs, adding, refused>>
    BY DEF CommUp
  <1>2. n \in 1..MaxSctpStreams
    BY DataAssumption
  <1>3. desiredOs' \in 0..MaxSctpStreams /\ adding' \in 0..AddedStreams
    BY <1>1, <1>2, AddOutgoingStreamsResult DEF Inv, TypeOK
  <1>4. ChannelsInv' /\ consumers' \in [Consumers -> DataConsumer \cup {None}]
    <2>1. CASE state = "connected"
      BY <1>1, <2>1 DEF Inv, TypeOK, ChannelsInv, DataMapsAgree, DataConsumersInformed,
         LowIsTold, DataConsumers, Open
    <2>2. CASE state # "connected"
      BY <1>1, <2>2, SctpTold
    <2> QED
      BY <2>1, <2>2
  <1> QED
    BY <1>1, <1>2, <1>3, <1>4, OperationKeepsInv DEF Inv, TypeOK

LEMMA CommLostInv == ASSUME Inv, NEW st \in {"closed", "failed"}, CommLost(st) PROVE Inv'
  <1>1. /\ state' = st /\ consumers' = TellSctp(consumers, FALSE)
        /\ UNCHANGED <<connected, streamIdTable, routes, buffered, os, desiredOs, adding>>
        /\ UNCHANGED chunkVars
    BY DEF CommLost
  <1>2. FALSE = (state' = "connected")
    BY <1>1
  <1>3. ChannelsInv' /\ consumers' \in [Consumers -> DataConsumer \cup {None}]
    BY <1>1, <1>2, SctpTold
  <1> QED
    BY <1>1, <1>3, OperationKeepsInv DEF Inv, TypeOK

LEMMA ProduceDataInv ==
    ASSUME Inv, NEW p \in Producers, NEW s \in Streams, ProduceData(p, s)
    PROVE  Inv'
  <1>1. /\ p \notin DOMAIN routes /\ streamIdTable[s] = None
        /\ streamIdTable' = [streamIdTable EXCEPT ![s] = p]
        /\ routes' = [q \in DOMAIN routes \cup {p} |-> IF q = p THEN {} ELSE routes[q]]
        /\ UNCHANGED <<connected, consumers, buffered, state, os, desiredOs, adding>>
        /\ UNCHANGED chunkVars
    BY DEF ProduceData, Open, sctpVars
  <1>2. /\ streamIdTable \in [Streams -> Producers \cup {None}] /\ None \notin Producers
        /\ DOMAIN routes \subseteq Producers
        /\ \A q \in DOMAIN routes : routes[q] \subseteq Consumers
    BY DataAssumption DEF Inv, TypeOK
  <1>3. /\ DOMAIN routes' = DOMAIN routes \cup {p} /\ routes'[p] = {}
        /\ \A q \in DOMAIN routes : routes'[q] = routes[q]
    BY <1>1
  <1>4. DataConsumers' = DataConsumers
    BY <1>1 DEF DataConsumers
  <1>5. DataMapsAgree'
    <2>1. ASSUME NEW q \in Producers
          PROVE  q \in DOMAIN routes' <=> \E x \in Streams : streamIdTable'[x] = q
      <3>1. q \in DOMAIN routes <=> \E x \in Streams : streamIdTable[x] = q
        BY DEF Inv, DataMapsAgree, Open
      <3> QED
        BY <1>1, <1>2, <1>3, <3>1
    <2>2. ASSUME NEW q \in DOMAIN routes'
          PROVE  routes'[q] = {c \in DataConsumers : consumers[c].producer = q}
      <3>1. \A c \in DataConsumers : consumers[c].producer \in DOMAIN routes
        BY ConsumerFacts
      <3>2. CASE q = p
        BY <1>1, <1>3, <3>1, <3>2
      <3>3. CASE q # p
        <4>1. q \in DOMAIN routes /\ routes'[q] = routes[q]
          BY <1>3, <3>3
        <4> QED
          BY <4>1 DEF Inv, DataMapsAgree
      <3> QED
        BY <3>2, <3>3
    <2>3. \A c \in DataConsumers : consumers[c].producer \in DOMAIN routes'
      BY <1>3, ConsumerFacts
    <2> QED
      BY <1>1, <1>4, <2>1, <2>2, <2>3 DEF DataMapsAgree, Open
  <1>6. ChannelsInv'
    BY <1>1, <1>4, <1>5 DEF Inv, ChannelsInv, DataConsumersInformed, LowIsTold
  <1>7. streamIdTable' \in [Streams -> Producers \cup {None}]
    BY <1>1, <1>2
  <1>8. DOMAIN routes' \subseteq Producers /\ \A q \in DOMAIN routes' : routes'[q] \subseteq Consumers
    BY <1>2, <1>3
  <1> QED
    BY <1>1, <1>6, <1>7, <1>8, OperationKeepsInv DEF Inv, TypeOK

LEMMA CloseDataProducerInv == ASSUME Inv, NEW p \in Producers, CloseDataProducer(p) PROVE Inv'
  <1>1. /\ p \in DOMAIN routes
        /\ streamIdTable' = [s \in Streams |-> IF streamIdTable[s] = p THEN None ELSE streamIdTable[s]]
        /\ consumers' = [c \in Consumers |-> IF c \in routes[p] THEN None ELSE consumers[c]]
        /\ routes' = [q \in DOMAIN routes \ {p} |-> routes[q]]
        /\ UNCHANGED <<connected, buffered, state, os, desiredOs, adding>>
        /\ UNCHANGED chunkVars
    BY DEF CloseDataProducer, Open, sctpVars
  <1>2. /\ streamIdTable \in [Streams -> Producers \cup {None}] /\ None \notin Producers
        /\ DOMAIN routes \subseteq Producers
        /\ \A q \in DOMAIN routes : routes[q] \subseteq Consumers
        /\ consumers \in [Consumers -> DataConsumer \cup {None}]
    BY DataAssumption DEF Inv, TypeOK
  <1>3. /\ DOMAIN routes' = DOMAIN routes \ {p}
        /\ \A q \in DOMAIN routes' : routes'[q] = routes[q]
    BY <1>1
  <1>4. routes[p] = {c \in DataConsumers : consumers[c].producer = p}
    BY <1>1 DEF Inv, DataMapsAgree
  <1>5. DataConsumers' = {c \in DataConsumers : consumers[c].producer # p}
    BY <1>1, <1>4 DEF DataConsumers
  <1>6. \A c \in DataConsumers' : consumers'[c] = consumers[c]
    BY <1>1, <1>4, <1>5 DEF DataConsumers
  <1>7. DataMapsAgree'
    <2>1. ASSUME NEW q \in Producers
          PROVE  q \in DOMAIN routes' <=> \E x \in Streams : streamIdTable'[x] = q
      <3>1. q \in DOMAIN routes <=> \E x \in Streams : streamIdTable[x] = q
        BY DEF Inv, DataMapsAgree, Open
      <3> QED
        BY <1>1, <1>2, <1>3, <3>1
    <2>2. ASSUME NEW q \in DOMAIN routes'
          PROVE  routes'[q] = {c \in DataConsumers' : consumers'[c].producer = q}
      <3>1. q # p /\ q \in DOMAIN routes
        BY <1>3
      <3>2. routes[q] = {c \in DataConsumers : consumers[c].producer = q}
        BY <3>1 DEF Inv, DataMapsAgree
      <3>3. {c \in DataConsumers' : consumers'[c].producer = q}
              = {c \in DataConsumers : consumers[c].producer = q}
        BY <1>5, <1>6, <3>1
      <3> QED
        BY <1>3, <3>2, <3>3
    <2>3. \A c \in DataConsumers' : consumers'[c].producer \in DOMAIN routes'
      BY <1>3, <1>5, <1>6, ConsumerFacts
    <2> QED
      BY <2>1, <2>2, <2>3 DEF DataMapsAgree, Open
  <1>8. ChannelsInv'
    BY <1>1, <1>5, <1>6, <1>7 DEF Inv, ChannelsInv, DataConsumersInformed, LowIsTold
  <1>9. /\ streamIdTable' \in [Streams -> Producers \cup {None}]
        /\ consumers' \in [Consumers -> DataConsumer \cup {None}]
    BY <1>1, <1>2
  <1>10. DOMAIN routes' \subseteq Producers /\ \A q \in DOMAIN routes' : routes'[q] \subseteq Consumers
    BY <1>2, <1>3
  <1> QED
    BY <1>1, <1>8, <1>9, <1>10, OperationKeepsInv DEF Inv, TypeOK

LEMMA ConsumeDataInv ==
    ASSUME Inv, NEW c \in Consumers, NEW p \in Producers, NEW s \in Streams, ConsumeData(c, p, s)
    PROVE  Inv'
  <1> DEFINE d == NewDataConsumer(p, s)
  <1>1. /\ consumers[c] = None /\ p \in DOMAIN routes
        /\ routes' = [routes EXCEPT ![p] = @ \cup {c}]
        /\ consumers' = [consumers EXCEPT ![c] = d]
        /\ HandleDataConsumer(s)
        /\ UNCHANGED <<connected, streamIdTable, buffered, state, os>>
        /\ UNCHANGED chunkVars
    BY DEF ConsumeData, Open
  <1>2. /\ DOMAIN routes \subseteq Producers
        /\ \A q \in DOMAIN routes : routes[q] \subseteq Consumers
        /\ consumers \in [Consumers -> DataConsumer \cup {None}] /\ None \notin DataConsumer
        /\ connected \in BOOLEAN /\ os \in 1..MaxSctpStreams
    BY DataAssumption DEF Inv, TypeOK
  <1>3. /\ d \in DataConsumer /\ d.producer = p /\ d.transport = connected
        /\ d.sctp = (state = "connected") /\ d.fresh = TRUE /\ d.owed = FALSE
    BY <1>2 DEF NewDataConsumer, DataConsumer
  <1> HIDE DEF d
  <1>4. /\ DOMAIN routes' = DOMAIN routes
        /\ \A q \in DOMAIN routes : routes'[q] = IF q = p THEN routes[p] \cup {c} ELSE routes[q]
    BY <1>1
  <1>5. \A b \in Consumers : consumers'[b] = IF b = c THEN d ELSE consumers[b]
    BY <1>1, <1>2
  <1>6. DataConsumers' = DataConsumers \cup {c} /\ c \notin DataConsumers
    BY <1>1, <1>2, <1>3, <1>5 DEF DataConsumers
  <1>7. DataMapsAgree'
    <2>1. \A q \in Producers : q \in DOMAIN routes' <=> \E x \in Streams : streamIdTable'[x] = q
      BY <1>1, <1>4 DEF Inv, DataMapsAgree, Open
    <2>2. ASSUME NEW q \in DOMAIN routes'
          PROVE  routes'[q] = {b \in DataConsumers' : consumers'[b].producer = q}
      <3>1. routes[q] = {b \in DataConsumers : consumers[b].producer = q}
        BY <1>4 DEF Inv, DataMapsAgree
      <3>2. \A b \in DataConsumers : b # c /\ consumers'[b] = consumers[b]
        BY <1>5, <1>6, ConsumerFacts
      <3>3. consumers'[c] = d
        BY <1>5
      <3> QED
        BY <1>3, <1>4, <1>6, <3>1, <3>2, <3>3
    <2>3. \A b \in DataConsumers' : consumers'[b].producer \in DOMAIN routes'
      BY <1>1, <1>3, <1>4, <1>5, <1>6, ConsumerFacts
    <2> QED
      BY <2>1, <2>2, <2>3 DEF DataMapsAgree, Open
  <1>8. ASSUME NEW b \in DataConsumers'
        PROVE  /\ consumers'[b].transport = connected' /\ consumers'[b].sctp = (state' = "connected")
               /\ consumers'[b].fresh \/ consumers'[b].amount = buffered'
               /\ consumers'[b].owed => consumers'[b].amount > consumers'[b].threshold
    <2>1. CASE b = c
      BY <1>1, <1>3, <1>5, <2>1
    <2>2. CASE b # c
      <3>1. b \in DataConsumers /\ b \in Consumers
        BY <1>6, <2>2 DEF DataConsumers
      <3>2. consumers'[b] = consumers[b]
        BY <1>5, <2>2, <3>1
      <3> QED
        BY <1>1, <3>1, <3>2, ConsumerFacts DEF Told
    <2> QED
      BY <2>1, <2>2
  <1>9. ChannelsInv'
    BY <1>7, <1>8 DEF ChannelsInv, DataConsumersInformed, LowIsTold
  <1>10. desiredOs' \in 0..MaxSctpStreams /\ adding' \in 0..AddedStreams
    <2>1. AddOutgoingStreams(FALSE, os, state) \/ UNCHANGED <<desiredOs, adding, refused>>
      BY <1>1 DEF HandleDataConsumer
    <2> QED
      BY <1>2, <2>1, AddOutgoingStreamsResult DEF Inv, TypeOK
  <1>11. consumers' \in [Consumers -> DataConsumer \cup {None}]
    BY <1>1, <1>2, <1>3
  <1>12. DOMAIN routes' \subseteq Producers /\ \A q \in DOMAIN routes' : routes'[q] \subseteq Consumers
    BY <1>2, <1>4
  <1> QED
    BY <1>1, <1>9, <1>10, <1>11, <1>12, OperationKeepsInv DEF Inv, TypeOK

LEMMA CloseDataConsumerInv == ASSUME Inv, NEW c \in Consumers, CloseDataConsumer(c) PROVE Inv'
  <1> DEFINE p == consumers[c].producer
  <1>1. /\ consumers[c] # None
        /\ routes' = [routes EXCEPT ![p] = @ \ {c}]
        /\ consumers' = [consumers EXCEPT ![c] = None]
        /\ UNCHANGED <<connected, streamIdTable, buffered, state, os, desiredOs, adding>>
        /\ UNCHANGED chunkVars
    BY DEF CloseDataConsumer, sctpVars
  <1>2. /\ DOMAIN routes \subseteq Producers
        /\ \A q \in DOMAIN routes : routes[q] \subseteq Consumers
        /\ consumers \in [Consumers -> DataConsumer \cup {None}]
    BY DEF Inv, TypeOK
  <1>3. c \in DataConsumers /\ p \in DOMAIN routes
    BY <1>1, ConsumerFacts DEF DataConsumers
  <1> HIDE DEF p
  <1>4. /\ DOMAIN routes' = DOMAIN routes
        /\ \A q \in DOMAIN routes : routes'[q] = IF q = p THEN routes[p] \ {c} ELSE routes[q]
    BY <1>1
  <1>5. \A b \in Consumers : consumers'[b] = IF b = c THEN None ELSE consumers[b]
    BY <1>1, <1>2
  <1>6. DataConsumers' = DataConsumers \ {c}
    BY <1>5 DEF DataConsumers
  <1>7. \A b \in DataConsumers' : b \in DataConsumers /\ consumers'[b] = consumers[b]
    BY <1>5, <1>6 DEF DataConsumers
  <1>8. DataMapsAgree'
    <2>1. \A q \in Producers : q \in DOMAIN routes' <=> \E x \in Streams : streamIdTable'[x] = q
      BY <1>1, <1>4 DEF Inv, DataMapsAgree, Open
    <2>2. ASSUME NEW q \in DOMAIN routes'
          PROVE  routes'[q] = {b \in DataConsumers' : consumers'[b].producer = q}
      <3>1. routes[q] = {b \in DataConsumers : consumers[b].producer = q}
        BY <1>4 DEF Inv, DataMapsAgree
      <3>2. {b \in DataConsumers' : consumers'[b].producer = q} = routes[q] \ {c}
        BY <1>6, <1>7, <3>1
      <3>3. q # p => c \notin routes[q]
        BY <3>1 DEF p
      <3> QED
        BY <1>4, <3>2, <3>3
    <2>3. \A b \in DataConsumers' : consumers'[b].producer \in DOMAIN routes'
      BY <1>4, <1>7, ConsumerFacts
    <2> QED
      BY <2>1, <2>2, <2>3 DEF DataMapsAgree, Open
  <1>9. ChannelsInv'
    BY <1>1, <1>7, <1>8 DEF Inv, ChannelsInv, DataConsumersInformed, LowIsTold
  <1>10. consumers' \in [Consumers -> DataConsumer \cup {None}]
    BY <1>1, <1>2
  <1>11. DOMAIN routes' \subseteq Producers /\ \A q \in DOMAIN routes' : routes'[q] \subseteq Consumers
    BY <1>2, <1>3, <1>4
  <1> QED
    BY <1>1, <1>9, <1>10, <1>11, OperationKeepsInv DEF Inv, TypeOK

----------------------------------------------------------------------------
(* Messages from the remote.                                               *)

\* A run of chunks as a sequence, and one more chunk at its end.
LEMMA RunResult ==
    ASSUME NEW s \in Streams, NEW b \in Nat \ {0}, NEW a \in 1..b
    PROVE  /\ Run(s, a, b) \in Seq(Chunk) /\ Len(Run(s, a, b)) = b - a + 1
           /\ Run(s, a, b) # << >> /\ Run(s, a, b)[Len(Run(s, a, b))] = <<s, b>>
           /\ Append(Run(s, a, b), <<s, b + 1>>) = Run(s, a, b + 1)
  <1> DEFINE n == b - a + 1
             F(i) == <<s, a + i - 1>>
             R == Run(s, a, b)
             last == <<s, b + 1>>
  <1>1. n \in Nat /\ n > 0 /\ (b + 1) - a + 1 = n + 1
    OBVIOUS
  <1>2. R = [i \in 1..n |-> F(i)]
    BY DEF Run
  <1>3. Run(s, a, b + 1) = [i \in 1..n + 1 |-> F(i)]
    BY <1>1 DEF Run
  <1>4. F(n) = <<s, b>> /\ F(n + 1) = last
    OBVIOUS
  <1>5. \A i \in 1..n + 1 : F(i) \in Chunk
    BY DEF Chunk
  <1> HIDE DEF n, R, F, last
  <1>6. R \in Seq(Chunk) /\ Len(R) = n
    BY <1>1, <1>2, <1>5
  <1>7. R[n] = <<s, b>>
    BY <1>1, <1>2, <1>4
  <1>8. Append(R, last) = Run(s, a, b + 1)
    <2> DEFINE A == Append(R, last)
    <2>1. last \in Chunk
      BY <1>1, <1>4, <1>5
    <2>2. A \in Seq(Chunk) /\ Len(A) = n + 1 /\ A[n + 1] = last /\ \A i \in 1..n : A[i] = R[i]
      BY <1>1, <1>6, <2>1
    <2> HIDE DEF A
    <2>3. \A i \in 1..n + 1 : A[i] = F(i)
      BY <1>1, <1>2, <1>4, <2>2
    <2>4. A = [i \in 1..n + 1 |-> A[i]]
      BY <1>1, <2>2
    <2> QED
      BY <1>3, <2>3, <2>4 DEF A
  <1>9. R # << >>
    BY <1>1, <1>6
  <1> QED
    BY <1>6, <1>7, <1>8, <1>9 DEF n, R, last

\* A chunk in an empty buffer.
LEMMA RunOfOne ==
    ASSUME NEW s \in Streams, NEW b \in Nat \ {0}
    PROVE  Append(<< >>, <<s, b>>) = Run(s, b, b)
  <1>1. b - b + 1 = 1 /\ b + 1 - 1 = b
    OBVIOUS
  <1>2. Run(s, b, b) = [i \in 1..1 |-> <<s, b + i - 1>>]
    BY <1>1 DEF Run
  <1>3. Append(<< >>, <<s, b>>) = [i \in 1..1 |-> <<s, b>>]
    OBVIOUS
  <1> QED
    BY <1>1, <1>2, <1>3

\* A chunk, whatever it is, keeps the types and what concerns the channels.
LEMMA ChunkReceived ==
    ASSUME Inv, NEW s \in Streams, NEW m \in ArrivingMessage, HandOver(s, m)
    PROVE  TypeOK' /\ ChannelsInv'
  <1> DEFINE chunks == Append(Kept(m), <<s, m.got>>)
             eor == m.got = m.size
             whole == lawful' /\ eor => \E a \in 1..m.size : /\ chunks = Run(s, a, m.size)
                                                             /\ m.cut \/ a = 1
  <1>1. Kept(m) \in Seq(Chunk) /\ <<s, m.got>> \in Chunk
    <2>1. << >> \in Seq(Chunk) /\ messageBuffer \in Seq(Chunk)
      BY DEF Inv, TypeOK
    <2> QED
      BY <2>1 DEF Kept, ArrivingMessage, Chunk
  <1>2. chunks \in Seq(Chunk) /\ Len(chunks) \in Nat
    BY <1>1
  <1>3. /\ UNCHANGED <<connected, streamIdTable, routes, sctpVars>>
        /\ IF Len(chunks) > MaxMessageSize
           THEN messageBuffer' = Kept(m) /\ UNCHANGED <<intact, buffered, consumers>>
           ELSE /\ messageBuffer' = (IF eor THEN << >> ELSE chunks)
                /\ intact' = (intact /\ whole)
                /\ IF eor THEN MessageReceived(s, Len(chunks))
                   ELSE UNCHANGED <<buffered, consumers>>
    BY DEF HandOver, OnUsrSctpReceiveSctpData
  <1> HIDE DEF chunks, eor, whole
  <1>4. UNCHANGED <<connected, streamIdTable, routes, state, os, desiredOs, adding>>
    BY <1>3 DEF sctpVars
  <1>5. /\ consumers' \in [Consumers -> DataConsumer \cup {None}] /\ buffered' \in Nat
        /\ ChannelsInv'
    <2>1. CASE MessageReceived(s, Len(chunks))
      BY <1>2, <1>4, <2>1, MessageReceivedReported DEF Inv, ChannelsInv
    <2>2. CASE UNCHANGED <<buffered, consumers>>
      BY <1>4, <2>2 DEF Inv, TypeOK, ChannelsInv, DataMapsAgree, DataConsumersInformed, LowIsTold,
         DataConsumers, Open
    <2> QED
      BY <1>3, <2>1, <2>2
  <1>6. messageBuffer' \in Seq(Chunk)
    <2>1. << >> \in Seq(Chunk)
      OBVIOUS
    <2>2. messageBuffer' \in {Kept(m), chunks, << >>}
      BY <1>3
    <2> QED
      BY <1>1, <1>2, <2>1, <2>2
  <1>7. intact' \in BOOLEAN /\ lawful' \in BOOLEAN
    <2>1. lawful' = (lawful /\ m.size <= MaxMessageSize /\ ~ Confused(s, m))
      BY DEF HandOver
    <2>2. lawful \in BOOLEAN /\ intact \in BOOLEAN
      BY DEF Inv, TypeOK
    <2> QED
      BY <1>3, <2>1, <2>2
  <1>8. arriving' \in [Streams -> ArrivingMessage \cup {None}]
    <2> DEFINE next(t) == IF t = s /\ m.size > 1 THEN IF m.got = m.size THEN None ELSE m
                          ELSE IF arriving[t] = None THEN None
                          ELSE [arriving[t] EXCEPT !.cut = TRUE]
    <2>1. arriving' = [t \in Streams |-> next(t)]
      BY DEF HandOver
    <2>2. ASSUME NEW t \in Streams PROVE next(t) \in ArrivingMessage \cup {None}
      <3>1. arriving[t] # None => arriving[t] \in ArrivingMessage
        BY DEF Inv, TypeOK
      <3>2. arriving[t] # None => [arriving[t] EXCEPT !.cut = TRUE] \in ArrivingMessage
        BY <3>1 DEF ArrivingMessage
      <3> QED
        BY <3>2
    <2> HIDE DEF next
    <2> QED
      BY <2>1, <2>2
  <1> QED
    BY <1>4, <1>5, <1>6, <1>7, <1>8 DEF Inv, TypeOK

\* Message m of stream s once its chunk m.got follows what was kept: the buffer
\* holds the latest of its chunks, all of them unless it was cut.
Continues(s, m) ==
    \E a \in 1..m.got : /\ Append(Kept(m), <<s, m.got>>) = Run(s, a, m.got)
                        /\ m.cut \/ a = 1

\* A message that was cut by a chunk of another one stays in order.
LEMMA CutInOrder ==
    ASSUME Inv, lawful, NEW t \in Streams, arriving[t] # None,
           NEW e, e = [arriving[t] EXCEPT !.cut = TRUE]
    PROVE  e.got \in 1 .. e.size - 1 /\ e.size <= MaxMessageSize /\ e.cut
  <1>1. arriving[t] \in ArrivingMessage
    BY DEF Inv, TypeOK
  <1>2. e.got = arriving[t].got /\ e.size = arriving[t].size /\ e.cut = TRUE
    BY <1>1 DEF ArrivingMessage
  <1>3. arriving[t].got \in 1 .. arriving[t].size - 1 /\ arriving[t].size <= MaxMessageSize
    BY DEF Inv, ChunksInOrder, InOrder
  <1> QED
    BY <1>2, <1>3

\* A chunk that continues its message, when the peer has kept the rules.
LEMMA ChunkContinues ==
    ASSUME Inv, NEW s \in Streams, NEW m \in ArrivingMessage, HandOver(s, m),
           lawful' => m.got \in 1..m.size /\ Continues(s, m)
    PROVE  Inv'
  <1> DEFINE chunks == Append(Kept(m), <<s, m.got>>)
             eor == m.got = m.size
             whole == \E a \in 1..m.size : chunks = Run(s, a, m.size) /\ (m.cut \/ a = 1)
  <1>1. TypeOK' /\ ChannelsInv'
    BY ChunkReceived
  <1>2. CASE ~ lawful'
    <2>1. intact' = intact \/ intact' = (intact /\ (lawful' /\ eor => whole))
      BY DEF HandOver, OnUsrSctpReceiveSctpData
    <2> HIDE DEF eor, whole
    <2>2. MessagesWhole'
      BY <1>2, <2>1 DEF Inv, MessagesWhole
    <2> QED
      BY <1>1, <1>2, <2>2 DEF Inv, ChannelsInv, ChunksInOrder
  <1>3. CASE lawful'
    <2>1. lawful /\ m.size <= MaxMessageSize /\ m.got \in 1..m.size /\ Continues(s, m)
      BY <1>3 DEF HandOver
    <2>2. PICK a \in 1..m.got : chunks = Run(s, a, m.got) /\ (m.cut \/ a = 1)
      BY <2>1 DEF Continues
    <2>3. m.got \in Nat \ {0} /\ m.size \in Nat /\ MaxMessageSize \in Nat
      BY <2>1, DataAssumption DEF ArrivingMessage
    <2>4. Len(chunks) = m.got - a + 1
      BY <2>2, <2>3, RunResult
    <2>5. ~ (Len(chunks) > MaxMessageSize)
      BY <2>1, <2>3, <2>4
    <2>6. /\ lastSsn' = m.ssn
          /\ messageBuffer' = (IF eor THEN << >> ELSE chunks)
          /\ intact' = (intact /\ (lawful' /\ eor => whole))
      BY <2>5 DEF HandOver, OnUsrSctpReceiveSctpData
    <2>7. eor => whole
      BY <2>2
    <2>8. MessagesWhole'
      BY <2>6, <2>7 DEF Inv, MessagesWhole
    <2>9. arriving' = [t \in Streams |->
                         IF t = s /\ m.size > 1 THEN IF eor THEN None ELSE m
                         ELSE IF arriving[t] = None THEN None
                         ELSE [arriving[t] EXCEPT !.cut = TRUE]]
      BY DEF HandOver
    <2>10. eor \/ m.size > 1
      BY <2>1, <2>3
    <2> HIDE DEF chunks, whole
    <2>11. ASSUME NEW t \in Streams, arriving'[t] # None
           PROVE  InOrder(t, arriving[t])'
      <3>1. CASE t = s /\ m.size > 1
        <4>1. ~ eor /\ arriving'[t] = m
          BY <2>9, <2>11, <3>1
        <4>2. m.got \in 1 .. m.size - 1
          BY <2>1, <2>3, <4>1
        <4>3. ~ m.cut => messageBuffer' = Run(s, 1, m.got)
          BY <2>2, <2>6, <4>1
        <4> HIDE DEF eor
        <4> QED
          BY <2>1, <2>6, <3>1, <4>1, <4>2, <4>3 DEF InOrder
      <3>2. CASE ~ (t = s /\ m.size > 1)
        <4>1. arriving[t] # None /\ arriving'[t] = [arriving[t] EXCEPT !.cut = TRUE]
          BY <2>9, <2>11, <3>2
        <4> DEFINE e == arriving'[t]
        <4>2. e.got \in 1 .. e.size - 1 /\ e.size <= MaxMessageSize /\ e.cut
          BY <2>1, <4>1, CutInOrder
        <4> QED
          BY <4>2 DEF InOrder
      <3> QED
        BY <3>1, <3>2
    <2>12. ASSUME messageBuffer' # << >>
           PROVE  HeldOf(s)'
      <3>1. ~ eor /\ messageBuffer' = chunks
        BY <2>6, <2>12
      <3>2. arriving'[s] = m
        BY <2>9, <2>10, <3>1
      <3>3. m # None
        BY DataAssumption
      <3> HIDE DEF eor
      <3> QED
        BY <2>2, <3>1, <3>2, <3>3 DEF HeldOf
    <2>13. ChunksInOrder'
      BY <2>11, <2>12 DEF ChunksInOrder
    <2> QED
      BY <1>1, <2>8, <2>13 DEF Inv, ChannelsInv
  <1> QED
    BY <1>2, <1>3

\* The first chunk of a message finds nothing in the buffer that it could be
\* taken to continue, as long as the peer keeps the rules.
LEMMA FirstChunkInv ==
    ASSUME Inv, NEW x \in Messages, FirstChunk(x[1], x[2], x[3])
    PROVE  Inv'
  <1> DEFINE s == x[1]
             m == [ssn |-> x[2], size |-> x[3], got |-> 1, cut |-> FALSE]
  <1>1. HandOver(s, m)
    BY DEF FirstChunk
  <1>2. x[1] \in Streams /\ x[2] \in Nat /\ x[3] \in Nat \ {0}
    BY DataAssumption
  <1>3. m \in ArrivingMessage /\ m.got = 1 /\ m.size = x[3] /\ s \in Streams /\ x[3] \in Nat \ {0}
    BY <1>2 DEF ArrivingMessage
  <1> HIDE DEF m, s
  <1>4. ASSUME lawful' PROVE m.got \in 1..m.size /\ Continues(s, m)
    <2>1. lawful /\ ~ Confused(s, m)
      BY <1>1, <1>4 DEF HandOver
    <2>2. Kept(m) = << >>
      <3>1. CASE messageBuffer # << >> /\ m.ssn = lastSsn
        <4>1. messageBuffer[Len(messageBuffer)] = <<s, m.got - 1>>
          BY <2>1, <3>1 DEF Confused
        <4>2. PICK t \in Streams : HeldOf(t)
          BY <2>1, <3>1 DEF Inv, ChunksInOrder
        <4>3. PICK a \in 1..arriving[t].got : messageBuffer = Run(t, a, arriving[t].got)
          BY <4>2 DEF HeldOf
        <4>4. arriving[t].got \in Nat \ {0}
          BY <2>1, <4>2 DEF Inv, ChunksInOrder, HeldOf, InOrder, TypeOK, ArrivingMessage
        <4>5. messageBuffer[Len(messageBuffer)] = <<t, arriving[t].got>>
          BY <4>3, <4>4, RunResult
        <4>6. arriving[t].got = m.got - 1
          BY <4>1, <4>5
        <4> QED
          BY <1>3, <4>4, <4>6
      <3>2. CASE ~ (messageBuffer # << >> /\ m.ssn = lastSsn)
        BY <3>2 DEF Kept
      <3> QED
        BY <3>1, <3>2
    <2>3. Append(Kept(m), <<s, m.got>>) = Run(s, 1, m.got)
      BY <1>3, <2>2, RunOfOne
    <2>4. m.got \in 1..m.size /\ 1 \in 1..m.got
      BY <1>3
    <2> QED
      BY <2>3, <2>4 DEF Continues
  <1> QED
    BY <1>1, <1>3, <1>4, ChunkContinues

\* The next chunk of a message finds the chunks before it in the buffer, or
\* those that came since chunks of another message were last handed over.
LEMMA NextChunkInv ==
    ASSUME Inv, NEW s \in Streams, NextChunk(s)
    PROVE  Inv'
  <1> DEFINE r == arriving[s]
             m == [r EXCEPT !.got = @ + 1]
  <1>1. r # None /\ HandOver(s, m)
    BY DEF NextChunk
  <1>2. r \in ArrivingMessage
    BY <1>1 DEF Inv, TypeOK
  <1>3. /\ m \in ArrivingMessage /\ m.got = r.got + 1 /\ m.size = r.size
        /\ m.ssn = r.ssn /\ m.cut = r.cut /\ r.got \in Nat /\ r.size \in Nat /\ r.cut \in BOOLEAN
    BY <1>2 DEF ArrivingMessage
  <1> HIDE DEF m
  <1>4. ASSUME lawful' PROVE m.got \in 1..m.size /\ Continues(s, m)
    <2>1. lawful /\ ~ Confused(s, m)
      BY <1>1, <1>4 DEF HandOver
    <2>2. /\ r.got \in 1 .. r.size - 1
          /\ ~ r.cut => lastSsn = r.ssn /\ messageBuffer = Run(s, 1, r.got)
      BY <1>1, <2>1 DEF Inv, ChunksInOrder, InOrder
    <2>3. m.got \in 1..m.size /\ r.got \in Nat \ {0} /\ m.got \in Nat \ {0} /\ m.got - 1 = r.got
      BY <1>3, <2>2
    <2>4. CASE messageBuffer # << >> /\ m.ssn = lastSsn
      <3>1. messageBuffer[Len(messageBuffer)] = <<s, r.got>> /\ Kept(m) = messageBuffer
        BY <2>1, <2>3, <2>4 DEF Confused, Kept
      <3>2. PICK t \in Streams : HeldOf(t)
        BY <2>1, <2>4 DEF Inv, ChunksInOrder
      <3>3. PICK b \in 1..arriving[t].got : messageBuffer = Run(t, b, arriving[t].got)
        BY <3>2 DEF HeldOf
      <3>4. arriving[t].got \in Nat \ {0}
        BY <2>1, <3>2 DEF Inv, ChunksInOrder, HeldOf, InOrder, TypeOK, ArrivingMessage
      <3>5. messageBuffer[Len(messageBuffer)] = <<t, arriving[t].got>>
        BY <3>3, <3>4, RunResult
      <3>6. t = s
        BY <3>1, <3>5
      <3>7. PICK a \in 1..r.got : messageBuffer = Run(s, a, r.got) /\ (r.cut \/ a = 1)
        <4>1. CASE r.cut
          BY <3>3, <3>6, <4>1
        <4>2. CASE ~ r.cut
          BY <2>2, <2>3, <4>2
        <4> QED
          BY <4>1, <4>2
      <3>8. Append(Kept(m), <<s, m.got>>) = Run(s, a, m.got)
        <4> HIDE DEF r
        <4>1. Append(Run(s, a, r.got), <<s, r.got + 1>>) = Run(s, a, r.got + 1)
          BY <2>3, RunResult
        <4> QED
          BY <1>3, <3>1, <3>7, <4>1
      <3>9. a \in 1..m.got
        BY <2>3
      <3> HIDE DEF r
      <3> QED
        BY <1>3, <2>3, <3>7, <3>8, <3>9 DEF Continues
    <2>5. CASE ~ (messageBuffer # << >> /\ m.ssn = lastSsn)
      <3>1. Kept(m) = << >>
        BY <2>5 DEF Kept
      <3>2. Append(Kept(m), <<s, m.got>>) = Run(s, m.got, m.got)
        BY <2>3, <3>1, RunOfOne
      <3>3. m.cut
        <4> SUFFICES ASSUME ~ r.cut PROVE FALSE
          BY <1>3
        <4>1. lastSsn = r.ssn /\ messageBuffer = Run(s, 1, r.got) /\ 1 \in 1..r.got
          BY <2>2, <2>3
        <4>2. messageBuffer # << >>
          BY <2>3, <4>1, RunResult
        <4> QED
          BY <1>3, <2>5, <4>1, <4>2
      <3>4. m.got \in 1..m.got
        BY <2>3
      <3> QED
        BY <2>3, <3>2, <3>3, <3>4 DEF Continues
    <2> QED
      BY <2>4, <2>5
  <1> QED
    BY <1>1, <1>3, <1>4, ChunkContinues

----------------------------------------------------------------------------
(* The theorems.                                                           *)

LEMMA InitInv == Init => Inv
  <1> SUFFICES ASSUME Init PROVE Inv
    OBVIOUS
  <1>1. DataConsumers = {} /\ DOMAIN routes = {}
    BY DEF Init, DataConsumers
  <1>2. TypeOK
    <2>1. <<>> \in Seq(Chunk)
      OBVIOUS
    <2>2. streamIdTable \in [Streams -> Producers \cup {None}]
      BY DEF Init
    <2>3. consumers \in [Consumers -> DataConsumer \cup {None}]
      BY DEF Init
    <2>4. os \in 1..MaxSctpStreams /\ desiredOs \in 0..MaxSctpStreams /\ adding \in 0..AddedStreams
      BY DataAssumption DEF Init
    <2>5. /\ messageBuffer \in Seq(Chunk) /\ arriving \in [Streams -> ArrivingMessage \cup {None}]
          /\ buffered \in Nat
      BY <2>1 DEF Init
    <2>6. connected \in BOOLEAN /\ lawful \in BOOLEAN /\ intact \in BOOLEAN
      BY DEF Init
    <2>7. state \in {"new", "connecting", "connected", "failed", "closed"}
      BY DEF Init
    <2> QED
      BY <1>1, <2>2, <2>3, <2>4, <2>5, <2>6, <2>7 DEF TypeOK
  <1>3. DataMapsAgree
    BY <1>1, DataAssumption DEF Init, DataMapsAgree, Open
  <1> QED
    BY <1>1, <1>2, <1>3 DEF Init, Inv, DataConsumersInformed, LowIsTold, ChunksInOrder, MessagesWhole

LEMMA NextInv == Inv /\ [Next]_vars => Inv'
  <1> SUFFICES ASSUME Inv, [Next]_vars PROVE Inv'
    OBVIOUS
  <1>1. CASE \E n \in 1..OS : CommUp(n)
    BY <1>1, CommUpInv
  <1>2. CASE \E st \in {"closed", "failed"} : CommLost(st)
    BY <1>2, CommLostInv
  <1>3. CASE \E granted \in BOOLEAN : StreamChange(granted)
    BY <1>3, StreamChangeInv
  <1>4. CASE \E p \in Producers, s \in Streams : ProduceData(p, s)
    BY <1>4, ProduceDataInv
  <1>5. CASE \E p \in Producers : CloseDataProducer(p)
    BY <1>5, CloseDataProducerInv
  <1>6. CASE \E c \in Consumers, p \in Producers, s \in Streams : ConsumeData(c, p, s)
    BY <1>6, ConsumeDataInv
  <1>7. CASE \E c \in Consumers : CloseDataConsumer(c) \/ Send(c)
    BY <1>7, CloseDataConsumerInv, SendInv
  <1>8. CASE \E c \in Consumers, t \in Thresholds : SetBufferedAmountLowThreshold(c, t)
    BY <1>8, SetBufferedAmountLowThresholdInv
  <1>9. CASE \E a \in 0..buffered \cup 0..MaxBuffered : OnUsrSctpSentData(a)
    BY <1>9, OnUsrSctpSentDataInv
  <1>10. CASE \E x \in Messages : FirstChunk(x[1], x[2], x[3])
    BY <1>10, FirstChunkInv
  <1>12. CASE \E s \in Streams : NextChunk(s)
    BY <1>12, NextChunkInv
  <1>11. CASE UNCHANGED vars
    <2>1. /\ UNCHANGED <<connected, streamIdTable, routes, consumers, buffered>>
          /\ UNCHANGED <<state, os, desiredOs, adding>> /\ UNCHANGED chunkVars
      BY <1>11 DEF vars, sctpVars
    <2>2. ChannelsInv'
      BY <2>1 DEF Inv, ChannelsInv, DataMapsAgree, DataConsumersInformed, LowIsTold,
         DataConsumers, Open
    <2> QED
      BY <2>1, <2>2, OperationKeepsInv DEF Inv, TypeOK
  <1> QED
    BY <1>1, <1>2, <1>3, <1>4, <1>5, <1>6, <1>7, <1>8, <1>9, <1>10, <1>11, <1>12,
       ConnectedInv, DisconnectedInv DEF Next

\* The inductive invariant, for all data producers, data consumers and sizes.
THEOREM Invariance == Spec => []Inv
  <1>1. Init => Inv
    BY InitInv
  <1>2. Inv /\ [Next]_vars => Inv'
    BY NextInv
  <1> QED
    BY <1>1, <1>2, PTL DEF Spec

\* The stream table, the router's maps and the data consumers agree, and every
\* data consumer knows the state of the transport and of the association
\* (DataChannelsConsistent).
THEOREM ChannelsAlwaysConsistent == Spec => []DataChannelsConsistent
  <1>1. Inv => DataChannelsConsistent
    BY DEF Inv, DataChannelsConsistent
  <1> QED
    BY <1>1, Invariance, PTL

\* No 'bufferedamountlow' event is lost, however many amounts are reported
\* while one message is passed on (LowIsTold).
THEOREM LowAlwaysTold == Spec => []LowIsTold
  <1>1. Inv => LowIsTold
    BY DEF Inv
  <1> QED
    BY <1>1, Invariance, PTL

\* Messages are put together of their own chunks, for every largest size
\* (MessagesWhole).
THEOREM MessagesAlwaysWhole == Spec => []MessagesWhole
  <1>1. Inv => MessagesWhole
    BY DEF Inv
  <1> QED
    BY <1>1, Invariance, PTL
=============================================================================
