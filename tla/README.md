# A verification project for mediasoup-sfu-cpp

mediasoup-sfu-cpp is a selective forwarding unit for WebRTC in one process.
The **worker** (`src/worker`, C++ of mediasoup) receives and forwards media; it
is single-threaded and driven by a libuv loop.  The **control library**
(`src/mediasoup`, a C++ port of mediasoup's Node.js part) offers routers,
transports, producers and consumers as objects and turns calls on them into
requests that go to the worker through a pipe.  A demo server (`src/demo`) and a
signalling library (`src/protoo`) use the control library.

The modules here model the parts in which order, time and failure matter.  TLC
checks them on small instances (the runs of `PROJECT.json`), TLAPS proves their
safety properties for all values of the constants.  `PROJECT.json` also gives,
for each definition, the source lines it stands for.

Run TLC with `tlc -config Router.cfg Router`, TLAPS with `tlapm RouterProofs.tla`.

## 1. The system

| Part | State | Operations | Used by, uses |
|---|---|---|---|
| `KeyFrameRequestManager` | per stream a pending request and a delayer, with a timer each | `KeyFrameNeeded`, `ForceKeyFrameNeeded`, `KeyFrameReceived`, two timeouts | called by `Producer`, calls it back to send PLI/FIR |
| `NackGenerator` | list of missing packets, key frames and recovered packets by wrapping sequence number, a timer | `ReceivePacket`, `UpdateRtt`, `Reset`, `OnTimer` | called by `RtpStreamRecv`, calls it back to send NACK or ask for a key frame |
| `IceServer` | tuples, selected tuple, ICE state, new and old credentials | STUN packets, `RestartIce`, `RemoveTuple`, `ForceSelectedTuple` | owned by `WebRtcTransport`, which hears of state changes |
| `DtlsTransport` | DTLS state, role, handshake, timer, remote fingerprint | `Run`, `SetRemoteFingerprint`, `ProcessDtlsData`, `OnTimer`, `Reset` | owned by `WebRtcTransport`; OpenSSL does the handshake |
| `WebRtcTransport` | DTLS role, SRTP sessions, whether `connect` was called | `connect`, `restartIce`, packets of three kinds, closed TCP connections | tells `Transport` when it is connected |
| `Router`, `Transport` | maps of raw pointers between transports, producers, consumers, data producers, data consumers and observers | creation, pause and closing of each | each deletes its own and must be told by the others |
| `Producer`, `RtpStreamRecv` | pause flag; score, inactivity timer | pause, resume, packets, score updates | feed the consumers through `Router` |
| `SimpleConsumer` | pause flags, `syncRequired`, pointer to the producer's stream | pause, resume, (dis)connection, packets | asks the producer for key frames |
| `SimulcastConsumer` | preferred, provisional, target and current layers, `syncRequired`, reference of the time stamps | layer changes by score, report, preference and bitrate, packets | as `SimpleConsumer`; `Transport` distributes the bitrate |
| `SeqManager`, `RtpStream`, `RtpStreamSend` | renumbering, cycles and highest numbers, buffer of sent packets | `Input`, `Sync`, `Drop`; `UpdateSeq`; `StorePacket`, `FillRetransmissionContainer` | consumers; streams of producers and consumers |
| `RtpListener`, streams of `Producer` | SSRC, MID and RID tables; streams by SSRC, RTX SSRC and encoding | add, remove and look up producers; find or create the stream of a packet | `Transport` |
| `SctpAssociation`, `DataProducer`, `DataConsumer` | association state, number of streams, buffered amount, message being put together | association and stream events, chunks, sending, thresholds | `Transport`, `Router`; usrsctp |
| `TcpConnection`, `Channel::ConsumerSocket`, `ChannelAgent::OnRead` | a buffer and the place of the next frame in it | read, parse | the transports, the worker, the control library; libuv |
| `ChannelAgent`, `ChannelTimer` | requests in progress, one promise, one timer flag, detached threads | `request`, answers, timeouts | application threads, loop thread, timer threads |
| `Mediasoup` (loop) | list of messages to write, async handle | `Send`, its callback, `Destroy` | every agent of every worker |
| `SvcConsumer`, `PipeConsumer` | as `SimulcastConsumer` and `SimpleConsumer` | | not modelled |
| `PortManager` | used ports per address | bind, unbind | not modelled |
| control library's `Router`, `Transport`, proxies | mirrors of the worker's objects; SCTP stream ids | requests, cascades of close events | not modelled |

What is hard in this system, and the properties that make the parts correct:

* **Time.** Timers fire late, are stopped and restarted around other events, and
  two timers of one object interact (`KeyFrameRequestManager`, `NackGenerator`,
  `DtlsTransport`, `RtpStreamRecv`).  Nothing asked for may be forgotten, retries
  must end, rate limits must hold, and a timer that has to run must run.
* **Order of events from different sources.** The peer (ICE, DTLS, media), the
  application (`connect`, `pause`, `close`) and the network act in any order.  What
  one object was told of another must stay true, media must flow only through
  verified and current keys, and forwarding must start at a key frame.
* **Ownership.** Three classes keep raw pointers to objects another one deletes.
  No map may keep a pointer to a deleted object, whatever is closed in which order.
* **Threads.** In the control library application threads, the loop's thread
  and timer threads share state, part of it without locks.  A caller must get its
  own answer, once, and within bounded time.
* **Wraparound.** Sequence numbers are compared modulo 2^16, by an order that is
  not transitive.
* **Pieces.** Messages come in chunks (SCTP) and bytes in reads (TCP, pipes), cut
  anywhere, and buffers end anywhere in them.

`PROJECT.json` lists each hazard at its source line with the properties that
cover it; three have a note instead, because the code does what must not happen
(section 4).

## 2. The modules

**`KeyFrameRequestManager`.** The two maps are sets of streams, the flags of
their entries subsets of them, timers the number of ticks left.  `Tick` is not
blocked by a due timer because libuv fires late.  History variables remember
when requests were made and which needs are still owed.  `Recreate` is the
destruction of the manager and the construction of the next.

**`SeqArith`, `NackGenerator`.** `SeqArith` holds the comparison of
`SeqManager<uint16_t>` over a circle of `SeqMod` numbers (2^16 in the code, 12
or 16 in the runs, with all distances scaled so that the code's proportions
hold: `MaxAhead + MaxPacketAge <= Half`, as `RtpStream::UpdateSeq` guarantees
with `MaxDropout`).  The ordered sets of the code are sets; "lower bound" and
"first" are taken with the wrapping comparison.  `sentAtMs` is the age of an
entry, saturating at the largest round trip time.  A packet is one of four
actions, by the early returns of `ReceivePacket`.

**`IceServer`.** Tuples are a sequence, as the code's list.  A STUN packet is
abstracted to what the code distinguishes: the credentials it was signed with,
whether it has USE-CANDIDATE, and whether it is malformed, unauthorized or in
role conflict.  Credentials are numbered by restart.

**`DtlsTransport`, `WebRtcTransport`.** The DTLS transport is a record with
operators on it, since its callbacks go to the transport that owns it and, but for
one, not back.  The one: when DTLS is connected, `Transport::Connected`
(`Transport.cpp:1551`) lets usrsctp connect (`SctpAssociation.cpp:311`), which sends through
`SSL_write`.  Should that fail at once (`DtlsTransport.cpp:849` to `854`), the reset comes
within the callback, and the caller goes on to the assertion at line 1025; the model has
the failure of a `SSL_write` as a step of its own afterwards (`SendDataFails`).  OpenSSL is an
`Outcome` of each call.  `WebRtcTransport` has one
action per event of the loop, composed of the ICE server's action and the
handlers it calls.  OpenSSL gives up after `DTLS1_TMO_ALERT_COUNT` = 12 timeouts
(`MaxTimeouts` in the model, 2 in the runs).  `onSslDtlsTimer` caps timeouts at
6.4 seconds, so the branch of `SetTimeout` for 30 seconds and more is dead code:
the operator has it, no run reaches it.

**`Router`.** A pointer is a pair of transport and id, so that equal ids in two
transports are told apart, as they are by address.  Each request runs to its end
with all its callbacks in one action.  Requests that throw change nothing.  The
model assumes that a transport calls `Connected()` and `Disconnected()` when
`IsConnected()` changes: for the WebRTC transport that is `ParentKnowsConnected`
and `DisconnectionReported`.  The asynchronous part of closing (a worker that
must send notifications) needs no action, because the worker is single-threaded.

**`RtpListener`, `RtpReception`.** `RtpListener` has the three tables as a record
with operators on it: `AddProducer` enters what it can up to the first clash and
then takes it back, `LookUp` and `Learned` are `GetProducer`.  `RtpReception` is the
transport that uses them, with the part of `Producer` that gives a packet to one of
its streams (`GetRtpStream`): by SSRC, by RID, or as the only stream.  A producer is
its address, which can be used again after it is deleted; a stream is the index of
its encoding.  A packet is what the code reads of it: SSRC, MID, RID and payload
type.  `MCRtpReception` lists the kinds of RTP parameters for TLC.  RTCP reports look
up the same tables and change none of this state.

**`SimpleConsumer`, `KeyFrames`.** `SimpleConsumer` is one producer with one stream
and one consumer, for a codec with key frames.  The pointer `producerRtpStream` is
told apart from the stream's existence, the consumer's copy of the pause from the
producer's.  `synced` says whether the peer could decode what it got.  `KeyFrames`
composes it with `KeyFrameRequestManager`: a consumer that needs a key frame makes the
producer call the manager, a key frame that arrives reaches both, and the manager's
timers run in between.  A step of the composition is a step of each part or leaves
it alone, so the invariants of the manager carry over.  Packets of a payload type the
consumer does not know (`SimpleConsumer.cpp:242`) are not among the inputs, and the sending
stream takes every packet that is forwarded (line 294).  The requests that the NACK
generator makes past the manager (`RtpStreamRecv.cpp:846`) are not limited in rate.

**`SimulcastConsumer`.** One consumer of a producer with a stream per spatial layer.
A stream is known or not, has a score (dead, poor or good: 0, 1 to 4, 5 and more) and a
last sender report.  Each report replaces the one before (`RtpStreamRecv.cpp:527`), so that
one without a time withdraws what an earlier one gave; the assertions of `SendRtpPacket`
that then fail are the action `NoSenderReport`, which ends the worker.  Layers are pairs;
`None` is -1.  Where the code compares bitrates, ages or
time stamps, the model takes every outcome: the layers that
`RecalculateTargetLayers` may take for any set of young streams, the provisional
layers `IncreaseLayer` may reach for any bitrate, and a time stamp that is too far or
not.  `Filtered` is the part of the VP8 payload descriptor handler that drops temporal
layers.  What it drops leaves its picture id and its TL0PICIDX in the managers of these
ids, and packets that come later with a dropped id are dropped as well (`VP8.cpp:293` to
`314`): `Skipping` says that there is such a group, `MayBeDropped` which packets can be of
it, and `got` what has reached the peer.  Assumed of packets: descriptors carry both ids or
none, key frames have temporal layer 0 or none and are not late (a sender that does
otherwise has its layer lowered at `VP8.cpp:331` without an event).  Left out: packets
of unknown payload types (`SimulcastConsumer.cpp:657`), a sending stream that rejects a packet
(892), packets that make a stream known while its producer is paused, which of two poor
scores is the worse one, and the wait of `IncreaseLayer` for streams that are too young
(450 to 467).  The last two only narrow the choice of layers, which no property depends on.
All handlers run to their end with the events they emit; `told` is what the
application was last told.

**`SeqManager`, `RtpSending`.** `SeqManager` has `Input`, `Sync` and `Drop` as operators on
a record.  `std::set` with a comparison that is no order on the stored numbers may
find any element, so `Inputs` is the set of possible results; `IsChain` (of `SeqArith`)
says when there is only one.  `RtpSending` follows a packet from the producer's
stream (`UpdateSeq`) through a consumer (`Sync` after a stop, `Drop` by the codec,
`Input`) into the sending stream and its buffer (`StorePacket`, `ClearBuffer`,
`FillRetransmissionContainer`).  Packets are integers and numbers are taken
modulo `SeqMod`, so that what the 16-bit code computes can be compared with
what it stands for.  A time stamp grows by one with each packet.  Packets of `Oversized` are
larger than `MtuSize`: they are sent and not stored.  The age of a stored packet is taken
modulo `AgeMod`, since `diffTs * 1000` is computed in 32 bits.  `Late` and `Ahead`
bound how far the network puts packets out of order, by less than a circle.

**`DataChannels`.** One association on one transport, with the maps of the router and
the stream table.  The association's state, the number of streams that were
negotiated and those that were asked for are kept apart, usrsctp's events come in any
order its states allow; their number stays within 16 bits, as in the code.  A call
that reports several buffered amounts is `AfterAmounts`, one after the other.

A message is its chunks, of one unit each.  usrsctp, which is in `src/deps`, hands a long message
over in parts, each stream on its own, and hands a message that came in one piece over at
once, past those of which a part is missing (`sctp_indata.c:1125` to `1305`, `2150` to `2172`).  So
`arriving` has a message per stream, and the chunks of several messages can alternate; a
message that was interrupted is `cut`.  `lawful` becomes false when a message is larger than
allowed, or a chunk finds others in the buffer that are not those before it and have its
SSN.  Control messages (ppid 50) change nothing.  `MCDataChannels` adds the messages the
remote may send and the symmetry of the ids.

**`StreamFraming`.** The three places that cut messages out of a stream of bytes,
told apart by `reader`.  A byte is the pair of its frame and its place in the frame,
so that a step can be checked to hand over just the bytes that were sent.  Each
pass of a parsing loop is a step.  The buffer of the worker's sockets is its first
`bufferDataLen` bytes, that of the agent its string.  `PayloadChannel` has the same
code as `Channel` and is not modelled a second time.

**`RequestService`.** What a caller of `request()` may rely on, in three actions: a
request is submitted, taken up by the worker or not, and returns with its own
answer or with a timeout.  `ChannelAgent` implements it (`ImplementsService`) with
the mapping `Service`, until an answer and a timeout meet (`raced`).

**`ChannelAgent`.** The threads are the one inside `request()` (others wait for
`m_mutex`), the loop's thread in `processMessage`, and one detached thread per
timeout.  Each access to shared state is an action; a single call of `std::map` is
taken as atomic.  Two threads that erase the same element are undefined
behaviour, modelled as a choice between a crash and going on (`raced`).
Answers whose bytes `OnRead` throws away are the action `Discard`; how bytes become
messages is `StreamFraming`.  A timer's 15 seconds are assumed to outlast the statement between starting it
and inserting the request.

**`MediasoupLoop`.** `uv_async_send` is modelled by its documented contract:
calls made before the callback runs are merged.  A message is the pair of agent
and number.  A message whose write failed is pushed back without `mutex_writebuf_`
(`Mediasoup.cpp:240`), under which `Send` pushes (202 to 209): `WriteFailed` and `PushedBack` are the
beginning and the end of that push.  A `Send` in between overlaps with it (`overlapped`), and then
either push may be lost, and the list's size may be wrong from then on.  `MayGiveUp` says whether an
agent may time out and send again while
the loop still has its message; `FewLeftBehind` speaks of agents that do not.

## 3. What the runs check

| Run | Question | Bounds |
|---|---|---|
| `key_frames` | Is what is forwarded decodable, is every need for a key frame remembered, limited in rate, retried a bounded number of times and served in the end, is silence noticed? | one stream and one consumer; the delay covers two retransmission periods, so that both timers of the manager run at once and end in either order |
| `nack_generator` | Are the right packets asked for, given up only for a reason, and does every entry leave the list? | circle of 16, window 4, 2 entries, so that overflow, ageing and wraparound all occur |
| `webrtc_transport` | Are ICE, DTLS, SRTP and what others know of them consistent? | 2 tuples, so that the selected one can close with another left; 1 restart, so that both credentials are in use; OpenSSL gives up after 2 |
| `router` | Do maps, pauses, connections and observers agree? | 2 transports, 2 producer and 2 consumer ids in each, 1 observer: same ids in two transports, a consumer beside and away from its producer |
| `rtp_reception` | Does a packet reach its producer and its stream, and no SSRC change hands? | 2 producers, 8 kinds of RTP parameters (a kind for each path through `AddProducer` and `GetRtpStream`), SSRCs 0 to 3 with 0 as "not given", 2 MIDs, 2 RIDs |
| `simulcast_consumer` | Do switches happen at key frames that were asked for, do the assertions of `SendRtpPacket` hold unless a report was withdrawn, does the application know the layers? | 2 spatial and 2 temporal layers: a layer to leave, one to go to, and an upgrade within one; the application prefers the lowest layers or the highest; the reports of the lower stream may be without a time |
| `rtp_sending` | Are numbers rewritten without gaps, are cycles counted, is what is sent again what was asked for? | circle of 12, 3 stored packets, first packets 9 and 24, packets up to 25: the streams begin in the middle and at 0, and both the numbers that come in and those that go out wrap around; two packets too large to be stored; ages overflow at 14, more than a circle, so that packets of the round before are held back by their age and older ones are not |
| `seq_reordering` | *violated:* is a packet renumbered right after a later one was dropped? | 1 drop |
| `data_channels` | Do maps and flags agree, is `bufferedamountlow` never lost, are messages put together right? | 2 data producers, 2 data consumers, 2 streams of which 1 is there from the beginning; messages of 1, 2 and 3 chunks, of which 2 are allowed, alternating on both streams with equal and different SSNs |
| `stream_framing` | Does the listener get every frame, whole, once and in order, wherever reads and buffers end? | buffer of 6 bytes; frames of 2 (nothing but a header), 3, 4, 6 (the buffer) and 7 (more), 4 of them: a frame can end before, at and after the end of the buffer with others on both sides |
| `channel_agent` | Does every caller get its own answer, does every request return, is the abstract service implemented? | 3 requests: the one in progress, one whose timer was stopped, one that timed out |
| `mediasoup_loop` | Is each message in one place, how many can merged wakeups leave behind, does `Destroy` end? | 2 agents, 2 messages each, `MAXLISTSIZE` 1, 1 failing write, whose push meets those of both agents |

The ICE server and the key frame manager have no run of their own: their
properties are checked where they run, inside the transport and inside
`KeyFrames`.  Type invariants, and the invariants that only make others inductive
(`TuplesDistinct`, `SelectionAnnounced`, `ClientIsTimed`, ...), are parts of the
invariants that section 5 proves.

Some checked properties are conjunctions of named parts that say one thing
together: `CredentialsInOrder`, `RunsInItsRole`, `ConnectionVerified` and
`EveryoneKnows` (of `WebRtcTransport`), `MapsConsistent` and `FollowersInformed` (`Router`),
`TablesSound` (`RtpReception`), `MessagesAccounted` (`MediasoupLoop`), `NackListRight`
(`NackGenerator`), `StreamsCountRight` (`RtpSending`), `DataChannelsConsistent`
(`DataChannels`), `FramesAccounted` (`StreamFraming`).

Scaled constants (`MaxNackPackets`, `MAXLISTSIZE`, buffers, the periods of timers)
keep their relations to each other; what a property compares is these relations.
Runs that disable the deadlock check model something that may stop: a worker
after a failed assertion, a finished number of requests, packets or frames.

**Fairness.** `KeyFrames` and `NackGenerator`: time passes and libuv fires due timers.
`ChannelAgent`: the operating system runs each thread that can run; nothing is
assumed of the worker, so that answers may be lost.  `MediasoupLoop`: a thread inside
`Send` goes on, and the loop runs a pending callback.  `StreamFraming`: libuv reads
while there is something to read, and a loop that has begun goes on.  No
fairness is assumed of peers, applications or the network.

### Exceptions the properties state

* A request and its timeout that meet between `find` and `erase` both answer
  (`raced`): `m_sents_mutex` is declared and never used.  The properties of
  `ChannelAgent`, and the refinement, hold as long as that has not happened.
* Two pushes that overlap may lose messages of the list in `Mediasoup` (`overlapped`);
  `MessagesAccounted` says that nothing is lost before, and nothing doubled at any time.
* A stream whose score falls to 0 and recovers makes its consumers inactive and
  active again without a notice (`SimpleConsumer.hpp:31`, `scoreDropped`), so packets in
  between are lost without a new key frame being awaited: `ForwardsDecodable` and
  `WaitingIsRemembered` except it.
* A producer with a MID is not promised its RIDs: when an earlier producer has one,
  only the MID tells them apart, and when that one is closed the RID leads nowhere
  (`DeclaredGoToOwner` promises RIDs only without a MID).
* Packets of a paused producer restart its stream's inactivity timer, so the timer
  may run during a pause; `InactivityNoticed` is about unpaused ones.
* A stream whose first sequence number is 0 counts a cycle at once, since
  `ReceivePacket` sets `maxSeq` to 65535 (`RtpStream.cpp:121`, `:184`); `ExpectedIsRight` excepts
  it.  After a jump (`jumped`) `InitSeq` keeps the cycles, and the properties of `RtpSending`
  about counting end there.
* `RenumberingExact` holds as long as the set of dropped numbers was in order
  whenever it was searched (`comparable`); `seq_reordering` shows that it need not be.
* Packets larger than `MtuSize` are sent and not stored (`RtpStreamSend.cpp:269` to `279`):
  `SentIsStored` is about the others, and about what these leave of the buffer.
* The check of a stored packet's age overflows after 2^32 / 1000 ticks of the clock, 47
  seconds at 90 kHz (`RtpStreamSend.cpp:447`).  `RetransmissionIsRight` holds for younger
  packets.  It says something where a circle of numbers is shorter than that, as in the run:
  above 1400 packets per second for video.  A slower stream comes to the same
  numbers only after the overflow, and there the code promises nothing.
* `MessagesWhole` is about runs in which no message was too large and none could be
  confused (`lawful`): the tail of a message that is too large is delivered, and chunks of
  messages with equal SSNs are put together.  Of a message between the chunks
  of which others came (`cut`) it says only that what is delivered is its end, in order.
* A sender report without a time after one with a time makes the assertions of
  `SendRtpPacket` fail (`SimulcastConsumer.cpp:715`, `:718`), and the worker aborts.
  `ReportsForSync` says that nothing else does.
* A packet of the base layer that was overtaken by a packet of its group which was not
  wanted is dropped with the group, and the peer sees no gap.  `LayersDecodable` lets the peer
  miss such packets (`got` is "hidden") and no others.
* When the scores of all streams of a simulcast consumer fall to 0 while its bitrate is
  managed, the transport leaves it its target layers, and nothing makes it wait for a
  key frame when they recover (`outlived`): `LayersDecodable` and `SwitchIsAsked` except it.
* A data consumer's `bufferedAmount` is 0 until the association reports one (`fresh`).
* `FramesAccounted` lets a frame that is larger than the buffer close a TCP connection
  or empty the buffer of a channel, and lets the agent throw bytes away: it clears
  everything it has when it finds "running", and when it has more than
  `NS_PAYLOAD_MAX_LEN` bytes.

## 4. What does not hold

One run expects a violation.  `seq_reordering`: `Input` first deletes the dropped numbers
that are older than half the circle, but a dropped number just above the input passes
for one of those, so that a packet that was overtaken by a dropped one gets a number
that was used.

These are stated in the modules as properties ("Not true", "the code violates
this") that no run checks, each found with TLC:

* `SkippedOnlyIfRecovered` (`NackGenerator`): `recoveredList` is pruned only when another
  recovered packet arrives (`NackGenerator.cpp:108`), so an entry can survive a
  wraparound and suppress the NACK for a packet that was never recovered.
* `FingerprintProvided` (`WebRtcTransport`): `connect` with an empty list of fingerprints
  (`WebRtcTransport.cpp:454`) reaches the assertion of `SetRemoteFingerprint`
  (`DtlsTransport.cpp:751`), which ends the worker.
* `TimerSetAgain` (`WebRtcTransport`): when OpenSSL gives up on a client handshake, the
  timer is not set again (`DtlsTransport.cpp:1464`), and the transport stays in state
  connecting.
* `QueuedIsWritten` (`MediasoupLoop`): merged wakeups of two agents leave a message in
  the list until the next `Send` (`Mediasoup.cpp:173`).  `FewLeftBehind` gives the extent:
  fewer messages stay behind than there are agents.  The demo makes its requests
  through one agent, so none do.
* `ReportsStay` (`SimulcastConsumer`): no assertion of `SendRtpPacket` ever fails, as the note
  before them says.  One does when the last report of a stream has no time.
* `NothingHidden` (`SimulcastConsumer`): see the exception of `LayersDecodable` above.
* `TargetIsBest` (`SimulcastConsumer`): the target is chosen again only at some of the
  events that make a better layer possible.
* `DeferredIsAsked` (`DataChannels`): at `SCTP_COMM_UP` the streams that were asked for before
  are requested while the state is still CONNECTING (`SctpAssociation.cpp:742`), so
  they are deferred once more, and nobody asks later.
* `NoPartOfMessage` (`DataChannels`): a message is delivered whole or not at all.  A message of
  another stream that comes between its chunks makes the association discard what it has
  (`SctpAssociation.cpp:644`) and deliver the rest as a message (676).
* `OverflowHarmless`, `TooOldNotResent` (`RtpSending`): a packet is sent again only for the
  number the peer means, and only while it is younger than `MaxRetransmissionDelay`, as the
  comment in `FillRetransmissionContainer` says.  Neither holds once the age has overflowed.

Met on the way, without a property of their own:

* An encoding with both an SSRC and a RID can get a stream through its RID with
  another SSRC; the first packet with its declared SSRC then fails the assertion
  "RtpStream for given encoding index already exists" of `CreateRtpStream`, which
  ends the worker (action `EncodingInUse`, reached in `rtp_reception`).
* A late packet older than `bufferStartIdx` stays in the send buffer for a cycle
  (`RtpStreamSend.cpp:322`); only the check of its age keeps it from being resent as
  another packet.
* When a switch of layers is put off because of its time stamps (`SimulcastConsumer.cpp:776` to
  `788`), `syncRequired` stays set, and the next key frame of the current layer is
  synchronised with the sender report of the target's stream.
* A frame of 65535 bytes fits the length field and not the buffer of a TCP
  connection.  The worker may send messages of up to 4194313 bytes, the agent gives
  up its buffer at 4194304.
* Resuming a producer asks for a key frame twice.  Parents of a WebRTC transport are
  told at `WebRtcTransport.cpp:532` only that it is connected.
* In data channels: a refused `SCTP_ADD_STREAMS` is never tried again; closing a data
  producer resets the outgoing stream of the same number; a `DATA_CONSUMER_SEND` to an
  inactive data consumer is never answered; `consumeData` of the control library
  always throws, because `Transport.hpp:1034` takes a JSON object for a bool.
* `GetProducer` notes that it may override an SSRC, which it cannot, since it has just
  not found it; `DestroyMediasoup` calls `Destroy` only for a null pointer;
  `StaticOnReadCB` locks `m_mutex_writebuf` and never unlocks it; the comment in
  `Router::OnTransportConsumerProducerClosed` says that an entry of
  `mapProducerConsumers` has already been removed which is removed later;
  `ChannelAgent::request` only logs that a request is too big; a `PlainTransport` cannot
  be created, since its constructor throws when `announcedIp` is given and dereferences
  `end()` when it is not.

## 5. What is proved

Each proof module states an inductive invariant, proves that every action
preserves it (a lemma per action or per piece of an action), and derives the
properties.  All hold for every value of the constants; what is assumed of the
constants is in the named `ASSUME`s, which TLC evaluates in every run.

* **`KeyFramesProofs`**, first about the manager alone, from its `Inv` = type, `TimersCoverHistory`,
  `RequestBudget`, `NeedIsRecorded`.  The properties about spacing speak of the
  past; they are inductive only with `TimersCoverHistory`: what is left of a timer
  and the time since the request make up at least its period, and where there is
  no timer the period is over.  The bound of three comes from a budget: requests
  made on its own plus those the recorded flags can still cause.
  For the composition, the consumer's part is strengthened by `Linked` (what the
  consumer was told of its producer is true), `WaitsForStream` (a consumer connected
  before its stream exists waits for a key frame) and `DropNoticed`; the manager's
  theorems are reused by showing that a step of the composition is a step of the
  manager or leaves it alone.
* **`WebRtcTransportProofs`**: the ICE server from `IceInv` (state, tuples and selection
  together with what the credentials were used for, over lemmas about the sequence of
  tuples such as `FrontAdded`); the transport from `Consistent(d)`, which every operator
  on the DTLS record preserves, `Told(d)`, and `IceInv`, with the link between an ICE
  event and a change of the ICE state.
* **`RouterProofs`**: the maps are inductive only together.  That a closed producer
  leaves nothing behind (`CloseStep`) rests on the agreement of the router's maps;
  that consumers know about pauses rests on both maps leading to the same producer.
* **`RtpReceptionProofs`** from `Inv` = type, `NoDanglingProducers`,
  `DeclaredGoToOwner`, `StreamsMatchTables`.  That a refused producer leaves the tables
  as they were (`RefusedResult`) rests on no table having its address; that a new
  stream takes no SSRC from another producer rests on the tables agreeing with the
  streams.  `GetRtpStreamSound` says what `GetRtpStream` may return; that its searches
  find a first element is the least number principle (`SmallestExists`).
* **`ChannelAgentProofs`**: strengthened by `OneClaim` (whoever removes a request from
  `m_sents` has claimed it, and a request is in `m_sents`, claimed once, or
  answered), `PromiseIsOwn`, `Watched` and `Numbered`.  Because `m_mutex` is held until
  the promise is set, a claim is always to the request in progress.
  The module goes on with what carries the requests:
  * `MediasoupLoop`, from `LoopInv`.  `MessagesAccounted` is about the messages of the list,
    the one being written, the written and the dropped ones; `OnePlace` makes it inductive
    by saying of each message, the ones to come included, in how many of these places it
    is: one before two pushes have overlapped, and at most one afterwards.  That
    fewer messages than agents are left behind speaks of a loop at rest only;
    the steps before are covered by `Awaited` (agents that do not give up wait for what
    the loop has of them) and `OneToWake` (when the list holds a message of every agent, a
    wakeup is pending or an agent has yet to call `uv_async_send`).  From `Awaited` no agent
    has two messages in the list, so the list is no longer than there are agents
    (`ListIsShort`).
  * `StreamFraming`, from `FramingInv`.  A reader sees bytes, `FramesAccounted` speaks of
    frames: `IsRun` ties them together.  The bytes that were not parsed yet, in the buffer and
    then in the pipe, follow each other without a gap up to the end of the last
    frame, wherever reads have cut them.  `BehindUnread` (no frame that still begins among
    them was delivered), `InFront` (unless bytes were thrown away, the parser is at the
    beginning of a frame and all before it was delivered), `LoopEnds` (a parsing loop that
    ended left no complete frame in front, and room for the next byte) and `OnlyTooBig`
    then say what the three parsers do with them.  Each operation on the sequences (cut, move,
    append, drop) is a lemma about such runs.
* **`SimulcastConsumerProofs`** from `Inv`, whose core is `Sound(st, c)`: target, reference
  and current layers have had sender reports and come and go together.  Every operator that
  changes layers keeps it (`UpdateSound`, `DistributedSound`, `ScoreChangesSound`, ...),
  whichever layers its search ends with.  The properties except what happens after
  the streams of a consumer have died with their target (`outlived`); `IdleIsOutlived`,
  that an inactive consumer has a target only then, is what makes the exception
  inductive.  `IInv` adds that the worker was aborted only after a report was withdrawn:
  by `Sound` both streams that a synchronising packet needs have had reports, so that one
  which has none now has lost it.  For `LayersDecodable`, each packet of the base layer that is
  not sent is shown to be of another layer, to be followed by a wait for a key frame, or
  to be one of a dropped group.
* **`DataChannelsProofs`** from `Inv` = type, the three properties and `ChunksInOrder`
  (of each message that is arriving some chunks are missing, and while `lawful` the buffer
  holds the latest chunks, in order, of one of them: from the first one on unless it was
  cut).  `ChunkReceived` says what a chunk that continues the buffer or finds it empty makes
  of it, `CutInOrder` that the other streams' messages stay in order.  What a data consumer
  owes after any sequence of buffered amounts is defined by recursion over the sequence
  (`AfterAmounts`); `AfterAmountsResult` proves it through the smallest number of amounts
  for which it would fail.
* **`RtpSendingProofs`**: arithmetic modulo `SeqMod` (`Congruent`, `ModUnique`, ...) and
  `NumbersCompare`: two packets less than half a circle apart are compared right by their
  numbers.  `InputsExact` gives what `Input` returns when the set of dropped numbers is in
  order.  The inductive invariant adds to the properties what the code's few numbers
  stand for: the manager still holds the dropped packets down to half a circle below the
  highest forwarded one (`Kept`), its base less their count is congruent to the shift of
  all packets since the start, the highest number given out is that of the highest packet
  forwarded, each stream has its highest number as `maxSeq` and the right cycles, and
  stored packets are no further behind in numbers than in packets (`Holds`), from which
  `RetransmissionIsRight` follows by age.  Assumed (`SendingAssumption`):
  `MaxDropout + MaxMisorder` is at most half a circle (3000 and 1500 of 65536 in
  `RtpStream.cpp`); the network keeps no packet back, nor lets one run ahead, for nearly
  a whole circle; a packet that may still be sent again is younger than a circle; the largest age that is
  allowed does not overflow (`MaxAge < AgeMod`); and the
  packets a sender may begin with differ in their numbers, so that `baseSeq` tells which
  it was.
  The last part is about `NackGenerator`, over the same arithmetic, from `NackInv`: to
  `NackWindow` and `AskedOnce` it adds `FrameWindow`, that key frames lie within
  `MaxPacketAge + MaxAhead` of the oldest packet of interest.  That is at most half the
  circle (`NackAssumption`), so that the wrapping comparison is an order on all that the
  lists hold, and the first key frame and all entries below it are what the code takes
  them for.  The size of the list follows from the steps that make room for a gap;
  where they cannot, the list is emptied and a key frame is asked for.
  `GivingUpAlwaysJustified` is the action property `GivingUpJustified`, from the same
  invariant, one case for each reason the code has to remove an entry.

`ServiceIsImplemented` proves `ChannelAgent`'s refinement of `RequestService` for any number
of requests: initial states map to initial states, and each of the agent's steps maps to
a step of the service or changes nothing that it sees.

Only model-checked: the liveness properties `NeedsAreServed`, `NackTerminates`,
`RequestReturns`, `EveryFrameArrives` and `LoopStops`, since fairness and `ENABLED` are out
of the prover's reach.  Every invariant and every action property that a passing run
checks is a theorem.

## 6. What is not modelled, and the plan

Left out for good, because they hold data and no order of events: parsing and
serialising of packets, JSON validation and negotiation (`ortc`), bandwidth
estimation, encryption, statistics and dumps, the vendored libraries (`src/deps`, the
JSON library in `src/protoo/utils`) beyond the behaviour the models name.  They are the
greater part of the repository's lines.

Left out because what they do is modelled elsewhere: `PayloadChannelAgent` and
`PayloadChannel` (the code of `ChannelAgent` and `Channel`), `PipeConsumer` (`SimpleConsumer`
per stream), protoo's requests (the pattern of `ChannelAgent`), the control library's
proxies (mirrors of the worker's state).  `SvcConsumer` takes the decisions of
`SimulcastConsumer` inside one stream.  The demo is an example; `RoomOld.hpp` is not
compiled.  `PortManager` is a search around the binding of sockets.  `ChannelAgent`'s
destructor and requests made on the loop's thread are left out, and so are the stream
resets of SCTP, whose effect is in the peer.

What would come next:

1. A queue that `MediasoupLoop` implements, shown by refinement as far as the merged
   wakeups allow.
2. `SvcConsumer`, sharing what it has in common with `SimulcastConsumer`.
3. `NackGenerator` and `RtpStreamRecv` composed, so that a NACK of the one is answered by the
   buffer of `RtpSending`.
