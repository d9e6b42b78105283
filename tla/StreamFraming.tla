--------------------------- MODULE StreamFraming ---------------------------
(***************************************************************************)
(* How messages are cut out of a stream of bytes, in the three places that *)
(* do so.  reader tells which one:                                          *)
(*   "tcp"      RTC::TcpConnection of the worker: packets with a length in  *)
(*              front of them (RFC 4571), from a peer;                      *)
(*   "channel"  Channel::ConsumerSocket of the worker (and that of          *)
(*              PayloadChannel, which is the same): netstrings with         *)
(*              requests, from the control library;                        *)
(*   "agent"    ChannelAgent::OnRead of the control library: netstrings     *)
(*              with answers and notifications, from the worker.            *)
(*                                                                          *)
(* A byte is the pair of its frame and its place in it, so its value is    *)
(* that of the place it came from, wherever the code puts it.  Each pass of *)
(* a parsing loop is a step.  The text of a message holds nothing that     *)
(* could be taken for the beginning of a netstring.                        *)
(***************************************************************************)
EXTENDS Integers, Sequences

CONSTANTS
    BufferSize,     \* of the buffer of a socket; the agent's limit
    Overhead,       \* bytes of a frame without content
    Sizes,          \* bytes of a frame
    MaxFrames       \* bound: frames that are sent

ASSUME FramingAssumption ==
    /\ BufferSize \in Nat \ {0} /\ Overhead \in Nat \ {0} /\ MaxFrames \in Nat
    /\ Sizes \subseteq Nat /\ \A n \in Sizes : n >= Overhead

VARIABLES
    reader,         \* who reads
    sent,           \* the sizes of the frames that were sent
    pipe,           \* bytes on their way
    buffer,         \* the first bufferDataLen bytes of buffer; m_readBuf
    frameStart,     \* frameStart, msgStart
    parsing,        \* the loop is not at its end
    once,           \* ChannelAgent::m_once
    closed,         \* the connection
    delivered,      \* the frames the listener got
    intact,         \* what it got were whole frames
    discarded,      \* bytes were thrown away
    ended           \* the peer or the listener has ended the connection

framingVars == <<reader, sent, pipe, buffer, frameStart, parsing, once, closed, delivered, intact,
          discarded, ended>>
history == <<delivered, intact, discarded>>

Bytes(f, n) == [i \in 1..n |-> <<f, i>>]

\* In the agent's stream the first frame says "running", with its first bytes.
Running == <<1, Overhead>>

FramingInit ==
    /\ reader \in {"tcp", "channel", "agent"}
    /\ sent = <<>> /\ pipe = <<>> /\ buffer = <<>> /\ frameStart = 0
    /\ parsing = FALSE /\ once = FALSE /\ closed = FALSE /\ ended = FALSE
    /\ delivered = <<>> /\ intact = TRUE /\ discarded = FALSE

-----------------------------------------------------------------------------
(* The other side *)

WriteFrame(n) ==
    /\ Len(sent) < MaxFrames /\ ~ ended
    /\ sent' = Append(sent, n)
    /\ pipe' = pipe \o Bytes(Len(sent) + 1, n)
    /\ UNCHANGED <<reader, buffer, frameStart, parsing, once, closed, ended, history>>

\* UV_EOF, when all was read, or UV_ECONNRESET.
PeerCloses ==
    /\ reader # "agent" /\ ~ parsing /\ ~ closed
    /\ ended' = TRUE /\ closed' = TRUE
    /\ UNCHANGED <<reader, sent, pipe, buffer, frameStart, parsing, once, history>>

-----------------------------------------------------------------------------
(* Reading *)

\* The frame at the beginning of data, when data begins with one.
InStep(data) == data # <<>> /\ data[1][2] = 1
Complete(data) == InStep(data) /\ Len(data) >= sent[data[1][1]]

\* The listener gets the frame, and must not once the connection is closed.
\* Packets of length 0 are passed over.
Deliver(data) ==
    LET f == data[1][1]
    IN  /\ delivered' = IF reader = "tcp" /\ sent[f] = Overhead THEN delivered ELSE Append(delivered, f)
        /\ intact' = (intact /\ ~ closed /\ SubSeq(data, 1, sent[f]) = Bytes(f, sent[f]))
        /\ UNCHANGED discarded

\* Everything in the buffer is thrown away.
Clear ==
    /\ buffer' = <<>> /\ frameStart' = 0 /\ parsing' = FALSE
    /\ discarded' = TRUE
    /\ UNCHANGED <<delivered, intact>>

\* OnUvReadAlloc and OnUvRead of a socket of the worker: libuv fills at most the
\* rest of the buffer, and the loop begins.  That there always is a rest is a
\* part of NothingLost; without one the connection would end with an error.
Read(n) ==
    /\ reader # "agent" /\ ~ parsing /\ ~ closed
    /\ n \in 1..Len(pipe) /\ n <= BufferSize - Len(buffer)
    /\ buffer' = buffer \o SubSeq(pipe, 1, n)
    /\ pipe' = SubSeq(pipe, n + 1, Len(pipe))
    /\ parsing' = TRUE
    /\ UNCHANGED <<reader, sent, frameStart, once, closed, ended, history>>

\* ChannelAgent::OnRead up to the loop.  Once it finds "running", it throws away
\* all there is; so it does when there is more than it keeps.
AgentReads(n) ==
    LET data == buffer \o SubSeq(pipe, 1, n)
    IN  /\ reader = "agent" /\ ~ parsing
        /\ n \in 1..Len(pipe) /\ n <= BufferSize
        /\ pipe' = SubSeq(pipe, n + 1, Len(pipe))
        /\ IF ~ once /\ Running \in {data[i] : i \in DOMAIN data}
             THEN /\ once' = TRUE
                  /\ buffer' = <<>> /\ parsing' = FALSE
                  /\ delivered' = <<1>>
                  /\ discarded' = (discarded \/ data # Bytes(1, sent[1]))
                  /\ UNCHANGED <<frameStart, intact>>
           ELSE IF Len(data) > BufferSize THEN Clear /\ UNCHANGED once
           ELSE /\ buffer' = data /\ parsing' = TRUE
                /\ UNCHANGED <<frameStart, once, history>>
        /\ UNCHANGED <<reader, sent, closed, ended>>

-----------------------------------------------------------------------------
(* One pass of the loop *)

\* Mutant: the buffer begins anew, but what it holds is not forgotten.
AfterFrameKept(next) ==
    /\ frameStart' = IF next = Len(buffer) THEN 0 ELSE next
    /\ buffer' = buffer
    /\ parsing' = (next < Len(buffer))

\* TcpConnection and ConsumerSocket, after a frame that ends before next.
AfterFrame(next) ==
    /\ IF next = BufferSize THEN frameStart' = 0 /\ buffer' = <<>>
       ELSE frameStart' = next /\ buffer' = buffer
    /\ parsing' = (Len(buffer') > frameStart')

\* An unfinished frame in a buffer that is full.
Move ==
    /\ frameStart # 0
    /\ buffer' = SubSeq(buffer, frameStart + 1, Len(buffer)) /\ frameStart' = 0
    /\ parsing' = FALSE
    /\ UNCHANGED <<closed, history>>

TooBig ==
    /\ frameStart = 0
    /\ IF reader = "tcp"
         THEN closed' = TRUE /\ parsing' = FALSE /\ UNCHANGED <<buffer, frameStart, history>>
         ELSE Clear /\ UNCHANGED closed

\* Mutant: only a frame that fills the buffer makes it full.
UnfinishedKept ==
    IF frameStart = 0 /\ Len(buffer) = BufferSize THEN TooBig
    ELSE parsing' = FALSE /\ UNCHANGED <<buffer, frameStart, closed, history>>

Unfinished ==
    IF Len(buffer) = BufferSize THEN Move \/ TooBig
    ELSE parsing' = FALSE /\ UNCHANGED <<buffer, frameStart, closed, history>>

MayParse == reader # "agent" /\ parsing /\ ~ closed

\* A packet may make the listener close the connection (a DTLS close alert): the
\* loop then stops before the next one.
ParseFrame ==
    LET data == SubSeq(buffer, frameStart + 1, Len(buffer))
    IN  /\ MayParse /\ Complete(data)
        /\ Deliver(data)
        /\ AfterFrame(frameStart + sent[data[1][1]])
        /\ \/ UNCHANGED <<closed, ended>>
           \/ reader = "tcp" /\ closed' = TRUE /\ ended' = TRUE
        /\ UNCHANGED <<reader, sent, pipe, once>>

\* Bytes that are not the beginning of a frame are an error of netstring_read, or
\* too few to tell.
ParseRest ==
    LET data == SubSeq(buffer, frameStart + 1, Len(buffer))
    IN  /\ MayParse /\ ~ Complete(data)
        /\ Unfinished \/ (~ InStep(data) /\ Clear /\ UNCHANGED closed)
        /\ UNCHANGED <<reader, sent, pipe, once, ended>>

\* The loop of ChannelAgent::OnRead.
ParseAgent ==
    /\ reader = "agent" /\ parsing
    /\ \/ /\ Complete(buffer)
          /\ Deliver(buffer)
          /\ buffer' = SubSeq(buffer, sent[buffer[1][1]] + 1, Len(buffer))
          /\ parsing' = (buffer' # <<>>)
          /\ UNCHANGED frameStart
       \/ ~ Complete(buffer) /\ parsing' = FALSE /\ UNCHANGED <<buffer, frameStart, history>>
       \/ ~ InStep(buffer) /\ Clear
    /\ UNCHANGED <<reader, sent, pipe, once, closed, ended>>

Reads == \E n \in 1..BufferSize : Read(n) \/ AgentReads(n) 
Parses == ParseFrame \/ ParseRest \/ ParseAgent

FramingNext == (\E n \in Sizes : WriteFrame(n)) \/ PeerCloses \/ Reads \/ Parses

\* libuv reads while there is something to read, and a loop that has begun goes on.
FramingSpec ==
    FramingInit /\ [][FramingNext]_framingVars /\ WF_framingVars(Reads) /\ WF_framingVars(Parses)

-----------------------------------------------------------------------------
(* Properties *)

\* The frames of which all bytes were read.
Received == {f \in 1..Len(sent) : pipe # <<>> => f < pipe[1][1]}

\* The frames the listener ought to get.
Messages == {f \in 1..Len(sent) : reader = "tcp" => sent[f] > Overhead}

\* The listener gets whole frames, in the order they were sent, none twice, even
\* after others had to be thrown away, and none once the connection is closed.
FramesWhole ==
    /\ intact
    /\ \A i, j \in 1..Len(delivered) : i < j => delivered[i] < delivered[j]

\* However the bytes are cut into reads and wherever in the buffer a frame ends,
\* every frame of which all bytes were read is delivered before the next read,
\* there is room for the next byte, and a connection is closed only for a frame
\* that is larger than the buffer.
NothingLost ==
    /\ ~ discarded /\ ~ closed /\ ~ parsing
       => /\ {delivered[i] : i \in 1..Len(delivered)} = Received \cap Messages
          /\ reader # "agent" => frameStart <= Len(buffer) /\ Len(buffer) < BufferSize
    /\ discarded \/ (closed /\ ~ ended)
       => \/ \E f \in 1..Len(sent) : sent[f] > BufferSize
          \/ reader = "agent"

\* What the listener has got is what was sent: no part, no copy, no gap.
FramesAccounted == FramesWhole /\ NothingLost

\* What was sent arrives, unless the connection ends or bytes were thrown away.
EveryFrameArrives ==
    \A f \in 1..MaxFrames :
        f \in Messages ~> (\E i \in 1..Len(delivered) : delivered[i] = f) \/ discarded \/ closed
=============================================================================
