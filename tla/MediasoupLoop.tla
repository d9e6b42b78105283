--------------------------- MODULE MediasoupLoop ---------------------------
(***************************************************************************)
(* mediasoup::Mediasoup of the control library: the thread that runs the   *)
(* libuv loop, and Send, which any thread calls to have a message written  *)
(* to a pipe by that thread.  The callers are the ChannelAgents and        *)
(* PayloadChannelAgents of all workers, each of which sends one message at *)
(* a time and waits for the answer.                                        *)
(*                                                                         *)
(* uv_async_send is modelled by its contract: calls made before the        *)
(* callback runs are merged into one callback.                             *)
(***************************************************************************)
EXTENDS Integers, Sequences, FiniteSets

CONSTANTS
    Channel,        \* the agents
    MaxListSize,    \* MAXLISTSIZE
    MayGiveUp,      \* whether an agent may time out and send the next message
    MaxSends,       \* bound: messages of an agent
    MaxFailures     \* bound: how often uv_write fails

ASSUME LoopAssumption == /\ IsFiniteSet(Channel) /\ Channel # {}
                         /\ MaxListSize \in Nat /\ MaxSends \in Nat /\ MaxFailures \in Nat
                         /\ MayGiveUp \in BOOLEAN

Message == Channel \X (1..MaxSends)
NoMessage == <<>>

VARIABLES
    list,           \* writeparam_list_
    pending,        \* m_async was sent and its callback has not run yet
    writing,        \* the message the loop's thread has taken from the list
    closing,        \* m_isUserAskforclosed
    stopped,        \* the loop's thread has ended
    pc,             \* where the agents are in Send
    count,          \* how many messages the agents have sent
    written,        \* messages libuv took, in order
    dropped,        \* messages that were freed, the list being full or closed
    failures,       \* how often uv_write failed
    recycling,      \* the loop's thread is inside the push_back that takes no lock
    overlapped      \* history: another thread has pushed meanwhile

raceVars == <<recycling, overlapped>>
loopVars == <<list, pending, writing, closing, stopped, pc, count, written, dropped, failures, raceVars>>

LoopInit ==
    /\ list = <<>> /\ pending = FALSE /\ writing = NoMessage
    /\ closing = FALSE /\ stopped = FALSE
    /\ pc = [c \in Channel |-> "idle"] /\ count = [c \in Channel |-> 0]
    /\ written = <<>> /\ dropped = {} /\ failures = 0
    /\ recycling = FALSE /\ overlapped = FALSE

Last(c) == <<c, count[c]>>

IsWritten(m) == \E i \in DOMAIN written : written[i] = m

---------------------------------------------------------------------------
(* Send, called by the agent c.                                            *)

\* The first uv_async_send comes before the message is in the list.
SendWake(c) ==
    /\ pc[c] = "idle" /\ count[c] < MaxSends
    /\ pending' = TRUE
    /\ count' = [count EXCEPT ![c] = @ + 1]
    /\ pc' = [pc EXCEPT ![c] = "woken"]
    /\ UNCHANGED <<list, writing, closing, stopped, written, dropped, failures, raceVars>>

\* push_back as the two threads see it.  Two pushes that overlap may each find
\* the same last node: the one that loses is linked to no node a reader comes to,
\* and so may be later ones behind it.  Neither frees anything, so the list goes
\* on; its size is wrong from then on.
Push(m, races) == list' = Append(list, m) \/ (races /\ UNCHANGED list)

\* Under mutex_writebuf_, which the push_back of send_inl does not take.
SendPush(c) ==
    /\ pc[c] = "woken"
    /\ \/ /\ closing \/ Len(list) > MaxListSize \/ overlapped
          /\ dropped' = dropped \cup {Last(c)}
          /\ UNCHANGED <<list, overlapped>>
       \/ /\ ~ closing /\ (Len(list) <= MaxListSize \/ overlapped)
          /\ overlapped' = (overlapped \/ recycling)
          /\ Push(Last(c), overlapped')
          /\ UNCHANGED dropped
    /\ pc' = [pc EXCEPT ![c] = "pushed"]
    /\ UNCHANGED <<pending, writing, closing, stopped, count, written, failures, recycling>>

SendWakeAgain(c) ==
    /\ pc[c] = "pushed"
    /\ pending' = TRUE
    /\ pc' = [pc EXCEPT ![c] = "waiting"]
    /\ UNCHANGED <<list, writing, closing, stopped, count, written, dropped, failures, raceVars>>

\* The worker answers the request, or the agent's timer ends it.
AnsweredOrTimedOut(c) ==
    /\ pc[c] = "waiting"
    /\ IsWritten(Last(c)) \/ MayGiveUp
    /\ pc' = [pc EXCEPT ![c] = "idle"]
    /\ UNCHANGED <<list, pending, writing, closing, stopped, count, written, dropped, failures, raceVars>>

---------------------------------------------------------------------------
(* The thread of the loop.                                                 *)

\* Mutant: the callback does not look at m_isUserAskforclosed.
AsyncOpen ==
    /\ pending /\ writing = NoMessage /\ ~ stopped
    /\ pending' = FALSE
    /\ IF list = <<>> THEN UNCHANGED <<list, writing>>
                      ELSE writing' = Head(list) /\ list' = Tail(list)
    /\ UNCHANGED <<closing, stopped, pc, count, written, dropped, failures, raceVars>>

\* Async and the first part of send_inl: one message is taken from the list.
Async ==
    /\ pending /\ writing = NoMessage /\ ~ stopped
    /\ pending' = FALSE
    /\ stopped' = closing
    /\ IF closing \/ list = <<>>
         THEN UNCHANGED <<list, writing>>
         ELSE writing' = Head(list) /\ list' = Tail(list)
    /\ UNCHANGED <<closing, pc, count, written, dropped, failures, raceVars>>

WriteTaken ==
    /\ writing # NoMessage /\ ~ recycling
    /\ written' = Append(written, writing)
    /\ writing' = NoMessage
    /\ UNCHANGED <<list, pending, closing, stopped, pc, count, dropped, failures, raceVars>>

\* uv_write fails, and the loop's thread begins to push the message back.
WriteFailed ==
    /\ writing # NoMessage /\ ~ recycling /\ failures < MaxFailures
    /\ recycling' = TRUE
    /\ failures' = failures + 1
    /\ UNCHANGED <<list, pending, writing, closing, stopped, pc, count, written, dropped, overlapped>>

\* Mutant: the message is given up.
PushedBackFreed ==
    /\ recycling
    /\ writing' = NoMessage /\ recycling' = FALSE
    /\ UNCHANGED <<list, pending, closing, stopped, pc, count, written, dropped, failures, overlapped>>

\* It is at the end of the list, whatever the length of that.
PushedBack ==
    /\ recycling
    /\ Push(writing, overlapped)
    /\ writing' = NoMessage /\ recycling' = FALSE
    /\ UNCHANGED <<pending, closing, stopped, pc, count, written, dropped, failures, overlapped>>

\* Destroy, which then waits for the thread to end.
Destroy ==
    /\ ~ closing
    /\ closing' = TRUE /\ pending' = TRUE
    /\ UNCHANGED <<list, writing, stopped, pc, count, written, dropped, failures, raceVars>>

---------------------------------------------------------------------------

Send(c) == SendPush(c) \/ SendWakeAgain(c)
UvLoop == Async \/ WriteTaken \/ WriteFailed \/ PushedBack

LoopNext ==
    \/ \E c \in Channel : SendWake(c) \/ Send(c) \/ AnsweredOrTimedOut(c)
    \/ UvLoop
    \/ Destroy

LoopSpec == LoopInit /\ [][LoopNext]_loopVars

\* A thread in Send goes on, and the loop runs the callback that is pending.
FairLoopSpec == LoopSpec /\ WF_loopVars(UvLoop) /\ \A c \in Channel : WF_loopVars(Send(c))

---------------------------------------------------------------------------
(* Properties.                                                             *)

\* How often m is in the sequence s.
Occurs(m, s) == Cardinality({i \in DOMAIN s : s[i] = m})

\* Every message that was sent is in one place, once: in the list, with the
\* loop's thread, written, or dropped, also when uv_write fails and the
\* message goes back to a list that others have changed.  Messages can be lost
\* only from the moment on that the push_back without the lock has met another
\* (overlapped), and none is ever written twice.
EachMessageOnce ==
    \A c \in Channel : \A k \in 1..count[c] :
       LET m == <<c, k>>
           places == Occurs(m, list) + Occurs(m, written) + (IF writing = m THEN 1 ELSE 0)
                       + (IF m \in dropped THEN 1 ELSE 0)
       IN  \/ places = (IF k = count[c] /\ pc[c] = "woken" THEN 0 ELSE 1)
           \/ overlapped /\ places = 0

\* When the loop has nothing more to do, fewer messages are left behind than
\* there are agents: none with one agent, one with two.  Not so when agents give
\* up and send again: what they leave behind then adds up.
FewLeftBehind ==
    /\ ~ MayGiveUp /\ ~ pending /\ writing = NoMessage /\ ~ closing /\ failures = 0
    /\ \A c \in Channel : pc[c] \in {"idle", "waiting"}
    => Len(list) < Cardinality(Channel)

\* No message is doubled, lost otherwise than by two pushes that overlap or, beyond
\* what merged wakeups explain, forgotten.
MessagesAccounted == EachMessageOnce /\ FewLeftBehind

\* A message that Send has put into the list is written in the end, unless a
\* write fails or the loop is closed: Async is there to send what is to be sent.
\* Not so when the wakeups of two agents are merged into one.
QueuedIsWritten ==
    \A c \in Channel, k \in 1..MaxSends :
       count[c] = k /\ pc[c] = "waiting" ~> IsWritten(<<c, k>>) \/ closing \/ failures > 0

\* Destroy, which joins the loop's thread, does not wait for ever.
LoopStops == closing ~> stopped
=============================================================================
