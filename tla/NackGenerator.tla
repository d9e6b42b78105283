--------------------------- MODULE NackGenerator ---------------------------
(***************************************************************************)
(* RTC::NackGenerator of the worker: detects gaps in the sequence numbers  *)
(* of a received stream, asks for the missing packets when a gap appears   *)
(* and again every round trip time, and gives up after MaxNackRetries, on  *)
(* packets that are too old, or when the list overflows.                   *)
(*                                                                         *)
(* sentAtMs is represented by the age of the entry in ticks, saturating at *)
(* MaxRtt; Unsent stands for sentAtMs == 0.  The timer is the number of    *)
(* ticks left, Off when it is not active.                                  *)
(***************************************************************************)
EXTENDS SeqArith, FiniteSets

CONSTANTS
    MaxPacketAge, MaxNackPackets, MaxNackRetries, DefaultRtt, TimerInterval,
    Rtts,            \* the values UpdateRtt is called with
    MaxAhead,        \* how far ahead of lastSeq a packet may be
    KeyFrameBound,   \* bound on the key frames remembered
    RecoveredBound   \* bound on the recovered packets remembered

\* RtpStream::UpdateSeq drops packets MaxDropout = 3000 or more ahead, so the
\* key frame list always lies within half the circle.
ASSUME NackAssumption ==
    /\ MaxPacketAge \in Nat /\ MaxNackPackets \in Nat /\ MaxNackRetries \in Nat \ {0}
    /\ MaxNackPackets <= MaxPacketAge
    /\ TimerInterval \in Nat \ {0}
    /\ DefaultRtt \in Rtts /\ Rtts \subseteq Nat /\ \E r \in Rtts : \A x \in Rtts : x <= r
    /\ MaxAhead \in Nat /\ MaxAhead + MaxPacketAge <= Half

MaxRtt == CHOOSE r \in Rtts : \A x \in Rtts : x <= r
Unsent == -1
Off == -1

VARIABLES
    started, lastSeq,
    nackList,        \* seq -> [age, retries]
    keyFrameList, recoveredList,
    rtt, timer

(***************************************************************************)
(* History: what the last step told the listener, and the packets that     *)
(* were recovered ahead of lastSeq and not passed by it since.             *)
(***************************************************************************)
VARIABLES nacked, keyFrameRequired, aheadRecovered

nackCode == <<started, lastSeq, nackList, keyFrameList, recoveredList, rtt, timer>>
nackVars == <<nackCode, nacked, keyFrameRequired, aheadRecovered>>

NackInfo == [age : Unsent .. MaxRtt, retries : 0 .. MaxNackRetries]
Nacks == DOMAIN nackList

NackTypeOK ==
    /\ started \in BOOLEAN /\ lastSeq \in SeqNum
    /\ Nacks \subseteq SeqNum /\ \A e \in Nacks : nackList[e] \in NackInfo
    /\ keyFrameList \subseteq SeqNum /\ recoveredList \subseteq SeqNum
    /\ rtt \in Rtts /\ timer \in Off .. TimerInterval
    /\ nacked \subseteq SeqNum /\ keyFrameRequired \in BOOLEAN
    /\ aheadRecovered \subseteq SeqNum

EmptyList == [e \in {} |-> [age |-> Unsent, retries |-> 0]]

NackInit ==
    /\ started = FALSE /\ lastSeq = 0
    /\ nackList = EmptyList /\ keyFrameList = {} /\ recoveredList = {}
    /\ rtt = DefaultRtt /\ timer = Off
    /\ nacked = {} /\ keyFrameRequired = FALSE /\ aheadRecovered = {}

---------------------------------------------------------------------------
(* GetNackBatch(filter): the entries that are due are sent, and those that *)
(* used up their retries leave the list.                                   *)

DueBySeq(list, newest) ==
    {e \in DOMAIN list : list[e].age = Unsent /\ (e = newest \/ IsSeqHigherThan(newest, e))}

DueByTime(list) == {e \in DOMAIN list : list[e].age = Unsent \/ list[e].age >= rtt}

\* The list after the entries of due were sent.
AfterBatch(list, due) ==
    [e \in {x \in DOMAIN list : x \in due => list[x].retries + 1 < MaxNackRetries} |->
        IF e \in due THEN [age |-> 0, retries |-> list[e].retries + 1] ELSE list[e]]

---------------------------------------------------------------------------
(* AddPacketsToNackList(lastSeq + 1, seq).                                 *)

Restricted(list, S) == [e \in S \cap DOMAIN list |-> list[e]]

\* Mutant: the bound is compared without wraparound.
NotBelowNumeric(list, bound) == Restricted(list, {e \in DOMAIN list : e >= bound})

\* The entries that are not older than bound.
NotBelow(list, bound) == Restricted(list, {e \in DOMAIN list : ~ IsSeqLowerThan(e, bound)})

\* The sequence numbers between lastSeq and seq: the for loop of lines 178-187.
Gap(seq) == {x \in SeqNum : Minus(x, lastSeq) \in 1 .. Minus(seq, lastSeq) - 1}

\* The key frames that free enough of the list: what the loop around
\* RemoveNackItemsUntilKeyFrame looks for.
FreeingKeyFrames(list, numNew, frames) ==
    {k \in frames : Cardinality(DOMAIN NotBelow(list, k)) + numNew <= MaxNackPackets}

\* New entries for the gap, without the packets already recovered by RTX.
WithGap(list, gap, skip) ==
    [e \in DOMAIN list \cup (gap \ skip) |->
        IF e \in DOMAIN list THEN list[e] ELSE [age |-> Unsent, retries |-> 0]]

\* Mutant: the list is cleared without asking for a key frame.
OverflowedSilently == [list |-> EmptyList, frames |-> {}, required |-> FALSE]

\* The list is still too large: clear it and request a key frame.
Overflowed == [list |-> EmptyList, frames |-> {}, required |-> TRUE]

\* The possible results, as records of the list, the key frames left and
\* whether a key frame had to be requested.
AddPacketsToNackList(seq, frames) ==
    LET young == NotBelow(nackList, Minus(seq, MaxPacketAge))
        gap == Gap(seq)
        numNew == Cardinality(gap)
        fits == Cardinality(DOMAIN young) + numNew <= MaxNackPackets
        freeing == FreeingKeyFrames(young, numNew, frames)
        skips == {S \in SUBSET (gap \cap recoveredList) :
                    \A x \in gap : (x \in S) \in Find(recoveredList, x)}
        Result(list, left) ==
            {[list |-> WithGap(list, gap, S), frames |-> left, required |-> FALSE] : S \in skips}
    IN  CASE fits -> Result(young, frames)
          [] ~ fits /\ freeing # {} ->
                LET k == CHOOSE x \in freeing : \A y \in freeing \ {x} : IsSeqLowerThan(x, y)
                IN  Result(NotBelow(young, k), {x \in frames : ~ IsSeqLowerThan(x, k)})
          [] OTHER -> {Overflowed}

---------------------------------------------------------------------------
(* ReceivePacket, one action per path.                                     *)

Silent == nacked' = {} /\ keyFrameRequired' = FALSE

\* The timer after MayRunTimer, given what it was before.
MayRunTimer(list, old) == IF DOMAIN list # {} THEN TimerInterval ELSE old

\* Lines 133-136: a running timer is left alone.
TimerAfterPacket(list) == IF timer = Off THEN MayRunTimer(list, timer) ELSE timer

ReceiveFirst(seq, isKeyFrame) ==
    /\ ~ started
    /\ started' = TRUE
    /\ lastSeq' = seq
    /\ keyFrameList' = IF isKeyFrame THEN keyFrameList \cup {seq} ELSE keyFrameList
    /\ Silent
    /\ UNCHANGED <<nackList, recoveredList, rtt, timer, aheadRecovered>>

\* seq == lastSeq, or an older packet: it may be one that was asked for.
ReceiveOlder(seq) ==
    /\ started
    /\ seq = lastSeq \/ IsSeqLowerThan(seq, lastSeq)
    /\ nackList' = IF seq = lastSeq THEN nackList ELSE Restricted(nackList, Nacks \ {seq})
    /\ Silent
    /\ UNCHANGED <<started, lastSeq, keyFrameList, recoveredList, rtt, timer, aheadRecovered>>

\* Lines 97-106: remember the key frame, forget the old ones.
KeyFramesWith(seq, isKeyFrame) ==
    EraseBelow(IF isKeyFrame THEN keyFrameList \cup {seq} ELSE keyFrameList,
               Minus(seq, MaxPacketAge))

Newer(seq, isKeyFrame) ==
    /\ started
    /\ seq # lastSeq /\ ~ IsSeqLowerThan(seq, lastSeq)
    /\ Minus(seq, lastSeq) <= MaxAhead
    /\ isKeyFrame => Cardinality(keyFrameList) < KeyFrameBound

\* A retransmission (RTX) of a packet newer than any seen is only remembered.
ReceiveRecoveredAhead(seq, isKeyFrame) ==
    /\ Newer(seq, isKeyFrame)
    /\ Cardinality(recoveredList) < RecoveredBound
    /\ keyFrameList' \in KeyFramesWith(seq, isKeyFrame)
    /\ recoveredList' \in EraseBelow(recoveredList \cup {seq}, Minus(seq, MaxPacketAge))
    /\ aheadRecovered' = aheadRecovered \cup {seq}
    /\ Silent
    /\ UNCHANGED <<started, lastSeq, nackList, rtt, timer>>

ReceiveNewer(seq, isKeyFrame) ==
    /\ Newer(seq, isKeyFrame)
    /\ \E frames \in KeyFramesWith(seq, isKeyFrame) :
       \E result \in AddPacketsToNackList(seq, frames) :
          LET due == DueBySeq(result.list, seq)
              list == AfterBatch(result.list, due)
          IN  /\ keyFrameList' = result.frames
              /\ nackList' = list
              /\ nacked' = due
              /\ keyFrameRequired' = result.required
              /\ timer' = TimerAfterPacket(list)
    /\ lastSeq' = seq
    /\ aheadRecovered' = aheadRecovered \ (Gap(seq) \cup {seq})
    /\ UNCHANGED <<started, recoveredList, rtt>>

UpdateRtt(newRtt) ==
    /\ rtt' = newRtt
    /\ Silent
    /\ UNCHANGED <<started, lastSeq, nackList, keyFrameList, recoveredList, timer, aheadRecovered>>

\* Mutant: the timer runs once per gap.
OnTimerOnce ==
    /\ timer = 0
    /\ LET due == DueByTime(nackList) IN nackList' = AfterBatch(nackList, due) /\ nacked' = due
    /\ timer' = Off
    /\ keyFrameRequired' = FALSE
    /\ UNCHANGED <<started, lastSeq, keyFrameList, recoveredList, rtt, aheadRecovered>>

\* The timer is left alone: it may still fire.
Reset ==
    /\ nackList' = EmptyList /\ keyFrameList' = {} /\ recoveredList' = {}
    /\ started' = FALSE /\ lastSeq' = 0
    /\ aheadRecovered' = {}
    /\ Silent
    /\ UNCHANGED <<rtt, timer>>

OnTimer ==
    /\ timer = 0
    /\ LET due == DueByTime(nackList)
           list == AfterBatch(nackList, due)
       IN  /\ nackList' = list
           /\ nacked' = due
           /\ timer' = MayRunTimer(list, Off)
    /\ keyFrameRequired' = FALSE
    /\ UNCHANGED <<started, lastSeq, keyFrameList, recoveredList, rtt, aheadRecovered>>

Tick ==
    /\ timer' = IF timer > 0 THEN timer - 1 ELSE timer
    /\ nackList' = [e \in Nacks |->
                       IF nackList[e].age \in 0 .. MaxRtt - 1
                         THEN [nackList[e] EXCEPT !.age = @ + 1] ELSE nackList[e]]
    /\ Silent
    /\ UNCHANGED <<started, lastSeq, keyFrameList, recoveredList, rtt, aheadRecovered>>

NackNext ==
    \/ \E seq \in SeqNum, isKeyFrame \in BOOLEAN :
          \/ ReceiveFirst(seq, isKeyFrame)
          \/ ReceiveRecoveredAhead(seq, isKeyFrame)
          \/ ReceiveNewer(seq, isKeyFrame)
    \/ \E seq \in SeqNum : ReceiveOlder(seq)
    \/ \E newRtt \in Rtts : UpdateRtt(newRtt)
    \/ Reset
    \/ OnTimer
    \/ Tick

\* Time passes and libuv fires a timer that is due.
Fairness == WF_nackVars(Tick) /\ WF_nackVars(OnTimer)

NackSpec == NackInit /\ [][NackNext]_nackVars
FairNackSpec == NackSpec /\ Fairness

---------------------------------------------------------------------------
(* Properties.                                                             *)

\* The list holds only packets older than lastSeq, by at most MaxPacketAge,
\* and no more than MaxNackPackets of them, across every wraparound of the
\* sequence number.  In particular none of the numbers a later gap adds is
\* already there: the MS_ASSERT of AddPacketsToNackList cannot fail.
NackWindow ==
    /\ Cardinality(Nacks) <= MaxNackPackets
    /\ \A e \in Nacks : Minus(lastSeq, e) \in 1 .. MaxPacketAge

\* Every entry was asked for when the gap was seen and has a retry left.
AskedOnce == \A e \in Nacks : nackList[e].age # Unsent /\ nackList[e].retries \in 1 .. MaxNackRetries - 1

\* The list holds the right packets, in the right state, between any two calls.
NackListRight == NackWindow /\ AskedOnce

\* A packet is dropped from the list before it arrives only because it is too
\* old, has been asked for MaxNackRetries times, makes place for a newer key
\* frame, or a key frame is requested instead.
GivingUpJustified ==
    [][\A e \in Nacks \ DOMAIN nackList' :
          \/ ~ started'
          \/ lastSeq' = lastSeq /\ Nacks \ DOMAIN nackList' = {e} /\ nacked' = {}   \* it arrived
          \/ e \in nacked' /\ nackList[e].retries = MaxNackRetries - 1
          \/ Minus(lastSeq', e) > MaxPacketAge
          \/ keyFrameRequired'
          \/ \E k \in keyFrameList' : IsSeqHigherThan(k, e)]_nackVars

\* A missing packet does not stay in the list for ever, whether or not more
\* packets arrive.
NackTerminates == \A e \in SeqNum : e \in Nacks ~> e \notin Nacks

\* Not true, since the list of recovered packets is cleaned only when another
\* recovered packet is added, so that an entry may serve again a cycle later:
\* "Do not send NACK for packets that are already recovered by RTX": a packet
\* of a gap is passed over only if it was recovered since lastSeq last went
\* by its number.
SkippedOnlyIfRecovered ==
    [][started /\ started' /\ ~ keyFrameRequired'
         => \A x \in Gap(lastSeq') : x \in nacked' \/ x \in aheadRecovered]_nackVars
=============================================================================
