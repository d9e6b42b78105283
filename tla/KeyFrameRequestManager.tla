---------------------- MODULE KeyFrameRequestManager ----------------------
(***************************************************************************)
(* RTC::KeyFrameRequestManager of the worker: decides when a Producer      *)
(* really sends a key frame request (PLI/FIR) for a stream.                *)
(*                                                                         *)
(* Per ssrc the code keeps at most one PendingKeyFrameInfo (a request is   *)
(* out, with a retransmission timer) and at most one KeyFrameRequestDelayer*)
(* (a rate limiter).  Both maps are represented by the set of their keys;  *)
(* the boolean fields of the entries by the set of keys they are true for. *)
(* A timer is the number of ticks it still has to run.  libuv never fires  *)
(* a timer early but may fire it late, so Tick is not blocked by a timer   *)
(* that is due.                                                            *)
(***************************************************************************)
EXTENDS Integers

CONSTANTS
    Ssrc,      \* the streams
    WaitTime,  \* KeyFrameRetransmissionWaitTime, in ticks
    Delay      \* keyFrameRequestDelay, in ticks; 0 means disabled

ASSUME WaitTimeAssumption == WaitTime \in Nat \ {0}
ASSUME DelayAssumption == Delay \in Nat

VARIABLES
    pending,        \* keys of mapSsrcPendingKeyFrameInfo
    retryOnTimeout, \* keys of pending whose retryOnTimeout is true
    pendingTimer,   \* ticks left of each pending entry's timer
    delayer,        \* keys of mapSsrcKeyFrameRequestDelayer
    requested,      \* keys of delayer whose keyFrameRequested is true
    delayTimer      \* ticks left of each delayer's timer

(***************************************************************************)
(* History variables: what the listener and the callers have seen.         *)
(***************************************************************************)
VARIABLES
    request,      \* the OnKeyFrameNeeded call made by the last step
    since,        \* ticks since the last request for the ssrc (saturating)
    sinceFresh,   \* ticks since the last request that was not a retry
    gotKeyFrame,  \* ssrcs that got a key frame since their last request
    owed,         \* ssrcs whose last need is neither requested nor satisfied
    unsolicited   \* requests since the last call that asked for one

code == <<pending, retryOnTimeout, pendingTimer, delayer, requested, delayTimer>>
history == <<request, since, sinceFresh, gotKeyFrame, owed, unsolicited>>
vars == <<code, history>>

\* Saturation bound of the two clocks: enough to tell any timer has elapsed.
Horizon == WaitTime + Delay

NoRequest == [cause |-> "none"]
Request == [cause : {"need", "force", "retry", "delayed"}, ssrc : Ssrc]

TypeOK ==
    /\ pending \subseteq Ssrc
    /\ retryOnTimeout \subseteq pending
    /\ pendingTimer \in [Ssrc -> 0 .. WaitTime]
    /\ delayer \subseteq Ssrc
    /\ requested \subseteq delayer
    /\ delayTimer \in [Ssrc -> 0 .. Delay]
    /\ request \in Request \cup {NoRequest}
    /\ since \in [Ssrc -> 0 .. Horizon]
    /\ sinceFresh \in [Ssrc -> 0 .. Horizon]
    /\ gotKeyFrame \subseteq Ssrc
    /\ owed \subseteq Ssrc
    /\ unsolicited \in [Ssrc -> Nat]

Init ==
    /\ pending = {} /\ retryOnTimeout = {} /\ pendingTimer = [s \in Ssrc |-> 0]
    /\ delayer = {} /\ requested = {} /\ delayTimer = [s \in Ssrc |-> 0]
    /\ request = NoRequest
    /\ since = [s \in Ssrc |-> Horizon] /\ sinceFresh = [s \in Ssrc |-> Horizon]
    /\ gotKeyFrame = {} /\ owed = {}
    /\ unsolicited = [s \in Ssrc |-> 0]

---------------------------------------------------------------------------
(* Pieces of the handlers.                                                 *)

\* listener->OnKeyFrameNeeded(this, ssrc)
OnKeyFrameNeeded(s, cause) ==
    /\ request' = [cause |-> cause, ssrc |-> s]
    /\ since' = [since EXCEPT ![s] = 0]
    /\ sinceFresh' = IF cause = "retry" THEN sinceFresh
                                        ELSE [sinceFresh EXCEPT ![s] = 0]
    /\ gotKeyFrame' = gotKeyFrame \ {s}
    /\ owed' = owed \ {s}
    /\ unsolicited' = [unsolicited EXCEPT ![s] =
                          IF cause \in {"need", "force"} THEN 0 ELSE @ + 1]

\* The step makes no request; newOwed and newUnsolicited record what it did.
NoNotification(newOwed, newUnsolicited) ==
    /\ request' = NoRequest
    /\ owed' = newOwed
    /\ unsolicited' = newUnsolicited
    /\ UNCHANGED <<since, sinceFresh>>

\* A call that asked for a key frame and has to be served later.
Deferred(s, cause) ==
    /\ NoNotification(IF cause = "need" THEN owed \cup {s} ELSE owed,
                      IF cause = "need" THEN [unsolicited EXCEPT ![s] = 0]
                                        ELSE unsolicited)
    /\ UNCHANGED gotKeyFrame

\* A new KeyFrameRequestDelayer, not enabled, replaces the one there may be.
NewDelayer(s) ==
    IF Delay > 0
      THEN /\ delayer' = delayer \cup {s}
           /\ requested' = requested \ {s}
           /\ delayTimer' = [delayTimer EXCEPT ![s] = Delay]
      ELSE UNCHANGED <<delayer, requested, delayTimer>>

\* A PendingKeyFrameInfo, new or restarted, with the given retryOnTimeout.
StartPending(s, retry) ==
    /\ pending' = pending \cup {s}
    /\ retryOnTimeout' = IF retry THEN retryOnTimeout \cup {s} ELSE retryOnTimeout \ {s}
    /\ pendingTimer' = [pendingTimer EXCEPT ![s] = WaitTime]

\* Mutant: a need that finds a pending request is ignored.
JoinWithoutRetry(s, cause) ==
    \/ /\ s \in pending
       /\ Deferred(s, cause)
       /\ UNCHANGED <<pending, retryOnTimeout, pendingTimer>>
    \/ /\ s \notin pending
       /\ StartPending(s, TRUE)
       /\ OnKeyFrameNeeded(s, cause)

\* Mutant: a request is made although one is pending.
RequestAlways(s, cause) ==
    /\ StartPending(s, TRUE)
    /\ OnKeyFrameNeeded(s, cause)

\* The part of KeyFrameNeeded after the delayer: join the pending request or
\* make one.
JoinOrRequest(s, cause) ==
    \/ /\ s \in pending
       /\ retryOnTimeout' = retryOnTimeout \cup {s}
       /\ Deferred(s, cause)
       /\ UNCHANGED <<pending, pendingTimer>>
    \/ /\ s \notin pending
       /\ StartPending(s, TRUE)
       /\ OnKeyFrameNeeded(s, cause)

---------------------------------------------------------------------------
(* The operations of the manager and its timer callbacks.                  *)

KeyFrameNeeded(s) ==
    \/ /\ Delay > 0 /\ s \in delayer
       /\ requested' = requested \cup {s}
       /\ Deferred(s, "need")
       /\ UNCHANGED <<pending, retryOnTimeout, pendingTimer, delayer, delayTimer>>
    \/ /\ Delay = 0 \/ s \notin delayer
       /\ NewDelayer(s)
       /\ JoinOrRequest(s, "need")

ForceKeyFrameNeeded(s) ==
    /\ NewDelayer(s)
    /\ StartPending(s, TRUE)
    /\ OnKeyFrameNeeded(s, "force")

\* The delayer, if there is one, is left alone.
KeyFrameReceived(s) ==
    /\ pending' = pending \ {s}
    /\ retryOnTimeout' = retryOnTimeout \ {s}
    /\ gotKeyFrame' = gotKeyFrame \cup {s}
    /\ NoNotification(owed \ {s}, unsolicited)
    /\ UNCHANGED <<pendingTimer, delayer, requested, delayTimer>>

\* Mutant: retryOnTimeout is not cleared by the retry.
RequestTimeoutKeepsRetry(s) ==
    /\ s \in pending /\ pendingTimer[s] = 0
    /\ \/ /\ s \notin retryOnTimeout
          /\ pending' = pending \ {s}
          /\ NoNotification(owed, unsolicited)
          /\ UNCHANGED <<retryOnTimeout, pendingTimer, gotKeyFrame>>
       \/ /\ s \in retryOnTimeout
          /\ StartPending(s, TRUE)
          /\ OnKeyFrameNeeded(s, "retry")
    /\ UNCHANGED <<delayer, requested, delayTimer>>

OnKeyFrameRequestTimeout(s) ==
    /\ s \in pending /\ pendingTimer[s] = 0
    /\ \/ /\ s \notin retryOnTimeout
          /\ pending' = pending \ {s}
          /\ NoNotification(owed, unsolicited)
          /\ UNCHANGED <<retryOnTimeout, pendingTimer, gotKeyFrame>>
       \/ /\ s \in retryOnTimeout
          /\ StartPending(s, FALSE)
          /\ OnKeyFrameNeeded(s, "retry")
    /\ UNCHANGED <<delayer, requested, delayTimer>>

\* Mutant: the delayer is erased after the KeyFrameNeeded it calls, which
\* finds it and leaves the need to it.
DelayTimeoutErasesLate(s) ==
    /\ s \in delayer /\ delayTimer[s] = 0
    /\ delayer' = delayer \ {s} /\ requested' = requested \ {s}
    /\ IF s \in requested THEN Deferred(s, "delayed")
                          ELSE NoNotification(owed, unsolicited) /\ UNCHANGED gotKeyFrame
    /\ UNCHANGED <<pending, retryOnTimeout, pendingTimer, delayTimer>>

\* The delayer is erased first, so the KeyFrameNeeded it may call finds none
\* and creates another one.
OnKeyFrameDelayTimeout(s) ==
    /\ s \in delayer /\ delayTimer[s] = 0
    /\ \/ /\ s \notin requested
          /\ delayer' = delayer \ {s}
          /\ NoNotification(owed, unsolicited)
          /\ UNCHANGED <<pending, retryOnTimeout, pendingTimer, requested, delayTimer, gotKeyFrame>>
       \/ /\ s \in requested
          /\ NewDelayer(s)
          /\ JoinOrRequest(s, "delayed")

\* ~KeyFrameRequestManager, and the construction of the next one.
Recreate ==
    /\ pending' = {} /\ retryOnTimeout' = {} /\ pendingTimer' = [s \in Ssrc |-> 0]
    /\ delayer' = {} /\ requested' = {} /\ delayTimer' = [s \in Ssrc |-> 0]
    /\ request' = NoRequest
    /\ since' = [s \in Ssrc |-> Horizon] /\ sinceFresh' = [s \in Ssrc |-> Horizon]
    /\ gotKeyFrame' = {} /\ owed' = {}
    /\ unsolicited' = [s \in Ssrc |-> 0]

Elapse(timer) == [s \in Ssrc |-> IF timer[s] > 0 THEN timer[s] - 1 ELSE 0]
Advance(clock) == [s \in Ssrc |-> IF clock[s] < Horizon THEN clock[s] + 1 ELSE Horizon]

Tick ==
    /\ pendingTimer' = Elapse(pendingTimer)
    /\ delayTimer' = Elapse(delayTimer)
    /\ since' = Advance(since)
    /\ sinceFresh' = Advance(sinceFresh)
    /\ request' = NoRequest
    /\ UNCHANGED <<pending, retryOnTimeout, delayer, requested, gotKeyFrame, owed, unsolicited>>

Next ==
    \/ \E s \in Ssrc : \/ KeyFrameNeeded(s)
                       \/ ForceKeyFrameNeeded(s)
                       \/ KeyFrameReceived(s)
                       \/ OnKeyFrameRequestTimeout(s)
                       \/ OnKeyFrameDelayTimeout(s)
    \/ Recreate
    \/ Tick

Spec == Init /\ [][Next]_vars

---------------------------------------------------------------------------
(* Properties.                                                             *)

\* A step that sends a request for s for one of the given reasons.
Sends(s, causes) == request'.cause \in causes /\ request'.ssrc = s

\* As long as no key frame arrives, two requests for an ssrc are WaitTime
\* apart unless the second one is forced: neither a burst of KeyFrameNeeded
\* calls, nor a timeout that fires late, nor the delayer's own KeyFrameNeeded
\* gets a second request out earlier.
RetransmissionSpaced ==
    [][\A s \in Ssrc : Sends(s, {"need", "retry", "delayed"})
                          => s \in gotKeyFrame \/ since[s] >= WaitTime]_vars

\* keyFrameRequestDelay is a rate limit: whether or not key frames arrive in
\* between, a request made for KeyFrameNeeded (directly or by the delayer)
\* comes at least Delay after the last request that was not a retry.
DelayRespected ==
    [][\A s \in Ssrc : Sends(s, {"need", "delayed"}) => sinceFresh[s] >= Delay]_vars

\* A need that was answered by neither a request nor a key frame is still
\* recorded in the delayer or in the pending entry: replacing a delayer,
\* erasing a pending entry or a timeout never drops it.
NeedIsRecorded == owed \subseteq requested \cup retryOnTimeout

\* A call that asks for a key frame causes at most three further requests on
\* its own, however the two timers interleave: retries are not unbounded.
RetriesBounded == \A s \in Ssrc : unsolicited[s] <= 3

---------------------------------------------------------------------------
(* What makes the properties above inductive.                              *)

\* A timer that is running covers the part of its period that the clock of
\* the history has not seen; without a timer the whole period has elapsed.
TimersCoverHistory ==
    \A s \in Ssrc :
        /\ s \in pending => pendingTimer[s] + since[s] >= WaitTime
        /\ s \notin pending => s \in gotKeyFrame \/ since[s] >= WaitTime
        /\ s \in delayer => Delay > 0 /\ delayTimer[s] + sinceFresh[s] >= Delay
        /\ s \notin delayer => sinceFresh[s] >= Delay

\* The requests the recorded needs can still cause: an enabled delayer one
\* and its retry, a pending entry its retry.
StillToSend(s) ==
    (IF s \in requested THEN 2 ELSE 0) + (IF s \in retryOnTimeout THEN 1 ELSE 0)

RequestBudget == \A s \in Ssrc : unsolicited[s] + StillToSend(s) <= 3

Inv == TypeOK /\ TimersCoverHistory /\ RequestBudget /\ NeedIsRecorded

---------------------------------------------------------------------------
\* Every KeyFrameNeeded is eventually followed by a request or a key frame.
NeedIsServed == \A s \in Ssrc : s \in owed ~> s \notin owed
===========================================================================
