---------------------------- MODULE ChannelAgent ----------------------------
(***************************************************************************)
(* mediasoup::ChannelAgent of the control library: blocking requests of    *)
(* application threads to the worker, answered by the thread of the libuv  *)
(* loop or timed out by a detached thread of ChannelTimer.                 *)
(*                                                                         *)
(* request() holds m_mutex until it returns, so it does not matter which   *)
(* thread calls it.  The other two kinds of threads take no lock: they     *)
(* share m_sents, the flag of the timer and the one promise m_pPromise.    *)
(* Each of their accesses to shared state is an action.  A single call of  *)
(* std::map is taken as atomic; erasing an element that another thread     *)
(* has erased in the meantime is undefined, and may end the program or go  *)
(* unnoticed.                                                              *)
(***************************************************************************)
EXTENDS Integers, Sequences

CONSTANT MaxRequests        \* bound: how many requests are made

ASSUME MaxRequestsAssumption == MaxRequests \in Nat \ {0}

Id == 1..MaxRequests

Answer == [id : Id, kind : {"accepted", "error"}]
Result == Answer \cup [id : Id, kind : {"timeout"}]
Unset  == [id |-> 0, kind |-> "unset"]

VARIABLES
    nextId,         \* _nextId: the id of the last request
    call,           \* how far the request that holds m_mutex is
    promise,        \* *m_pPromise
    clear,          \* ChannelTimer::clear
    timers,         \* the threads of ChannelTimer, by the request they are for
    sents,          \* the keys of m_sents
    requests,       \* ids the worker has not handled yet
    responses,      \* answers in the consumer pipe
    loop,           \* what the loop's thread does, and with which answer
    results,        \* what the requests returned
    raced,          \* an element of m_sents was erased by two threads
    crashed         \* the program was terminated

callVars == <<nextId, call, promise, results>>
vars == <<callVars, clear, timers, sents, requests, responses, loop, raced, crashed>>

Idle == [pc |-> "idle", answer |-> Unset]

Init ==
    /\ nextId = 0 /\ call = "none" /\ promise = Unset
    /\ clear = FALSE /\ timers = [i \in Id |-> "none"]
    /\ sents = {} /\ requests = <<>> /\ responses = <<>>
    /\ loop = Idle
    /\ results = [i \in Id |-> Unset]
    /\ raced = FALSE /\ crashed = FALSE

---------------------------------------------------------------------------
(* An application thread in request().                                     *)

\* The request takes its id, and the promise of the last one is replaced.
Begin ==
    /\ call = "none" /\ nextId < MaxRequests
    /\ nextId' = nextId + 1
    /\ promise' = Unset
    /\ call' = "begun"
    /\ UNCHANGED <<clear, timers, sents, requests, responses, loop, results, raced, crashed>>

\* Mutant: the flag that stopped the last timer is not reset.
SetTimeoutStopped ==
    /\ call = "begun"
    /\ timers' = [timers EXCEPT ![nextId] = "started"]
    /\ call' = "armed"
    /\ UNCHANGED <<nextId, promise, clear, sents, requests, responses, loop, results, raced, crashed>>

\* ChannelTimer::setTimeout.
SetTimeout ==
    /\ call = "begun"
    /\ clear' = FALSE
    /\ timers' = [timers EXCEPT ![nextId] = "started"]
    /\ call' = "armed"
    /\ UNCHANGED <<nextId, promise, sents, requests, responses, loop, results, raced, crashed>>

Register ==
    /\ call = "armed"
    /\ sents' = sents \cup {nextId}
    /\ call' = "registered"
    /\ UNCHANGED <<nextId, promise, clear, timers, requests, responses, loop, results, raced, crashed>>

Write ==
    /\ call = "registered"
    /\ requests' = Append(requests, nextId)
    /\ call' = "waiting"
    /\ UNCHANGED <<nextId, promise, clear, timers, sents, responses, loop, results, raced, crashed>>

\* The future is ready: its value or exception goes to the caller.
Return ==
    /\ call = "waiting" /\ promise # Unset
    /\ results' = [results EXCEPT ![nextId] = promise]
    /\ call' = "none"
    /\ UNCHANGED <<nextId, promise, clear, timers, sents, requests, responses, loop, raced, crashed>>

Request == Begin \/ SetTimeout \/ Register \/ Write \/ Return

---------------------------------------------------------------------------
(* What both other kinds of threads do.                                    *)

\* m_sents.erase through an iterator that may be invalid by now.
EraseSent(i) ==
    /\ sents' = sents \ {i}
    /\ raced' = (raced \/ i \notin sents)
    /\ crashed' \in (IF i \in sents THEN {FALSE} ELSE BOOLEAN)

\* set_value and set_exception throw if the promise is satisfied, which
\* nobody catches.
SetPromise(result) ==
    /\ promise' = (IF promise = Unset THEN result ELSE promise)
    /\ crashed' = (promise # Unset)

---------------------------------------------------------------------------
(* A thread of ChannelTimer.                                               *)

Timer(i, from, to) ==
    /\ timers[i] = from
    /\ timers' = [timers EXCEPT ![i] = to]

\* The flag is read before the sleep and after it.  It may have been reset
\* by a later request.
TimerStart(i) ==
    /\ Timer(i, "started", IF clear THEN "ended" ELSE "sleeping")
    /\ UNCHANGED <<callVars, clear, sents, requests, responses, loop, raced, crashed>>

\* The sleep of 15 seconds outlasts the statement between setTimeout and the
\* insertion into m_sents.
TimerExpire(i) ==
    /\ i = nextId => call # "armed"
    /\ Timer(i, "sleeping", IF clear THEN "ended" ELSE "expired")
    /\ UNCHANGED <<callVars, clear, sents, requests, responses, loop, raced, crashed>>

TimerFind(i) ==
    /\ Timer(i, "expired", IF i \in sents THEN "found" ELSE "ended")
    /\ UNCHANGED <<callVars, clear, sents, requests, responses, loop, raced, crashed>>

\* Mutant: the timed out request stays in m_sents.
TimerEraseNot(i) ==
    /\ Timer(i, "found", "erased")
    /\ UNCHANGED <<callVars, clear, sents, requests, responses, loop, raced, crashed>>

TimerErase(i) ==
    /\ Timer(i, "found", "erased")
    /\ EraseSent(i)
    /\ UNCHANGED <<callVars, clear, requests, responses, loop>>

TimerSetException(i) ==
    /\ Timer(i, "erased", "ended")
    /\ SetPromise([id |-> i, kind |-> "timeout"])
    /\ UNCHANGED <<nextId, call, clear, sents, requests, responses, loop, results, raced>>

TimerThread(i) ==
    TimerStart(i) \/ TimerExpire(i) \/ TimerFind(i) \/ TimerErase(i) \/ TimerSetException(i)

---------------------------------------------------------------------------
(* The thread of the libuv loop: processMessage, then Sent::resolve or     *)
(* Sent::reject, which differ in what they put into the promise.           *)

Loop(from, to) ==
    /\ loop.pc = from
    /\ loop' = IF to = "idle" THEN Idle ELSE [loop EXCEPT !.pc = to]

ProcessMessage ==
    /\ loop.pc = "idle" /\ responses # <<>>
    /\ responses' = Tail(responses)
    /\ loop' = IF Head(responses).id \in sents
                 THEN [pc |-> "resolving", answer |-> Head(responses)] ELSE Idle
    /\ UNCHANGED <<callVars, clear, timers, sents, requests, raced, crashed>>

ResolveFind ==
    /\ Loop("resolving", IF loop.answer.id \in sents THEN "erasing" ELSE "idle")
    /\ UNCHANGED <<callVars, clear, timers, sents, requests, responses, raced, crashed>>

\* Mutant: the answered request stays in m_sents.
ResolveEraseNot ==
    /\ Loop("erasing", "erased")
    /\ UNCHANGED <<callVars, clear, timers, sents, requests, responses, raced, crashed>>

ResolveErase ==
    /\ Loop("erasing", "erased")
    /\ EraseSent(loop.answer.id)
    /\ UNCHANGED <<callVars, clear, timers, requests, responses>>

\* ChannelTimer::stop.
ResolveStop ==
    /\ Loop("erased", "stopped")
    /\ clear' = TRUE
    /\ UNCHANGED <<callVars, timers, sents, requests, responses, raced, crashed>>

ResolveSet ==
    /\ Loop("stopped", "idle")
    /\ SetPromise(loop.answer)
    /\ UNCHANGED <<nextId, call, clear, timers, sents, requests, responses, results, raced>>

\* OnRead discards all it has when the buffer is full or the framing broken.
Discard ==
    /\ loop.pc = "idle" /\ responses # <<>>
    /\ responses' = <<>>
    /\ UNCHANGED <<callVars, clear, timers, sents, requests, loop, raced, crashed>>

LoopThread == ProcessMessage \/ ResolveFind \/ ResolveErase \/ ResolveStop \/ ResolveSet

---------------------------------------------------------------------------
(* The worker, which answers in the order of the requests, late or never.  *)

WorkerAnswers(kind) ==
    /\ requests # <<>>
    /\ requests' = Tail(requests)
    /\ responses' = Append(responses, [id |-> Head(requests), kind |-> kind])
    /\ UNCHANGED <<callVars, clear, timers, sents, loop, raced, crashed>>

WorkerSilent ==
    /\ requests # <<>>
    /\ requests' = Tail(requests)
    /\ UNCHANGED <<callVars, clear, timers, sents, responses, loop, raced, crashed>>

---------------------------------------------------------------------------

Next ==
    /\ ~ crashed
    /\ \/ Request
       \/ \E i \in Id : TimerThread(i)
       \/ LoopThread
       \/ Discard
       \/ \E kind \in {"accepted", "error"} : WorkerAnswers(kind)
       \/ WorkerSilent

Spec == Init /\ [][Next]_vars

\* The operating system runs every thread that can run; nothing is assumed
\* of the worker.
FairSpec ==
    /\ Spec
    /\ WF_vars(~ crashed /\ (SetTimeout \/ Register \/ Write \/ Return))
    /\ WF_vars(~ crashed /\ LoopThread)
    /\ \A i \in Id : WF_vars(~ crashed /\ TimerThread(i))

---------------------------------------------------------------------------
(* Properties.  They make the exception of a timeout that races the answer *)
(* in the few statements between finding a request in m_sents and erasing  *)
(* it: then both threads answer, and the second answer may go to the next  *)
(* request or end the program.                                             *)

TypeOK ==
    /\ nextId \in 0..MaxRequests /\ call \in {"none", "begun", "armed", "registered", "waiting"}
    /\ promise \in Result \cup {Unset} /\ results \in [Id -> Result \cup {Unset}]
    /\ clear \in BOOLEAN /\ raced \in BOOLEAN /\ crashed \in BOOLEAN
    /\ timers \in [Id -> {"none", "started", "sleeping", "expired", "found", "erased", "ended"}]
    /\ sents \subseteq Id
    /\ requests \in Seq(Id) /\ responses \in Seq(Answer)
    /\ loop \in [pc : {"idle", "resolving", "erasing", "erased", "stopped"},
                 answer : Answer \cup {Unset}]

\* What request() returns is the answer to that request or its timeout, though
\* all requests share one promise, late answers keep arriving and old timers
\* come back to life when a later request resets their flag.
OwnAnswer == \A i \in Id : results[i] # Unset /\ ~ raced => results[i].id = i

\* Nobody sets a promise twice, which would end the program.
PromiseSetOnce == crashed => raced

\* How many requests the worker has taken out of the pipe, in which the last
\* request is only once it was written.
Written == IF call \in {"none", "waiting"} THEN nextId ELSE nextId - 1
Taken == Written - Len(requests)

Service == INSTANCE RequestService
    WITH submitted <- nextId, taken <- Taken, busy <- call # "none", broken <- raced

\* The threads, the pipes and the timers implement the service: requests return
\* one at a time and once each, in their order; an answer is the worker's answer
\* to that very request, which it has taken; one that timed out is not answered
\* afterwards.
ImplementsService == Service!Spec

\* m_sents never holds more than the request in progress, and nothing once it
\* has returned.
NothingForgotten ==
    ~ raced => sents \subseteq {nextId} /\ (call = "none" => sents = {})

\* A request that waits is not left alone: it can still be timed out, or
\* somebody is about to set its promise.
TimerWatches ==
    call = "waiting" /\ promise = Unset /\ ~ raced =>
       \/ /\ nextId \in sents /\ ~ clear
          /\ timers[nextId] \in {"started", "sleeping", "expired", "found"}
       \/ timers[nextId] = "erased"
       \/ loop.answer.id = nextId /\ loop.pc \in {"erased", "stopped"}

\* Every request returns, even if the worker never answers.
RequestReturns == call = "waiting" ~> call = "none" \/ raced
=============================================================================
