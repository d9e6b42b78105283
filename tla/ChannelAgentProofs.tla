------------------------- MODULE ChannelAgentProofs -------------------------
(*****************************************************************************)
(* Proofs about ChannelAgent, for any number of requests, and about what     *)
(* carries them, MediasoupLoop and StreamFraming. The argument for the       *)
(* agent: whoever removes a request from m_sents has claimed it, and only    *)
(* he sets the promise. As long as no request is removed twice, one that     *)
(* waits is in m_sents, claimed by its timer, claimed by the loop or         *)
(* answered, and never two of these (OneClaim); since m_mutex is held until  *)
(* the promise is set, a claim is always to the request in progress.         *)
(*                                                                           *)
(* For the loop: a message that was sent is in one place (OnePlace), and     *)
(* when every agent has one in the list, one of them has yet to wake the     *)
(* loop (OneToWake). For the byte streams: what a reader has not parsed      *)
(* yet, in its buffer and then in the pipe, is an unbroken run of bytes up   *)
(* to the end of the last frame (IsRun), and all it delivered lies before.   *)
(*****************************************************************************)
EXTENDS ChannelAgent, MediasoupLoop, StreamFraming, TLAPS, FiniteSetTheorems, SequenceTheorems

TimerClaims(i) == timers[i] = "erased"
LoopClaims == loop.pc \in {"erased", "stopped"}

Registered == call \in {"registered", "waiting"}

\* Claims are to the request in progress, and there is only one.
OneClaim ==
    /\ sents \subseteq {nextId}
    /\ sents # {} => Registered /\ promise = Unset /\ ~ LoopClaims
    /\ \A i \in Id : TimerClaims(i) => /\ i = nextId /\ i \notin sents /\ Registered
                                       /\ promise = Unset /\ ~ LoopClaims
    /\ LoopClaims => /\ loop.answer.id = nextId /\ nextId \notin sents /\ Registered
                     /\ promise = Unset
    /\ loop.pc # "idle" => loop.answer \in Answer

\* What was promised to the request in progress is its own.
PromiseIsOwn ==
    /\ call \in {"begun", "armed"} => promise = Unset
    /\ Registered /\ promise # Unset => promise.id = nextId

\* The timer of the request in progress runs until the request is claimed.
Watched ==
    /\ call = "armed" => ~ clear /\ ~ LoopClaims /\ timers[nextId] \in {"started", "sleeping"}
    /\ nextId \in sents => ~ clear /\ timers[nextId] \in {"started", "sleeping", "expired", "found"}
    /\ Registered /\ promise = Unset => nextId \in sents \/ TimerClaims(nextId) \/ LoopClaims

\* A request has its id from the start.
Numbered == call # "none" => nextId \in Id

Inv ==
    /\ TypeOK
    /\ Numbered
    /\ PromiseSetOnce
    /\ ~ raced => OneClaim /\ PromiseIsOwn /\ Watched
    /\ OwnAnswer

\* An unset promise is told apart from every result.
LEMMA UnsetIsNoResult == Unset \notin Result /\ Unset \notin Answer
  BY DEF Unset, Result, Answer, Id

---------------------------------------------------------------------------
(* Every action preserves the invariant.                                   *)

\* Nothing is registered or claimed when a request begins.
LEMMA BeginStep == ASSUME Inv, ~ crashed, Begin PROVE Inv'
  BY MaxRequestsAssumption DEF Inv, TypeOK, Numbered, PromiseSetOnce, OneClaim, PromiseIsOwn, Watched, OwnAnswer,
     TimerClaims, LoopClaims, Registered, Begin, Id

\* The timer starts with its flag reset, and nobody is about to set it again.
LEMMA SetTimeoutStep == ASSUME Inv, ~ crashed, SetTimeout PROVE Inv'
  BY MaxRequestsAssumption DEF Inv, TypeOK, Numbered, PromiseSetOnce, OneClaim, PromiseIsOwn, Watched, OwnAnswer,
     TimerClaims, LoopClaims, Registered, SetTimeout, Id

\* The request is registered before anybody can claim it.
LEMMA RegisterStep == ASSUME Inv, ~ crashed, Register PROVE Inv'
  <1>1. TypeOK' /\ Numbered' /\ PromiseSetOnce' /\ OwnAnswer'
    BY DEF Inv, TypeOK, Numbered, PromiseSetOnce, OwnAnswer, Register
  <1>2. ASSUME ~ raced
        PROVE  OneClaim' /\ PromiseIsOwn' /\ Watched'
    <2>1. sents = {} /\ ~ LoopClaims /\ promise = Unset /\ \A i \in Id : ~ TimerClaims(i)
      BY <1>2 DEF Inv, OneClaim, PromiseIsOwn, Registered, Register
    <2> QED
      BY <1>2, <2>1 DEF Inv, TypeOK, OneClaim, PromiseIsOwn, Watched, TimerClaims, LoopClaims,
                        Registered, Register
  <1> QED
    BY <1>1, <1>2 DEF Inv, Register

\* Writing the request changes nothing that is shared but the pipe.
LEMMA WriteStep == ASSUME Inv, ~ crashed, Write PROVE Inv'
  <1>1. requests' \in Seq(Id)
    BY DEF Inv, TypeOK, Numbered, Write
  <1> QED
    BY <1>1 DEF Inv, TypeOK, Numbered, PromiseSetOnce, OneClaim, PromiseIsOwn, Watched, OwnAnswer,
                TimerClaims, LoopClaims, Registered, Write

\* The promise is set, so nobody has a claim when m_mutex is released.
LEMMA ReturnStep == ASSUME Inv, ~ crashed, Return PROVE Inv'
  BY MaxRequestsAssumption DEF Inv, TypeOK, Numbered, PromiseSetOnce, OneClaim, PromiseIsOwn, Watched, OwnAnswer,
     TimerClaims, LoopClaims, Registered, Return, Id

\* The flag of a registered request is not set: its timer goes to sleep.
LEMMA TimerStartStep == ASSUME Inv, ~ crashed, NEW i \in Id, TimerStart(i) PROVE Inv'
  BY MaxRequestsAssumption DEF Inv, TypeOK, Numbered, PromiseSetOnce, OneClaim, PromiseIsOwn, Watched, OwnAnswer,
     TimerClaims, LoopClaims, Registered, TimerStart, Timer, callVars, Id

\* The timer of a registered request finds the flag still reset.
LEMMA TimerExpireStep == ASSUME Inv, ~ crashed, NEW i \in Id, TimerExpire(i) PROVE Inv'
  BY MaxRequestsAssumption DEF Inv, TypeOK, Numbered, PromiseSetOnce, OneClaim, PromiseIsOwn, Watched, OwnAnswer,
     TimerClaims, LoopClaims, Registered, TimerExpire, Timer, callVars, Id

\* The timer of a registered request finds it; any other finds nothing.
LEMMA TimerFindStep == ASSUME Inv, ~ crashed, NEW i \in Id, TimerFind(i) PROVE Inv'
  BY MaxRequestsAssumption DEF Inv, TypeOK, Numbered, PromiseSetOnce, OneClaim, PromiseIsOwn, Watched, OwnAnswer,
     TimerClaims, LoopClaims, Registered, TimerFind, Timer, callVars, Id

\* The timer claims the request, or the race has happened.
LEMMA TimerEraseStep == ASSUME Inv, ~ crashed, NEW i \in Id, TimerErase(i) PROVE Inv'
  BY MaxRequestsAssumption DEF Inv, TypeOK, Numbered, PromiseSetOnce, OneClaim, PromiseIsOwn, Watched, OwnAnswer,
     TimerClaims, LoopClaims, Registered, TimerErase, EraseSent, Timer, callVars, Id

\* The timer whose claim it is sets the promise of the request in progress.
LEMMA TimerSetExceptionStep == ASSUME Inv, ~ crashed, NEW i \in Id, TimerSetException(i) PROVE Inv'
  <1> DEFINE timeout == [id |-> i, kind |-> "timeout"]
  <1>1. timeout \in Result /\ timeout # Unset /\ timeout.id = i
    BY UnsetIsNoResult DEF Result
  <1>2. /\ timers' = [timers EXCEPT ![i] = "ended"] /\ timers[i] = "erased"
        /\ promise' = (IF promise = Unset THEN timeout ELSE promise)
        /\ crashed' = (promise # Unset)
        /\ UNCHANGED <<nextId, call, clear, sents, requests, responses, loop, results, raced>>
    BY DEF TimerSetException, Timer, SetPromise
  <1> HIDE DEF timeout
  <1>3. TypeOK' /\ Numbered' /\ OwnAnswer'
    BY <1>1, <1>2 DEF Inv, TypeOK, Numbered, OwnAnswer
  <1>4. ASSUME ~ raced
        PROVE  ~ crashed' /\ OneClaim' /\ PromiseIsOwn' /\ Watched'
    BY <1>1, <1>2, <1>4 DEF Inv, TypeOK, OneClaim, PromiseIsOwn, Watched, TimerClaims, LoopClaims,
                            Registered
  <1> QED
    BY <1>2, <1>3, <1>4 DEF Inv, PromiseSetOnce

\* An answer to no registered request is dropped.
LEMMA ProcessMessageStep == ASSUME Inv, ~ crashed, ProcessMessage PROVE Inv'
  BY MaxRequestsAssumption DEF Inv, TypeOK, Numbered, PromiseSetOnce, OneClaim, PromiseIsOwn, Watched, OwnAnswer,
     TimerClaims, LoopClaims, Registered, ProcessMessage, Idle, callVars, Id

\* Finding the request is no claim yet.
LEMMA ResolveFindStep == ASSUME Inv, ~ crashed, ResolveFind PROVE Inv'
  BY MaxRequestsAssumption DEF Inv, TypeOK, Numbered, PromiseSetOnce, OneClaim, PromiseIsOwn, Watched, OwnAnswer,
     TimerClaims, LoopClaims, Registered, ResolveFind, Loop, Idle, callVars, Id

\* The loop claims the request, or the race has happened.
LEMMA ResolveEraseStep == ASSUME Inv, ~ crashed, ResolveErase PROVE Inv'
  BY MaxRequestsAssumption DEF Inv, TypeOK, Numbered, PromiseSetOnce, OneClaim, PromiseIsOwn, Watched, OwnAnswer,
     TimerClaims, LoopClaims, Registered, ResolveErase, EraseSent, Loop, Idle, callVars, Id

\* The flag is set only when the request in progress is claimed.
LEMMA ResolveStopStep == ASSUME Inv, ~ crashed, ResolveStop PROVE Inv'
  BY MaxRequestsAssumption DEF Inv, TypeOK, Numbered, PromiseSetOnce, OneClaim, PromiseIsOwn, Watched, OwnAnswer,
     TimerClaims, LoopClaims, Registered, ResolveStop, Loop, Idle, callVars, Id

\* The loop sets the promise of the request it has claimed.
LEMMA ResolveSetStep == ASSUME Inv, ~ crashed, ResolveSet PROVE Inv'
  BY MaxRequestsAssumption, UnsetIsNoResult
     DEF Inv, TypeOK, Numbered, PromiseSetOnce, OneClaim, PromiseIsOwn, Watched, OwnAnswer,
     TimerClaims, LoopClaims, Registered, ResolveSet, SetPromise, Result, Loop, Idle, Id

\* Discarded answers leave the request to its timer.
LEMMA DiscardStep == ASSUME Inv, ~ crashed, Discard PROVE Inv'
  BY MaxRequestsAssumption DEF Inv, TypeOK, Numbered, PromiseSetOnce, OneClaim, PromiseIsOwn, Watched, OwnAnswer,
     TimerClaims, LoopClaims, Registered, Discard, callVars, Id

\* The worker only moves ids from one pipe to the other.
LEMMA WorkerStep ==
    ASSUME Inv, ~ crashed, WorkerSilent \/ \E kind \in {"accepted", "error"} : WorkerAnswers(kind)
    PROVE  Inv'
  <1>1. requests # <<>> /\ Head(requests) \in Id /\ Tail(requests) \in Seq(Id)
    BY DEF Inv, TypeOK, WorkerSilent, WorkerAnswers
  <1>2. requests' \in Seq(Id) /\ responses' \in Seq(Answer)
    <2>1. requests' \in Seq(Id) /\ responses \in Seq(Answer)
      BY <1>1 DEF Inv, TypeOK, WorkerSilent, WorkerAnswers
    <2>2. CASE WorkerSilent
      BY <2>1, <2>2 DEF WorkerSilent
    <2>3. ASSUME NEW kind \in {"accepted", "error"}, WorkerAnswers(kind)
          PROVE  responses' \in Seq(Answer)
      <3>1. [id |-> Head(requests), kind |-> kind] \in Answer
        BY <1>1 DEF Answer
      <3> QED
        BY <2>1, <2>3, <3>1 DEF WorkerAnswers
    <2> QED
      BY <2>1, <2>2, <2>3
  <1> QED
    BY <1>2 DEF Inv, TypeOK, Numbered, PromiseSetOnce, OneClaim, PromiseIsOwn, Watched, OwnAnswer,
                TimerClaims, LoopClaims, Registered, WorkerSilent, WorkerAnswers, callVars

---------------------------------------------------------------------------
(* The theorems.                                                           *)

\* The conjuncts of the invariant hold in every reachable state.
THEOREM Invariance == Spec => []Inv
  <1>1. Init => Inv
    <2> SUFFICES ASSUME Init
                 PROVE  Inv
      OBVIOUS
    <2>1. TypeOK
      <3>1. nextId \in 0..MaxRequests
        BY MaxRequestsAssumption DEF Init
      <3>2. loop \in [pc : {"idle", "resolving", "erasing", "erased", "stopped"},
                     answer : Answer \cup {Unset}]
        BY DEF Init, Idle
      <3>3. promise \in Result \cup {Unset} /\ results \in [Id -> Result \cup {Unset}]
        BY DEF Init
      <3>4. timers \in [Id -> {"none", "started", "sleeping", "expired", "found", "erased", "ended"}]
        BY DEF Init
      <3>5. requests \in Seq(Id) /\ responses \in Seq(Answer) /\ sents \subseteq Id
        BY DEF Init
      <3>6. /\ call \in {"none", "begun", "armed", "registered", "waiting"}
            /\ clear \in BOOLEAN /\ raced \in BOOLEAN /\ crashed \in BOOLEAN
        BY DEF Init
      <3> QED
        BY <3>1, <3>2, <3>3, <3>4, <3>5, <3>6 DEF TypeOK
    <2>2. loop.pc = "idle"
      BY DEF Init, Idle
    <2> QED
      BY <2>1, <2>2 DEF Init, Inv, Numbered, PromiseSetOnce, OneClaim, PromiseIsOwn, Watched, OwnAnswer,
                        TimerClaims, LoopClaims, Registered
  <1>2. Inv /\ [Next]_vars => Inv'
    <2> SUFFICES ASSUME Inv, [Next]_vars
                 PROVE  Inv'
      OBVIOUS
    <2>1. CASE Next
      BY <2>1, BeginStep, SetTimeoutStep, RegisterStep, WriteStep, ReturnStep, TimerStartStep,
         TimerExpireStep, TimerFindStep, TimerEraseStep, TimerSetExceptionStep, ProcessMessageStep,
         ResolveFindStep, ResolveEraseStep, ResolveStopStep, ResolveSetStep, DiscardStep, WorkerStep
         DEF Next, Request, TimerThread, LoopThread
    <2>2. CASE UNCHANGED vars
      BY <2>2 DEF vars, callVars, Inv, TypeOK, Numbered, PromiseSetOnce, OneClaim, PromiseIsOwn,
                  Watched, OwnAnswer, TimerClaims, LoopClaims, Registered
    <2> QED
      BY <2>1, <2>2
  <1> QED
    BY <1>1, <1>2, PTL DEF Spec

\* request() returns its own answer or its own timeout, unless both came at the
\* same moment.
THEOREM AnswersAreOwn == Spec => []OwnAnswer
  <1>1. Inv => OwnAnswer
    BY DEF Inv
  <1> QED
    BY <1>1, Invariance, PTL

\* set_value and set_exception find an unset promise, with the same exception.
THEOREM PromisesAreSetOnce == Spec => []PromiseSetOnce
  <1>1. Inv => PromiseSetOnce
    BY DEF Inv
  <1> QED
    BY <1>1, Invariance, PTL

\* m_sents holds the request in progress only.
THEOREM NothingIsForgotten == Spec => []NothingForgotten
  <1>1. Inv => NothingForgotten
    BY DEF Inv, OneClaim, Registered, NothingForgotten
  <1> QED
    BY <1>1, Invariance, PTL

\* No request waits without a timer or somebody about to set its promise: the
\* safety part of RequestReturns.
THEOREM TimerAlwaysWatches == Spec => []TimerWatches
  <1>1. Inv => TimerWatches
    BY DEF Inv, OneClaim, Watched, TimerClaims, LoopClaims, Registered, TimerWatches
  <1> QED
    BY <1>1, Invariance, PTL

---------------------------------------------------------------------------
(* The refinement.  The pipe to the worker holds the last requests in their *)
(* order, and answers exist only to the requests before them: an answer to *)
(* the request in progress means that the pipe is empty.                   *)

Answered(a) == a.id <= Taken

Order ==
    /\ Taken \in 0..nextId
    /\ \A k \in 1..Len(requests) : requests[k] = Taken + k
    /\ \A k \in 1..Len(responses) : Answered(responses[k])
    /\ loop.pc # "idle" => Answered(loop.answer)
    /\ promise # Unset /\ promise.kind # "timeout" => Answered(promise)

\* How far the worker is does not depend on the steps before the pipe.
LEMMA SameTaken ==
    ASSUME Inv, Order, UNCHANGED requests,
           \/ UNCHANGED <<nextId, call>>
           \/ Begin \/ SetTimeout \/ Register \/ Return
    PROVE  Taken' = Taken /\ Taken' \in 0..nextId'
  <1>1. /\ nextId \in Nat /\ nextId' \in Nat /\ nextId <= nextId' /\ Taken \in 0..nextId
        /\ Len(requests') = Len(requests)
    BY MaxRequestsAssumption DEF Inv, TypeOK, Order, Begin, SetTimeout, Register, Return
  <1>2. Written' = Written
    BY DEF Inv, TypeOK, Written, Begin, SetTimeout, Register, Return
  <1> QED
    BY <1>1, <1>2 DEF Taken

\* The steps of the application's thread.
LEMMA RequestOrder == ASSUME Inv, Order, Request PROVE Order'
  <1>1. CASE Begin \/ SetTimeout \/ Register \/ Return
    BY <1>1, SameTaken DEF Order, Answered, Begin, SetTimeout, Register, Return
  <1>2. CASE Write
    <2>1. /\ requests \in Seq(Id) /\ nextId \in Nat /\ nextId \in Id
          /\ call = "registered" /\ call' = "waiting" /\ nextId' = nextId
          /\ requests' = Append(requests, nextId)
      BY <1>2, MaxRequestsAssumption DEF Inv, TypeOK, Numbered, Write
    <2>2. Len(requests') = Len(requests) + 1 /\ Len(requests) \in Nat
      BY <2>1
    <2>3. Taken = nextId - 1 - Len(requests) /\ Taken' = Taken
      BY <2>1, <2>2 DEF Taken, Written
    <2>4. ASSUME NEW k \in 1..Len(requests')
          PROVE  requests'[k] = Taken' + k
      <3>1. CASE k = Len(requests')
        BY <2>1, <2>2, <2>3, <3>1
      <3>2. CASE k \in 1..Len(requests)
        <4>1. requests'[k] = requests[k]
          BY <2>1, <3>2
        <4> QED
          BY <2>3, <3>2, <4>1 DEF Order
      <3> QED
        BY <2>2, <3>1, <3>2
    <2> QED
      BY <1>2, <2>1, <2>3, <2>4 DEF Order, Answered, Write
  <1> QED
    BY <1>1, <1>2 DEF Request

\* A timer puts only a timeout into the promise.
LEMMA TimerOrder == ASSUME Inv, Order, NEW i \in Id, TimerThread(i) PROVE Order'
  <1>1. UNCHANGED <<nextId, call, requests, responses, loop>>
    BY DEF TimerThread, TimerStart, TimerExpire, TimerFind, TimerErase, TimerSetException, callVars
  <1>2. Taken' = Taken /\ Taken' \in 0..nextId'
    BY <1>1, SameTaken
  <1>3. promise' = promise \/ promise'.kind = "timeout"
    BY DEF TimerThread, TimerStart, TimerExpire, TimerFind, TimerErase, TimerSetException, SetPromise,
           callVars
  <1> QED
    BY <1>1, <1>2, <1>3 DEF Order, Answered

\* The loop hands on what it has read.
LEMMA LoopOrder == ASSUME Inv, Order, LoopThread \/ Discard PROVE Order'
  <1>1. UNCHANGED <<nextId, call, requests>>
    BY DEF LoopThread, ProcessMessage, ResolveFind, ResolveErase, ResolveStop, ResolveSet, Discard,
           callVars
  <1>2. Taken' = Taken /\ Taken' \in 0..nextId'
    BY <1>1, SameTaken
  <1>3. CASE ProcessMessage
    <2>1. responses \in Seq(Answer) /\ responses # <<>> /\ responses' = Tail(responses)
      BY <1>3 DEF ProcessMessage, Inv, TypeOK
    <2>2. Answered(Head(responses)) /\ \A k \in 1..Len(responses') : Answered(responses'[k])
      BY <2>1 DEF Order
    <2>3. promise' = promise /\ (loop'.pc # "idle" => loop'.answer = Head(responses))
      BY <1>3 DEF ProcessMessage, Idle, callVars
    <2> QED
      BY <1>1, <1>2, <2>2, <2>3 DEF Order, Answered
  <1>4. CASE Discard
    BY <1>1, <1>2, <1>4 DEF Discard, Order, Answered, callVars
  <1>5. CASE ResolveFind \/ ResolveErase \/ ResolveStop \/ ResolveSet
    <2>1. loop.pc # "idle" /\ responses' = responses
      BY <1>5 DEF ResolveFind, ResolveErase, ResolveStop, ResolveSet, Loop
    <2>2. loop'.pc # "idle" => loop'.answer = loop.answer
      BY <1>5 DEF ResolveFind, ResolveErase, ResolveStop, ResolveSet, Loop, Idle, Inv, TypeOK
    <2>3. promise' = promise \/ promise' = loop.answer
      BY <1>5 DEF ResolveFind, ResolveErase, ResolveStop, ResolveSet, SetPromise, callVars
    <2> QED
      BY <1>1, <1>2, <2>1, <2>2, <2>3 DEF Order, Answered
  <1> QED
    BY <1>3, <1>4, <1>5 DEF LoopThread

\* The worker takes the first request of the pipe.
LEMMA WorkerTakes ==
    ASSUME Inv, Order, WorkerSilent \/ \E kind \in {"accepted", "error"} : WorkerAnswers(kind)
    PROVE  Taken' = Taken + 1 /\ Taken < nextId /\ Order'
  <1>1. /\ requests \in Seq(Id) /\ requests # <<>> /\ requests' = Tail(requests)
        /\ nextId \in Nat /\ UNCHANGED <<nextId, call, promise, loop>>
    BY MaxRequestsAssumption DEF Inv, TypeOK, WorkerSilent, WorkerAnswers, callVars
  <1>2. Len(requests') = Len(requests) - 1 /\ Len(requests) \in Nat \ {0}
    BY <1>1
  <1>3. Taken' = Taken + 1 /\ Taken < nextId /\ Taken \in Int
    BY <1>1, <1>2 DEF Taken, Written
  <1>4. Head(requests) = Taken + 1 /\ \A k \in 1..Len(requests') : requests'[k] = Taken' + k
    BY <1>1, <1>2, <1>3 DEF Order
  <1>5. responses \in Seq(Answer) /\ \A k \in 1..Len(responses) : responses[k].id \in Int
    <2>1. responses \in Seq(Answer) /\ \A k \in 1..Len(responses) : responses[k] \in Answer
      BY DEF Inv, TypeOK
    <2>2. \A a \in Answer : a.id \in Int
      BY DEF Answer, Id
    <2> QED
      BY <2>1, <2>2
  <1>6. ASSUME NEW k \in 1..Len(responses')
        PROVE  responses'[k].id <= Taken'
    <2>1. CASE responses' = responses
      BY <1>3, <1>5, <1>6, <2>1 DEF Order, Answered
    <2>2. CASE \E kind \in {"accepted", "error"} : WorkerAnswers(kind)
      <3>1. PICK kind \in {"accepted", "error"} :
               responses' = Append(responses, [id |-> Head(requests), kind |-> kind])
        BY <2>2 DEF WorkerAnswers
      <3>2. CASE k \in 1..Len(responses)
        <4>1. responses'[k] = responses[k]
          BY <1>5, <3>1, <3>2
        <4> QED
          BY <1>3, <1>5, <3>2, <4>1 DEF Order, Answered
      <3>3. CASE k = Len(responses) + 1
        <4>1. responses'[k] = [id |-> Head(requests), kind |-> kind]
          BY <1>5, <3>1, <3>3
        <4> QED
          BY <1>3, <1>4, <4>1
      <3> QED
        BY <1>5, <3>1, <3>2, <3>3
    <2> QED
      BY <2>1, <2>2 DEF WorkerSilent
  <1>7. /\ loop.pc # "idle" => loop.answer.id \in Int
        /\ promise # Unset => promise.id \in Int
    BY DEF Inv, TypeOK, Answer, Result, Id, Unset
  <1> QED
    BY <1>1, <1>3, <1>4, <1>6, <1>7 DEF Order, Answered

\* The threads, pipes and timers of ChannelAgent implement the service that the
\* application sees: every step is one of its steps or none.
THEOREM ServiceIsImplemented == Spec => ImplementsService
  <1>1. Init => Service!Init /\ Order
    BY DEF Init, Idle, Order, Answered, Taken, Written, Service!Init, Service!Unset, Service!Id, Unset, Id
  <1>2. Inv /\ Order /\ [Next]_vars => Order' /\ [Service!Next]_Service!vars
    <2> SUFFICES ASSUME Inv, Order, [Next]_vars
                 PROVE  Order' /\ [Service!Next]_Service!vars
      OBVIOUS
    <2> USE DEF Service!Next, Service!vars
    <2>1. CASE Begin
      <3>1. Order' /\ Taken' = Taken
        BY <2>1, RequestOrder, SameTaken DEF Request, Begin
      <3>2. Service!Submit
        BY <2>1, <3>1 DEF Service!Submit, Begin
      <3> QED
        BY <3>1, <3>2
    <2>2. CASE SetTimeout \/ Register \/ Write
      <3>1. Order'
        BY <2>2, RequestOrder DEF Request
      <3>2. Taken' = Taken
        <4>1. CASE SetTimeout \/ Register
          BY <4>1, SameTaken DEF SetTimeout, Register
        <4>2. CASE Write
          BY <4>2, MaxRequestsAssumption DEF Write, Taken, Written, Inv, TypeOK, Numbered
        <4> QED
          BY <2>2, <4>1, <4>2
      <3>3. UNCHANGED <<nextId, call # "none", results, raced>>
        BY <2>2 DEF SetTimeout, Register, Write
      <3> QED
        BY <3>1, <3>2, <3>3
    <2>3. CASE Return
      <3>1. Order' /\ Taken' = Taken
        BY <2>3, RequestOrder, SameTaken DEF Request, Return
      <3>2. CASE raced
        BY <2>3, <3>1, <3>2 DEF Service!Break, Return
      <3>3. CASE ~ raced
        <4>1. /\ promise \in Result /\ promise.id = nextId
              /\ promise.kind # "timeout" => Taken = nextId
          BY <2>3, <3>3 DEF Return, Inv, TypeOK, PromiseIsOwn, Registered, Order, Answered
        <4>2. /\ promise = [id |-> nextId, kind |-> promise.kind]
              /\ promise.kind \in {"accepted", "error", "timeout"}
          BY <4>1 DEF Result, Answer
        <4>3. Service!Return(promise.kind)
          BY <2>3, <3>1, <4>1, <4>2 DEF Return, Service!Return
        <4> QED
          BY <3>1, <4>2, <4>3
      <3> QED
        BY <3>2, <3>3
    <2>4. ASSUME NEW i \in Id, TimerThread(i)
          PROVE  Order' /\ [Service!Next]_Service!vars
      <3>1. Order'
        BY <2>4, TimerOrder
      <3>2. UNCHANGED <<nextId, call, requests, results>>
        BY <2>4 DEF TimerThread, TimerStart, TimerExpire, TimerFind, TimerErase, TimerSetException, callVars
      <3>3. raced' = TRUE \/ raced' = raced
        BY <2>4 DEF TimerThread, TimerStart, TimerExpire, TimerFind, TimerErase, TimerSetException,
                    EraseSent, Inv, TypeOK
      <3> QED
        BY <3>1, <3>2, <3>3 DEF Service!Break, Taken, Written
    <2>5. CASE LoopThread \/ Discard
      <3>1. Order'
        BY <2>5, LoopOrder
      <3>2. UNCHANGED <<nextId, call, requests, results>>
        BY <2>5 DEF LoopThread, ProcessMessage, ResolveFind, ResolveErase, ResolveStop, ResolveSet,
                    Discard, callVars
      <3>3. raced' = TRUE \/ raced' = raced
        BY <2>5 DEF LoopThread, ProcessMessage, ResolveFind, ResolveErase, ResolveStop, ResolveSet,
                    Discard, EraseSent, Inv, TypeOK
      <3> QED
        BY <3>1, <3>2, <3>3 DEF Service!Break, Taken, Written
    <2>6. CASE WorkerSilent \/ \E kind \in {"accepted", "error"} : WorkerAnswers(kind)
      <3>1. Taken' = Taken + 1 /\ Taken < nextId /\ Order'
        BY <2>6, WorkerTakes
      <3>2. UNCHANGED <<nextId, call # "none", results, raced>>
        BY <2>6 DEF WorkerSilent, WorkerAnswers, callVars
      <3>3. Service!Take
        BY <3>1, <3>2 DEF Service!Take
      <3> QED
        BY <3>1, <3>3
    <2>7. CASE UNCHANGED vars
      BY <2>7 DEF vars, callVars, Order, Answered, Taken, Written
    <2> QED
      BY <2>1, <2>2, <2>3, <2>4, <2>5, <2>6, <2>7 DEF Next, Request
  <1> QED
    BY <1>1, <1>2, Invariance, PTL DEF Spec, ImplementsService, Service!Spec

----------------------------------------------------------------------------
(* The loop: the inductive invariant.                                      *)

LoopTypeOK ==
    /\ list \in Seq(Message) /\ written \in Seq(Message) /\ dropped \subseteq Message
    /\ writing \in Message \cup {NoMessage}
    /\ pending \in BOOLEAN /\ closing \in BOOLEAN /\ stopped \in BOOLEAN /\ failures \in Nat
    /\ pc \in [Channel -> {"idle", "woken", "pushed", "waiting"}]
    /\ count \in [Channel -> 0..MaxSends]
    /\ \A c \in Channel : pc[c] # "idle" => count[c] > 0
    /\ recycling \in BOOLEAN /\ overlapped \in BOOLEAN
    /\ recycling => writing # NoMessage /\ failures > 0
    /\ overlapped => failures > 0

\* In how many places the message m is.
Places(m) ==
    Occurs(m, list) + Occurs(m, written) + (IF writing = m THEN 1 ELSE 0)
      + (IF m \in dropped THEN 1 ELSE 0)

\* Send has put m into the list, or dropped it.
IsSent(m) == m[2] < count[m[1]] \/ (m[2] = count[m[1]] /\ pc[m[1]] # "woken")

\* The message m is where it should be, or lost when two pushes overlapped.
Placed(m) == Places(m) = (IF IsSent(m) THEN 1 ELSE 0) \/ (overlapped /\ Places(m) = 0)

\* The messages that were sent are in one place, those to come in none.
OnePlace == \A m \in Message : Placed(m)

InHand(m) == writing = m \/ \E i \in DOMAIN list : list[i] = m

\* Agents that do not give up wait for what the loop has of them.
Awaited ==
    ~ MayGiveUp => \A m \in Message : InHand(m) => m = Last(m[1]) /\ pc[m[1]] \in {"pushed", "waiting"}

\* When every agent has a message in the list, one has yet to wake the loop.
OneToWake ==
    ~ MayGiveUp /\ ~ pending /\ ~ closing /\ failures = 0 /\ Len(list) = Cardinality(Channel)
    => \E c \in Channel : pc[c] = "pushed"

LoopInv == LoopTypeOK /\ OnePlace /\ Awaited /\ OneToWake

----------------------------------------------------------------------------
(* How often a message is in a sequence.                                   *)

At(m, s) == {i \in DOMAIN s : s[i] = m}

LEMMA OccursType ==
    ASSUME NEW S, NEW s \in Seq(S), NEW m
    PROVE  /\ IsFiniteSet(At(m, s)) /\ Occurs(m, s) = Cardinality(At(m, s)) /\ Occurs(m, s) \in Nat
           /\ Occurs(m, s) = 0 <=> \A i \in DOMAIN s : s[i] # m
  <1>1. At(m, s) \in SUBSET (1 .. Len(s)) /\ Len(s) \in Nat
    BY DEF At
  <1>2. IsFiniteSet(At(m, s))
    <2>1. IsFiniteSet(1 .. Len(s))
      BY <1>1, FS_Interval
    <2> QED
      BY <1>1, <2>1, FS_Subset
  <1>3. Occurs(m, s) = Cardinality(At(m, s))
    BY DEF Occurs, At
  <1>4. Cardinality(At(m, s)) = 0 <=> At(m, s) = {}
    BY <1>2, FS_EmptySet
  <1> QED
    BY <1>2, <1>3, <1>4, FS_CardinalityType DEF At

LEMMA OccursAppend ==
    ASSUME NEW S, NEW s \in Seq(S), NEW x \in S, NEW m
    PROVE  Occurs(m, Append(s, x)) = Occurs(m, s) + (IF x = m THEN 1 ELSE 0)
  <1>1. Append(s, x) \in Seq(S) /\ Len(s) \in Nat
    OBVIOUS
  <1>2. CASE x = m
    <2>1. At(m, Append(s, x)) = At(m, s) \cup {Len(s) + 1}
      BY <1>1, <1>2 DEF At
    <2>2. Len(s) + 1 \notin At(m, s)
      BY <1>1 DEF At
    <2>3. /\ IsFiniteSet(At(m, s)) /\ Occurs(m, s) = Cardinality(At(m, s)) /\ Occurs(m, s) \in Nat
          /\ Occurs(m, Append(s, x)) = Cardinality(At(m, Append(s, x)))
      BY <1>1, OccursType
    <2>4. Cardinality(At(m, s) \cup {Len(s) + 1}) = Cardinality(At(m, s)) + 1
      BY <2>2, <2>3, FS_AddElement
    <2> QED
      BY <1>2, <2>1, <2>3, <2>4
  <1>3. CASE x # m
    <2>1. At(m, Append(s, x)) = At(m, s)
      BY <1>1, <1>3 DEF At
    <2>2. /\ Occurs(m, s) = Cardinality(At(m, s)) /\ Occurs(m, s) \in Nat
          /\ Occurs(m, Append(s, x)) = Cardinality(At(m, Append(s, x)))
      BY <1>1, OccursType
    <2> QED
      BY <1>3, <2>1, <2>2
  <1> QED
    BY <1>2, <1>3

LEMMA OccursTail ==
    ASSUME NEW S, NEW s \in Seq(S), s # <<>>, NEW m
    PROVE  Occurs(m, s) = Occurs(m, Tail(s)) + (IF Head(s) = m THEN 1 ELSE 0)
  <1>1. /\ Tail(s) \in Seq(S) /\ Len(s) \in Nat \ {0} /\ Len(Tail(s)) = Len(s) - 1
        /\ \A i \in 1 .. Len(s) - 1 : Tail(s)[i] = s[i + 1]
        /\ DOMAIN s = 1 .. Len(s) /\ DOMAIN Tail(s) = 1 .. Len(s) - 1 /\ Head(s) = s[1]
    OBVIOUS
  <1> DEFINE T == At(m, Tail(s))
             U == At(m, s) \ {1}
             f == [i \in T |-> i + 1]
  <1>2. IsFiniteSet(T) /\ IsFiniteSet(At(m, s)) /\ Occurs(m, s) \in Nat
    BY <1>1, OccursType
  <1>3. f \in Bijection(T, U)
    <2>1. \A i \in T : i \in Nat \ {0} /\ i + 1 \in U
      BY <1>1 DEF At
    <2>2. \A j \in U : j - 1 \in T /\ j = (j - 1) + 1
      BY <1>1 DEF At
    <2>3. f \in [T -> U]
      BY <2>1
    <2>4. \A i, j \in T : f[i] = f[j] => i = j
      BY <2>1
    <2>5. \A j \in U : \E i \in T : f[i] = j
      BY <2>2
    <2>6. DOMAIN f = T
      OBVIOUS
    <2> HIDE DEF f, T, U
    <2> QED
      BY <2>3, <2>4, <2>5, <2>6 DEF Bijection, Injection, Surjection, IsInjective
  <1>4. Cardinality(U) = Cardinality(T)
    BY <1>2, <1>3, FS_Bijection DEF ExistsBijection
  <1>5. 1 \in At(m, s) <=> Head(s) = m
    BY <1>1 DEF At
  <1>6. Cardinality(U) = IF 1 \in At(m, s) THEN Cardinality(At(m, s)) - 1 ELSE Cardinality(At(m, s))
    BY <1>2, FS_RemoveElement
  <1>7. Occurs(m, s) = Cardinality(At(m, s)) /\ Occurs(m, Tail(s)) = Cardinality(T)
    BY <1>1, OccursType
  <1> QED
    BY <1>2, <1>4, <1>5, <1>6, <1>7

\* What is in a sequence once is in one place of it.
LEMMA OccursOnce ==
    ASSUME NEW S, NEW s \in Seq(S), NEW m, Occurs(m, s) <= 1,
           NEW i \in DOMAIN s, NEW j \in DOMAIN s, s[i] = m, s[j] = m
    PROVE  i = j
  <1>1. IsFiniteSet(At(m, s)) /\ Cardinality(At(m, s)) \in Nat /\ Cardinality(At(m, s)) <= 1
    BY OccursType
  <1>2. i \in At(m, s) /\ j \in At(m, s)
    BY DEF At
  <1>3. Cardinality(At(m, s)) # 0
    BY <1>1, <1>2, FS_EmptySet
  <1>4. PICK x : At(m, s) = {x}
    BY <1>1, <1>3, FS_Singleton
  <1> QED
    BY <1>2, <1>4

----------------------------------------------------------------------------
(* The steps of the loop and of its callers.                               *)

LEMMA MessageFacts ==
    /\ \A m \in Message : m[1] \in Channel /\ m[2] \in 1..MaxSends /\ m = <<m[1], m[2]>> /\ m # NoMessage
    /\ \A c \in Channel, k \in 1..MaxSends : <<c, k>> \in Message /\ <<c, k>>[1] = c /\ <<c, k>>[2] = k
  <1>1. \A m \in Message : m[1] \in Channel /\ m[2] \in 1..MaxSends
    BY DEF Message
  <1>2. \A m \in Message : m = <<m[1], m[2]>>
    BY DEF Message
  <1>3. \A m \in Message : m # NoMessage
    <2>1. \A c, k : <<c, k>> # <<>>
      OBVIOUS
    <2> QED
      BY <1>2, <2>1, Zenon DEF NoMessage
  <1>4. \A c \in Channel, k \in 1..MaxSends : <<c, k>> \in Message
    BY DEF Message
  <1>5. \A c \in Channel, k \in 1..MaxSends : <<c, k>>[1] = c /\ <<c, k>>[2] = k
    OBVIOUS
  <1> QED
    BY <1>1, <1>2, <1>3, <1>4, <1>5

LEMMA LastFacts ==
    ASSUME LoopTypeOK, NEW c \in Channel, pc[c] # "idle"
    PROVE  Last(c) \in Message /\ Last(c)[1] = c /\ Last(c)[2] = count[c]
BY MessageFacts, LoopAssumption DEF LoopTypeOK, Last

\* A message the loop has was not written, and the loop has it once.
LEMMA InHandOnce ==
    ASSUME LoopTypeOK, OnePlace, NEW m \in Message, InHand(m)
    PROVE  /\ ~ IsWritten(m) /\ IsSent(m) /\ Occurs(m, list) <= 1
           /\ writing = m => \A i \in DOMAIN list : list[i] # m
  <1>1. /\ Occurs(m, list) \in Nat /\ Occurs(m, written) \in Nat
        /\ Occurs(m, list) = 0 <=> \A i \in DOMAIN list : list[i] # m
        /\ Occurs(m, written) = 0 <=> \A i \in DOMAIN written : written[i] # m
    BY OccursType DEF LoopTypeOK
  <1>2. Placed(m)
    BY DEF OnePlace
  <1> QED
    BY <1>1, <1>2 DEF Placed, Places, InHand, IsWritten

LEMMA SendWakeInv == ASSUME LoopInv, NEW c \in Channel, SendWake(c) PROVE LoopInv'
  <1>1. LoopTypeOK'
    BY LoopAssumption DEF LoopInv, LoopTypeOK, SendWake, raceVars
  <1>2. OnePlace'
    <2> SUFFICES ASSUME NEW m \in Message PROVE Placed(m)'
      BY DEF OnePlace
    <2>1. m[1] \in Channel /\ m[2] \in 1..MaxSends /\ MaxSends \in Nat
      BY MessageFacts, LoopAssumption
    <2>2. IsSent(m)' <=> IsSent(m)
      BY <2>1 DEF LoopInv, LoopTypeOK, SendWake, IsSent
    <2>3. Places(m)' = Places(m) /\ overlapped' = overlapped
      BY DEF SendWake, Places, Occurs, raceVars
    <2> QED
      BY <2>2, <2>3 DEF LoopInv, OnePlace, Placed
  <1>3. Awaited'
    <2> SUFFICES ASSUME ~ MayGiveUp, NEW m \in Message, InHand(m)'
                 PROVE  (m = Last(m[1]) /\ pc[m[1]] \in {"pushed", "waiting"})'
      BY DEF Awaited
    <2>1. m = Last(m[1]) /\ pc[m[1]] \in {"pushed", "waiting"} /\ m[1] \in Channel
      BY MessageFacts DEF LoopInv, Awaited, InHand, SendWake
    <2> QED
      BY <2>1 DEF LoopInv, LoopTypeOK, SendWake, Last
  <1> QED
    BY <1>1, <1>2, <1>3 DEF LoopInv, OneToWake, SendWake

LEMMA SendPushInv == ASSUME LoopInv, NEW c \in Channel, SendPush(c) PROVE LoopInv'
  <1>1. Last(c) \in Message /\ Last(c)[1] = c /\ Last(c)[2] = count[c]
    BY LastFacts DEF LoopInv, SendPush
  <1>0. /\ UNCHANGED <<pending, writing, closing, stopped, count, written, failures, recycling>>
        /\ pc' = [pc EXCEPT ![c] = "pushed"]
        /\ overlapped' \in BOOLEAN /\ (overlapped' => failures > 0) /\ (overlapped => overlapped')
        /\ \/ dropped' = dropped \cup {Last(c)} /\ list' = list
           \/ dropped' = dropped /\ list' = Append(list, Last(c))
           \/ dropped' = dropped /\ list' = list /\ overlapped'
    BY DEF SendPush, Push, LoopInv, LoopTypeOK
  <1>2. LoopTypeOK'
    <2>1. list' \in Seq(Message) /\ dropped' \subseteq Message
      <3>1. Append(list, Last(c)) \in Seq(Message) /\ list \in Seq(Message)
        BY <1>1 DEF LoopInv, LoopTypeOK
      <3>2. dropped \subseteq Message /\ dropped \cup {Last(c)} \subseteq Message
        BY <1>1 DEF LoopInv, LoopTypeOK
      <3> QED
        BY <1>0, <3>1, <3>2
    <2>2. /\ pc' \in [Channel -> {"idle", "woken", "pushed", "waiting"}]
          /\ \A d \in Channel : pc'[d] # "idle" => count[d] > 0
      BY <1>0 DEF LoopInv, LoopTypeOK, SendPush
    <2> QED
      BY <1>0, <2>1, <2>2 DEF LoopInv, LoopTypeOK
  <1>3. OnePlace'
    <2> SUFFICES ASSUME NEW m \in Message PROVE Placed(m)'
      BY DEF OnePlace
    <2>1. m[1] \in Channel /\ m[2] \in Int /\ m = <<m[1], m[2]>> /\ count[m[1]] \in Int /\ Last(c) = <<c, count[c]>>
      BY MessageFacts DEF LoopInv, LoopTypeOK, Last
    <2>2. IsSent(m)' <=> IsSent(m) \/ m = Last(c)
      BY <1>1, <2>1 DEF LoopInv, LoopTypeOK, SendPush, IsSent
    <2>3. m = Last(c) => ~ IsSent(m)
      BY <1>1, <2>1 DEF SendPush, IsSent
    <2>4. Placed(m)
      BY DEF LoopInv, OnePlace
    <2>5. /\ Occurs(m, list) \in Nat /\ Occurs(m, written) \in Nat
          /\ Occurs(m, Append(list, Last(c))) = Occurs(m, list) + (IF Last(c) = m THEN 1 ELSE 0)
      BY <1>1, OccursType, OccursAppend DEF LoopInv, LoopTypeOK
    <2>6. /\ Occurs(m, written)' = Occurs(m, written) /\ writing' = writing
          /\ \/ dropped' = dropped \cup {Last(c)} /\ Occurs(m, list)' = Occurs(m, list)
             \/ dropped' = dropped /\ Occurs(m, list)' = Occurs(m, Append(list, Last(c)))
             \/ dropped' = dropped /\ Occurs(m, list)' = Occurs(m, list) /\ overlapped'
      BY <1>0 DEF Occurs
    <2>7. m = Last(c) => Places(m) = 0
      BY <2>3, <2>4 DEF Placed
    <2> QED
      BY <1>0, <2>2, <2>3, <2>4, <2>5, <2>6, <2>7 DEF Places, Placed
  <1>4. Awaited'
    <2> SUFFICES ASSUME ~ MayGiveUp, NEW m \in Message, InHand(m)'
                 PROVE  (m = Last(m[1]) /\ pc[m[1]] \in {"pushed", "waiting"})'
      BY DEF Awaited
    <2>1. InHand(m) \/ m = Last(c)
      <3>1. list \in Seq(Message) /\ writing' = writing /\ (list' = list \/ list' = Append(list, Last(c)))
        BY <1>0 DEF LoopInv, LoopTypeOK
      <3>2. \A i \in DOMAIN Append(list, Last(c)) :
              (i \in DOMAIN list /\ Append(list, Last(c))[i] = list[i]) \/ Append(list, Last(c))[i] = Last(c)
        BY <1>1, <3>1
      <3> QED
        BY <3>1, <3>2 DEF InHand
    <2>2. m[1] \in Channel /\ (InHand(m) => m = Last(m[1]) /\ pc[m[1]] \in {"pushed", "waiting"})
      BY MessageFacts DEF LoopInv, Awaited
    <2> QED
      BY <1>1, <2>1, <2>2 DEF LoopInv, LoopTypeOK, SendPush, Last
  <1>5. OneToWake'
    BY <1>0 DEF OneToWake, LoopInv, LoopTypeOK
  <1> QED
    BY <1>2, <1>3, <1>4, <1>5 DEF LoopInv

LEMMA SendWakeAgainInv == ASSUME LoopInv, NEW c \in Channel, SendWakeAgain(c) PROVE LoopInv'
  <1>1. LoopTypeOK'
    BY DEF LoopInv, LoopTypeOK, SendWakeAgain, raceVars
  <1>2. OnePlace'
    <2> SUFFICES ASSUME NEW m \in Message PROVE Placed(m)'
      BY DEF OnePlace
    <2>1. m[1] \in Channel
      BY MessageFacts
    <2>2. IsSent(m)' <=> IsSent(m)
      BY <2>1 DEF LoopInv, LoopTypeOK, SendWakeAgain, IsSent
    <2>3. Places(m)' = Places(m) /\ overlapped' = overlapped
      BY DEF SendWakeAgain, Places, Occurs, raceVars
    <2> QED
      BY <2>2, <2>3 DEF LoopInv, OnePlace, Placed
  <1>3. Awaited'
    BY MessageFacts DEF LoopInv, LoopTypeOK, Awaited, InHand, SendWakeAgain, Last
  <1> QED
    BY <1>1, <1>2, <1>3 DEF LoopInv, OneToWake, SendWakeAgain

\* An agent that gets its answer has no message in the list any more.
LEMMA AnsweredOrTimedOutInv == ASSUME LoopInv, NEW c \in Channel, AnsweredOrTimedOut(c) PROVE LoopInv'
  <1>1. LoopTypeOK'
    BY DEF LoopInv, LoopTypeOK, AnsweredOrTimedOut, raceVars
  <1>2. OnePlace'
    <2> SUFFICES ASSUME NEW m \in Message PROVE Placed(m)'
      BY DEF OnePlace
    <2>1. m[1] \in Channel
      BY MessageFacts
    <2>2. IsSent(m)' <=> IsSent(m)
      BY <2>1 DEF LoopInv, LoopTypeOK, AnsweredOrTimedOut, IsSent
    <2>3. Places(m)' = Places(m) /\ overlapped' = overlapped
      BY DEF AnsweredOrTimedOut, Places, Occurs, raceVars
    <2> QED
      BY <2>2, <2>3 DEF LoopInv, OnePlace, Placed
  <1>3. Awaited'
    <2> SUFFICES ASSUME ~ MayGiveUp, NEW m \in Message, InHand(m)'
                 PROVE  (m = Last(m[1]) /\ pc[m[1]] \in {"pushed", "waiting"})'
      BY DEF Awaited
    <2>1. InHand(m)
      BY DEF InHand, AnsweredOrTimedOut
    <2>2. m = Last(m[1]) /\ pc[m[1]] \in {"pushed", "waiting"} /\ m[1] \in Channel
      BY <2>1, MessageFacts DEF LoopInv, Awaited
    <2>3. ~ IsWritten(m)
      BY <2>1, InHandOnce DEF LoopInv
    <2>4. m[1] # c
      BY <2>2, <2>3 DEF AnsweredOrTimedOut
    <2> QED
      BY <2>2, <2>4 DEF AnsweredOrTimedOut, LoopInv, LoopTypeOK, Last
  <1>4. OneToWake'
    BY DEF OneToWake, AnsweredOrTimedOut, LoopInv, LoopTypeOK
  <1> QED
    BY <1>1, <1>2, <1>3, <1>4 DEF LoopInv

\* Agents that do not give up have a message each in the list at most, and one
\* less when the loop's thread has taken one or somebody waits for none.
LEMMA ListIsShort ==
    ASSUME LoopTypeOK, OnePlace, Awaited, ~ MayGiveUp
    PROVE  /\ Len(list) \in Nat /\ Cardinality(Channel) \in Nat /\ Cardinality(Channel) > 0
           /\ Len(list) <= Cardinality(Channel)
           /\ writing # NoMessage => Len(list) < Cardinality(Channel)
  <1> DEFINE f == [i \in 1 .. Len(list) |-> list[i][1]]
  <1>1. /\ list \in Seq(Message) /\ Len(list) \in Nat /\ DOMAIN list = 1 .. Len(list)
        /\ IsFiniteSet(Channel)
    BY LoopAssumption DEF LoopTypeOK
  <1>2. Cardinality(Channel) \in Nat /\ Cardinality(Channel) > 0
    BY LoopAssumption, FS_CardinalityType, FS_EmptySet
  <1>3. \A i \in 1 .. Len(list) : list[i] \in Message /\ InHand(list[i])
    BY <1>1 DEF InHand
  <1>4. \A i \in 1 .. Len(list) : list[i][1] \in Channel /\ list[i] = Last(list[i][1])
    BY <1>3, MessageFacts DEF Awaited
  <1>5. \A i, j \in 1 .. Len(list) : f[i] = f[j] => i = j
    <2> SUFFICES ASSUME NEW i \in 1 .. Len(list), NEW j \in 1 .. Len(list), f[i] = f[j] PROVE i = j
      OBVIOUS
    <2>1. list[i] = list[j]
      BY <1>4
    <2>2. Occurs(list[i], list) <= 1
      BY <1>3, InHandOnce
    <2> QED
      BY <1>1, <2>1, <2>2, OccursOnce
  <1>6. f \in [1 .. Len(list) -> Channel] /\ DOMAIN f = 1 .. Len(list)
    BY <1>4
  <1>7. f \in Injection(1 .. Len(list), Channel)
    <2> HIDE DEF f
    <2> QED
      BY <1>5, <1>6 DEF Injection, IsInjective
  <1>8. Cardinality(1 .. Len(list)) = Len(list)
    <2>1. \A n \in Nat : Cardinality(1 .. n) = n
      BY FS_Interval
    <2> QED
      BY <1>1, <2>1
  <1>9. /\ Len(list) <= Cardinality(Channel)
        /\ Len(list) = Cardinality(Channel) <=> f \in Surjection(1 .. Len(list), Channel)
    <2> HIDE DEF f
    <2> QED
      BY <1>1, <1>7, <1>8, FS_Injection
  <1>10. ASSUME writing # NoMessage PROVE Len(list) # Cardinality(Channel)
    <2>1. writing \in Message /\ InHand(writing)
      BY <1>10 DEF LoopTypeOK, InHand
    <2>2. writing[1] \in Channel /\ writing = Last(writing[1])
      BY <2>1, MessageFacts DEF Awaited
    <2>3. \A i \in 1 .. Len(list) : list[i] # writing
      BY <1>1, <2>1, InHandOnce
    <2>4. \A i \in 1 .. Len(list) : f[i] # writing[1]
      BY <1>4, <2>2, <2>3
    <2>5. f \notin Surjection(1 .. Len(list), Channel)
      <3> HIDE DEF f
      <3> QED
        BY <2>2, <2>4 DEF Surjection
    <2> QED
      BY <1>9, <2>5
  <1> QED
    BY <1>1, <1>2, <1>9, <1>10

LEMMA AsyncInv == ASSUME LoopInv, Async PROVE LoopInv'
  <1>1. list \in Seq(Message) /\ writing = NoMessage /\ ~ recycling
        /\ UNCHANGED <<recycling, overlapped>>
    BY DEF LoopInv, LoopTypeOK, Async, raceVars
  <1>2. CASE list' = list /\ writing' = writing
    <2>1. LoopTypeOK' /\ Awaited'
      BY <1>1, <1>2 DEF LoopInv, LoopTypeOK, Async, Awaited, InHand, Last
    <2>2. OnePlace'
      BY <1>1, <1>2 DEF LoopInv, OnePlace, Placed, Places, IsSent, Occurs, Async
    <2>3. OneToWake'
      <3> SUFFICES ASSUME ~ MayGiveUp, ~ closing, Len(list) = Cardinality(Channel) PROVE FALSE
        BY <1>2 DEF OneToWake, Async
      <3>1. list = <<>>
        BY <1>1, <1>2, MessageFacts DEF Async
      <3> QED
        BY <3>1, ListIsShort DEF LoopInv
    <2> QED
      BY <2>1, <2>2, <2>3 DEF LoopInv
  <1>3. CASE list # <<>> /\ writing' = Head(list) /\ list' = Tail(list)
    <2>1. /\ Head(list) \in Message /\ Tail(list) \in Seq(Message) /\ Len(Tail(list)) = Len(list) - 1
          /\ Len(list) \in Nat /\ Head(list) = list[1] /\ 1 \in DOMAIN list
          /\ \A i \in DOMAIN Tail(list) : i + 1 \in DOMAIN list /\ Tail(list)[i] = list[i + 1]
      BY <1>1, <1>3
    <2>2. LoopTypeOK'
      <3>1. list' \in Seq(Message) /\ writing' \in Message
        BY <1>3, <2>1
      <3> QED
        BY <1>1, <3>1 DEF LoopInv, LoopTypeOK, Async
    <2>3. OnePlace'
      <3> SUFFICES ASSUME NEW m \in Message PROVE Places(m)' = Places(m)
        BY <1>1 DEF LoopInv, OnePlace, Placed, IsSent, Async
      <3>1. writing # m
        BY <1>1, MessageFacts
      <3>2. Occurs(m, list) = Occurs(m, Tail(list)) + (IF Head(list) = m THEN 1 ELSE 0)
        BY <1>1, <1>3, OccursTail
      <3>3. Occurs(m, Tail(list)) \in Nat /\ Occurs(m, written) \in Nat
        BY <2>1, OccursType DEF LoopInv, LoopTypeOK
      <3>4. Occurs(m, list)' = Occurs(m, Tail(list)) /\ Occurs(m, written)' = Occurs(m, written) /\ dropped' = dropped
        BY <1>3 DEF Async, Occurs
      <3> QED
        BY <1>3, <3>1, <3>2, <3>3, <3>4 DEF Places
    <2>4. Awaited'
      <3>1. \A m \in Message : InHand(m)' => InHand(m)
        BY <1>3, <2>1 DEF InHand
      <3> QED
        BY <3>1 DEF LoopInv, Awaited, Last, Async
    <2>5. OneToWake'
      <3> SUFFICES ASSUME ~ MayGiveUp PROVE Len(list') # Cardinality(Channel)
        BY DEF OneToWake
      <3> QED
        BY <1>3, <2>1, ListIsShort DEF LoopInv
    <2> QED
      BY <2>2, <2>3, <2>4, <2>5 DEF LoopInv
  <1> QED
    BY <1>2, <1>3 DEF Async

\* What the loop's thread has written or put back is still in one place.
LEMMA WriteInv == ASSUME LoopInv, WriteTaken \/ PushedBack PROVE LoopInv'
  <1>1. /\ writing \in Message /\ list \in Seq(Message) /\ written \in Seq(Message)
        /\ Append(list, writing) \in Seq(Message) /\ Append(written, writing) \in Seq(Message)
    BY DEF LoopInv, LoopTypeOK, WriteTaken, PushedBack
  <1>2. /\ \/ list' = list /\ written' = Append(written, writing)
           \/ list' = Append(list, writing) /\ written' = written /\ failures > 0
           \/ list' = list /\ written' = written /\ overlapped
        /\ writing' = NoMessage /\ ~ recycling'
        /\ UNCHANGED <<pending, closing, stopped, pc, count, dropped, failures, overlapped>>
    BY DEF WriteTaken, PushedBack, Push, raceVars, LoopInv, LoopTypeOK
  <1>3. LoopTypeOK'
    <2>1. list' \in Seq(Message) /\ written' \in Seq(Message)
      BY <1>1, <1>2
    <2> QED
      BY <1>2, <2>1 DEF LoopInv, LoopTypeOK, WriteTaken, PushedBack, raceVars
  <1>4. OnePlace'
    <2> SUFFICES ASSUME NEW m \in Message
                 PROVE  Places(m)' = Places(m) \/ (overlapped /\ Places(m)' = 0)
      BY <1>2 DEF LoopInv, OnePlace, Placed, IsSent
    <2>0. Placed(m) /\ (writing = m => InHand(m))
      BY DEF LoopInv, OnePlace, InHand
    <2>1. /\ Occurs(m, Append(list, writing)) = Occurs(m, list) + (IF writing = m THEN 1 ELSE 0)
          /\ Occurs(m, Append(written, writing)) = Occurs(m, written) + (IF writing = m THEN 1 ELSE 0)
          /\ Occurs(m, list) \in Nat /\ Occurs(m, written) \in Nat
      BY <1>1, OccursAppend, OccursType
    <2>2. \/ Occurs(m, list)' = Occurs(m, list) /\ Occurs(m, written)' = Occurs(m, Append(written, writing))
          \/ Occurs(m, list)' = Occurs(m, Append(list, writing)) /\ Occurs(m, written)' = Occurs(m, written)
          \/ /\ overlapped
             /\ Occurs(m, list)' = Occurs(m, list) /\ Occurs(m, written)' = Occurs(m, written)
      BY <1>2 DEF Occurs
    <2>3. writing' # m /\ dropped' = dropped
      BY <1>2, MessageFacts
    <2> QED
      BY <2>0, <2>1, <2>2, <2>3 DEF Places, Placed
  <1>5. Awaited'
    <2>1. \A m \in Message : InHand(m)' => InHand(m)
      <3>1. \A i \in DOMAIN Append(list, writing) :
              (i \in DOMAIN list /\ Append(list, writing)[i] = list[i]) \/ Append(list, writing)[i] = writing
        BY <1>1
      <3> QED
        BY <1>2, <3>1, MessageFacts DEF InHand
    <2> QED
      BY <1>2, <2>1 DEF LoopInv, Awaited, Last
  <1>6. OneToWake'
    <2> SUFFICES ASSUME ~ MayGiveUp, failures' = 0 PROVE Len(list') # Cardinality(Channel)
      BY DEF OneToWake
    <2>1. list' = list
      BY <1>2
    <2>2. writing # NoMessage
      BY <1>1, MessageFacts
    <2> QED
      BY <2>1, <2>2, ListIsShort DEF LoopInv
  <1> QED
    BY <1>3, <1>4, <1>5, <1>6 DEF LoopInv

LEMMA WriteFailedInv == ASSUME LoopInv, WriteFailed PROVE LoopInv'
  <1>1. /\ UNCHANGED <<list, pending, writing, closing, stopped, pc, count, written, dropped, overlapped>>
        /\ failures' = failures + 1 /\ recycling' = TRUE /\ writing # NoMessage /\ failures \in Nat
    BY DEF WriteFailed, LoopInv, LoopTypeOK
  <1>2. LoopTypeOK'
    BY <1>1 DEF LoopInv, LoopTypeOK
  <1>3. OnePlace' /\ Awaited'
    BY <1>1 DEF LoopInv, OnePlace, Placed, Places, IsSent, Occurs, Awaited, InHand, Last
  <1>4. OneToWake'
    BY <1>1 DEF OneToWake
  <1> QED
    BY <1>2, <1>3, <1>4 DEF LoopInv

LEMMA DestroyInv == ASSUME LoopInv, Destroy \/ UNCHANGED loopVars PROVE LoopInv'
  <1>1. UNCHANGED <<list, writing, pc, count, written, dropped, failures, recycling, overlapped>>
    BY DEF Destroy, loopVars, raceVars
  <1>2. LoopTypeOK'
    BY <1>1 DEF LoopInv, LoopTypeOK, Destroy, loopVars
  <1>3. OnePlace'
    BY <1>1 DEF LoopInv, OnePlace, Placed, Places, IsSent, Occurs
  <1>4. Awaited'
    BY <1>1 DEF LoopInv, Awaited, InHand, Last
  <1>5. OneToWake'
    BY DEF LoopInv, OneToWake, Destroy, loopVars
  <1> QED
    BY <1>2, <1>3, <1>4, <1>5 DEF LoopInv

LEMMA LoopInitInv == LoopInit => LoopInv
  <1> SUFFICES ASSUME LoopInit PROVE LoopInv
    OBVIOUS
  <1>1. LoopTypeOK
    <2>1. list \in Seq(Message) /\ written \in Seq(Message)
      BY DEF LoopInit
    <2>2. 0 \in 0..MaxSends
      BY LoopAssumption
    <2> QED
      BY <2>1, <2>2 DEF LoopInit, LoopTypeOK
  <1>2. OnePlace
    <2> SUFFICES ASSUME NEW m \in Message PROVE Placed(m)
      BY DEF OnePlace
    <2>1. m[1] \in Channel /\ m[2] \in 1..MaxSends /\ m # NoMessage
      BY MessageFacts
    <2>2. ~ IsSent(m)
      BY <2>1 DEF IsSent, LoopInit
    <2>3. list = <<>> /\ written = <<>> /\ <<>> \in Seq(Message) /\ DOMAIN <<>> = {}
      BY DEF LoopInit
    <2>4. Occurs(m, list) = 0 /\ Occurs(m, written) = 0
      BY <2>3, OccursType
    <2> QED
      BY <2>1, <2>2, <2>4 DEF Placed, Places, LoopInit
  <1>3. Awaited
    BY MessageFacts DEF Awaited, InHand, LoopInit
  <1>4. OneToWake
    <2>1. Cardinality(Channel) # 0
      BY LoopAssumption, FS_EmptySet
    <2> QED
      BY <2>1 DEF OneToWake, LoopInit
  <1> QED
    BY <1>1, <1>2, <1>3, <1>4 DEF LoopInv

LEMMA LoopNextInv == LoopInv /\ [LoopNext]_loopVars => LoopInv'
BY SendWakeInv, SendPushInv, SendWakeAgainInv, AnsweredOrTimedOutInv, AsyncInv, WriteInv, WriteFailedInv,
   DestroyInv
   DEF LoopNext, Send, UvLoop

\* However agents, wakeups, failing writes and Destroy interleave, each message
\* that Send took is in one place, once, until a Send meets the push_back without
\* the lock, and never in two; and when the loop comes to rest, fewer are left in
\* the list than there are agents, if these wait for their answers
\* (Mediasoup.cpp:163-245), for any number of agents and messages.
THEOREM MessagesAlwaysAccounted == LoopSpec => []MessagesAccounted
  <1>1. LoopInv => EachMessageOnce
    <2> SUFFICES ASSUME LoopInv, NEW c \in Channel, NEW k \in 1..count[c]
                 PROVE  \/ Places(<<c, k>>) = (IF k = count[c] /\ pc[c] = "woken" THEN 0 ELSE 1)
                        \/ overlapped /\ Places(<<c, k>>) = 0
      BY Zenon DEF EachMessageOnce, Places
    <2>1. count[c] \in 0..MaxSends /\ MaxSends \in Nat
      BY LoopAssumption DEF LoopInv, LoopTypeOK
    <2>2. <<c, k>> \in Message /\ <<c, k>>[1] = c /\ <<c, k>>[2] = k
      BY <2>1, MessageFacts
    <2>3. IsSent(<<c, k>>) <=> ~ (k = count[c] /\ pc[c] = "woken")
      BY <2>1, <2>2 DEF IsSent
    <2> QED
      BY <2>2, <2>3 DEF LoopInv, OnePlace, Placed
  <1>2. LoopInv => FewLeftBehind
    <2> SUFFICES ASSUME LoopInv, ~ MayGiveUp, ~ pending, ~ closing, failures = 0,
                        \A c \in Channel : pc[c] \in {"idle", "waiting"}
                 PROVE  Len(list) < Cardinality(Channel)
      BY DEF FewLeftBehind
    <2>1. Len(list) # Cardinality(Channel)
      BY DEF LoopInv, OneToWake
    <2> QED
      BY <2>1, ListIsShort DEF LoopInv
  <1>3. LoopSpec => []LoopInv
    BY LoopInitInv, LoopNextInv, PTL DEF LoopSpec
  <1> QED
    BY <1>1, <1>2, <1>3, PTL DEF MessagesAccounted

----------------------------------------------------------------------------
(* The byte streams: the inductive invariant.                              *)

\* What was written and neither parsed nor thrown away: the end of the buffer,
\* then what is on its way.
Held == Len(buffer) - frameStart
Total == Held + Len(pipe)
Unread == [i \in 1 .. Total |-> IF i <= Held THEN buffer[frameStart + i] ELSE pipe[i - Held]]

\* N bytes that follow each other in the frames of the given sizes, up to the end
\* of the last frame.
IsRun(s, N, sizes) ==
    /\ \A i \in 1 .. N : /\ s[i] \in Nat \X Nat
                         /\ s[i][1] \in 1 .. Len(sizes) /\ s[i][2] \in 1 .. sizes[s[i][1]]
                         /\ i + sizes[s[i][1]] - s[i][2] <= N
    /\ \A i \in 1 .. N : \A j \in 1 .. N :
         i < j => /\ j <= i + sizes[s[i][1]] - s[i][2] => s[j] = <<s[i][1], s[i][2] + j - i>>
                  /\ s[i][1] < s[j][1] \/ (s[i][1] = s[j][1] /\ s[i][2] < s[j][2])
    /\ \A i \in 1 .. N - 1 : s[i][2] = sizes[s[i][1]] => s[i + 1] = <<s[i][1] + 1, 1>>
    /\ N > 0 => s[N][1] = Len(sizes)

\* The frame the parser is at.
Front == IF Total = 0 THEN Len(sent) + 1 ELSE Unread[1][1]

FramingTypeOK ==
    /\ reader \in {"tcp", "channel", "agent"}
    /\ sent \in Seq(Nat) /\ \A f \in 1 .. Len(sent) : sent[f] \in Sizes
    /\ pipe \in Seq(Nat \X Nat) /\ buffer \in Seq(Nat \X Nat)
    /\ frameStart \in 0 .. Len(buffer) /\ Len(buffer) <= BufferSize
    /\ reader = "agent" => frameStart = 0 /\ ~ closed
    /\ parsing \in BOOLEAN /\ once \in BOOLEAN /\ closed \in BOOLEAN
    /\ delivered \in Seq(Nat) /\ intact \in BOOLEAN /\ discarded \in BOOLEAN /\ ended \in BOOLEAN

\* What was delivered was sent, and no frame that still begins is among it.
BehindUnread ==
    \A d \in 1 .. Len(delivered) :
        /\ delivered[d] \in 1 .. Len(sent)
        /\ \A i \in 1 .. Total : Unread[i][2] = 1 => delivered[d] < Unread[i][1]

\* While nothing was thrown away the parser is at the beginning of a frame, and
\* all before it was delivered.
InFront ==
    ~ discarded => /\ Total > 0 => Unread[1][2] = 1
                   /\ {delivered[i] : i \in 1 .. Len(delivered)} = {f \in Messages : f < Front}

\* The loop runs while there are bytes to look at, ends when a frame is not all
\* there, and leaves room for more.
LoopEnds ==
    /\ parsing => Held > 0
    /\ ~ parsing /\ ~ closed => /\ reader # "agent" => Len(buffer) < BufferSize
                                /\ ~ discarded /\ Total > 0 => Held < sent[Front]

OnlyTooBig ==
    discarded \/ (closed /\ ~ ended) => (\E f \in 1 .. Len(sent) : sent[f] > BufferSize) \/ reader = "agent"

FramingInv ==
    /\ FramingTypeOK /\ IsRun(Unread, Total, sent) /\ FramesWhole
    /\ BehindUnread /\ InFront /\ LoopEnds /\ OnlyTooBig


----------------------------------------------------------------------------
(* Runs of bytes.                                                          *)

LEMMA FramingConstants ==
    /\ BufferSize \in Nat \ {0} /\ Overhead \in Nat \ {0} /\ MaxFrames \in Nat
    /\ \A n \in Sizes : n \in Nat /\ n >= Overhead /\ n >= 1
BY FramingAssumption

\* t is s, of N elements, without the first k.
IsRest(t, s, N, k) == \A i \in 1 .. N - k : t[i] = s[i + k]

\* t is s, of N elements, and then the n bytes of frame f.
IsLonger(t, s, N, f, n) ==
    /\ \A i \in 1 .. N : t[i] = s[i]
    /\ \A i \in N + 1 .. N + n : t[i] = <<f, i - N>>

LEMMA RunShift ==
    ASSUME NEW s, NEW N \in Nat, NEW sizes \in Seq(Nat), IsRun(s, N, sizes),
           NEW k \in 0 .. N, NEW t, IsRest(t, s, N, k)
    PROVE  IsRun(t, N - k, sizes)
  <1>1. \A i \in 1 .. N - k : i + k \in 1 .. N
    OBVIOUS
  <1>2. ASSUME NEW i \in 1 .. N - k
        PROVE  /\ t[i] \in Nat \X Nat
               /\ t[i][1] \in 1 .. Len(sizes) /\ t[i][2] \in 1 .. sizes[t[i][1]]
               /\ i + sizes[t[i][1]] - t[i][2] <= N - k
    <2> DEFINE f == s[i + k][1]
               m == s[i + k][2]
    <2>1. s[i + k] \in Nat \X Nat /\ f \in 1 .. Len(sizes) /\ m \in 1 .. sizes[f]
      BY <1>1 DEF IsRun
    <2>2. sizes[f] \in Nat
      BY <2>1
    <2>3. (i + k) + sizes[f] - m <= N
      BY <1>1 DEF IsRun
    <2>4. t[i] = s[i + k] /\ t[i][1] = f /\ t[i][2] = m
      BY DEF IsRest
    <2> HIDE DEF f, m
    <2>5. i + sizes[f] - m <= N - k
      BY <2>1, <2>2, <2>3
    <2> QED
      BY <2>1, <2>4, <2>5
  <1>3. ASSUME NEW i \in 1 .. N - k, NEW j \in 1 .. N - k, i < j
        PROVE  /\ j <= i + sizes[t[i][1]] - t[i][2] => t[j] = <<t[i][1], t[i][2] + j - i>>
               /\ t[i][1] < t[j][1] \/ (t[i][1] = t[j][1] /\ t[i][2] < t[j][2])
    <2> DEFINE f == s[i + k][1]
               m == s[i + k][2]
    <2>1. t[i] = s[i + k] /\ t[j] = s[j + k] /\ t[i][1] = f /\ t[i][2] = m /\ i + k < j + k
      BY <1>3 DEF IsRest
    <2>2. f \in 1 .. Len(sizes) /\ m \in 1 .. sizes[f]
      BY <1>1 DEF IsRun
    <2>4. /\ j + k <= i + k + sizes[f] - m => s[j + k] = <<f, m + (j + k) - (i + k)>>
          /\ f < s[j + k][1] \/ (f = s[j + k][1] /\ m < s[j + k][2])
      BY <1>1, <2>1 DEF IsRun
    <2> HIDE DEF f, m
    <2>3. sizes[f] \in Nat /\ m \in Nat
      BY <2>2
    <2>5. m + (j + k) - (i + k) = m + j - i /\ (j <= i + sizes[f] - m => j + k <= i + k + sizes[f] - m)
      <3> DEFINE size == sizes[f]
      <3>1. size \in Nat /\ m \in Nat /\ i \in Nat /\ j \in Nat /\ k \in Nat
        BY <2>3
      <3> HIDE DEF size
      <3>2. m + (j + k) - (i + k) = m + j - i
        BY <3>1
      <3>3. j <= i + size - m => j + k <= i + k + size - m
        BY <3>1
      <3> QED
        BY <3>2, <3>3 DEF size
    <2>6. j <= i + sizes[f] - m => t[j] = <<f, m + j - i>>
      BY <2>1, <2>4, <2>5, Zenon
    <2> QED
      BY <2>1, <2>4, <2>6
  <1>4. ASSUME NEW i \in 1 .. N - k - 1, t[i][2] = sizes[t[i][1]]
        PROVE  t[i + 1] = <<t[i][1] + 1, 1>>
    <2>1. t[i] = s[i + k] /\ t[i + 1] = s[i + k + 1] /\ i + k \in 1 .. N - 1
      <3>1. i \in 1 .. N - k /\ i + 1 \in 1 .. N - k /\ i + k \in 1 .. N - 1 /\ (i + 1) + k = i + k + 1
        OBVIOUS
      <3> QED
        BY <3>1 DEF IsRest
    <2> QED
      BY <1>4, <2>1 DEF IsRun
  <1>5. N - k > 0 => t[N - k][1] = Len(sizes)
    <2>1. N - k > 0 => t[N - k] = s[N] /\ N > 0
      BY DEF IsRest
    <2> QED
      BY <2>1 DEF IsRun
  <1> QED
    BY <1>2, <1>3, <1>4, <1>5 DEF IsRun

LEMMA RunAppend ==
    ASSUME NEW s, NEW N \in Nat, NEW sizes \in Seq(Nat), IsRun(s, N, sizes),
           NEW n \in Nat \ {0}, NEW larger, larger = Append(sizes, n),
           NEW t, IsLonger(t, s, N, Len(sizes) + 1, n)
    PROVE  IsRun(t, N + n, larger)
  <1> DEFINE L == Len(sizes)
  <1>1. /\ Len(larger) = L + 1 /\ larger[L + 1] = n /\ L \in Nat
        /\ \A f \in 1 .. L : larger[f] = sizes[f]
    OBVIOUS
  <1>2. ASSUME NEW i \in 1 .. N
        PROVE  /\ t[i] \in Nat \X Nat /\ t[i][1] \in 1 .. L /\ t[i] = s[i]
               /\ larger[t[i][1]] = sizes[t[i][1]] /\ t[i][2] \in 1 .. larger[t[i][1]]
               /\ larger[t[i][1]] \in Nat
               /\ i + larger[t[i][1]] - t[i][2] <= N
    <2>1. /\ s[i] \in Nat \X Nat
          /\ s[i][1] \in 1 .. Len(sizes) /\ s[i][2] \in 1 .. sizes[s[i][1]]
          /\ i + sizes[s[i][1]] - s[i][2] <= N
      BY DEF IsRun
    <2>2. larger[s[i][1]] = sizes[s[i][1]] /\ sizes[s[i][1]] \in Nat
      BY <1>1, <2>1
    <2>3. t[i] = s[i]
      BY DEF IsLonger
    <2> QED
      BY <2>1, <2>2, <2>3 DEF L
  <1>3. ASSUME NEW i \in N + 1 .. N + n
        PROVE  /\ t[i] = <<L + 1, i - N>> /\ t[i] \in Nat \X Nat /\ t[i][1] = L + 1 /\ t[i][2] = i - N
               /\ larger[t[i][1]] = n /\ i + larger[t[i][1]] - t[i][2] = N + n
    <2>1. t[i] = <<L + 1, i - N>>
      BY DEF IsLonger
    <2>2. t[i][1] = L + 1 /\ t[i][2] = i - N /\ i - N \in Nat /\ L + 1 \in Nat
      BY <1>1, <2>1
    <2> QED
      BY <1>1, <2>1, <2>2
  <1>4. N > 0 => t[N][1] = L
    <2>1. N > 0 => t[N] = s[N]
      BY DEF IsLonger
    <2> QED
      BY <2>1 DEF IsRun
  <1> HIDE DEF L
  <1>5. ASSUME NEW i \in 1 .. N + n
        PROVE  /\ t[i] \in Nat \X Nat
               /\ t[i][1] \in 1 .. Len(larger) /\ t[i][2] \in 1 .. larger[t[i][1]]
               /\ i + larger[t[i][1]] - t[i][2] <= N + n
    <2>1. CASE i \in 1 .. N
      <3> DEFINE f == t[i][1]
                 m == t[i][2]
                 c == larger[f]
      <3>1. t[i] \in Nat \X Nat /\ f \in 1 .. L /\ m \in 1 .. c /\ c \in Nat
        BY <1>2, <2>1
      <3>2. i + c - m <= N
        BY <1>2, <2>1
      <3> HIDE DEF f, m, c
      <3>3. f \in 1 .. Len(larger)
        BY <1>1, <3>1
      <3>4. i + c - m <= N + n
        BY <3>1, <3>2
      <3> QED
        BY <3>1, <3>3, <3>4 DEF f, m, c
    <2>2. CASE i \in N + 1 .. N + n
      <3>1. /\ t[i] \in Nat \X Nat /\ t[i][1] = L + 1 /\ t[i][2] = i - N /\ larger[t[i][1]] = n
            /\ i + larger[t[i][1]] - t[i][2] = N + n
        BY <1>3, <2>2
      <3>2. L + 1 \in 1 .. Len(larger) /\ i - N \in 1 .. n /\ N + n <= N + n
        BY <1>1, <2>2
      <3> QED
        BY <3>1, <3>2
    <2>3. i \in 1 .. N \/ i \in N + 1 .. N + n
      OBVIOUS
    <2> QED
      BY <2>1, <2>2, <2>3
  <1>6. ASSUME NEW i \in 1 .. N + n, NEW j \in 1 .. N + n, i < j
        PROVE  /\ j <= i + larger[t[i][1]] - t[i][2] => t[j] = <<t[i][1], t[i][2] + j - i>>
               /\ t[i][1] < t[j][1] \/ (t[i][1] = t[j][1] /\ t[i][2] < t[j][2])
    <2>1. CASE j \in 1 .. N
      <3>1. i \in 1 .. N
        BY <1>6, <2>1
      <3>2. t[i] = s[i] /\ t[j] = s[j] /\ larger[t[i][1]] = sizes[s[i][1]]
        BY <1>2, <2>1, <3>1
      <3>3. /\ j <= i + sizes[s[i][1]] - s[i][2] => s[j] = <<s[i][1], s[i][2] + j - i>>
            /\ s[i][1] < s[j][1] \/ (s[i][1] = s[j][1] /\ s[i][2] < s[j][2])
        BY <1>6, <2>1, <3>1 DEF IsRun
      <3> QED
        BY <3>2, <3>3, Zenon
    <2>2. CASE i \in 1 .. N /\ j \in N + 1 .. N + n
      <3> DEFINE f == t[i][1]
                 m == t[i][2]
                 c == larger[f]
      <3>1. f \in 1 .. L /\ c \in Nat /\ m \in 1 .. c /\ i + c - m <= N
        BY <1>2, <2>2
      <3>2. t[j][1] = L + 1
        BY <1>3, <2>2
      <3> HIDE DEF f, m, c
      <3>3. ~ (j <= i + c - m)
        BY <2>2, <3>1
      <3>4. f < t[j][1]
        BY <1>1, <3>1, <3>2
      <3> QED
        BY <3>3, <3>4 DEF f, m, c
    <2>3. CASE i \in N + 1 .. N + n /\ j \in N + 1 .. N + n
      <3>1. /\ t[i][1] = L + 1 /\ t[i][2] = i - N
            /\ t[j] = <<L + 1, j - N>> /\ t[j][1] = L + 1 /\ t[j][2] = j - N
        BY <1>3, <2>3
      <3>2. (i - N) + j - i = j - N /\ i - N < j - N
        BY <1>6, <2>3
      <3>3. t[j] = <<t[i][1], t[i][2] + j - i>>
        BY <3>1, <3>2
      <3> QED
        BY <3>1, <3>2, <3>3
    <2>4. j \in 1 .. N \/ (i \in 1 .. N /\ j \in N + 1 .. N + n) \/ (i \in N + 1 .. N + n /\ j \in N + 1 .. N + n)
      BY <1>6
    <2> QED
      BY <2>1, <2>2, <2>3, <2>4
  <1>7. ASSUME NEW i \in 1 .. N + n - 1, t[i][2] = larger[t[i][1]]
        PROVE  t[i + 1] = <<t[i][1] + 1, 1>>
    <2>1. CASE i \in 1 .. N - 1
      <3>1. t[i] = s[i] /\ larger[t[i][1]] = sizes[s[i][1]] /\ t[i + 1] = s[i + 1]
        <4>1. i \in 1 .. N /\ i + 1 \in 1 .. N
          BY <2>1
        <4> QED
          BY <1>2, <4>1
      <3> QED
        BY <1>7, <2>1, <3>1 DEF IsRun
    <2>2. CASE i = N
      <3>1. N + 1 \in N + 1 .. N + n /\ N > 0
        BY <2>2
      <3>2. t[N + 1] = <<L + 1, (N + 1) - N>> /\ (N + 1) - N = 1
        BY <1>3, <3>1
      <3> QED
        BY <1>4, <2>2, <3>1, <3>2
    <2>3. CASE i \in N + 1 .. N + n - 1
      <3>1. t[i][2] = i - N /\ larger[t[i][1]] = n
        <4>1. i \in N + 1 .. N + n
          BY <2>3
        <4> QED
          BY <1>3, <4>1
      <3>2. i - N # n
        BY <2>3
      <3> QED
        BY <1>7, <3>1, <3>2
    <2>4. i \in 1 .. N - 1 \/ i = N \/ i \in N + 1 .. N + n - 1
      OBVIOUS
    <2> QED
      BY <2>1, <2>2, <2>3, <2>4
  <1>8. t[N + n][1] = Len(larger)
    <2>1. N + n \in N + 1 .. N + n
      OBVIOUS
    <2> QED
      BY <1>1, <1>3, <2>1
  <1>9. N + n > 0 /\ N + n \in Nat
    OBVIOUS
  <1> DEFINE M == N + n
  <1>10. \A i \in 1 .. M : /\ t[i] \in Nat \X Nat
                           /\ t[i][1] \in 1 .. Len(larger) /\ t[i][2] \in 1 .. larger[t[i][1]]
                           /\ i + larger[t[i][1]] - t[i][2] <= M
    BY <1>5
  <1>11. \A i \in 1 .. M : \A j \in 1 .. M :
           i < j => /\ j <= i + larger[t[i][1]] - t[i][2] => t[j] = <<t[i][1], t[i][2] + j - i>>
                    /\ t[i][1] < t[j][1] \/ (t[i][1] = t[j][1] /\ t[i][2] < t[j][2])
    BY <1>6, Zenon
  <1>12. \A i \in 1 .. M - 1 : t[i][2] = larger[t[i][1]] => t[i + 1] = <<t[i][1] + 1, 1>>
    <2> TAKE i \in 1 .. M - 1
    <2> HAVE t[i][2] = larger[t[i][1]]
    <2>1. i \in 1 .. N + n - 1
      OBVIOUS
    <2> QED
      BY <1>7, <2>1
  <1>13. M > 0 => t[M][1] = Len(larger)
    BY <1>8
  <1> HIDE DEF M
  <1>14. IsRun(t, M, larger)
    BY <1>10, <1>11, <1>12, <1>13, Zenon DEF IsRun
  <1> QED
    BY <1>14 DEF M


----------------------------------------------------------------------------
(* What a step does to the unread bytes.                                   *)

\* The step removes the first k of them.
Dropped(k) == Total' = Total - k /\ IsRest(Unread', Unread, Total, k)

LEMMA UnreadTypes ==
    ASSUME FramingInv
    PROVE  /\ Held \in Nat /\ Total \in Nat /\ Held <= Total /\ Len(pipe) \in Nat
           /\ Total = Held + Len(pipe) /\ Held = Len(buffer) - frameStart
           /\ Len(sent) \in Nat /\ sent \in Seq(Nat)
           /\ \A f \in 1 .. Len(sent) : sent[f] \in Nat /\ sent[f] >= 1 /\ sent[f] >= Overhead
  <1>1. /\ sent \in Seq(Nat) /\ Len(pipe) \in Nat /\ Len(buffer) \in Nat /\ Len(sent) \in Nat
        /\ frameStart \in 0 .. Len(buffer)
    BY DEF FramingInv, FramingTypeOK
  <1>2. \A f \in 1 .. Len(sent) : sent[f] \in Sizes
    BY DEF FramingInv, FramingTypeOK
  <1>3. \A f \in 1 .. Len(sent) : sent[f] \in Nat /\ sent[f] >= 1 /\ sent[f] >= Overhead
    BY <1>2, FramingConstants
  <1> QED
    BY <1>1, <1>3 DEF Held, Total

LEMMA UnreadBytes ==
    ASSUME FramingInv, NEW i \in 1 .. Total
    PROVE  /\ Unread[i] \in Nat \X Nat
           /\ Unread[i][1] \in 1 .. Len(sent) /\ Unread[i][2] \in 1 .. sent[Unread[i][1]]
           /\ Unread[i][1] \in Nat /\ Unread[i][2] \in Nat
           /\ i + sent[Unread[i][1]] - Unread[i][2] <= Total
BY UnreadTypes DEF FramingInv, IsRun

LEMMA DroppedRun ==
    ASSUME FramingInv, NEW k \in 0 .. Total, Dropped(k), sent' = sent
    PROVE  IsRun(Unread, Total, sent)'
  <1>1. IsRun(Unread', Total - k, sent)
    BY UnreadTypes, RunShift DEF FramingInv, Dropped
  <1> QED
    BY <1>1 DEF Dropped

LEMMA DroppedBehind ==
    ASSUME FramingInv, NEW k \in 0 .. Total, Dropped(k), sent' = sent, delivered' = delivered
    PROVE  BehindUnread'
  <1>1. Total' = Total - k /\ Total \in Nat
    BY UnreadTypes DEF Dropped
  <1>2. \A i \in 1 .. Total - k : i + k \in 1 .. Total /\ Unread'[i] = Unread[i + k]
    BY <1>1 DEF Dropped, IsRest
  <1>3. \A d \in 1 .. Len(delivered) :
           /\ delivered[d] \in 1 .. Len(sent)
           /\ \A i \in 1 .. Total - k : Unread'[i][2] = 1 => delivered[d] < Unread'[i][1]
    BY <1>2 DEF FramingInv, BehindUnread
  <1> QED
    BY <1>1, <1>3 DEF BehindUnread

LEMMA KeptUnread ==
    ASSUME FramingInv, Dropped(0), sent' = sent, reader' = reader, delivered' = delivered,
           discarded' = discarded
    PROVE  IsRun(Unread, Total, sent)' /\ BehindUnread' /\ InFront' /\ Total' = Total /\ Front' = Front
  <1>1. 0 \in 0 .. Total /\ Total \in Nat
    BY UnreadTypes
  <1>2. IsRun(Unread, Total, sent)' /\ BehindUnread'
    BY <1>1, DroppedRun, DroppedBehind
  <1>3. Total' = Total
    BY <1>1 DEF Dropped
  <1>4. Total > 0 => Unread'[1] = Unread[1]
    <2>1. Total > 0 => 1 \in 1 .. Total - 0 /\ 1 + 0 = 1
      BY <1>1
    <2> QED
      BY <2>1 DEF Dropped, IsRest
  <1>5. Front' = Front
    BY <1>1, <1>3, <1>4 DEF Front
  <1>6. Messages' = Messages
    BY DEF Messages
  <1>7. InFront'
    <2>1. InFront
      BY DEF FramingInv
    <2> QED
      BY <1>3, <1>4, <1>5, <1>6, <2>1 DEF InFront
  <1> QED
    BY <1>2, <1>3, <1>5, <1>7

LEMMA LostUnread ==
    ASSUME FramingInv, NEW k \in 0 .. Total, Dropped(k), sent' = sent, delivered' = delivered,
           discarded' = TRUE
    PROVE  IsRun(Unread, Total, sent)' /\ BehindUnread' /\ InFront'
BY DroppedRun, DroppedBehind DEF InFront

\* The frame at the front.
LEMMA FrontFrame ==
    ASSUME FramingInv, Total > 0, Unread[1][2] = 1, NEW f, f = Unread[1][1]
    PROVE  /\ f \in 1 .. Len(sent) /\ f \in Nat /\ sent[f] \in 1 .. Total
           /\ \A j \in 1 .. sent[f] : Unread[j] = <<f, j>>
           /\ sent[f] < Total => Unread[sent[f] + 1] = <<f + 1, 1>>
           /\ sent[f] = Total => f = Len(sent)
           /\ \A j \in sent[f] + 1 .. Total : Unread[j][1] > f
  <1>1. 1 \in 1 .. Total /\ Total \in Nat
    BY UnreadTypes
  <1>2. /\ Unread[1] \in Nat \X Nat /\ f \in 1 .. Len(sent) /\ f \in Nat
        /\ 1 + sent[f] - Unread[1][2] <= Total
    BY <1>1, UnreadBytes
  <1>3. sent[f] \in Nat /\ sent[f] >= 1 /\ sent[f] <= Total
    <2>1. sent[f] \in Nat /\ sent[f] >= 1
      BY <1>2, UnreadTypes
    <2> QED
      BY <1>1, <1>2, <2>1
  <1>4. Unread[1] = <<f, 1>>
    BY <1>2
  <1>5. ASSUME NEW j \in 2 .. Total
        PROVE  /\ j <= 1 + sent[f] - 1 => Unread[j] = <<f, 1 + j - 1>>
               /\ f < Unread[j][1] \/ (f = Unread[j][1] /\ 1 < Unread[j][2])
    <2>1. j \in 1 .. Total /\ 1 < j
      BY <1>1
    <2>2. /\ j <= 1 + sent[Unread[1][1]] - Unread[1][2] => Unread[j] = <<Unread[1][1], Unread[1][2] + j - 1>>
          /\ Unread[1][1] < Unread[j][1] \/ (Unread[1][1] = Unread[j][1] /\ Unread[1][2] < Unread[j][2])
      BY <1>1, <2>1 DEF FramingInv, IsRun
    <2> QED
      BY <2>2
  <1>6. \A j \in 1 .. sent[f] : Unread[j] = <<f, j>>
    <2> TAKE j \in 1 .. sent[f]
    <2>1. CASE j = 1
      BY <1>4, <2>1
    <2>2. CASE j # 1
      <3>1. j \in 2 .. Total /\ j <= 1 + sent[f] - 1 /\ 1 + j - 1 = j
        BY <1>1, <1>3, <2>2
      <3> QED
        BY <1>5, <3>1
    <2> QED
      BY <2>1, <2>2
  <1>7. Unread[sent[f]] = <<f, sent[f]>>
    BY <1>3, <1>6
  <1>8. sent[f] < Total => Unread[sent[f] + 1] = <<f + 1, 1>>
    <2>1. \A i \in 1 .. Total - 1 :
             Unread[i][2] = sent[Unread[i][1]] => Unread[i + 1] = <<Unread[i][1] + 1, 1>>
      BY DEF FramingInv, IsRun
    <2>2. sent[f] < Total => sent[f] \in 1 .. Total - 1
      BY <1>1, <1>3
    <2>3. Unread[sent[f]][1] = f /\ Unread[sent[f]][2] = sent[f]
      BY <1>7
    <2> QED
      BY <2>1, <2>2, <2>3
  <1>9. sent[f] = Total => f = Len(sent)
    <2>1. Unread[Total][1] = Len(sent)
      BY <1>1 DEF FramingInv, IsRun
    <2> QED
      BY <1>7, <2>1
  <1>10. \A j \in sent[f] + 1 .. Total : Unread[j][1] > f
    <2> TAKE j \in sent[f] + 1 .. Total
    <2>1. j \in 1 .. Total /\ sent[f] \in 1 .. Total /\ sent[f] < j
      BY <1>1, <1>3
    <2>2. \/ Unread[sent[f]][1] < Unread[j][1]
          \/ Unread[sent[f]][1] = Unread[j][1] /\ Unread[sent[f]][2] < Unread[j][2]
      BY <2>1 DEF FramingInv, IsRun
    <2>3. f < Unread[j][1] \/ (f = Unread[j][1] /\ sent[f] < Unread[j][2])
      BY <1>7, <2>2
    <2>4. Unread[j][1] \in Nat /\ Unread[j][2] \in Nat /\ Unread[j][2] <= sent[Unread[j][1]]
      <3> DEFINE a == Unread[j][1]
                 b == Unread[j][2]
      <3>1. a \in Nat /\ b \in Nat /\ a \in 1 .. Len(sent) /\ b \in 1 .. sent[a]
        BY <2>1, UnreadBytes
      <3> HIDE DEF a, b
      <3>2. sent[a] \in Nat
        BY <3>1, UnreadTypes
      <3>3. b <= sent[a]
        BY <3>1, <3>2
      <3> QED
        BY <3>1, <3>3 DEF a, b
    <2> QED
      BY <1>2, <1>3, <2>3, <2>4
  <1> QED
    BY <1>1, <1>2, <1>3, <1>6, <1>8, <1>9, <1>10


LEMMA AppendedElements ==
    ASSUME NEW s \in Seq(Nat), NEW x \in Nat, NEW t, t = Append(s, x)
    PROVE  /\ t \in Seq(Nat) /\ Len(t) = Len(s) + 1 /\ t[Len(s) + 1] = x /\ Len(s) \in Nat
           /\ \A i \in 1 .. Len(s) : t[i] = s[i]
           /\ {t[i] : i \in 1 .. Len(t)} = {s[i] : i \in 1 .. Len(s)} \cup {x}
  <1>1. /\ t \in Seq(Nat) /\ Len(t) = Len(s) + 1 /\ t[Len(s) + 1] = x /\ Len(s) \in Nat
        /\ \A i \in 1 .. Len(s) : t[i] = s[i]
    OBVIOUS
  <1>2. 1 .. Len(t) = (1 .. Len(s)) \cup {Len(s) + 1}
    BY <1>1
  <1>3. {t[i] : i \in 1 .. Len(t)} = {s[i] : i \in 1 .. Len(s)} \cup {x}
    BY <1>1, <1>2
  <1> QED
    BY <1>1, <1>3

\* A whole frame is taken from the front and, unless it has no content, given to
\* the listener.
LEMMA TakenUnread ==
    ASSUME FramingInv, Total > 0, Unread[1][2] = 1, NEW f, f = Unread[1][1], Dropped(sent[f]),
           sent' = sent, reader' = reader, discarded' = discarded,
           delivered' = IF reader = "tcp" /\ sent[f] = Overhead THEN delivered ELSE Append(delivered, f)
    PROVE  /\ IsRun(Unread, Total, sent)' /\ BehindUnread' /\ InFront'
           /\ delivered' \in Seq(Nat)
           /\ \A i, j \in 1 .. Len(delivered') : i < j => delivered'[i] < delivered'[j]
  <1>1. /\ f \in 1 .. Len(sent) /\ f \in Nat /\ sent[f] \in 1 .. Total
        /\ sent[f] < Total => Unread[sent[f] + 1] = <<f + 1, 1>>
        /\ sent[f] = Total => f = Len(sent)
        /\ \A j \in sent[f] + 1 .. Total : Unread[j][1] > f
    BY FrontFrame
  <1>2. Total \in Nat /\ Len(sent) \in Nat /\ sent[f] \in 0 .. Total
    BY <1>1, UnreadTypes
  <1>3. IsRun(Unread, Total, sent)'
    BY <1>2, DroppedRun
  <1>4. Total' = Total - sent[f]
        /\ \A i \in 1 .. Total - sent[f] : Unread'[i] = Unread[i + sent[f]] /\ i + sent[f] \in sent[f] + 1 .. Total
    <2> DEFINE c == sent[f]
    <2>1. c \in 0 .. Total /\ Total \in Nat
      BY <1>2
    <2> HIDE DEF c
    <2>2. \A i \in 1 .. Total - c : i + c \in c + 1 .. Total
      BY <2>1
    <2> QED
      BY <2>2 DEF Dropped, IsRest, c
  <1>5. Front' = f + 1 /\ (Total' > 0 => Unread'[1][2] = 1)
    <2>1. CASE sent[f] = Total
      BY <1>1, <1>2, <1>4, <2>1 DEF Front
    <2>2. CASE sent[f] # Total
      <3>1. sent[f] < Total /\ Total' > 0 /\ Total' # 0
        BY <1>1, <1>2, <1>4, <2>2
      <3>2. 1 \in 1 .. Total - sent[f] /\ 1 + sent[f] = sent[f] + 1
        BY <1>1, <1>2, <3>1
      <3>3. Unread'[1] = <<f + 1, 1>>
        BY <1>1, <1>4, <3>1, <3>2
      <3> QED
        BY <3>1, <3>3 DEF Front
    <2> QED
      BY <2>1, <2>2
  <1>6. delivered \in Seq(Nat) /\ Len(delivered) \in Nat
    BY DEF FramingInv, FramingTypeOK
  <1>7. \A d \in 1 .. Len(delivered) : delivered[d] \in 1 .. Len(sent) /\ delivered[d] < f
    BY <1>2 DEF FramingInv, BehindUnread
  <1>8. \A i \in 1 .. Total' : Unread'[i][1] > f /\ Unread'[i][1] \in Nat
    <2> TAKE i \in 1 .. Total'
    <2>1. i \in 1 .. Total - sent[f] /\ i + sent[f] \in 1 .. Total
      BY <1>1, <1>2, <1>4
    <2> QED
      BY <1>1, <1>4, <2>1, UnreadBytes
  <1> DEFINE D == {delivered[i] : i \in 1 .. Len(delivered)}
             E == {delivered'[i] : i \in 1 .. Len(delivered')}
  <1>9. /\ delivered' \in Seq(Nat) /\ Len(delivered') \in Nat
        /\ \A d \in 1 .. Len(delivered') : delivered'[d] \in 1 .. Len(sent) /\ delivered'[d] <= f
        /\ \A i, j \in 1 .. Len(delivered') : i < j => delivered'[i] < delivered'[j]
        /\ E = IF reader = "tcp" /\ sent[f] = Overhead THEN D ELSE D \cup {f}
    <2>0. \A i, j \in 1 .. Len(delivered) : i < j => delivered[i] < delivered[j]
      BY DEF FramingInv, FramesWhole
    <2>1. CASE reader = "tcp" /\ sent[f] = Overhead
      <3>1. delivered' = delivered
        BY <2>1
      <3>2. \A d \in 1 .. Len(delivered) : delivered[d] <= f
        BY <1>1, <1>2, <1>7
      <3> QED
        BY <1>6, <1>7, <2>0, <2>1, <3>1, <3>2
    <2>2. CASE ~ (reader = "tcp" /\ sent[f] = Overhead)
      <3>1. delivered' = Append(delivered, f)
        BY <2>2
      <3>2. /\ delivered' \in Seq(Nat) /\ Len(delivered') = Len(delivered) + 1 /\ delivered'[Len(delivered) + 1] = f
            /\ \A i \in 1 .. Len(delivered) : delivered'[i] = delivered[i]
            /\ E = D \cup {f}
        BY <1>1, <1>6, <3>1, AppendedElements
      <3>3. \A d \in 1 .. Len(delivered') : d \in 1 .. Len(delivered) \/ d = Len(delivered) + 1
        BY <1>6, <3>2
      <3>4. \A d \in 1 .. Len(delivered') : delivered'[d] \in 1 .. Len(sent) /\ delivered'[d] <= f
        BY <1>1, <1>2, <1>7, <3>2, <3>3
      <3>5. ASSUME NEW i \in 1 .. Len(delivered'), NEW j \in 1 .. Len(delivered'), i < j
            PROVE  delivered'[i] < delivered'[j]
        <4>1. i \in 1 .. Len(delivered)
          BY <1>6, <3>2, <3>5
        <4>2. CASE j \in 1 .. Len(delivered)
          BY <2>0, <3>2, <3>5, <4>1, <4>2
        <4>3. CASE j = Len(delivered) + 1
          BY <1>7, <3>2, <4>1, <4>3
        <4> QED
          BY <3>3, <4>2, <4>3
      <3>6. Len(delivered') \in Nat
        BY <1>6, <3>2
      <3> QED
        BY <2>2, <3>2, <3>4, <3>5, <3>6
    <2> QED
      BY <2>1, <2>2
  <1>10. BehindUnread'
    <2>1. \A d \in 1 .. Len(delivered') : /\ delivered'[d] \in 1 .. Len(sent)
                                          /\ \A i \in 1 .. Total' : delivered'[d] < Unread'[i][1]
      <3> TAKE d \in 1 .. Len(delivered')
      <3>1. delivered'[d] \in 1 .. Len(sent) /\ delivered'[d] \in Nat /\ delivered'[d] <= f
        BY <1>2, <1>9
      <3>2. ASSUME NEW i \in 1 .. Total'
            PROVE  delivered'[d] < Unread'[i][1]
        <4> DEFINE u == Unread'[i][1]
                   v == delivered'[d]
        <4>1. u > f /\ u \in Nat
          BY <1>8
        <4>2. v <= f /\ v \in Nat /\ f \in Nat
          BY <1>1, <3>1
        <4> HIDE DEF u, v
        <4>3. v < u
          BY <4>1, <4>2
        <4> QED
          BY <4>3 DEF u, v
      <3> QED
        BY <3>1, <3>2
    <2> QED
      BY <2>1 DEF BehindUnread
  <1>11. InFront'
    <2>1. ~ discarded => D = {x \in Messages : x < f}
      <3>1. Front = f
        BY <1>2 DEF Front
      <3> QED
        BY <3>1 DEF FramingInv, InFront
    <2>2. Messages' = Messages
      BY DEF Messages
    <2>3. {x \in Messages : x < f + 1} = {x \in Messages : x < f} \cup ({f} \cap Messages)
      BY <1>1 DEF Messages
    <2>4. f \in Messages <=> ~ (reader = "tcp" /\ sent[f] = Overhead)
      <3>1. sent[f] \in Nat /\ sent[f] >= Overhead
        BY <1>1, UnreadTypes
      <3> QED
        BY <1>1, <3>1, FramingConstants DEF Messages
    <2>5. ~ discarded => E = {x \in Messages : x < f + 1}
      BY <1>9, <2>1, <2>3, <2>4
    <2> HIDE DEF E, D
    <2>6. ~ discarded' => E = {x \in Messages' : x < Front'}
      BY <1>5, <2>2, <2>5
    <2> QED
      BY <1>5, <2>6 DEF InFront, E
  <1> QED
    BY <1>3, <1>9, <1>10, <1>11


----------------------------------------------------------------------------
(* The steps, as they cut the unread bytes.                                *)

LEMMA SuffixOf ==
    ASSUME NEW S, NEW s \in Seq(S), NEW k \in 0 .. Len(s), NEW t, t = SubSeq(s, k + 1, Len(s))
    PROVE  t \in Seq(S) /\ Len(t) = Len(s) - k /\ \A i \in 1 .. Len(s) - k : t[i] = s[i + k]
  <1>1. Len(s) \in Nat /\ \A i \in k + 1 .. Len(s) : s[i] \in S
    OBVIOUS
  <1>2. /\ t \in Seq(S) /\ Len(t) = IF k + 1 <= Len(s) THEN Len(s) - (k + 1) + 1 ELSE 0
        /\ \A i \in 1 .. Len(s) - (k + 1) + 1 : t[i] = s[(k + 1) + i - 1]
    BY <1>1, SubSeqProperties
  <1> DEFINE L == Len(s)
  <1>3. L \in Nat /\ k \in 0 .. L
    BY <1>1
  <1>4. /\ Len(t) = IF k + 1 <= L THEN L - (k + 1) + 1 ELSE 0
        /\ \A i \in 1 .. L - (k + 1) + 1 : t[i] = s[(k + 1) + i - 1]
    BY <1>2
  <1> HIDE DEF L
  <1>5. Len(t) = L - k
    BY <1>3, <1>4
  <1>6. \A i \in 1 .. L - k : t[i] = s[i + k]
    <2> TAKE i \in 1 .. L - k
    <2>1. i \in 1 .. L - (k + 1) + 1 /\ (k + 1) + i - 1 = i + k
      BY <1>3
    <2> QED
      BY <1>4, <2>1
  <1> QED
    BY <1>2, <1>5, <1>6 DEF L

LEMMA PrefixOf ==
    ASSUME NEW S, NEW s \in Seq(S), NEW n \in 0 .. Len(s), NEW t, t = SubSeq(s, 1, n)
    PROVE  t \in Seq(S) /\ Len(t) = n /\ \A i \in 1 .. n : t[i] = s[i]
  <1>1. Len(s) \in Nat /\ \A i \in 1 .. n : s[i] \in S
    OBVIOUS
  <1>2. /\ t \in Seq(S) /\ Len(t) = IF 1 <= n THEN n - 1 + 1 ELSE 0
        /\ \A i \in 1 .. n - 1 + 1 : t[i] = s[1 + i - 1]
    BY <1>1, SubSeqProperties
  <1> QED
    BY <1>1, <1>2

LEMMA NoneDropped ==
    ASSUME FramingInv, UNCHANGED <<buffer, frameStart, pipe>>
    PROVE  Dropped(0) /\ Held' = Held
  <1>1. Total \in Nat /\ Held' = Held /\ Total' = Total - 0
    BY UnreadTypes DEF Held, Total
  <1>2. Unread' = Unread
    BY DEF Unread, Total, Held
  <1>3. \A i \in 1 .. Total - 0 : i + 0 = i
    BY <1>1
  <1> QED
    BY <1>1, <1>2, <1>3 DEF Dropped, IsRest

LEMMA UnreadIs ==
    ASSUME FramingInv
    PROVE  /\ \A i \in 1 .. Held : Unread[i] = buffer[frameStart + i] /\ frameStart + i \in 1 .. Len(buffer)
           /\ \A i \in Held + 1 .. Total : Unread[i] = pipe[i - Held] /\ i - Held \in 1 .. Len(pipe)
  <1>1. Held \in Nat /\ Total \in Nat /\ Total = Held + Len(pipe) /\ Held = Len(buffer) - frameStart
        /\ frameStart \in Nat /\ Len(buffer) \in Nat /\ Len(pipe) \in Nat
    BY UnreadTypes DEF FramingInv, FramingTypeOK
  <1>2. \A i \in 1 .. Held : i \in 1 .. Total /\ i <= Held /\ frameStart + i \in 1 .. Len(buffer)
    BY <1>1
  <1>3. \A i \in Held + 1 .. Total : i \in 1 .. Total /\ ~ (i <= Held) /\ i - Held \in 1 .. Len(pipe)
    BY <1>1
  <1> QED
    BY <1>2, <1>3 DEF Unread

\* Only bytes of the buffer are dropped.
LEMMA HeldDropped ==
    ASSUME FramingInv, pipe' = pipe, NEW k \in 0 .. Held, Held' = Held - k,
           \A i \in 1 .. Held - k : buffer'[frameStart' + i] = buffer[frameStart + (i + k)]
    PROVE  Dropped(k)
  <1>1. Held \in Nat /\ Total \in Nat /\ Total = Held + Len(pipe) /\ Len(pipe) \in Nat
    BY UnreadTypes
  <1>2. Total' = Total - k
    BY <1>1 DEF Total
  <1>3. ASSUME NEW i \in 1 .. Total - k
        PROVE  Unread'[i] = Unread[i + k]
    <2>1. Unread'[i] = IF i <= Held - k THEN buffer'[frameStart' + i] ELSE pipe[i - (Held - k)]
      BY <1>2 DEF Unread
    <2>2. CASE i <= Held - k
      <3>1. i \in 1 .. Held - k /\ i + k \in 1 .. Held
        BY <1>1, <2>2
      <3> QED
        BY <2>1, <2>2, <3>1, UnreadIs
    <2>3. CASE ~ (i <= Held - k)
      <3>1. i + k \in Held + 1 .. Total /\ i - (Held - k) = (i + k) - Held
        BY <1>1, <2>3
      <3> QED
        BY <2>1, <2>3, <3>1, UnreadIs
    <2> QED
      BY <2>2, <2>3
  <1> QED
    BY <1>2, <1>3 DEF Dropped, IsRest

\* The bytes of the buffer and n more.
LEMMA ReadData ==
    ASSUME FramingInv, NEW n \in 1 .. Len(pipe), NEW data, data = buffer \o SubSeq(pipe, 1, n)
    PROVE  /\ data \in Seq(Nat \X Nat) /\ Len(data) = Len(buffer) + n
           /\ Len(data) - frameStart = Held + n /\ Held + n \in 1 .. Total
           /\ \A i \in 1 .. Held + n : data[frameStart + i] = Unread[i]
  <1>1. /\ Held \in Nat /\ Total \in Nat /\ Total = Held + Len(pipe) /\ Held = Len(buffer) - frameStart
        /\ frameStart \in Nat /\ Len(buffer) \in Nat /\ Len(pipe) \in Nat
        /\ pipe \in Seq(Nat \X Nat) /\ buffer \in Seq(Nat \X Nat)
    BY UnreadTypes DEF FramingInv, FramingTypeOK
  <1> DEFINE new == SubSeq(pipe, 1, n)
  <1>2. new \in Seq(Nat \X Nat) /\ Len(new) = n /\ \A i \in 1 .. n : new[i] = pipe[i]
    <2> DEFINE bytes == Nat \X Nat
    <2>1. pipe \in Seq(bytes) /\ n \in 0 .. Len(pipe) /\ new = SubSeq(pipe, 1, n)
      BY <1>1
    <2> HIDE DEF new, bytes
    <2>2. new \in Seq(bytes) /\ Len(new) = n /\ \A i \in 1 .. n : new[i] = pipe[i]
      BY <2>1, PrefixOf
    <2> QED
      BY <2>2 DEF bytes
  <1> HIDE DEF new
  <1>3. data \in Seq(Nat \X Nat) /\ Len(data) = Len(buffer) + n
    BY <1>1, <1>2 DEF new
  <1>4. /\ \A i \in 1 .. Len(buffer) : data[i] = buffer[i]
        /\ \A i \in Len(buffer) + 1 .. Len(buffer) + n : data[i] = new[i - Len(buffer)]
    <2>1. data = buffer \o new
      BY DEF new
    <2>2. buffer \in Seq(Nat \X Nat) /\ new \in Seq(Nat \X Nat) /\ Len(new) = n
      BY <1>1, <1>2
    <2>3. \A i \in 1 .. Len(buffer) : data[i] = buffer[i]
      BY <2>1, <2>2
    <2>4. \A i \in Len(buffer) + 1 .. Len(buffer) + n : data[i] = new[i - Len(buffer)]
      <3> DEFINE bytes == Nat \X Nat
      <3>1. buffer \in Seq(bytes) /\ new \in Seq(bytes)
        BY <2>2
      <3> HIDE DEF bytes
      <3>2. \A i \in 1 .. Len(buffer) + Len(new) :
               (buffer \o new)[i] = IF i <= Len(buffer) THEN buffer[i] ELSE new[i - Len(buffer)]
        BY <3>1, ConcatProperties, Zenon
      <3> TAKE i \in Len(buffer) + 1 .. Len(buffer) + n
      <3>3. i \in 1 .. Len(buffer) + Len(new) /\ ~ (i <= Len(buffer))
        BY <1>1, <2>2
      <3> QED
        BY <2>1, <3>2, <3>3, Zenon
    <2> QED
      BY <2>3, <2>4
  <1>5. Len(data) - frameStart = Held + n /\ Held + n \in 1 .. Total
    BY <1>1, <1>3
  <1>6. ASSUME NEW i \in 1 .. Held + n
        PROVE  data[frameStart + i] = Unread[i]
    <2>1. CASE i \in 1 .. Held
      <3>1. frameStart + i \in 1 .. Len(buffer) /\ Unread[i] = buffer[frameStart + i]
        BY <2>1, UnreadIs
      <3> QED
        BY <1>4, <3>1
    <2>2. CASE i \in Held + 1 .. Held + n
      <3>1. frameStart + i \in Len(buffer) + 1 .. Len(buffer) + n /\ (frameStart + i) - Len(buffer) = i - Held
            /\ i - Held \in 1 .. n /\ i \in Held + 1 .. Total
        BY <1>1, <2>2
      <3>2. data[frameStart + i] = new[i - Held]
        BY <1>4, <3>1
      <3> QED
        BY <1>2, <3>1, <3>2, UnreadIs
    <2>3. i \in 1 .. Held \/ i \in Held + 1 .. Held + n
      BY <1>1
    <2> QED
      BY <2>1, <2>2, <2>3
  <1> QED
    BY <1>3, <1>5, <1>6

\* What is left of the pipe.
LEMMA PipeRest ==
    ASSUME FramingInv, NEW n \in 1 .. Len(pipe), pipe' = SubSeq(pipe, n + 1, Len(pipe))
    PROVE  /\ pipe' \in Seq(Nat \X Nat) /\ Len(pipe') = Len(pipe) - n
           /\ \A i \in 1 .. Len(pipe) - n : pipe'[i] = Unread[Held + n + i]
  <1>1. /\ Held \in Nat /\ Total \in Nat /\ Total = Held + Len(pipe) /\ Len(pipe) \in Nat
        /\ pipe \in Seq(Nat \X Nat)
    BY UnreadTypes DEF FramingInv, FramingTypeOK
  <1>2. /\ pipe' \in Seq(Nat \X Nat) /\ Len(pipe') = Len(pipe) - n
        /\ \A i \in 1 .. Len(pipe) - n : pipe'[i] = pipe[i + n]
    <2>1. n \in 0 .. Len(pipe)
      BY <1>1
    <2> DEFINE rest == pipe'
    <2>2. rest = SubSeq(pipe, n + 1, Len(pipe))
      OBVIOUS
    <2> DEFINE bytes == Nat \X Nat
    <2>3. pipe \in Seq(bytes)
      BY <1>1
    <2> HIDE DEF rest, bytes
    <2>4. /\ rest \in Seq(bytes) /\ Len(rest) = Len(pipe) - n
          /\ \A i \in 1 .. Len(pipe) - n : rest[i] = pipe[i + n]
      BY <2>1, <2>2, <2>3, SuffixOf
    <2> QED
      BY <2>4 DEF rest, bytes
  <1>3. \A i \in 1 .. Len(pipe) - n : Held + n + i \in Held + 1 .. Total /\ (Held + n + i) - Held = i + n
    BY <1>1
  <1> QED
    BY <1>2, <1>3, UnreadIs

\* Bytes are moved from the pipe to the buffer.
LEMMA ReadDropped ==
    ASSUME FramingInv, NEW n \in 1 .. Len(pipe), pipe' = SubSeq(pipe, n + 1, Len(pipe)),
           buffer' = buffer \o SubSeq(pipe, 1, n), frameStart' = frameStart
    PROVE  Dropped(0) /\ Held' = Held + n
  <1>1. Held \in Nat /\ Total \in Nat /\ Total = Held + Len(pipe) /\ Len(pipe) \in Nat
    BY UnreadTypes
  <1>2. /\ Len(buffer') = Len(buffer) + n
        /\ Len(buffer') - frameStart = Held + n /\ Held + n \in 1 .. Total
        /\ \A i \in 1 .. Held + n : buffer'[frameStart + i] = Unread[i]
    BY ReadData
  <1>3. /\ Len(pipe') = Len(pipe) - n
        /\ \A i \in 1 .. Len(pipe) - n : pipe'[i] = Unread[Held + n + i]
    BY PipeRest
  <1>4. Held' = Held + n /\ Total' = Total
    BY <1>1, <1>2, <1>3 DEF Held, Total
  <1>5. ASSUME NEW i \in 1 .. Total
        PROVE  Unread'[i] = Unread[i]
    <2>1. Unread'[i] = IF i <= Held + n THEN buffer'[frameStart + i] ELSE pipe'[i - (Held + n)]
      BY <1>4 DEF Unread
    <2>2. CASE i <= Held + n
      <3>1. i \in 1 .. Held + n
        BY <1>1, <2>2
      <3> QED
        BY <1>2, <2>1, <2>2, <3>1
    <2>3. CASE ~ (i <= Held + n)
      <3>1. i - (Held + n) \in 1 .. Len(pipe) - n /\ Held + n + (i - (Held + n)) = i
        BY <1>1, <2>3
      <3> QED
        BY <1>3, <2>1, <2>3, <3>1
    <2> QED
      BY <2>2, <2>3
  <1>6. Total - 0 = Total /\ \A i \in 1 .. Total : i + 0 = i
    BY <1>1
  <1> QED
    BY <1>4, <1>5, <1>6 DEF Dropped, IsRest

\* What was read is thrown away.
LEMMA AllDropped ==
    ASSUME FramingInv, NEW n \in 1 .. Len(pipe), pipe' = SubSeq(pipe, n + 1, Len(pipe)),
           buffer' = <<>>, frameStart' = 0
    PROVE  Dropped(Held + n) /\ Held' = 0 /\ Held + n \in 1 .. Total
  <1>1. Held \in Nat /\ Total \in Nat /\ Total = Held + Len(pipe) /\ Len(pipe) \in Nat
    BY UnreadTypes
  <1>2. /\ Len(pipe') = Len(pipe) - n
        /\ \A i \in 1 .. Len(pipe) - n : pipe'[i] = Unread[Held + n + i]
    BY PipeRest
  <1>3. Held' = 0 /\ Total' = Total - (Held + n) /\ Held + n \in 1 .. Total /\ Total' = Len(pipe) - n
    <2>1. Held' = 0
      BY DEF Held
    <2> QED
      BY <1>1, <1>2, <2>1 DEF Total
  <1>4. ASSUME NEW i \in 1 .. Total - (Held + n)
        PROVE  Unread'[i] = Unread[i + (Held + n)]
    <2>1. Unread'[i] = IF i <= 0 THEN buffer'[frameStart' + i] ELSE pipe'[i - 0]
      BY <1>3 DEF Unread
    <2>2. i \in 1 .. Len(pipe) - n /\ ~ (i <= 0) /\ i - 0 = i /\ Held + n + i = i + (Held + n)
      BY <1>1
    <2> QED
      BY <1>2, <2>1, <2>2
  <1> QED
    BY <1>3, <1>4 DEF Dropped, IsRest


----------------------------------------------------------------------------
(* What the parser sees.                                                   *)

\* data is what the buffer holds of the unread bytes.
ShowsHeld(data) ==
    data \in Seq(Nat \X Nat) /\ Len(data) = Held /\ \A i \in 1 .. Held : data[i] = Unread[i]

LEMMA DataShowsHeld ==
    ASSUME FramingInv
    PROVE  /\ ShowsHeld(SubSeq(buffer, frameStart + 1, Len(buffer)))
           /\ reader = "agent" => ShowsHeld(buffer)
  <1>1. /\ Held = Len(buffer) - frameStart /\ frameStart \in 0 .. Len(buffer) /\ buffer \in Seq(Nat \X Nat)
        /\ Len(buffer) \in Nat
    BY UnreadTypes DEF FramingInv, FramingTypeOK
  <1> DEFINE data == SubSeq(buffer, frameStart + 1, Len(buffer))
  <1>2. /\ data \in Seq(Nat \X Nat) /\ Len(data) = Len(buffer) - frameStart
        /\ \A i \in 1 .. Len(buffer) - frameStart : data[i] = buffer[i + frameStart]
    <2>1. data = SubSeq(buffer, frameStart + 1, Len(buffer))
      OBVIOUS
    <2> HIDE DEF data
    <2> QED
      BY <1>1, <2>1, SuffixOf
  <1>3. \A i \in 1 .. Held : Unread[i] = buffer[frameStart + i] /\ i + frameStart = frameStart + i
    BY <1>1, UnreadIs
  <1> HIDE DEF data
  <1>4. ShowsHeld(data)
    BY <1>1, <1>2, <1>3 DEF ShowsHeld
  <1>5. reader = "agent" => ShowsHeld(buffer)
    <2> SUFFICES ASSUME reader = "agent" PROVE ShowsHeld(buffer)
      OBVIOUS
    <2>1. frameStart = 0
      BY DEF FramingInv, FramingTypeOK
    <2>2. Len(buffer) = Held /\ \A i \in 1 .. Held : frameStart + i = i
      BY <1>1, <2>1
    <2> QED
      BY <1>1, <1>3, <2>2 DEF ShowsHeld
  <1> QED
    BY <1>4, <1>5 DEF data

LEMMA InStepMeans ==
    ASSUME FramingInv, NEW data, ShowsHeld(data)
    PROVE  InStep(data) <=> Held > 0 /\ Unread[1][2] = 1
  <1>1. data \in Seq(Nat \X Nat) /\ Len(data) = Held /\ Held \in Nat
    BY UnreadTypes DEF ShowsHeld
  <1>2. data # <<>> <=> Held > 0
    BY <1>1
  <1>3. Held > 0 => data[1] = Unread[1]
    BY <1>1 DEF ShowsHeld
  <1> QED
    BY <1>2, <1>3 DEF InStep

LEMMA CompleteMeans ==
    ASSUME FramingInv, NEW data, ShowsHeld(data), Complete(data), NEW f, f = Unread[1][1]
    PROVE  /\ Total > 0 /\ Held > 0 /\ Unread[1][2] = 1 /\ data[1][1] = f /\ f \in 1 .. Len(sent)
           /\ sent[f] \in 1 .. Held
           /\ SubSeq(data, 1, sent[f]) = Bytes(f, sent[f])
  <1>1. data \in Seq(Nat \X Nat) /\ Len(data) = Held /\ Held \in Nat /\ Total \in Nat /\ Held <= Total
    BY UnreadTypes DEF ShowsHeld
  <1>2. Held > 0 /\ Unread[1][2] = 1 /\ Total > 0
    BY <1>1, InStepMeans DEF Complete
  <1>3. data[1] = Unread[1] /\ data[1][1] = f
    BY <1>1, <1>2 DEF ShowsHeld
  <1>4. /\ f \in 1 .. Len(sent) /\ sent[f] \in 1 .. Total
        /\ \A j \in 1 .. sent[f] : Unread[j] = <<f, j>>
    BY <1>2, FrontFrame
  <1>5. Held >= sent[f]
    BY <1>1, <1>3 DEF Complete
  <1>6. sent[f] \in 1 .. Held /\ sent[f] \in 0 .. Len(data)
    BY <1>1, <1>4, <1>5
  <1> DEFINE c == sent[f]
             p == SubSeq(data, 1, c)
  <1>7. p \in Seq(Nat \X Nat) /\ Len(p) = c /\ \A j \in 1 .. c : p[j] = data[j]
    BY <1>1, <1>6, PrefixOf
  <1>8. \A j \in 1 .. c : data[j] = <<f, j>>
    <2> TAKE j \in 1 .. c
    <2>1. j \in 1 .. Held
      BY <1>1, <1>6
    <2> QED
      BY <1>4, <2>1 DEF ShowsHeld
  <1> HIDE DEF c, p
  <1>9. p = Bytes(f, c)
    BY <1>7, <1>8 DEF Bytes
  <1> QED
    BY <1>2, <1>3, <1>4, <1>6, <1>9 DEF c, p

\* An unfinished frame is all the buffer holds, while nothing was thrown away.
LEMMA IncompleteMeans ==
    ASSUME FramingInv, NEW data, ShowsHeld(data), ~ Complete(data), ~ discarded
    PROVE  /\ Total > 0 => Held < sent[Front]
           /\ Held > 0 => InStep(data) /\ \E f \in 1 .. Len(sent) : sent[f] > Held
  <1>1. Len(data) = Held /\ Held \in Nat /\ Total \in Nat /\ Held <= Total
    BY UnreadTypes DEF ShowsHeld
  <1> SUFFICES ASSUME Total > 0
               PROVE  /\ Held < sent[Front]
                      /\ Held > 0 => InStep(data) /\ \E f \in 1 .. Len(sent) : sent[f] > Held
    BY <1>1
  <1> DEFINE f == Unread[1][1]
  <1>2. Unread[1][2] = 1 /\ Front = f
    BY <1>1 DEF FramingInv, InFront, Front
  <1>3. f \in 1 .. Len(sent) /\ sent[f] \in Nat /\ sent[f] >= 1
    BY <1>1, UnreadBytes, UnreadTypes
  <1>4. Held > 0 => InStep(data) /\ data[1][1] = f
    <2>1. Held > 0 => InStep(data)
      BY <1>2, InStepMeans
    <2>2. Held > 0 => data[1] = Unread[1]
      BY <1>1 DEF ShowsHeld
    <2> QED
      BY <2>1, <2>2
  <1> HIDE DEF f
  <1>5. Held > 0 => ~ (Held >= sent[f])
    BY <1>1, <1>4 DEF Complete
  <1>6. Held < sent[f] /\ sent[f] > Held
    BY <1>1, <1>3, <1>5
  <1> QED
    BY <1>2, <1>3, <1>4, <1>6

\* When the buffer holds nothing unread, no frame in it is unfinished.
LEMMA NothingHeld ==
    ASSUME FramingInv, IsRun(Unread, Total, sent)', sent' = sent, Held' = 0, Total' \in Nat
    PROVE  Total' > 0 => Held' < sent'[Front']
  <1> SUFFICES ASSUME Total' > 0 PROVE Held' < sent'[Front']
    OBVIOUS
  <1>1. 1 \in 1 .. Total' /\ Total' # 0
    OBVIOUS
  <1>2. Unread'[1][1] \in 1 .. Len(sent)
    BY <1>1 DEF IsRun
  <1>3. Front' = Unread'[1][1]
    BY <1>1 DEF Front
  <1> QED
    BY <1>2, <1>3, UnreadTypes


----------------------------------------------------------------------------
(* The steps preserve the invariant.                                       *)

LEMMA BytesType ==
    ASSUME NEW f \in Nat, NEW n \in Nat
    PROVE  /\ Bytes(f, n) \in Seq(Nat \X Nat) /\ Len(Bytes(f, n)) = n
           /\ \A i \in 1 .. n : Bytes(f, n)[i] = <<f, i>>
  <1>1. \A i \in 1 .. n : <<f, i>> \in Nat \X Nat
    OBVIOUS
  <1>2. Bytes(f, n) \in [1 .. n -> Nat \X Nat]
    BY <1>1 DEF Bytes
  <1>3. Bytes(f, n) \in Seq(Nat \X Nat)
    BY <1>2
  <1>4. Len(Bytes(f, n)) = n
    BY <1>2, <1>3
  <1> QED
    BY <1>3, <1>4 DEF Bytes

LEMMA WriteFrameUnread ==
    ASSUME FramingInv, NEW n \in Sizes, WriteFrame(n)
    PROVE  /\ Held' = Held /\ Total' = Total + n
           /\ IsLonger(Unread', Unread, Total, Len(sent) + 1, n)
           /\ pipe' \in Seq(Nat \X Nat)
  <1>1. n \in Nat /\ n >= 1
    BY FramingConstants
  <1>2. Held \in Nat /\ Total \in Nat /\ Total = Held + Len(pipe) /\ Len(pipe) \in Nat /\ Len(sent) \in Nat
    BY UnreadTypes
  <1> DEFINE new == Bytes(Len(sent) + 1, n)
  <1>3. new \in Seq(Nat \X Nat) /\ Len(new) = n /\ \A i \in 1 .. n : new[i] = <<Len(sent) + 1, i>>
    <2>1. Len(sent) + 1 \in Nat
      BY <1>2
    <2> QED
      BY <1>1, <2>1, BytesType
  <1>4. pipe' = pipe \o new /\ pipe \in Seq(Nat \X Nat) /\ buffer' = buffer /\ frameStart' = frameStart
    BY DEF WriteFrame, FramingInv, FramingTypeOK
  <1> HIDE DEF new
  <1>5. /\ pipe' \in Seq(Nat \X Nat) /\ Len(pipe') = Len(pipe) + n
        /\ \A i \in 1 .. Len(pipe) : pipe'[i] = pipe[i]
        /\ \A i \in Len(pipe) + 1 .. Len(pipe) + n : pipe'[i] = new[i - Len(pipe)]
    <2>1. /\ pipe' \in Seq(Nat \X Nat) /\ Len(pipe') = Len(pipe) + Len(new)
          /\ \A i \in 1 .. Len(pipe) + Len(new) :
               pipe'[i] = IF i <= Len(pipe) THEN pipe[i] ELSE new[i - Len(pipe)]
      BY <1>3, <1>4, ConcatProperties
    <2>2. \A i \in 1 .. Len(pipe) : i \in 1 .. Len(pipe) + n /\ i <= Len(pipe)
      BY <1>1, <1>2
    <2>3. \A i \in Len(pipe) + 1 .. Len(pipe) + n : i \in 1 .. Len(pipe) + n /\ ~ (i <= Len(pipe))
      BY <1>1, <1>2
    <2> QED
      BY <1>3, <2>1, <2>2, <2>3
  <1>6. Held' = Held /\ Total' = Total + n
    <2>1. Held' = Held
      BY <1>4 DEF Held
    <2> QED
      BY <1>1, <1>2, <1>5, <2>1 DEF Total
  <1>7. \A i \in 1 .. Total + n : Unread'[i] = IF i <= Held THEN buffer[frameStart + i] ELSE pipe'[i - Held]
    BY <1>4, <1>6 DEF Unread
  <1>8. ASSUME NEW i \in 1 .. Total
        PROVE  Unread'[i] = Unread[i]
    <2>1. CASE i \in 1 .. Held
      <3>1. i \in 1 .. Total + n /\ i <= Held
        BY <1>1, <1>2, <2>1
      <3> QED
        BY <1>7, <2>1, <3>1, UnreadIs
    <2>2. CASE i \in Held + 1 .. Total
      <3>1. i \in 1 .. Total + n /\ ~ (i <= Held) /\ i - Held \in 1 .. Len(pipe)
        BY <1>1, <1>2, <2>2
      <3> QED
        BY <1>5, <1>7, <2>2, <3>1, UnreadIs
    <2>3. i \in 1 .. Held \/ i \in Held + 1 .. Total
      BY <1>2
    <2> QED
      BY <2>1, <2>2, <2>3
  <1>9. ASSUME NEW i \in Total + 1 .. Total + n
        PROVE  Unread'[i] = <<Len(sent) + 1, i - Total>>
    <2>1. /\ i \in 1 .. Total + n /\ ~ (i <= Held)
          /\ i - Held \in Len(pipe) + 1 .. Len(pipe) + n /\ (i - Held) - Len(pipe) = i - Total
          /\ i - Total \in 1 .. n
      BY <1>1, <1>2
    <2>2. Unread'[i] = pipe'[i - Held]
      BY <1>7, <2>1
    <2>3. pipe'[i - Held] = new[i - Total]
      BY <1>5, <2>1
    <2> QED
      BY <1>3, <2>1, <2>2, <2>3
  <1> QED
    BY <1>5, <1>6, <1>8, <1>9 DEF IsLonger

LEMMA WriteFrameInv ==
    ASSUME FramingInv, NEW n \in Sizes, WriteFrame(n)
    PROVE  FramingInv'
  <1>1. n \in Nat \ {0}
    BY FramingConstants
  <1>2. /\ Held \in Nat /\ Total \in Nat /\ Held <= Total /\ Len(sent) \in Nat /\ sent \in Seq(Nat)
    BY UnreadTypes
  <1>3. /\ Held' = Held /\ Total' = Total + n /\ pipe' \in Seq(Nat \X Nat)
        /\ IsLonger(Unread', Unread, Total, Len(sent) + 1, n)
    BY WriteFrameUnread
  <1>4. sent' = Append(sent, n)
        /\ UNCHANGED <<reader, buffer, frameStart, parsing, once, closed, ended, delivered, intact, discarded>>
    BY DEF WriteFrame, history
  <1>5. /\ sent' \in Seq(Nat) /\ Len(sent') = Len(sent) + 1 /\ sent'[Len(sent) + 1] = n
        /\ \A f \in 1 .. Len(sent) : sent'[f] = sent[f]
    BY <1>1, <1>2, <1>4, AppendedElements
  <1>6. FramingTypeOK'
    <2>1. \A f \in 1 .. Len(sent') : sent'[f] \in Sizes
      <3> TAKE f \in 1 .. Len(sent')
      <3>1. f \in 1 .. Len(sent) \/ f = Len(sent) + 1
        BY <1>2, <1>5
      <3> QED
        BY <1>5, <3>1 DEF FramingInv, FramingTypeOK
    <2> QED
      BY <1>3, <1>4, <1>5, <2>1 DEF FramingInv, FramingTypeOK
  <1>7. IsRun(Unread, Total, sent)'
    <2>1. IsRun(Unread', Total + n, sent')
      BY <1>1, <1>2, <1>3, <1>4, RunAppend DEF FramingInv
    <2> QED
      BY <1>3, <2>1
  <1>8. FramesWhole'
    BY <1>4 DEF FramingInv, FramesWhole
  <1>9. /\ \A i \in 1 .. Total : Unread'[i] = Unread[i]
        /\ \A i \in Total + 1 .. Total + n : Unread'[i] = <<Len(sent) + 1, i - Total>>
    BY <1>3 DEF IsLonger
  <1>10. BehindUnread'
    <2>1. ASSUME NEW d \in 1 .. Len(delivered)
          PROVE  /\ delivered[d] \in 1 .. Len(sent')
                 /\ \A i \in 1 .. Total + n : Unread'[i][2] = 1 => delivered[d] < Unread'[i][1]
      <3>1. /\ delivered[d] \in 1 .. Len(sent)
            /\ \A i \in 1 .. Total : Unread[i][2] = 1 => delivered[d] < Unread[i][1]
        BY DEF FramingInv, BehindUnread
      <3>2. delivered[d] \in 1 .. Len(sent') /\ delivered[d] < Len(sent) + 1
        BY <1>2, <1>5, <3>1
      <3>3. ASSUME NEW i \in 1 .. Total + n, Unread'[i][2] = 1
            PROVE  delivered[d] < Unread'[i][1]
        <4>1. CASE i \in 1 .. Total
          BY <1>9, <3>1, <3>3, <4>1
        <4>2. CASE i \in Total + 1 .. Total + n
          BY <1>9, <3>2, <4>2
        <4>3. i \in 1 .. Total \/ i \in Total + 1 .. Total + n
          BY <1>1, <1>2
        <4> QED
          BY <4>1, <4>2, <4>3
      <3> QED
        BY <3>2, <3>3
    <2> QED
      BY <1>3, <1>4, <2>1 DEF BehindUnread
  <1>11. /\ Total' > 0 /\ Front' = Front /\ Front \in 1 .. Len(sent) + 1
         /\ Unread'[1][2] = IF Total = 0 THEN 1 ELSE Unread[1][2]
         /\ Total = 0 => Front = Len(sent) + 1
         /\ Total > 0 => Front \in 1 .. Len(sent)
    <2>1. Total' > 0 /\ Total' # 0
      BY <1>1, <1>2, <1>3
    <2>2. CASE Total = 0
      <3>1. 1 \in Total + 1 .. Total + n /\ 1 - Total = 1
        BY <1>1, <2>2
      <3>2. Unread'[1] = <<Len(sent) + 1, 1>>
        BY <1>9, <3>1
      <3> QED
        BY <1>2, <2>1, <2>2, <3>2 DEF Front
    <2>3. CASE Total # 0
      <3>1. 1 \in 1 .. Total /\ Total > 0
        BY <1>2, <2>3
      <3>2. Unread'[1] = Unread[1] /\ Unread[1][1] \in 1 .. Len(sent)
        BY <1>9, <3>1, UnreadBytes
      <3> QED
        BY <1>2, <2>1, <2>3, <3>1, <3>2 DEF Front
    <2> QED
      BY <2>2, <2>3
  <1>12. InFront'
    <2> SUFFICES ASSUME ~ discarded PROVE InFront'
      BY <1>4 DEF InFront
    <2>1. (Total > 0 => Unread[1][2] = 1)
          /\ {delivered[i] : i \in 1 .. Len(delivered)} = {f \in Messages : f < Front}
      BY DEF FramingInv, InFront
    <2>2. {f \in Messages' : f < Front} = {f \in Messages : f < Front}
      <3>1. \A f \in 1 .. Len(sent') : f < Front => f \in 1 .. Len(sent)
        BY <1>2, <1>5, <1>11
      <3>2. \A f \in 1 .. Len(sent) : f \in 1 .. Len(sent')
        BY <1>2, <1>5
      <3> QED
        BY <1>4, <1>5, <3>1, <3>2 DEF Messages
    <2>3. Unread'[1][2] = 1
      BY <1>2, <1>11, <2>1
    <2> QED
      BY <1>4, <1>11, <2>1, <2>2, <2>3 DEF InFront
  <1>13. LoopEnds'
    <2>1. LoopEnds
      BY DEF FramingInv
    <2>2. ASSUME ~ parsing, ~ closed, ~ discarded
          PROVE  Held < sent'[Front]
      <3>1. CASE Total = 0
        <4>1. Held = 0 /\ Front = Len(sent) + 1
          BY <1>2, <1>11, <3>1
        <4> QED
          BY <1>1, <1>5, <4>1
      <3>2. CASE Total # 0
        <4>1. Total > 0
          BY <1>2, <3>2
        <4> QED
          BY <1>5, <1>11, <2>1, <2>2, <4>1 DEF LoopEnds
      <3> QED
        BY <3>1, <3>2
    <2> QED
      BY <1>3, <1>4, <1>11, <2>1, <2>2 DEF LoopEnds
  <1>14. OnlyTooBig'
    <2>1. ASSUME NEW f \in 1 .. Len(sent), sent[f] > BufferSize
          PROVE  \E g \in 1 .. Len(sent') : sent'[g] > BufferSize
      BY <1>2, <1>5, <2>1
    <2> QED
      BY <1>4, <2>1 DEF FramingInv, OnlyTooBig
  <1> QED
    BY <1>6, <1>7, <1>8, <1>10, <1>12, <1>13, <1>14 DEF FramingInv


LEMMA PeerClosesInv ==
    ASSUME FramingInv, PeerCloses
    PROVE  FramingInv'
  <1>1. /\ reader # "agent" /\ ~ parsing /\ ended' = TRUE /\ closed' = TRUE
        /\ UNCHANGED <<reader, sent, pipe, buffer, frameStart, parsing, once, delivered, intact, discarded>>
    BY DEF PeerCloses, history
  <1>2. Dropped(0) /\ Held' = Held
    BY <1>1, NoneDropped
  <1>3. IsRun(Unread, Total, sent)' /\ BehindUnread' /\ InFront'
    BY <1>1, <1>2, KeptUnread
  <1>4. FramingTypeOK' /\ FramesWhole'
    BY <1>1 DEF FramingInv, FramingTypeOK, FramesWhole
  <1>5. LoopEnds' /\ OnlyTooBig'
    BY <1>1, <1>2 DEF FramingInv, LoopEnds, OnlyTooBig
  <1> QED
    BY <1>3, <1>4, <1>5 DEF FramingInv

LEMMA ReadInv ==
    ASSUME FramingInv, NEW n \in 1 .. BufferSize, Read(n)
    PROVE  FramingInv'
  <1>1. /\ n \in 1 .. Len(pipe) /\ n <= BufferSize - Len(buffer) /\ reader # "agent"
        /\ buffer' = buffer \o SubSeq(pipe, 1, n) /\ pipe' = SubSeq(pipe, n + 1, Len(pipe)) /\ parsing' = TRUE
        /\ UNCHANGED <<reader, sent, frameStart, once, closed, ended, delivered, intact, discarded>>
    BY DEF Read, history
  <1>2. Dropped(0) /\ Held' = Held + n
    BY <1>1, ReadDropped
  <1>3. IsRun(Unread, Total, sent)' /\ BehindUnread' /\ InFront'
    BY <1>1, <1>2, KeptUnread
  <1>4. /\ buffer' \in Seq(Nat \X Nat) /\ Len(buffer') = Len(buffer) + n
        /\ pipe' \in Seq(Nat \X Nat) /\ Len(buffer) \in Nat /\ frameStart \in 0 .. Len(buffer) /\ Held \in Nat
    <2>1. buffer' \in Seq(Nat \X Nat) /\ Len(buffer') = Len(buffer) + n
      BY <1>1, ReadData
    <2>2. pipe' \in Seq(Nat \X Nat)
      BY <1>1, PipeRest
    <2>3. Len(buffer) \in Nat /\ frameStart \in 0 .. Len(buffer) /\ Held \in Nat
      BY UnreadTypes DEF FramingInv, FramingTypeOK
    <2> QED
      BY <2>1, <2>2, <2>3
  <1>5. frameStart' \in 0 .. Len(buffer') /\ Len(buffer') <= BufferSize
    BY <1>1, <1>4, FramingConstants
  <1>6. FramingTypeOK' /\ FramesWhole'
    BY <1>1, <1>4, <1>5 DEF FramingInv, FramingTypeOK, FramesWhole
  <1>7. LoopEnds'
    BY <1>1, <1>2, <1>4 DEF LoopEnds
  <1>8. OnlyTooBig'
    BY <1>1 DEF FramingInv, OnlyTooBig
  <1> QED
    BY <1>3, <1>6, <1>7, <1>8 DEF FramingInv

LEMMA EmptyBuffer ==
    ASSUME buffer' = <<>>, frameStart' = 0
    PROVE  buffer' \in Seq(Nat \X Nat) /\ Len(buffer') = 0 /\ frameStart' \in 0 .. Len(buffer')
           /\ Len(buffer') < BufferSize /\ Len(buffer') <= BufferSize /\ Held' = 0
BY FramingConstants DEF Held

\* Everything that was read is thrown away.
LEMMA ClearInv ==
    ASSUME FramingInv, Clear, pipe' = pipe, OnlyTooBig', UNCHANGED <<reader, sent, once, closed, ended>>
    PROVE  FramingInv'
  <1>1. buffer' = <<>> /\ frameStart' = 0 /\ parsing' = FALSE /\ discarded' = TRUE
        /\ UNCHANGED <<delivered, intact>>
    BY DEF Clear
  <1>2. buffer' \in Seq(Nat \X Nat) /\ Len(buffer') = 0 /\ frameStart' \in 0 .. Len(buffer')
        /\ Len(buffer') < BufferSize /\ Len(buffer') <= BufferSize /\ Held' = 0
    BY <1>1, EmptyBuffer
  <1>3. Held \in Nat /\ Total \in Nat /\ Held <= Total
    BY UnreadTypes
  <1>4. Dropped(Held)
    <2>1. Held \in 0 .. Held /\ Held' = Held - Held /\ 1 .. Held - Held = {}
      BY <1>2, <1>3
    <2> QED
      BY <2>1, HeldDropped
  <1>5. IsRun(Unread, Total, sent)' /\ BehindUnread' /\ InFront'
    BY <1>1, <1>3, <1>4, LostUnread
  <1>6. FramingTypeOK' /\ FramesWhole'
    BY <1>1, <1>2 DEF FramingInv, FramingTypeOK, FramesWhole
  <1>7. LoopEnds'
    BY <1>1, <1>2 DEF LoopEnds
  <1> QED
    BY <1>5, <1>6, <1>7 DEF FramingInv

\* What delivering the frame at the front does, when its bytes are dropped.
LEMMA DeliverInv ==
    ASSUME FramingInv, NEW data, ShowsHeld(data), Complete(data), Deliver(data), ~ closed,
           Dropped(sent[Unread[1][1]]), UNCHANGED <<reader, sent>>
    PROVE  /\ IsRun(Unread, Total, sent)' /\ BehindUnread' /\ InFront' /\ FramesWhole'
           /\ delivered' \in Seq(Nat) /\ intact' \in BOOLEAN /\ discarded' = discarded
  <1> DEFINE f == Unread[1][1]
  <1>1. /\ Total > 0 /\ Unread[1][2] = 1 /\ data[1][1] = f
        /\ SubSeq(data, 1, sent[f]) = Bytes(f, sent[f])
    BY CompleteMeans
  <1>2. /\ delivered' = IF reader = "tcp" /\ sent[f] = Overhead THEN delivered ELSE Append(delivered, f)
        /\ intact' = (intact /\ ~ closed /\ SubSeq(data, 1, sent[f]) = Bytes(f, sent[f]))
        /\ discarded' = discarded
    BY <1>1 DEF Deliver
  <1>3. intact' = TRUE
    BY <1>1, <1>2 DEF FramingInv, FramesWhole
  <1>4. /\ IsRun(Unread, Total, sent)' /\ BehindUnread' /\ InFront'
        /\ delivered' \in Seq(Nat)
        /\ \A i, j \in 1 .. Len(delivered') : i < j => delivered'[i] < delivered'[j]
    BY <1>1, <1>2, TakenUnread
  <1> QED
    BY <1>2, <1>3, <1>4 DEF FramesWhole

LEMMA ParseFrameInv ==
    ASSUME FramingInv, ParseFrame
    PROVE  FramingInv'
  <1> DEFINE data == SubSeq(buffer, frameStart + 1, Len(buffer))
             f == Unread[1][1]
             c == sent[f]
  <1>1. ShowsHeld(data)
    BY DataShowsHeld
  <1>2. /\ reader # "agent" /\ parsing /\ ~ closed /\ Complete(data) /\ Deliver(data)
        /\ AfterFrame(frameStart + sent[data[1][1]])
        /\ UNCHANGED <<closed, ended>> \/ (closed' = TRUE /\ ended' = TRUE)
        /\ UNCHANGED <<reader, sent, pipe, once>>
    BY DEF ParseFrame, MayParse
  <1>3. c \in 1 .. Held /\ data[1][1] = f
    <2> HIDE DEF data
    <2> QED
      BY <1>1, <1>2, CompleteMeans
  <1>4. /\ Held \in Nat /\ Held = Len(buffer) - frameStart /\ Total \in Nat /\ Held <= Total
        /\ Len(buffer) \in Nat /\ frameStart \in 0 .. Len(buffer) /\ Len(buffer) <= BufferSize
        /\ buffer \in Seq(Nat \X Nat)
    BY UnreadTypes DEF FramingInv, FramingTypeOK
  <1>5. /\ IF frameStart + c = BufferSize THEN frameStart' = 0 /\ buffer' = <<>>
           ELSE frameStart' = frameStart + c /\ buffer' = buffer
        /\ parsing' \in BOOLEAN /\ (parsing' <=> Len(buffer') > frameStart')
    <2>1. AfterFrame(frameStart + c)
      BY <1>2, <1>3
    <2> HIDE DEF c
    <2>2. IF frameStart + c = BufferSize THEN frameStart' = 0 /\ buffer' = <<>>
          ELSE frameStart' = frameStart + c /\ buffer' = buffer
      BY <2>1 DEF AfterFrame
    <2>3. parsing' = (Len(buffer') > frameStart')
      BY <2>1, Zenon DEF AfterFrame
    <2> DEFINE more == Len(buffer') > frameStart'
    <2>4. more \in BOOLEAN
      OBVIOUS
    <2> HIDE DEF more
    <2>5. parsing' \in BOOLEAN /\ (parsing' <=> more)
      BY <2>3, <2>4, Zenon DEF more
    <2> QED
      BY <2>2, <2>5 DEF more
  <1> HIDE DEF data, c
  <1>6. /\ Held' = Held - c /\ Dropped(c)
        /\ buffer' \in Seq(Nat \X Nat) /\ frameStart' \in 0 .. Len(buffer') /\ Len(buffer') <= BufferSize
        /\ parsing' \in BOOLEAN /\ (parsing' => Held' > 0)
        /\ (~ parsing' => Held' = 0 /\ Len(buffer') < BufferSize)
    <2>1. CASE frameStart + c = BufferSize
      <3>1. frameStart' = 0 /\ buffer' = <<>> /\ Held = c
        BY <1>3, <1>4, <1>5, <2>1, FramingConstants
      <3>2. buffer' \in Seq(Nat \X Nat) /\ Len(buffer') = 0 /\ frameStart' \in 0 .. Len(buffer')
            /\ Len(buffer') < BufferSize /\ Len(buffer') <= BufferSize /\ Held' = 0
        BY <3>1, EmptyBuffer
      <3>3. c \in 0 .. Held /\ Held' = Held - c /\ 1 .. Held - c = {}
        BY <1>3, <1>4, <3>1, <3>2
      <3>4. Dropped(c)
        BY <1>2, <3>3, HeldDropped
      <3>5. parsing' \in BOOLEAN /\ ~ parsing'
        <4>1. ~ (Len(buffer') > frameStart')
          BY <3>1, <3>2
        <4> QED
          BY <1>5, <4>1, Zenon
      <3> QED
        BY <3>2, <3>3, <3>4, <3>5
    <2>2. CASE frameStart + c # BufferSize
      <3>1. frameStart' = frameStart + c /\ buffer' = buffer
        BY <1>5, <2>2
      <3>2. frameStart' \in 0 .. Len(buffer') /\ Held' = Held - c /\ c \in 0 .. Held
        <4>1. Held' = Len(buffer) - (frameStart + c)
          BY <3>1 DEF Held
        <4> QED
          BY <1>3, <1>4, <3>1, <4>1
      <3>3. \A i \in 1 .. Held - c : buffer'[frameStart' + i] = buffer[frameStart + (i + c)]
        <4>1. \A i \in 1 .. Held - c : (frameStart + c) + i = frameStart + (i + c)
          BY <1>3, <1>4
        <4> QED
          BY <3>1, <4>1
      <3>4. Dropped(c)
        BY <1>2, <3>2, <3>3, HeldDropped
      <3>5. parsing' \in BOOLEAN /\ (parsing' <=> Held' > 0)
        <4>1. Len(buffer') > frameStart' <=> Held' > 0
          BY <1>3, <1>4, <3>1, <3>2
        <4> QED
          BY <1>5, <4>1, Zenon
      <3>6. ~ (Held' > 0) => Held' = 0 /\ Len(buffer') < BufferSize
        BY <1>3, <1>4, <2>2, <3>1, <3>2, FramingConstants
      <3>7. parsing' \in BOOLEAN /\ (parsing' => Held' > 0) /\ (~ parsing' => Held' = 0 /\ Len(buffer') < BufferSize)
        BY <3>5, <3>6, Zenon
      <3>8. buffer' \in Seq(Nat \X Nat) /\ Len(buffer') <= BufferSize
        BY <1>4, <3>1
      <3> QED
        BY <3>2, <3>4, <3>7, <3>8
    <2> QED
      BY <2>1, <2>2
  <1>7. /\ IsRun(Unread, Total, sent)' /\ BehindUnread' /\ InFront' /\ FramesWhole'
        /\ delivered' \in Seq(Nat) /\ intact' \in BOOLEAN /\ discarded' = discarded
    BY <1>1, <1>2, <1>6, DeliverInv DEF c
  <1>8. FramingTypeOK'
    BY <1>2, <1>6, <1>7 DEF FramingInv, FramingTypeOK
  <1>9. Total' \in Nat
    BY <1>3, <1>4, <1>6 DEF Dropped
  <1>10. Held' = 0 => (Total' > 0 => Held' < sent'[Front'])
    BY <1>2, <1>7, <1>9, NothingHeld
  <1>11. LoopEnds'
    BY <1>6, <1>10 DEF LoopEnds
  <1>12. OnlyTooBig'
    BY <1>2, <1>7 DEF FramingInv, OnlyTooBig
  <1> QED
    BY <1>7, <1>8, <1>11, <1>12 DEF FramingInv


\* The loop stops at an unfinished frame, which stays in the buffer.
LEMMA StopInv ==
    ASSUME FramingInv, NEW data, ShowsHeld(data), ~ Complete(data),
           Dropped(0), Held' = Held, parsing' = FALSE, UNCHANGED <<reader, sent, pipe, once, ended, delivered, intact, discarded>>,
           closed' \in BOOLEAN, reader = "agent" => frameStart' = 0 /\ ~ closed',
           buffer' \in Seq(Nat \X Nat), frameStart' \in 0 .. Len(buffer'), Len(buffer') <= BufferSize,
           reader # "agent" /\ ~ closed' => Len(buffer') < BufferSize,
           OnlyTooBig'
    PROVE  FramingInv'
  <1>1. IsRun(Unread, Total, sent)' /\ BehindUnread' /\ InFront' /\ Total' = Total /\ Front' = Front
    BY KeptUnread
  <1>2. FramingTypeOK' /\ FramesWhole'
    BY DEF FramingInv, FramingTypeOK, FramesWhole
  <1>3. ~ discarded /\ Total > 0 => Held < sent[Front]
    BY IncompleteMeans
  <1>4. LoopEnds'
    BY <1>1, <1>3 DEF LoopEnds
  <1> QED
    BY <1>1, <1>2, <1>4 DEF FramingInv

LEMMA ParseRestInv ==
    ASSUME FramingInv, ParseRest
    PROVE  FramingInv'
  <1> DEFINE data == SubSeq(buffer, frameStart + 1, Len(buffer))
  <1>1. ShowsHeld(data)
    BY DataShowsHeld
  <1>2. /\ reader # "agent" /\ parsing /\ ~ closed /\ ~ Complete(data)
        /\ Unfinished \/ (~ InStep(data) /\ Clear /\ UNCHANGED closed)
        /\ UNCHANGED <<reader, sent, pipe, once, ended>>
    BY DEF ParseRest, MayParse
  <1>3. data = SubSeq(buffer, frameStart + 1, Len(buffer))
    OBVIOUS
  <1> HIDE DEF data
  <1>4. /\ Held \in Nat /\ Held = Len(buffer) - frameStart /\ Total \in Nat /\ Held <= Total
        /\ Len(buffer) \in Nat /\ frameStart \in 0 .. Len(buffer) /\ Len(buffer) <= BufferSize
        /\ buffer \in Seq(Nat \X Nat) /\ Held > 0 /\ closed \in BOOLEAN
    BY <1>2, UnreadTypes DEF FramingInv, FramingTypeOK, LoopEnds
  \* A frame that fills the buffer and is not at its end is too big for it.
  <1>5. ASSUME Held = BufferSize
        PROVE  (\E f \in 1 .. Len(sent) : sent[f] > BufferSize) \/ reader = "agent"
    <2>1. CASE discarded
      BY <2>1 DEF FramingInv, OnlyTooBig
    <2>2. CASE ~ discarded
      BY <1>1, <1>2, <1>4, <1>5, <2>2, IncompleteMeans
    <2> QED
      BY <2>1, <2>2
  <1>6. CASE ~ InStep(data) /\ Clear /\ UNCHANGED closed
    <2>1. discarded
      BY <1>1, <1>2, <1>4, <1>6, IncompleteMeans
    <2>2. OnlyTooBig'
      BY <1>2, <2>1 DEF FramingInv, OnlyTooBig
    <2> QED
      BY <1>2, <1>6, <2>2, ClearInv
  <1>7. CASE Len(buffer) = BufferSize /\ Move
    <2>1. /\ frameStart # 0 /\ frameStart' = 0 /\ parsing' = FALSE /\ buffer' = data
          /\ UNCHANGED <<closed, delivered, intact, discarded>>
      BY <1>3, <1>7 DEF Move, history
    <2>2. data \in Seq(Nat \X Nat) /\ Len(data) = Held /\ \A i \in 1 .. Held : data[i] = Unread[i]
      BY <1>1 DEF ShowsHeld
    <2>3. Held' = Held
      <3>1. Held' = Len(buffer') - 0
        BY <2>1 DEF Held
      <3>2. Len(buffer') = Held /\ Held \in Int
        BY <1>4, <2>1, <2>2
      <3> QED
        BY <3>1, <3>2
    <2>4. Dropped(0)
      <3>1. \A i \in 1 .. Held - 0 : buffer'[frameStart' + i] = buffer[frameStart + (i + 0)]
        <4> TAKE i \in 1 .. Held - 0
        <4>1. i \in 1 .. Held /\ frameStart' + i = i /\ frameStart + (i + 0) = frameStart + i
          BY <1>4, <2>1
        <4> QED
          BY <2>1, <2>2, <4>1, UnreadIs
      <3>2. 0 \in 0 .. Held /\ Held' = Held - 0 /\ pipe' = pipe
        BY <1>2, <1>4, <2>3
      <3> QED
        BY <3>1, <3>2, HeldDropped
    <2>5. buffer' \in Seq(Nat \X Nat) /\ Len(buffer') = Held /\ frameStart' \in 0 .. Len(buffer')
          /\ Len(buffer') < BufferSize /\ Len(buffer') <= BufferSize
      BY <1>4, <1>7, <2>1, <2>2, FramingConstants
    <2>6. OnlyTooBig'
      BY <1>2, <2>1 DEF FramingInv, OnlyTooBig
    <2> QED
      BY <1>1, <1>2, <1>4, <2>1, <2>3, <2>4, <2>5, <2>6, StopInv
  <1>8. CASE Len(buffer) = BufferSize /\ TooBig
    <2>1. frameStart = 0 /\ Held = BufferSize
      BY <1>4, <1>8 DEF TooBig
    <2>2. CASE reader = "tcp"
      <3>1. closed' = TRUE /\ parsing' = FALSE /\ UNCHANGED <<buffer, frameStart, delivered, intact, discarded>>
        BY <1>8, <2>2 DEF TooBig, history
      <3>2. OnlyTooBig'
        BY <1>2, <1>5, <2>1 DEF OnlyTooBig
      <3>3. Dropped(0) /\ Held' = Held
        BY <1>2, <3>1, NoneDropped
      <3> QED
        BY <1>1, <1>2, <1>4, <3>1, <3>2, <3>3, StopInv
    <2>3. CASE reader # "tcp"
      <3>1. Clear /\ UNCHANGED closed
        BY <1>8, <2>3 DEF TooBig
      <3>2. OnlyTooBig'
        BY <1>2, <1>5, <2>1 DEF OnlyTooBig
      <3> QED
        BY <1>2, <3>1, <3>2, ClearInv
    <2> QED
      BY <2>2, <2>3
  <1>9. CASE Len(buffer) # BufferSize /\ parsing' = FALSE /\ UNCHANGED <<buffer, frameStart, closed, history>>
    <2>1. UNCHANGED <<buffer, frameStart, closed, delivered, intact, discarded>> /\ parsing' = FALSE
      BY <1>9 DEF history
    <2>2. Len(buffer) < BufferSize
      BY <1>4, <1>9, FramingConstants
    <2>3. OnlyTooBig'
      BY <1>2, <2>1 DEF FramingInv, OnlyTooBig
    <2>4. Dropped(0) /\ Held' = Held
      BY <1>2, <2>1, NoneDropped
    <2> QED
      BY <1>1, <1>2, <1>4, <2>1, <2>2, <2>3, <2>4, StopInv
  <1> QED
    BY <1>2, <1>6, <1>7, <1>8, <1>9 DEF Unfinished

LEMMA ParseAgentInv ==
    ASSUME FramingInv, ParseAgent
    PROVE  FramingInv'
  <1> DEFINE f == Unread[1][1]
             c == sent[f]
  <1>1. reader = "agent" /\ parsing /\ UNCHANGED <<reader, sent, pipe, once, closed, ended>>
    BY DEF ParseAgent
  <1>2. ShowsHeld(buffer)
    BY <1>1, DataShowsHeld
  <1>3. /\ Held \in Nat /\ Held = Len(buffer) - frameStart /\ Total \in Nat /\ Held <= Total
        /\ Len(buffer) \in Nat /\ frameStart = 0 /\ Len(buffer) <= BufferSize
        /\ buffer \in Seq(Nat \X Nat) /\ closed \in BOOLEAN /\ ~ closed
    BY <1>1, UnreadTypes DEF FramingInv, FramingTypeOK
  <1>4. OnlyTooBig'
    BY <1>1 DEF OnlyTooBig
  <1>5. CASE /\ Complete(buffer) /\ Deliver(buffer) /\ UNCHANGED frameStart
             /\ buffer' = SubSeq(buffer, sent[buffer[1][1]] + 1, Len(buffer))
             /\ parsing' = (buffer' # <<>>)
    <2>1. c \in 1 .. Held /\ buffer[1][1] = f
      BY <1>2, <1>5, CompleteMeans
    <2> HIDE DEF c
    <2>2. buffer' = SubSeq(buffer, c + 1, Len(buffer)) /\ c \in 0 .. Len(buffer) /\ Len(buffer) = Held
      BY <1>3, <1>5, <2>1 DEF c
    <2>3. /\ buffer' \in Seq(Nat \X Nat) /\ Len(buffer') = Len(buffer) - c
          /\ \A i \in 1 .. Len(buffer) - c : buffer'[i] = buffer[i + c]
      <3> DEFINE bytes == Nat \X Nat
                 rest  == buffer'
      <3>1. buffer \in Seq(bytes)
        BY <1>3
      <3>2. rest = SubSeq(buffer, c + 1, Len(buffer)) /\ c \in 0 .. Len(buffer)
        BY <2>2
      <3> HIDE DEF bytes, rest
      <3>3. /\ rest \in Seq(bytes) /\ Len(rest) = Len(buffer) - c
            /\ \A i \in 1 .. Len(buffer) - c : rest[i] = buffer[i + c]
        BY <3>1, <3>2, SuffixOf
      <3> QED
        BY <3>3 DEF bytes, rest
    <2>4. /\ Held' = Held - c /\ frameStart' = 0 /\ frameStart' \in 0 .. Len(buffer') /\ Len(buffer') <= BufferSize
          /\ Len(buffer') = Held'
      <3>1. frameStart' = 0 /\ Held' = Len(buffer') - 0
        BY <1>3, <1>5 DEF Held
      <3>2. Len(buffer') \in Nat /\ Len(buffer') = Held - c /\ Held \in Nat /\ c \in Nat
        <4>1. Held \in Nat /\ c \in 1 .. Held
          BY <1>3, <2>1
        <4>2. Len(buffer') = Held - c
          BY <2>2, <2>3, Zenon
        <4> QED
          BY <4>1, <4>2
      <3>3. Held' = Len(buffer') /\ Held' = Held - c
        BY <3>1, <3>2
      <3>4. frameStart' \in 0 .. Len(buffer')
        BY <3>1, <3>2
      <3>5. Len(buffer') <= BufferSize
        BY <1>3, <2>2, <3>2, FramingConstants
      <3> QED
        BY <3>1, <3>3, <3>4, <3>5
    <2>5. Dropped(c)
      <3>1. \A i \in 1 .. Held - c : buffer'[frameStart' + i] = buffer[frameStart + (i + c)]
        <4> TAKE i \in 1 .. Held - c
        <4>1. i \in 1 .. Len(buffer) - c /\ frameStart' + i = i /\ frameStart + (i + c) = i + c
          BY <1>3, <2>1, <2>2, <2>4
        <4> QED
          BY <2>3, <4>1
      <3>2. c \in 0 .. Held /\ Held' = Held - c /\ pipe' = pipe
        BY <1>1, <1>3, <2>1, <2>4
      <3> QED
        BY <3>1, <3>2, HeldDropped
    <2>6. /\ IsRun(Unread, Total, sent)' /\ BehindUnread' /\ InFront' /\ FramesWhole'
          /\ delivered' \in Seq(Nat) /\ intact' \in BOOLEAN /\ discarded' = discarded
      BY <1>1, <1>2, <1>3, <1>5, <2>5, DeliverInv DEF c
    <2>7. parsing' \in BOOLEAN /\ (parsing' <=> buffer' # <<>>)
      BY <1>5, Zenon
    <2>8. buffer' # <<>> <=> Held' > 0
      BY <1>3, <2>1, <2>3, <2>4
    <2>9. Held' \in Nat /\ Total' \in Nat
      BY <1>3, <2>1, <2>4, <2>5 DEF Dropped
    <2>10. FramingTypeOK'
      BY <1>1, <1>3, <2>3, <2>4, <2>6, <2>7 DEF FramingInv, FramingTypeOK
    <2>11. Held' = 0 => (Total' > 0 => Held' < sent'[Front'])
      BY <1>1, <2>6, <2>9, NothingHeld
    <2>12. ~ parsing' => Held' = 0
      BY <2>7, <2>8, <2>9
    <2>13. LoopEnds'
      BY <1>1, <2>7, <2>8, <2>11, <2>12 DEF LoopEnds
    <2> QED
      BY <1>4, <2>6, <2>10, <2>13 DEF FramingInv
  <1>6. CASE ~ Complete(buffer) /\ parsing' = FALSE /\ UNCHANGED <<buffer, frameStart, history>>
    <2>1. UNCHANGED <<buffer, frameStart, delivered, intact, discarded>> /\ parsing' = FALSE
      BY <1>6 DEF history
    <2>2. Dropped(0) /\ Held' = Held
      BY <1>1, <2>1, NoneDropped
    <2> QED
      <3>1. /\ buffer' \in Seq(Nat \X Nat) /\ frameStart' = 0 /\ frameStart' \in 0 .. Len(buffer')
            /\ Len(buffer') <= BufferSize /\ closed' \in BOOLEAN /\ ~ closed'
        BY <1>1, <1>3, <2>1
      <3> QED
        BY <1>1, <1>2, <1>4, <1>6, <2>1, <2>2, <3>1, StopInv
  <1>7. CASE ~ InStep(buffer) /\ Clear
    BY <1>1, <1>4, <1>7, ClearInv
  <1> QED
    BY <1>5, <1>6, <1>7 DEF ParseAgent


LEMMA AgentData ==
    ASSUME FramingInv, NEW n \in 1 .. Len(pipe), NEW data, data = buffer \o SubSeq(pipe, 1, n),
           reader = "agent"
    PROVE  /\ data \in Seq(Nat \X Nat) /\ Len(data) = Held + n /\ Held + n \in 1 .. Total
           /\ \A i \in 1 .. Held + n : data[i] = Unread[i]
  <1>1. Held \in Nat /\ frameStart = 0 /\ Len(buffer) \in Nat /\ Held = Len(buffer) - frameStart
    BY UnreadTypes DEF FramingInv, FramingTypeOK
  <1>2. /\ data \in Seq(Nat \X Nat) /\ Len(data) = Len(buffer) + n /\ Held + n \in 1 .. Total
        /\ \A i \in 1 .. Held + n : data[frameStart + i] = Unread[i]
    BY ReadData
  <1>3. Held = Len(buffer) /\ \A i \in 1 .. Held + n : frameStart + i = i
    BY <1>1
  <1>4. Len(data) = Held + n
    BY <1>2, <1>3
  <1>5. \A i \in 1 .. Held + n : data[i] = Unread[i]
    BY <1>2, <1>3
  <1> QED
    BY <1>2, <1>4, <1>5

\* What was read is the first frame and no more: nothing was delivered before.
LEMMA FirstFrame ==
    ASSUME FramingInv, 1 \in 1 .. Len(sent), NEW data, data = Bytes(1, sent[1]),
           Len(data) \in 1 .. Total, data[1] = Unread[1]
    PROVE  Len(data) = sent[1] /\ Unread[1][1] = 1 /\ Unread[1][2] = 1 /\ delivered = <<>>
  <1>1. sent[1] \in Nat /\ sent[1] >= 1 /\ Total \in Nat /\ Len(sent) \in Nat
    BY UnreadTypes
  <1>2. Len(data) = sent[1] /\ data[1] = <<1, 1>>
    <2>1. /\ Len(Bytes(1, sent[1])) = sent[1]
          /\ \A i \in 1 .. sent[1] : Bytes(1, sent[1])[i] = <<1, i>>
      BY <1>1, BytesType
    <2>2. 1 \in 1 .. sent[1]
      BY <1>1
    <2> QED
      BY <2>1, <2>2
  <1>3. Unread[1][1] = 1 /\ Unread[1][2] = 1 /\ 1 \in 1 .. Total
    BY <1>1, <1>2
  <1>4. delivered \in Seq(Nat) /\ Len(delivered) \in Nat
    BY DEF FramingInv, FramingTypeOK
  <1>5. \A d \in 1 .. Len(delivered) : delivered[d] \in 1 .. Len(sent) /\ delivered[d] < 1
    BY <1>3 DEF FramingInv, BehindUnread
  <1>6. \A d \in 1 .. Len(delivered) : FALSE
    BY <1>1, <1>5
  <1>7. Len(delivered) = 0
    BY <1>4, <1>6
  <1> QED
    BY <1>2, <1>3, <1>4, <1>7

\* The agent finds "running" among what it has read, and throws all of it away.
LEMMA RunningInv ==
    ASSUME FramingInv, NEW n \in 1 .. Len(pipe), NEW data, data = buffer \o SubSeq(pipe, 1, n),
           reader = "agent", Running \in {data[i] : i \in DOMAIN data},
           pipe' = SubSeq(pipe, n + 1, Len(pipe)), buffer' = <<>>, parsing' = FALSE, once' = TRUE,
           delivered' = << 1 >>, discarded' = (discarded \/ data # Bytes(1, sent[1])),
           UNCHANGED <<reader, sent, closed, ended, frameStart, intact>>
    PROVE  FramingInv'
  <1> DEFINE k == Held + n
  <1>1. /\ Total \in Nat /\ Held \in Nat /\ frameStart = 0 /\ ~ closed /\ Len(sent) \in Nat /\ sent \in Seq(Nat)
        /\ discarded \in BOOLEAN
    BY UnreadTypes DEF FramingInv, FramingTypeOK
  <1>3. /\ data \in Seq(Nat \X Nat) /\ Len(data) = k /\ k \in 1 .. Total
        /\ \A i \in 1 .. k : data[i] = Unread[i]
    BY AgentData
  <1>4. Dropped(k) /\ Held' = 0
    BY <1>1, AllDropped
  <1> HIDE DEF k
  <1>5. IsRun(Unread, Total, sent)' /\ Total' = Total - k /\ Total' \in Nat
    <2>1. k \in 0 .. Total
      BY <1>1, <1>3
    <2>2. Total' = Total - k
      BY <1>4 DEF Dropped
    <2> QED
      BY <1>1, <1>4, <2>1, <2>2, DroppedRun
  <1>6. PICK r \in 1 .. k : Unread[r] = Running
    <2>1. PICK r \in DOMAIN data : data[r] = Running
      OBVIOUS
    <2>2. r \in 1 .. k
      BY <1>3, <2>1
    <2> QED
      BY <1>3, <2>1, <2>2
  <1>7. r \in 1 .. Total /\ Unread[r][1] = 1 /\ Unread[r][2] = Overhead
    BY <1>1, <1>3, <1>6 DEF Running
  <1>8. 1 \in 1 .. Len(sent)
    BY <1>7, UnreadBytes
  <1>9. delivered' \in Seq(Nat) /\ Len(delivered') = 1 /\ delivered'[1] = 1
    OBVIOUS
  <1>10. \A i \in 1 .. Total' : Unread'[i][2] = 1 => 1 < Unread'[i][1]
    <2> TAKE i \in 1 .. Total'
    <2>1. i \in 1 .. Total - k /\ i + k \in 1 .. Total /\ r < i + k
      BY <1>1, <1>3, <1>5, <1>6
    <2>2. Unread'[i] = Unread[i + k]
      BY <1>4, <2>1 DEF Dropped, IsRest
    <2>3. \/ Unread[r][1] < Unread[i + k][1]
          \/ Unread[r][1] = Unread[i + k][1] /\ Unread[r][2] < Unread[i + k][2]
      BY <1>7, <2>1 DEF FramingInv, IsRun
    <2>4. 1 < Unread[i + k][1] \/ Overhead < Unread[i + k][2]
      BY <1>7, <2>3
    <2>5. Unread[i + k][2] = 1 => ~ (Overhead < Unread[i + k][2])
      BY FramingConstants
    <2> QED
      BY <2>2, <2>4, <2>5
  <1>11. BehindUnread'
    <2>1. \A d \in 1 .. Len(delivered') : d = 1
      BY <1>9
    <2> QED
      BY <1>8, <1>9, <1>10, <2>1 DEF BehindUnread
  <1>12. FramesWhole'
    <2>1. \A i, j \in 1 .. Len(delivered') : ~ (i < j)
      BY <1>9
    <2> QED
      BY <2>1 DEF FramingInv, FramesWhole
  <1>13. discarded' \in BOOLEAN /\ (~ discarded' => ~ discarded /\ data = Bytes(1, sent[1]))
    BY <1>1, Zenon
  <1>14. InFront'
    <2> SUFFICES ASSUME ~ discarded' PROVE InFront'
      BY DEF InFront
    <2>1. ~ discarded /\ data = Bytes(1, sent[1]) /\ discarded' = discarded
      BY <1>1, <1>13
    <2>2. 1 \in 1 .. k /\ data[1] = Unread[1]
      BY <1>1, <1>3
    <2>3. k = sent[1] /\ Unread[1][1] = 1 /\ Unread[1][2] = 1 /\ delivered = <<>>
      <3>1. Len(data) \in 1 .. Total /\ data = Bytes(1, sent[1]) /\ data[1] = Unread[1]
        BY <1>1, <1>3, <2>1, <2>2
      <3>2. Len(data) = sent[1] /\ Unread[1][1] = 1 /\ Unread[1][2] = 1 /\ delivered = <<>>
        BY <1>8, <3>1, FirstFrame, Zenon
      <3> QED
        BY <1>3, <3>2
    <2>4. Total > 0
      BY <1>1, <1>3
    <2>7. delivered' = Append(delivered, 1)
      BY <2>3
    <2>8. Dropped(sent[1])
      BY <1>4, <2>3
    <2> QED
      BY <1>1, <2>1, <2>3, <2>4, <2>7, <2>8, TakenUnread
  <1>15. buffer' \in Seq(Nat \X Nat) /\ frameStart' \in 0 .. Len(buffer') /\ Len(buffer') <= BufferSize
         /\ pipe' \in Seq(Nat \X Nat)
    <2>1. frameStart' = 0
      BY <1>1
    <2> QED
      BY <2>1, EmptyBuffer, PipeRest
  <1>16. FramingTypeOK'
    BY <1>1, <1>9, <1>13, <1>15 DEF FramingInv, FramingTypeOK
  <1>17. Total' > 0 => Held' < sent'[Front']
    BY <1>4, <1>5, NothingHeld
  <1>18. LoopEnds' /\ OnlyTooBig'
    BY <1>17 DEF LoopEnds, OnlyTooBig
  <1> QED
    BY <1>5, <1>11, <1>12, <1>14, <1>16, <1>18 DEF FramingInv

LEMMA AgentReadsInv ==
    ASSUME FramingInv, NEW n \in 1 .. BufferSize, AgentReads(n)
    PROVE  FramingInv'
  <1> DEFINE data == buffer \o SubSeq(pipe, 1, n)
  <1>1. /\ reader = "agent" /\ ~ parsing /\ n \in 1 .. Len(pipe) /\ pipe' = SubSeq(pipe, n + 1, Len(pipe))
        /\ UNCHANGED <<reader, sent, closed, ended>>
    BY DEF AgentReads
  <1>2. /\ Total \in Nat /\ Held \in Nat /\ frameStart = 0 /\ ~ closed /\ Len(buffer) \in Nat
    BY <1>1, UnreadTypes DEF FramingInv, FramingTypeOK
  <1>3. data \in Seq(Nat \X Nat) /\ Len(data) = Len(buffer) + n /\ pipe' \in Seq(Nat \X Nat)
    BY <1>1, ReadData, PipeRest
  <1>4. OnlyTooBig'
    BY <1>1 DEF OnlyTooBig
  <1>5. CASE /\ Running \in {data[i] : i \in DOMAIN data} /\ once' = TRUE /\ buffer' = <<>> /\ parsing' = FALSE
             /\ delivered' = <<1>> /\ discarded' = (discarded \/ data # Bytes(1, sent[1]))
             /\ UNCHANGED <<frameStart, intact>>
    BY <1>1, <1>5, RunningInv
  <1>6. CASE Clear /\ UNCHANGED once
    <2>1. buffer' = <<>> /\ frameStart' = 0 /\ parsing' = FALSE /\ discarded' = TRUE
          /\ UNCHANGED <<delivered, intact, once>>
      BY <1>6 DEF Clear
    <2>2. Dropped(Held + n) /\ Held' = 0 /\ Held + n \in 0 .. Total
      BY <1>1, <1>2, <2>1, AllDropped
    <2>3. IsRun(Unread, Total, sent)' /\ BehindUnread' /\ InFront'
      BY <1>1, <2>1, <2>2, LostUnread
    <2>4. buffer' \in Seq(Nat \X Nat) /\ frameStart' \in 0 .. Len(buffer') /\ Len(buffer') <= BufferSize
      BY <2>1, EmptyBuffer
    <2>5. FramingTypeOK' /\ FramesWhole'
      BY <1>1, <1>2, <1>3, <2>1, <2>4 DEF FramingInv, FramingTypeOK, FramesWhole
    <2>6. LoopEnds'
      BY <1>1, <2>1 DEF LoopEnds
    <2> QED
      BY <1>4, <2>3, <2>5, <2>6 DEF FramingInv
  <1>7. CASE ~ (Len(data) > BufferSize) /\ buffer' = data /\ parsing' = TRUE /\ UNCHANGED <<frameStart, once, history>>
    <2>1. UNCHANGED <<frameStart, once, delivered, intact, discarded>> /\ parsing' = TRUE /\ buffer' = data
      BY <1>7 DEF history
    <2>2. Dropped(0) /\ Held' = Held + n
      BY <1>1, <2>1, ReadDropped
    <2>3. IsRun(Unread, Total, sent)' /\ BehindUnread' /\ InFront'
      BY <1>1, <2>1, <2>2, KeptUnread
    <2>4. buffer' \in Seq(Nat \X Nat) /\ frameStart' \in 0 .. Len(buffer') /\ Len(buffer') <= BufferSize
      <3> QED
        BY <1>2, <1>3, <1>7, <2>1, FramingConstants
    <2>5. FramingTypeOK' /\ FramesWhole'
      BY <1>1, <1>2, <1>3, <2>1, <2>4 DEF FramingInv, FramingTypeOK, FramesWhole
    <2>6. LoopEnds'
      BY <1>2, <2>1, <2>2 DEF LoopEnds
    <2> QED
      BY <1>4, <2>3, <2>5, <2>6 DEF FramingInv
  <1> QED
    BY <1>5, <1>6, <1>7 DEF AgentReads


LEMMA FramingInitInv == FramingInit => FramingInv
  <1> SUFFICES ASSUME FramingInit PROVE FramingInv
    OBVIOUS
  <1>1. /\ sent = <<>> /\ pipe = <<>> /\ buffer = <<>> /\ frameStart = 0 /\ delivered = <<>>
        /\ parsing = FALSE /\ once = FALSE /\ closed = FALSE /\ ended = FALSE
        /\ intact = TRUE /\ discarded = FALSE /\ reader \in {"tcp", "channel", "agent"}
    BY DEF FramingInit
  <1>2. Held = 0 /\ Total = 0 /\ Len(buffer) = 0 /\ Len(sent) = 0 /\ Len(delivered) = 0
    BY <1>1 DEF Held, Total
  <1>3. FramingTypeOK
    <2>1. sent \in Seq(Nat) /\ \A f \in 1 .. Len(sent) : sent[f] \in Sizes
      BY <1>1, <1>2
    <2>2. pipe \in Seq(Nat \X Nat) /\ buffer \in Seq(Nat \X Nat) /\ delivered \in Seq(Nat)
      BY <1>1
    <2>3. frameStart \in 0 .. Len(buffer) /\ Len(buffer) <= BufferSize
      BY <1>1, <1>2, FramingConstants
    <2> QED
      BY <1>1, <2>1, <2>2, <2>3 DEF FramingTypeOK
  <1>4. IsRun(Unread, Total, sent)
    BY <1>2 DEF IsRun
  <1>5. FramesWhole /\ BehindUnread
    BY <1>1, <1>2 DEF FramesWhole, BehindUnread
  <1>6. InFront
    <2>1. {delivered[i] : i \in 1 .. Len(delivered)} = {} /\ Messages = {}
      BY <1>2 DEF Messages
    <2> QED
      BY <1>2, <2>1 DEF InFront
  <1>7. LoopEnds /\ OnlyTooBig
    BY <1>1, <1>2, FramingConstants DEF LoopEnds, OnlyTooBig
  <1> QED
    BY <1>3, <1>4, <1>5, <1>6, <1>7 DEF FramingInv

LEMMA FramingNextInv == FramingInv /\ [FramingNext]_framingVars => FramingInv'
  <1> SUFFICES ASSUME FramingInv, [FramingNext]_framingVars PROVE FramingInv'
    OBVIOUS
  <1>1. ASSUME NEW n \in Sizes, WriteFrame(n) PROVE FramingInv'
    BY <1>1, WriteFrameInv
  <1>2. CASE PeerCloses
    BY <1>2, PeerClosesInv
  <1>3. ASSUME NEW n \in 1 .. BufferSize, Read(n) PROVE FramingInv'
    BY <1>3, ReadInv
  <1>4. ASSUME NEW n \in 1 .. BufferSize, AgentReads(n) PROVE FramingInv'
    BY <1>4, AgentReadsInv
  <1>5. CASE ParseFrame
    BY <1>5, ParseFrameInv
  <1>6. CASE ParseRest
    BY <1>6, ParseRestInv
  <1>7. CASE ParseAgent
    BY <1>7, ParseAgentInv
  <1>8. CASE UNCHANGED framingVars
    <2>1. UNCHANGED <<reader, sent, pipe, buffer, frameStart, parsing, once, closed, delivered, intact,
                      discarded, ended>>
      BY <1>8 DEF framingVars
    <2>2. Dropped(0) /\ Held' = Held
      BY <2>1, NoneDropped
    <2>3. IsRun(Unread, Total, sent)' /\ BehindUnread' /\ InFront' /\ Total' = Total /\ Front' = Front
      BY <2>1, <2>2, KeptUnread
    <2>4. FramingTypeOK' /\ FramesWhole' /\ OnlyTooBig'
      BY <2>1 DEF FramingInv, FramingTypeOK, FramesWhole, OnlyTooBig
    <2>5. LoopEnds'
      BY <2>1, <2>2, <2>3 DEF FramingInv, LoopEnds
    <2> QED
      BY <2>3, <2>4, <2>5 DEF FramingInv
  <1> QED
    BY <1>1, <1>2, <1>3, <1>4, <1>5, <1>6, <1>7, <1>8 DEF FramingNext, Reads, Parses

\* Between two passes of the loop the frames in front of the parser are those
\* of which all bytes were read.
LEMMA FrontIsReceived ==
    ASSUME FramingInv, ~ discarded, ~ closed, ~ parsing
    PROVE  {f \in Messages : f < Front} = Received \cap Messages
  <1>1. /\ Held \in Nat /\ Total \in Nat /\ Total = Held + Len(pipe) /\ Len(pipe) \in Nat
        /\ Len(sent) \in Nat /\ pipe \in Seq(Nat \X Nat)
    BY UnreadTypes DEF FramingInv, FramingTypeOK
  <1>2. Messages \subseteq 1 .. Len(sent)
    BY DEF Messages
  <1>3. CASE Total = 0
    <2>1. pipe = <<>> /\ Front = Len(sent) + 1
      BY <1>1, <1>3 DEF Front
    <2>2. Received = 1 .. Len(sent)
      BY <2>1 DEF Received
    <2>3. \A f \in 1 .. Len(sent) : f < Front
      BY <1>1, <2>1
    <2> QED
      BY <1>2, <2>2, <2>3
  <1>4. CASE Total # 0
    <2> DEFINE g == Unread[1][1]
    <2>1. Total > 0 /\ Unread[1][2] = 1 /\ Front = g /\ Held < sent[g]
      BY <1>1, <1>4 DEF FramingInv, InFront, LoopEnds, Front
    <2>2. g \in 1 .. Len(sent) /\ g \in Nat /\ sent[g] \in 1 .. Total /\ \A j \in 1 .. sent[g] : Unread[j] = <<g, j>>
      BY <2>1, FrontFrame
    <2> HIDE DEF g
    <2>3. Held + 1 \in 1 .. sent[g] /\ Held + 1 \in Held + 1 .. Total /\ (Held + 1) - Held = 1
      BY <1>1, <2>1, <2>2
    <2>4. pipe[1] = <<g, Held + 1>> /\ Len(pipe) >= 1
      <3> DEFINE h == Held + 1
      <3>1. Unread[h] = pipe[h - Held] /\ h - Held \in 1 .. Len(pipe)
        BY <2>3, UnreadIs
      <3>2. Unread[h] = <<g, h>>
        BY <2>2, <2>3
      <3>3. h - Held = 1
        BY <2>3
      <3> HIDE DEF h
      <3>4. Unread[h] = pipe[1] /\ 1 \in 1 .. Len(pipe)
        BY <3>1, <3>3
      <3>5. Len(pipe) >= 1
        BY <1>1, <3>4
      <3> QED
        BY <3>2, <3>4, <3>5 DEF h
    <2>5. pipe # <<>> /\ pipe[1][1] = g
      BY <1>1, <2>4
    <2>6. Received = {f \in 1 .. Len(sent) : f < g}
      BY <2>5 DEF Received
    <2> QED
      BY <1>2, <2>1, <2>6
  <1> QED
    BY <1>3, <1>4

LEMMA FramingInvariance == FramingSpec => []FramingInv
BY FramingInitInv, FramingNextInv, PTL DEF FramingSpec

\* TcpConnection and ConsumerSocket of the worker and ChannelAgent::OnRead of the
\* control library cut a stream into whole frames in the order they were sent,
\* none twice and none after the connection was closed; what is complete is
\* delivered before the next read; bytes are given up only for a frame that is
\* larger than the buffer, or by the agent.  For every size of the buffer and
\* every way in which the bytes are cut into reads.
THEOREM FramesAlwaysAccounted == FramingSpec => []FramesAccounted
  <1>1. FramingInv => FramesAccounted
    <2> SUFFICES ASSUME FramingInv PROVE FramesAccounted
      OBVIOUS
    <2>1. FramesWhole
      BY DEF FramingInv
    <2>2. ASSUME ~ discarded, ~ closed, ~ parsing
          PROVE  /\ {delivered[i] : i \in 1 .. Len(delivered)} = Received \cap Messages
                 /\ reader # "agent" => frameStart <= Len(buffer) /\ Len(buffer) < BufferSize
      <3>1. {delivered[i] : i \in 1 .. Len(delivered)} = Received \cap Messages
        BY <2>2, FrontIsReceived DEF FramingInv, InFront
      <3>2. frameStart <= Len(buffer)
        BY DEF FramingInv, FramingTypeOK
      <3>3. reader # "agent" => Len(buffer) < BufferSize
        BY <2>2 DEF FramingInv, LoopEnds
      <3> QED
        BY <3>1, <3>2, <3>3
    <2>3. OnlyTooBig
      BY DEF FramingInv
    <2> QED
      BY <2>1, <2>2, <2>3 DEF FramesAccounted, NothingLost, OnlyTooBig
  <1> QED
    BY <1>1, FramingInvariance, PTL

=============================================================================
