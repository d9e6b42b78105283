--------------------------- MODULE RequestService ---------------------------
(***************************************************************************)
(* What ChannelAgent::request() promises to the application, without       *)
(* pipes, threads or timers: requests are made one at a time; the worker   *)
(* takes them in their order, each at most once; a request returns the     *)
(* worker's answer to this very request, or that it timed out, in which    *)
(* case the worker may take it later.  Nothing is promised once the        *)
(* service is broken (two threads have answered the same request).         *)
(* ChannelAgent implements this specification.                             *)
(***************************************************************************)
EXTENDS Integers

CONSTANT MaxRequests        \* bound: how many requests are made

Id == 1..MaxRequests
Unset == [id |-> 0, kind |-> "unset"]

VARIABLES
    submitted,      \* how many requests were made
    taken,          \* how many of them the worker has taken
    busy,           \* the last request has not returned
    results,        \* what the requests have returned
    broken          \* nothing is promised any more

vars == <<submitted, taken, busy, results, broken>>

Init ==
    /\ submitted = 0 /\ taken = 0 /\ busy = FALSE
    /\ results = [i \in Id |-> Unset]
    /\ broken = FALSE

\* The application calls request().
Submit ==
    /\ ~ busy /\ submitted < MaxRequests
    /\ submitted' = submitted + 1 /\ busy' = TRUE
    /\ UNCHANGED <<taken, results, broken>>

\* The worker reads a request.
Take ==
    /\ taken < submitted
    /\ taken' = taken + 1
    /\ UNCHANGED <<submitted, busy, results, broken>>

\* request() returns.  Only a request that the worker has taken has an answer.
Return(kind) ==
    /\ busy
    /\ kind # "timeout" => taken = submitted
    /\ results' = [results EXCEPT ![submitted] = [id |-> submitted, kind |-> kind]]
    /\ busy' = FALSE
    /\ UNCHANGED <<submitted, taken, broken>>

\* Once the service is broken, anything may happen.
Break == broken' = TRUE

Next ==
    \/ Submit
    \/ Take
    \/ \E kind \in {"accepted", "error", "timeout"} : Return(kind)
    \/ Break

Spec == Init /\ [][Next]_vars
=============================================================================
