----------------------------- MODULE SeqManager -----------------------------
(***************************************************************************)
(* RTC::SeqManager<T> of the worker: renumbers packets so that those that   *)
(* are dropped on purpose, or were not forwarded before a new start, leave  *)
(* no gap.  A manager is a record and its methods are operators on it,      *)
(* because each owner has one of its own and calls it synchronously.        *)
(***************************************************************************)
EXTENDS SeqArith, FiniteSets

Manager ==
    [base : SeqNum, maxOutput : SeqNum, maxInput : SeqNum, dropped : SUBSET SeqNum]

NewManager == [base |-> 0, maxOutput |-> 0, maxInput |-> 0, dropped |-> {}]

\* Mutant: the numbers go on from the last input.
SyncFromInput(m, input) ==
    [m EXCEPT !.base = Minus(m.maxInput, input), !.maxInput = input, !.dropped = {}]

Sync(m, input) ==
    [m EXCEPT !.base = Minus(m.maxOutput, input), !.maxInput = input, !.dropped = {}]

Drop(m, input) ==
    [m EXCEPT !.dropped = IF IsSeqHigherThan(input, m.maxInput) THEN @ \cup {input} ELSE @]

\* The number from which on Input keeps dropped inputs.
Oldest(input) == Minus(input, Half)

\* Input searches sets that are in order.
InOrder(m, input) ==
    /\ IsChain(m.dropped \cup {Oldest(input)})
    /\ IsChain({d \in m.dropped : ~ IsSeqLowerThan(d, Oldest(input))} \cup {input})

\* The maxima after input was given the number output.
Higher(m, input, output) ==
    [m EXCEPT !.maxInput  = IF Minus(input, m.maxInput) < Half THEN input ELSE @,
              !.maxOutput = IF Minus(output, m.maxOutput) < Half THEN output ELSE @]

\* Mutant: dropped inputs are deleted but not taken off the base.
InputsForgotten(m, input) ==
    UNION {{[manager |-> Higher([m EXCEPT !.dropped = kept], input, out), output |-> out] :
              out \in {Plus(input, Minus(m.base, before)) :
                         before \in {Cardinality({d \in kept : IsSeqLowerThan(d, input)})}}} :
           kept \in EraseBelow(m.dropped, Oldest(input))}

\* Input, of a number that was not dropped: the possible results.  Dropped
\* inputs older than half the circle are deleted and taken off the base, the
\* others below the input are counted.
Inputs(m, input) ==
    UNION {LET gone == Cardinality(m.dropped) - Cardinality(kept)
               k    == [m EXCEPT !.dropped = kept, !.base = Minus(m.base, gone)]
           IN  {[manager |-> Higher(k, input, out), output |-> out] :
                  out \in {Plus(input, Minus(k.base, before)) :
                             before \in IF IsChain(kept \cup {input})
                                          THEN {Cardinality({d \in kept : IsSeqLowerThan(d, input)})}
                                          ELSE 0 .. Cardinality(kept)}} :
           kept \in EraseBelow(m.dropped, Oldest(input))}
=============================================================================
