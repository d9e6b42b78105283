------------------------------ MODULE SeqArith ------------------------------
(***************************************************************************)
(* The wraparound order of RTC::SeqManager<T>: unsigned numbers of a fixed *)
(* width, compared by the shorter way around the circle.  The order is     *)
(* total and antisymmetric but not transitive, so a std::set sorted by it  *)
(* is in order only while its elements lie within half the circle.         *)
(***************************************************************************)
EXTENDS Integers

CONSTANT SeqMod     \* number of sequence numbers, 2^width

ASSUME SeqModAssumption == SeqMod \in Nat /\ SeqMod > 1

SeqNum == 0 .. SeqMod - 1
MaxValue == SeqMod - 1
Half == MaxValue \div 2

\* Unsigned addition and subtraction of the width.
Plus(a, b) == (a + b) % SeqMod
Minus(a, b) == (a - b) % SeqMod

IsSeqLowerThan(lhs, rhs) ==
    \/ rhs > lhs /\ rhs - lhs <= Half
    \/ lhs > rhs /\ lhs - rhs > Half

IsSeqHigherThan(lhs, rhs) ==
    \/ lhs > rhs /\ lhs - rhs <= Half
    \/ rhs > lhs /\ rhs - lhs > Half

\* The elements of S are sorted by SeqLowerThan the way std::set needs it.
IsChain(S) ==
    \A a, b, c \in S : IsSeqLowerThan(a, b) /\ IsSeqLowerThan(b, c) => IsSeqLowerThan(a, c)

\* erase(begin(), lower_bound(bound)) on a std::set sorted by SeqLowerThan:
\* the possible results.  On a set that is not sorted the tree descent may
\* stop anywhere.
EraseBelow(S, bound) ==
    IF IsChain(S \cup {bound}) THEN {{x \in S : ~ IsSeqLowerThan(x, bound)}} ELSE SUBSET S

\* find(key) != end() on such a set: the possible results.
Find(S, key) ==
    IF key \notin S THEN {FALSE} ELSE IF IsChain(S) THEN {TRUE} ELSE BOOLEAN
=============================================================================
