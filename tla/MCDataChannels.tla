--------------------------- MODULE MCDataChannels ---------------------------
(***************************************************************************)
(* DataChannels for TLC: the ids of data producers and of data consumers   *)
(* are interchangeable.  The remote sends messages of one chunk, of two and *)
(* of one more than are allowed, on both streams, with equal and with      *)
(* different SSNs.                                                         *)
(***************************************************************************)
EXTENDS DataChannels, TLC

MCMessages == {<<0, 0, 2>>, <<0, 1, 1>>, <<1, 1, 2>>, <<1, 0, MaxMessageSize + 1>>}

Symmetry == Permutations(Producers) \cup Permutations(Consumers)
=============================================================================
