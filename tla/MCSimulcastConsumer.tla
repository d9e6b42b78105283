------------------------- MODULE MCSimulcastConsumer -------------------------
(***************************************************************************)
(* SimulcastConsumer for TLC: the application prefers the best layers or    *)
(* the worst ones, so that each pair of layers can become the target.       *)
(***************************************************************************)
EXTENDS SimulcastConsumer

MCPreferred == {<<0, 0>>, <<SpatialLayers - 1, TemporalLayers - 1>>}
=============================================================================
