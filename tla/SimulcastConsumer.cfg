SPECIFICATION Spec
CONSTANTS SpatialLayers = 2 TemporalLayers = 2 Preferred <- MCPreferred Timeless = {0}
INVARIANTS ReportsForSync LayersDecodable SwitchIsAsked ApplicationKnowsLayers
CHECK_DEADLOCK FALSE
