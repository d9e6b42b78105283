SPECIFICATION FramingSpec
CONSTANTS BufferSize = 6 Overhead = 2 Sizes = {2, 3, 4, 6, 7} MaxFrames = 4
INVARIANT FramesAccounted
PROPERTY EveryFrameArrives
CHECK_DEADLOCK FALSE
