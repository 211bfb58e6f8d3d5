SPECIFICATION PathSpec
CONSTANTS
  Capacity = 4
  Counts = {2, 4, 6}
  MaxSent = 12
  MaxScratchFrames = 2
  SinkFrames = {1, 2, 3}
  OutputFrames = {1, 2, 3}
INVARIANTS SplitOnlyAfterCut CutOnlyByOverlap InOrder
