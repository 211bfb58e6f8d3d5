SPECIFICATION Spec
CONSTANTS
  BlockSamples = 3
  TapCount = 4
  Padding = 1
  FrameCounts = {0, 1, 2, 3, 4, 6, 7}
  MaxInput = 14
INVARIANTS LinearConvolution InStep
