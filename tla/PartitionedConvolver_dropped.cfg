SPECIFICATION Spec
CONSTANTS
  BlockSamples = 3
  TapCount = 4
  Padding = 0
  FrameCounts = {0, 1, 2}
  MaxInput = 9
PROPERTIES NoInputDropped
