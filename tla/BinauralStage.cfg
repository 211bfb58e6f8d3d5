SPECIFICATION Spec
CONSTANTS
  Clients = {c1, c2}
  ToggleCrossfadeFrames = 3
  TailFrames = 2
  BlockSizes = {0, 1, 2, 9}
  MaxProcessFrames = 2
  BlockSamples = 2
  MaxCommands = 3
INVARIANTS
  StaleTailIsFaded
  LoudnessMatchesSettings
PROPERTIES
  ToggleIsSmooth
  RequestHonoured
