SPECIFICATION DeckSpec
CONSTANTS
  Clients = {c1, c2}
  CrossfadeFrames = 1
  BlockSizes = {1}
  MaxPublishes = 2
  MaxCommands = 3
  Coordinates = {0, 1}
  DefaultCoordinate = 0
  None = None
SYMMETRY ClientSymmetry
INVARIANTS IsolatedChangesLast
