SPECIFICATION FairSpec
CONSTANTS
  Capacity = 3
  Counts = {0, 1, 2, 5}
  MaxSent = 9
INVARIANTS NoCellRace IInv
PROPERTIES CutShortOnlyAtLimit ImplementsChannel Drains
