SPECIFICATION FairSpec
CONSTANTS
  Clients = {c1, c2}
  CrossfadeFrames = 2
  BlockSizes = {1, 3}
  MaxPublishes = 3
  None = None
INVARIANTS OwnedOnce IInv
PROPERTIES NoClick FreesOnlyUnswept ImplementsMailbox EventuallyHeard
