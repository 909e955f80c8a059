CONSTANTS
  N = 4
  Byte = {0, 1}
  MaxUsize = 7
SPECIFICATION FairSpec
INVARIANTS
  LoopContracts
  UnreadIntact
PROPERTIES
  AtomicSpec
  Terminates
