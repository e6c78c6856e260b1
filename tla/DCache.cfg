SPECIFICATION Spec
CONSTANTS
  Base = 2
  W = 2
  Lens = {1, 2}
  SIZE = 2
  NrGroups = 1
  NrWays = 2
  NrBlocks = 3
INVARIANTS
  TypeOK
  CachedOnce
  Coherent
PROPERTY
  ImplementsFlatMemory
