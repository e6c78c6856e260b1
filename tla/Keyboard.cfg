SPECIFICATION Spec
CONSTANTS
  NKeys = 2
  Directions = {1, 2}
  MaxDepth = 2
INVARIANTS
  TypeOK
  StuckOnlyIfLost
  WalksOnlyHeld
