SPECIFICATION Spec
CONSTANTS
  Rows = 2
  Cols = 2
  Colors = {0, 1}
INVARIANTS
  TypeOK
  StaleOnlyIfRaced
