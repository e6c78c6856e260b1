SPECIFICATION Spec
CONSTANTS
  Commands = {"c", "si", "b", "w", "d"}
  NR_BP = 2
  NAddr = 2
  MaxSi = 2
  Values = {v1, v2}
INVARIANTS
  TypeOK
  PoolPartitioned
PROPERTY
  SoloBreakpointWorks
CHECK_DEADLOCK FALSE
