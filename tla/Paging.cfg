SPECIFICATION Spec
CONSTANTS
  PAGE_SIZE = 2
  NR_PTE = 2
  PhyPages = 8
  KDir = 5
  KMemPages = 2
  VmemPages = {1}
  STACK_SIZE = 2
  Segments <- MCSegments
  Byte = {0, 1}
  Lens = {1, 2}
  Starts = {7, 9, 18}
  Brks = {9, 11, 15}
  TLB_ENABLED = FALSE
  TlbSize = 1
  KernelFrames = {0}
INVARIANTS
  TypeOK
  FramesPrivate
  StopsOnlyWhenFull
PROPERTY
  ImplementsUserMemory
CHECK_DEADLOCK FALSE
