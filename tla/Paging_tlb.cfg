SPECIFICATION Spec
CONSTANTS
  PAGE_SIZE = 2
  NR_PTE = 2
  PhyPages = 10
  KDir = 6
  KMemPages = 6
  VmemPages = {1}
  STACK_SIZE = 1
  Segments <- MCTlbSegments
  Byte = {0, 1}
  Lens = {1, 2}
  Starts = {5, 7}
  Brks = {7, 9}
  TLB_ENABLED = TRUE
  TlbSize = 2
  KernelFrames = {0}
INVARIANTS
  TlbAgrees
PROPERTY
  ImplementsUserMemory
