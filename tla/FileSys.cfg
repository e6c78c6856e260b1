SPECIFICATION Spec
CONSTANTS
  NR_FILES = 2
  size <- MCsize
  disk_offset <- MCdisk_offset
  disk <- MCdisk
  Byte = {0, 1, 2, 3, 4, 5, 6, 7}
  NUL = 0
  Mod = 10
  Lens = {0, 1, 3, 9}
  Offsets = {0, 1, 9}
  SECTOR = 2
  LONG = 1
  NR_SEC_CACHE = 2
  NrSectors = 4
  LoaderReads <- MCLoaderReads
INVARIANTS
  TypeOK
  CacheHoldsDisk
  StaysInFile
PROPERTY
  ImplementsFiles
