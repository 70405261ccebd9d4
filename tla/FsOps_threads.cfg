SPECIFICATION FairSpec
CONSTANTS
  INODE_TABLE_SIZE = 3
  DATA_BLOCKS = 2
  BLOCK_SIZE = 1
  MAX_OPEN_FILES = 3
  MAX_DIR_ENTRIES = 2
  Names <- MCNames
  Cut <- MCCut
  Data = {z}
  ZERO = z
  JUNK = junk
  Threads = {t1, t2, t3}
  Destroyers = {t1, t2}
  Paths <- TwoPaths
  OpenFlags <- NewOnly
  Lens = {}
  SIZE_MOD = 16
  MAX_OFFSET = 4
  MAX_COUNT = 3
  Misuse = {}
  TruncateOpen = FALSE
INVARIANTS NoLostWakeUp CounterAccounting
PROPERTIES WaitsForHandles ShutdownCompletes
