SPECIFICATION Spec
CONSTANTS
  INODE_TABLE_SIZE = 3
  DATA_BLOCKS = 2
  BLOCK_SIZE = 2
  MAX_OPEN_FILES = 2
  MAX_DIR_ENTRIES = 3
  Names <- MCNames
  Cut <- MCCut
  Data = {z}
  ZERO = z
  JUNK = junk
  Threads = {t1}
  Destroyers = {t1}
  Paths <- OddPaths
  OpenFlags <- AllFlags
  Lens = {1, 2}
  SIZE_MOD = 16
  MAX_OFFSET = 3
  MAX_COUNT = 2
  Misuse = {"bad_handle", "bad_close"}
  TruncateOpen = TRUE
INVARIANTS TypeOK BlockOwnership DirectoryConsistent HandlesReferToFiles CounterAccounting
           OffsetWithinFile
CHECK_DEADLOCK FALSE
