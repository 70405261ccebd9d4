SPECIFICATION FairSpec
CONSTANTS
  INODE_TABLE_SIZE = 3
  DATA_BLOCKS = 3
  BLOCK_SIZE = 1
  MAX_OPEN_FILES = 2
  MAX_DIR_ENTRIES = 2
  Names <- MCNames
  Cut <- MCCut
  Data = {0, 1, 2}
  ZERO = 0
  NUMBER_DIRECT_BLOCKS = 2
  CHAR_MAX = 4
  Threads = {t1, t2}
  Paths <- OnePath
  CopyPaths <- OnePath
  OpenFlags <- NewOrEmpty
  Buffers <- TwoBytes
  Lens = {2}
  SIZE_MOD = 64
  AFTER_ASTRAY = FALSE
INVARIANTS BlockOwnership CallsAreAtomic OffsetWithinFile UnlocksWhatItLocked DirectoryConsistent
PROPERTIES OnlyFullFilesRefuse OnlyWritersGrow OnlyCopiesLeaveHandles ImplementsFiles CallsReturn
CHECK_DEADLOCK FALSE
