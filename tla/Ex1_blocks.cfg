SPECIFICATION Spec
CONSTANTS
  INODE_TABLE_SIZE = 3
  DATA_BLOCKS = 10
  BLOCK_SIZE = 2
  MAX_OPEN_FILES = 2
  MAX_DIR_ENTRIES = 1
  Names <- MCNames
  Cut <- MCCut
  Data = {0, 1, 2}
  ZERO = 0
  NUMBER_DIRECT_BLOCKS = 1
  CHAR_MAX = 3
  Threads = {t1}
  Paths <- TwoPaths
  CopyPaths = {}
  OpenFlags <- AllFlags
  Buffers <- OneBuffer
  Lens = {3}
  SIZE_MOD = 64
  AFTER_ASTRAY = TRUE
INVARIANTS TypeOK BlockOwnership CallsAreAtomic DirectoryConsistent
PROPERTIES LosesNoOther OnlyFullFilesRefuse
CHECK_DEADLOCK FALSE
