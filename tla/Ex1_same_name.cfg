SPECIFICATION Spec
CONSTANTS
  INODE_TABLE_SIZE = 3
  DATA_BLOCKS = 2
  BLOCK_SIZE = 1
  MAX_OPEN_FILES = 2
  MAX_DIR_ENTRIES = 2
  Names <- MCNames
  Cut <- MCCut
  Data = {0}
  ZERO = 0
  NUMBER_DIRECT_BLOCKS = 1
  CHAR_MAX = 4
  Threads = {t1, t2}
  Paths <- OnePath
  CopyPaths = {}
  OpenFlags <- NewOnly
  Buffers = {}
  Lens = {}
  SIZE_MOD = 64
  AFTER_ASTRAY = FALSE
INVARIANTS NamesUnique
CHECK_DEADLOCK FALSE
