SPECIFICATION Spec
CONSTANTS
  INODE_TABLE_SIZE = 2
  DATA_BLOCKS = 2
  BLOCK_SIZE = 1
  MAX_OPEN_FILES = 2
  MAX_DIR_ENTRIES = 1
  Names <- MCNames
  Cut <- MCCut
  Data = {z}
  ZERO = z
  JUNK = junk
  Threads = {t1, t2}
  Destroyers = {t1}
  Paths <- OnePath
  OpenFlags <- NewOnly
  Lens = {}
  SIZE_MOD = 16
  MAX_OFFSET = 4
  MAX_COUNT = 2
  Misuse = {}
  TruncateOpen = FALSE
INVARIANT DestroyOnlyWhenClosed
