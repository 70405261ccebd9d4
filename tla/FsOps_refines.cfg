SPECIFICATION Spec
CONSTANTS
  INODE_TABLE_SIZE = 3
  DATA_BLOCKS = 2
  BLOCK_SIZE = 2
  MAX_OPEN_FILES = 2
  MAX_DIR_ENTRIES = 2
  Names <- MCNames
  Cut <- MCCut
  Data = {z, x}
  ZERO = z
  JUNK = junk
  Threads = {t1}
  Destroyers = {t1}
  Paths <- TwoPaths
  OpenFlags <- MCFlags
  Lens = {1, 2}
  SIZE_MOD = 16
  MAX_OFFSET = 4
  MAX_COUNT = 2
  Misuse = {}
  TruncateOpen = FALSE
INVARIANT NamesUnique
PROPERTY ImplementsAbstractFs
