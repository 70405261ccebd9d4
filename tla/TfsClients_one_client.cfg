SPECIFICATION FairSpec
CONSTANTS
  S = 2
  Clients = {c1}
  Answers <- FileAnswers
  GARBAGE = garbage
  OwnIds = TRUE
  READ_MAX = 3
  LongPaths = {}
  LongWriters = {}
  MAX_COUNT = 2
  MAX_QUEUE = 2
  CallsMade = {"tfs_unmount", "tfs_open", "tfs_close", "tfs_write", "tfs_read", "tfs_shutdown_after_all_closed"}
  Payloads <- SomePayloads
  Mortal = {}
INVARIANTS AnswersOwnCall OneRequestPerSlot
 
CHECK_DEADLOCK FALSE
