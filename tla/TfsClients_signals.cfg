SPECIFICATION Spec
CONSTANTS
  S = 2
  Clients = {c1, c2}
  Answers <- OneAnswer
  GARBAGE = garbage
  OwnIds = FALSE
  READ_MAX = 2
  LongPaths = {c2}
  LongWriters = {c1}
  MAX_COUNT = 2
  MAX_QUEUE = 1
  CallsMade = {"tfs_unmount", "tfs_write"}
  Payloads <- JustZeroBytes
  Mortal = {c1}
INVARIANTS TypeOK NoLostSignal
CHECK_DEADLOCK FALSE
