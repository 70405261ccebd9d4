SPECIFICATION FairSpec
CONSTANTS
  S = 2
  Clients = {c1, c2, c3}
  Answers <- OneAnswer
  GARBAGE = garbage
  OwnIds = TRUE
  READ_MAX = 3
  LongPaths = {c3}
  LongWriters = {}
  MAX_COUNT = 2
  MAX_QUEUE = 2
  CallsMade = {"tfs_close"}
  Payloads <- NoPayload
  Mortal = {}
PROPERTIES MainGoesOn
CHECK_DEADLOCK FALSE
