SPECIFICATION FairSpec
CONSTANTS
  S = 2
  Clients = {c1, c2}
  Answers <- FileAnswers
  GARBAGE = garbage
  OwnIds = TRUE
  READ_MAX = 3
  LongPaths = {}
  LongWriters = {}
  MAX_COUNT = 2
  MAX_QUEUE = 2
  CallsMade = {}
  Payloads <- NoPayload
  Mortal = {}
PROPERTY CallsReturn
CHECK_DEADLOCK FALSE
