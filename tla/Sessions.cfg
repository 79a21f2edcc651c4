SPECIFICATION SessionsFairSpec
CONSTANTS
  Requests = {r1, r2, r3}
  Threads = {t1, t2}
  PoolSize = 1
  NoRequest = NoRequest
  NoThread = NoThread
INVARIANTS
  SessionsInv
  LostOnlyBySharing
PROPERTIES
  EveryRequestIsAnswered
CHECK_DEADLOCK FALSE
