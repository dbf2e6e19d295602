SPECIFICATION JobSpec
CONSTANTS
  Worker = {w1, w2}
  HANDLE_REQUESTS = 3
  QUEUE_LIMIT = 3
  SendMayFail = TRUE
INVARIANTS
  OneAnswerWhileQueueLives
  CleanReplies
PROPERTY
  ServerEnds
CHECK_DEADLOCK FALSE
