SPECIFICATION FairSpec
CONSTANTS
  Worker = {w1, w2}
  HANDLE_REQUESTS = 3
  QUEUE_LIMIT = 2
  MAX_FD = 4
  MAX_RUNS = 2
INVARIANT
  OneOwner
PROPERTY
  FirstRunEnds
CHECK_DEADLOCK FALSE
