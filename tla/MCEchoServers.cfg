\* QUEUE_SIZE is 5 in the code, the limit of descriptors usually 1024.
CONSTANTS
  Client = {c1, c2, c3}
  RawClient = {c1, c2}
  Stopper = {c3}
  Mortal = {c1}
  Nobody = Nobody
  Programs = {"udp", "tcp", "udp_fork", "tcp_fork", "erl_udp", "erl_tcp",
              "erl_web"}
  QUEUE_SIZE = 2
  RCVBUF = 2
  FD_LIMITS = {5, 6}
  PROC_LIMIT = 4
SPECIFICATION FairSpec
INVARIANTS
  OwnReply
  RawTakesAnswers
PROPERTIES
  Answered
  NobodyWaitsForTheDead
CHECK_DEADLOCK FALSE
