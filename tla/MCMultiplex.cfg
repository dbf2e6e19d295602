SPECIFICATION FairSpec
CONSTANTS
  Poller = {"select", "poll", "epoll"}
  UdpClient = {u1, u2}
  TcpClient = {t1, t2}
  Vanishing = {t1}
  NUM_OF_REQUESTS = 4
  BACKLOG = 2
  UDP_BUFFER = 1
  MayFail = TRUE
  Nobody = Nobody
INVARIANTS OwnReply OneRequestPerTurn
PROPERTY EveryClientServed
CHECK_DEADLOCK FALSE
