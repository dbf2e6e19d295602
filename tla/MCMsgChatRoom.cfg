SPECIFICATION QuietSpec
CONSTANTS
  c1 = c1  c2 = c2  c3 = c3
  n1 = n1  n2 = n2  n3 = n3
  NotIn = NotIn
  Client = {c1, c2, c3}
  Nick = {n1, n2, n3}
  NameOf <- OwnNames
  CLIENT_COUNT = 3
  QUEUE_LIMIT = 8
  MAX_POSTS = 1
  Impatient = {}
  MAX_RESTARTS = 0
PROPERTIES
  ImplementsRoom
  EveryJoinAnswered
CHECK_DEADLOCK FALSE
