SPECIFICATION Spec
CONSTANTS
  c1 = c1  c2 = c2  c3 = c3
  n1 = n1  n2 = n2  n3 = n3
  NotIn = NotIn
  Client = {c1, c2, c3}
  Nick = {n1, n2}
  NameOf <- SharedName
  CLIENT_COUNT = 2
  QUEUE_LIMIT = 2
  MAX_POSTS = 1
  Impatient = {c3}
  MAX_RESTARTS = 1
SYMMETRY Alike
VIEW WithoutPrinted
INVARIANTS
  UniqueLevels
  LevelsAreTaken
  TerminalIsClean
CHECK_DEADLOCK FALSE
