\* PROBES is 5, PING_TTL 64 and TTL_SPACE 256 in the code.
CONSTANTS
  Pinger = {ping}
  Tracer = {trace}
  DISTANCE = 3
  Settings <- MCSettings
  PROBES = 2
  PING_TTL = 3
  TTL_SPACE = 4
  MAX_LINES = 5
  MAX_NOISE = 1
SPECIFICATION IcmpFairSpec
INVARIANTS
  NoLineIsAhead
  LinesAreTheWay
  EndsAtTheEnd
PROPERTY ToolsEnd
CHECK_DEADLOCK FALSE
