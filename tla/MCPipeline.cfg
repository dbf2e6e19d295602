SPECIFICATION ShellFairSpec
CONSTANTS
  CommandLine <- AnyLine
  MAX_TYPED = 3
  LINES = 2
  CAPACITY = 1
  FD_LIMIT = 7
  UINT_RANGE = 16
  NoPipes = NoPipes
INVARIANTS BridgeIsPrivate TextInOrder
PROPERTIES ShellPromptsAgain LeftoversEnd
CHECK_DEADLOCK FALSE
