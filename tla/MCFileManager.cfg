\* BLOCK_SIZE is 1 as in the code, MAX_SIZE_OF_TEXT there is 65536.
CONSTANTS
  root = root
  sub = sub
  locked = locked
  note = note
  tool = tool
  k = k
  Dir <- MCDir
  Root = root
  UpOf <- MCUpOf
  Unreadable = {locked}
  File <- MCFile
  InDir <- MCInDir
  Executable = {tool}
  Dot = Dot
  DotDot = DotDot
  Order <- MCOrder
  Start = root
  Content <- MCContent
  Char <- MCChar
  Typed <- MCTyped
  Garbled <- MCGarbled
  Absent = Absent
  NoPath = NoPath
  NULL = NULL
  NL = NL
  NUL = NUL
  PCT = PCT
  Listing = Listing
  BLOCK_SIZE = 1
  MAX_SIZE_OF_TEXT = 3
  WIDTH = 2
  MAX_CHANGES = 2
  MAX_NESTED = 1
  MAX_ERRORS = 1
SPECIFICATION FairSpec
INVARIANTS
  TypeOK
  ChosenExists
  CopyIsWhole
  SavedTextLoads
PROPERTY CopyEnds
CHECK_DEADLOCK FALSE
