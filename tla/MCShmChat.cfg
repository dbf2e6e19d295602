SPECIFICATION Spec
CONSTANTS
  Process = {p1, p2}
  Nobody = Nobody
  MAX_SENDS = 1
  MayDie = {p1}
INVARIANTS
  LockHasOneOwner
  RestingMessageIsWhole
  NumberCountsMessages
PROPERTY
  EveryoneGetsTheLast
CHECK_DEADLOCK FALSE
