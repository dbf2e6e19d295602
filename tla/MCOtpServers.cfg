\* MAX_R is 5 in the code.
CONSTANTS
  Process = {p1, p2}
  Listener = {l1, l2}
  Apps = {"statem", "fsm", "event", "server"}
  MAX_R = 1
  MAX_SENT = 4
SPECIFICATION FairSpec
INVARIANTS
  EventsAreCounted
  TalksHaveCallers
PROPERTIES
  ImplementsDelay
  EveryCallEnds
CHECK_DEADLOCK FALSE
