\* Two processes, one of which serves.
CONSTANTS
  Process = {p1, p2}
  None = None
SPECIFICATION FairSpec
PROPERTY RegisteredIsFound
CHECK_DEADLOCK FALSE
