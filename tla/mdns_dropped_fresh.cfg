CONSTANTS
  Instance = {i1}
  Finder = {f1}
  QueueCap = 1
SPECIFICATION Spec
PROPERTY KeptWhileFresh
CHECK_DEADLOCK FALSE
