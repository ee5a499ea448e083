\* Three names: cycles of every length, shared dependencies, unregistered
\* dependencies and repeated names in one list all occur.
CONSTANTS
  Name = {a, b, c}
  MaxDeps = 2
SPECIFICATION MCSpec
INVARIANTS
  TypeOK
  TopologicalOrder
  FailsIffBlocked
PROPERTIES
  Terminates
  ImplementsStartOrder
\* The search ends: nothing happens after result is set.
CHECK_DEADLOCK FALSE
