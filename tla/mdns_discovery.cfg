\* Two instances and a queue of one: the queue is full while the worker is at
\* the other instance.  Two callers of Find compete for one marker.
CONSTANTS
  Instance = {i1, i2}
  Finder = {f1, f2}
  QueueCap = 1
SPECIFICATION Spec
SYMMETRY Symmetry
INVARIANTS
  TypeOK
  MarkerBacked
  FindNeverBlocks
\* Everything stops once the context is done and all entries are dead.
CHECK_DEADLOCK FALSE
