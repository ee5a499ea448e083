\* Three intervals of time: entries are stored, expire, survive one sweep at
\* their very limit and are removed by the next.
CONSTANTS
  Instance = {i1, i2}
  Service = {web, db}
  Interval = 2
  NoEntry = NoEntry
  MaxTime = 7
SPECIFICATION Spec
INVARIANTS
  TypeOK
  SweptInTime
PROPERTY ImplementsLeases
\* The clock stops at MaxTime, the operations do not.
