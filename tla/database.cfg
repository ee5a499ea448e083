\* Each of the eight connectors in turn, and two calls on one connection.
CONSTANTS
  Call = {c1, c2}
  MaxLen = 2
  MaxOpen = 1
SPECIFICATION DatabaseSpec
INVARIANTS
  TypesOK
  OrphansExplained
  ProvidedUsable
  StopReleases
  ErrorMeansUndone
  TxOver
  QueryWhole
PROPERTIES
  ErrorIsRetryable
  Bounded
  ImplementsAtomicBatches
CHECK_DEADLOCK FALSE
