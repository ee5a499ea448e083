\* A unit is 5 s, so that every duration of the code is a whole number: a
\* period of 15 s and cache entries for 40 s; messages are up to 10 s late.
CONSTANTS
  Node = {a, b}
  Publisher = {a}
  Watcher = {b}
  Host = a
  Period = 3
  CacheTTL = 8
  MaxDelay = 2
  None = None
SPECIFICATION AnnounceSpec
INVARIANTS
  TypesOK
  Fresh
  StaysFound
  CrashExplained
PROPERTIES
  StopEnds
  GoneIsForgotten
  ServedIsFound
