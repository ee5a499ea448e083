\* A unit is 5 s, so that every duration of the code is a whole number: a
\* period of 15 s, keys for 50 s, cache entries for 40 s, commands for 5 s.
\* Node a announces itself, both nodes look it up.
CONSTANTS
  Node = {a, b}
  Publisher = {a}
  Watcher = {b}
  Period = 3
  KeyTTL = 10
  CacheTTL = 8
  CmdTimeout = 1
  None = None
SPECIFICATION FairSpec
INVARIANTS
  TypeOK
  Fresh
  StaysFound
PROPERTY StopEnds
