\* One module of each shape, in a chain of dependencies of length two.
CONSTANTS
  conn = conn
  disco = disco
  server = server
  Name <- MCName
  DependsOn <- MCDependsOn
  Servers <- MCServers
  DepList <- MCDepList
SPECIFICATION FairLifecycleSpec
INVARIANTS
  TypeOK
  DependencyServed
  DependencyStartOver
  StopProtectsDependencies
  NothingSkipped
PROPERTIES
  RunEnds
  StopEnds
  ImplementsApp
\* The process ends.
CHECK_DEADLOCK FALSE
