CONSTANTS
  conn = conn
  disco = disco
  server = server
  Name <- MCName
  DependsOn <- MCDependsOn
  Servers <- MCServers
SPECIFICATION FairSpec
INVARIANT WaitsForDependencies
CHECK_DEADLOCK FALSE
