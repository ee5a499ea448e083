CONSTANTS
  conn = conn
  disco = disco
  server = server
  Name <- MCName
  DependsOn <- MCDependsOn
  Servers <- MCServers
SPECIFICATION FairSpec
INVARIANT CancelledOnlyToStop
CHECK_DEADLOCK FALSE
