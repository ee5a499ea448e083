CONSTANTS
  conn = conn
  disco = disco
  server = server
  Name <- MCName
  DependsOn <- MCDependsOn
  Servers <- MCServers
SPECIFICATION FairSpec
PROPERTY OwnInstanceKept
CHECK_DEADLOCK FALSE
