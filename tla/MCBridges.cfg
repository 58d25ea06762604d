\* Mission controls that are killed, stopped and restarted, side by side.
SPECIFICATION FairSpec
CONSTANTS
  c1 = c1
  c2 = c2
  Controls = {c1, c2}
  Platforms <- MCPlatforms
  Arch <- MCArch
  Plans <- DisjointPlans
  MaxRuns <- Restart
  Leftovers = {{}}
  DockerWorks = {TRUE, FALSE}
CHECK_DEADLOCK FALSE
INVARIANTS
  TypeOK
  SocketsServe
  BuilderComplete
PROPERTY BridgesOpen
