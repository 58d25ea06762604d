\* A mission control that link or a job runs, beside one that wants a path of it.
SPECIFICATION FairLaunch
CONSTANTS
  c1 = c1
  c2 = c2
  Controls = {c1, c2}
  Launched = {c1}
  Platforms <- MCPlatforms
  Arch <- MCArch
  JobSocket <- MCArch
  Wanted <- MCWanted
  Plans <- MCPlans
  MaxRuns <- OneRun
  Leftovers = {{}, {"amd64", "arm64"}}
  DockerWorks = {TRUE}
CHECK_DEADLOCK FALSE
INVARIANTS
  LaunchTypeOK
  NoOrphan
  LinkedServes
  JobCleansUp
  CollisionsContained
PROPERTY Decides
