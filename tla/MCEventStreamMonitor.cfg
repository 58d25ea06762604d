\* A mission control that goes on after its wait.
SPECIFICATION FairSpec
CONSTANTS
  Roles = {"mission control"}
  MaxEvents = 3
CHECK_DEADLOCK FALSE
PROPERTY UpdatesMonitored
