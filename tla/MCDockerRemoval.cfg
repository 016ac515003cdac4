SPECIFICATION Spec
CONSTANTS
  Runs = {r1}
  NoRun = NoRun
  Profiles <- MCProfiles
  MaxSecond = 1
  MaxFaults = 0
INVARIANTS
  RemovedByDefault
CHECK_DEADLOCK FALSE
