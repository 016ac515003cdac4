SPECIFICATION Spec
CONSTANTS
  r1 = r1
  r2 = r2
  Runs <- MCOneRun
  NoRun = NoRun
  Bases <- MCInstalledBase
  Commands <- MCOneClone
  Ports <- MCPorts
  MaxSecond = 1
  MaxFaults = 1
INVARIANTS
  CloneRemovedByDefault
CHECK_DEADLOCK FALSE
