SPECIFICATION Spec
CONSTANTS
  r1 = r1
  r2 = r2
  Runs <- MCRuns
  NoRun = NoRun
  Bases <- MCInstalledBase
  Commands <- MCOneOfEach
  Ports <- MCPorts
  MaxSecond = 1
  MaxFaults = 0
INVARIANTS
  FinalizationReachesBase
CHECK_DEADLOCK FALSE
