SPECIFICATION Spec
CONSTANTS
  r1 = r1
  r2 = r2
  Runs <- MCOneRun
  NoRun = NoRun
  Bases <- MCInstalledBase
  Commands <- MCOneFinalization
  Ports <- MCPorts
  MaxSecond = 1
  MaxFaults = 0
INVARIANTS
  TemporaryForwardRemoved
CHECK_DEADLOCK FALSE
