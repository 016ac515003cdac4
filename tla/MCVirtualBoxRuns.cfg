SPECIFICATION FairSpec
CONSTANTS
  r1 = r1
  r2 = r2
  Runs <- MCRuns
  NoRun = NoRun
  Bases <- MCBases
  Commands <- MCCommands
  Ports <- MCPorts
  MaxSecond = 2
  MaxFaults = 1
INVARIANTS
  TypeOK
  SessionIsOwn
  ClonesRemoved
  NoForwardLeft
  KeptForInspection
  FinalizedIsReady
PROPERTIES
  ClonesSpec
  RunsEnd
CHECK_DEADLOCK FALSE
