SPECIFICATION FairSpec
CONSTANTS
  Runs = {r1, r2}
  NoRun = NoRun
  Ports = {p1, p2}
  NoPort = NoPort
  MaxSecond = 2
  MaxFaults = 2
INVARIANTS
  TypeOK
  DiskIsOwn
  EndsClean
  GuestIsOwn
PROPERTIES
  RunsEnd
CHECK_DEADLOCK FALSE
