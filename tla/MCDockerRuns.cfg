SPECIFICATION FairSpec
CONSTANTS
  Runs = {r1, r2}
  NoRun = NoRun
  Profiles <- MCProfiles
  MaxSecond = 2
  MaxFaults = 1
INVARIANTS
  TypeOK
  TesterUndisturbed
  GatewayFailsClosed
  EndsClean
  KeptForInspection
PROPERTIES
  OnlyOwnerRemoves
  RunsEnd
CHECK_DEADLOCK FALSE
