SPECIFICATION Spec
CONSTANTS
  Capabilities <- AllCapabilities
  Runs = 2
INVARIANTS
  TypeOK
  SuccessIsSeen
  RefusalIsNotAllowed
  RefusalIsApplicable
  PathsAgree
  RemainsAreExplained
  BodiesAreGuarded
PROPERTIES
  EveryRunEnds
