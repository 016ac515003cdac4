SPECIFICATION FairSpec
CONSTANTS
  GroupCount = 3
  EnabledGroups <- MCEnabledGroups
  TestCount <- MCTestCount
  Outcomes = {"Allowed", "Error"}
  MaxRuns = 2
INVARIANTS
  TypeOK
  ReportIsComplete
  DoneFollowsReport
  ExitMeansPublished
  LogReplaysReport
PROPERTIES
  PublicationSpec
  RunEnds
CHECK_DEADLOCK FALSE
