SPECIFICATION FairSpec
CONSTANTS
  MaxFaults = 1
  FailAt = {2}
  MaxEdits = 2
  MaxPages = 2
  MaxSaves = 2
  LongIds = {1}
  WildPorts = {1}
  CastPorts = {2, 4}
  BlankPorts = {2}
INVARIANTS
  SuccessIsSaved
  SuccessIsTold
  CrashLeavesPrefix
  OnlyTypedChanges
PROPERTIES
  SaveAnswered
