SPECIFICATION FairSpec
CONSTANTS
  MaxClicks = 2
  Delay = 2
  Limit = 6
  LastPoll = 8
INVARIANTS
  GivesUpLate
  OldVerdictOnlyEarly
PROPERTIES
  ManagerSpec
  UserTold
