SPECIFICATION PageFairSpec
CONSTANTS
  Paired = TRUE
  MaxScans = 2
  MaxFaults = 2
  MaxLoads = 1
  MaxRescans = 1
  MaxRetries = 2
INVARIANTS
  ListIsCurrent
  NoFalseEmpty
  PortalIsCurrent
  NetworksStay
PROPERTIES
  PageSettles
