SPECIFICATION FairSpec
CONSTANTS
  t1 = t1
  t2 = t2
  t3 = t3
  Tasks = {t1, t2, t3}
  Sockets = {0, 1, 2}
  Environments <- AllFive
  MaxCalls = 6
  MaxQueue = 2
INVARIANTS
  SocketsBounded
  StopReleases
  OneTask
  AllAnswered
PROPERTIES
  QueriesTaken
  TaskEnds
