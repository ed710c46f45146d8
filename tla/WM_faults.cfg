SPECIFICATION FairSpec
CONSTANTS
  n1 = n1
  n2 = n2
  p1 = p1
  p2 = p2
  Nil = Nil
  Networks = {n1, n2}
  Passwords = {p1, p2}
  GoodCreds <- OnlyPair1
  Submissions <- OnlyPair1
  Commands = {"START_AP", "STOP_AP", "CLEAR", "STATUS", "RESET", "AUTO_CONNECT", "UNKNOWN"}
  Cooperative = FALSE
  Prompt = FALSE
  MaxCmds = 2
  MaxPosts = 1
  MaxFaults = 1
  MaxBoots = 0
INVARIANTS
  ConnectedTracksLink
PROPERTIES
  AttemptSpec
  CommandAnswered
  AttemptResolves
