SPECIFICATION Spec
CONSTANTS
  n1 = n1
  n2 = n2
  p1 = p1
  p2 = p2
  Nil = Nil
  Networks = {n1, n2}
  Passwords = {p1, p2}
  GoodCreds <- OnlyPair1
  Submissions <- BothPairs
  Commands = {"START_AP", "STOP_AP", "CLEAR", "STATUS", "RESET", "AUTO_CONNECT", "UNKNOWN"}
  Cooperative = TRUE
  Prompt = TRUE
  MaxCmds = 4
  MaxPosts = 3
  MaxFaults = 1
  MaxBoots = 1
INVARIANTS
  NoJoinDuringPrescan
  AutoFailIsReal
  AloneSavesVerified
  AttemptCanSucceed
  OpenApSkips
  PairNotTorn
