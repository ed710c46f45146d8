SPECIFICATION Spec
CONSTANTS
  n1 = n1
  n2 = n2
  p1 = p1
  p2 = p2
  Nil = Nil
  Networks = {n1, n2}
  Passwords = {p1, p2}
  GoodCreds <- OnlyPair1
  Submissions <- BothPairs
  Commands = {"START_AP"}
  Cooperative = TRUE
  Prompt = FALSE
  MaxCmds = 1
  MaxPosts = 2
  MaxFaults = 0
  MaxBoots = 0
INVARIANTS
  SavesVerified
