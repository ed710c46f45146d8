SPECIFICATION Spec
CONSTANTS
  MaxClicks = 2
  Delay = 2
  Limit = 18
  LastPoll = 20
INVARIANT VerdictNotOlder
