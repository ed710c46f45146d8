SPECIFICATION FairSpec
CONSTANTS
  a = a
  b = b
  CR = CR
  LF = LF
  Chars = {a, b}
  MaxLen = 3
  RingSize = 2
  MaxBytes = 6
INVARIANTS
  BufferInBounds
  CommandsExact
PROPERTIES
  AllRun
