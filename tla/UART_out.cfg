SPECIFICATION Spec
CONSTANTS
  m = m
  h = h
  e = e
  Writers = {m, h, e}
  Main = m
  MaxLen = 2
  RingSize = 3
  Texts = {0, 5}
  MaxLines = 1
  MaxRestarts = 1
INVARIANTS
  TypeOK
PROPERTIES
  ChannelSpec
