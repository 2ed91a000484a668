SPECIFICATION Spec
CONSTANTS
  c1 = c1
  r1 = r1
  w1 = w1
  Conns = {c1}
  Readers = {r1}
  Writers = {w1}
  None = None
  MaxRequests = 1
INVARIANT
  PanicsContained
