\* Two sessions of up to two requests, two buffers of each kind.
SPECIFICATION Spec
CONSTANTS
  c1 = c1
  c2 = c2
  r1 = r1
  r2 = r2
  w1 = w1
  w2 = w2
  Conns = {c1, c2}
  Readers = {r1, r2}
  Writers = {w1, w2}
  None = None
  MaxRequests = 2
SYMMETRY BufferSymmetry
INVARIANTS
  TypeOK
  BuffersExclusive
  BuffersClean
  StreamComplete
  LostMessageEndsConn
PROPERTIES
  ImplementsSession
