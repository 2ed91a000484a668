\* Two clients, a TLS listener (the longer way to Accept).
SPECIFICATION Spec
CONSTANTS
  c1 = c1
  c2 = c2
  Conns = {c1, c2}
  NoConn = NoConn
  TLS = TRUE
  MaxPipelined = 1
SYMMETRY ConnSymmetry
INVARIANTS
  TypeOK
  OpenConnsTracked
  VictimWasStale
  DrainedButOne
  CleanReturn
  NobodyStuck
PROPERTIES
  NoAcceptAfterClose
  ImplementsContract
  ImplementsConnLife
