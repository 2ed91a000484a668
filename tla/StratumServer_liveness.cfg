\* One client, a plain listener, up to two lines left in its buffer.
SPECIFICATION FairSpec
CONSTANTS
  c1 = c1
  Conns = {c1}
  NoConn = NoConn
  TLS = FALSE
  MaxPipelined = 2
PROPERTIES
  ShutdownReturns
  ServeReturns
  ClosedConnEnds
