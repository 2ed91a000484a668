SPECIFICATION Spec
CONSTANTS
  c1 = c1
  Conns = {c1}
  NoConn = NoConn
  TLS = FALSE
  MaxPipelined = 0
PROPERTY
  ActiveUninterrupted
