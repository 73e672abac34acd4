SPECIFICATION Spec
CONSTANTS
  Peers = {p1}
  Callers = {app1}
  Conns = {c1, c2}
  BufSize = 1
  NoConn = NoConn
  NoPeer = NoPeer
CHECK_DEADLOCK FALSE
INVARIANT GaugeIsLen
