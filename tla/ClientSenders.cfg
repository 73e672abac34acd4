SPECIFICATION FairSpec
CONSTANTS
  Peers = {p1}
  Conns = {c1, c2}
  Callers = {app1}
  BufSize = 1
  NoConn = NoConn
  NoPeer = NoPeer
INVARIANTS TypeOK GaugeExact
PROPERTIES DeadEntriesLeave OperationsReturn
CHECK_DEADLOCK FALSE
