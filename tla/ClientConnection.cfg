SPECIFICATION Spec
CONSTANTS
  Conns = {a1, a2}
  Senders = {s1}
  App = App
  Loop = Loop
  External = FALSE
  KeepIp = FALSE
  UsePing = TRUE
  NoConn = NoConn
  Closed = Closed
  MaxSpawned = 2
  Builds = {"bebop", "raw"}
  BufSize = 2
CHECK_DEADLOCK FALSE
SYMMETRY Symmetry
INVARIANTS TypeOK NoOrphan
PROPERTY ImplementsGuard
