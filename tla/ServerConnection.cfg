SPECIFICATION Spec
CONSTANTS
  Builds = {"bebop", "raw"}
  Tls = TRUE
  Conns = {c1, c2}
  MaxConnections = 1
  BufSize = 1
  Middlewares = 2
  UsePing = FALSE
  ProxyPing = TRUE
CHECK_DEADLOCK FALSE
SYMMETRY Symmetry
INVARIANTS TypeOK VettedBeforeForwarded EndIsTold
PROPERTY ImplementsAdmission
