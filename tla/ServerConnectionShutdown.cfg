SPECIFICATION FairSpec
CONSTANTS
  Builds = {"bebop"}
  Tls = FALSE
  Conns = {c1}
  MaxConnections = 1
  BufSize = 1
  Middlewares = 1
  UsePing = TRUE
  ProxyPing = FALSE
CHECK_DEADLOCK FALSE
PROPERTY ShutdownCloses
