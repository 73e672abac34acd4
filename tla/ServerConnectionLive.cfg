SPECIFICATION FairSpec
CONSTANTS
  Builds = {"bebop", "raw"}
  Tls = FALSE
  Conns = {c1}
  MaxConnections = 1
  BufSize = 2
  Middlewares = 2
  UsePing = TRUE
  ProxyPing = TRUE
CHECK_DEADLOCK FALSE
PROPERTY ReaderEndFreesSlot
