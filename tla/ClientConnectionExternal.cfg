SPECIFICATION FairSpec
CONSTANTS
  Conns = {a1, a2}
  Senders = {}
  App = App
  Loop = Loop
  External = TRUE
  KeepIp = FALSE
  UsePing = TRUE
  NoConn = NoConn
  Closed = Closed
  MaxSpawned = 1
  Builds = {"bebop", "raw"}
  BufSize = 1
CHECK_DEADLOCK FALSE
PROPERTIES FlagReleased LossIsRedialed LossIsReported SilenceIsRedialed
