SPECIFICATION FairSpec
CONSTANTS
  Callers = {t1, t2}
  IPs = {ip1}
  Servers = {ip1}
  MaxConcurrent = 2
  MaxProbes = 3
  Other = Other
INVARIANTS TypeOK WithinConcurrency
PROPERTIES ImplementsScanGuard ImplementsGuard ScanReleased SearchIsAnswered
CHECK_DEADLOCK FALSE
