SPECIFICATION Spec
CONSTANTS
  Retry = 2
  Timeouts <- TimeoutsDef
  CheckInterval = 3
  ConnectTimeout = 1
  Delay = 1
  MaxFaults = 2
  MaxQueue = 2
INVARIANTS TypeOK PingingClientStays SilenceIsNoticed
PROPERTY ComesBack
