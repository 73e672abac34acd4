SPECIFICATION FairSpec
CONSTANTS
  Readers = {r1, r2}
  NoReader = NoReader
  ChannelCap = 1
  SpillCap = 2
  MaxMessages = 6
INVARIANTS TypeOK Conservation PeerOrder
PROPERTIES ImplementsFifo CallsReturn
CHECK_DEADLOCK FALSE
