\* The applications may stop at any time, and the bounds stop them.
SPECIFICATION Spec
CONSTANTS
  Protocol <- ProtocolDef
  UpMessages <- UpDef
  DownMessages <- DownDef
  Peers <- PeersDef
  Address <- AddressDef
  Proxied = 77
  MaxUp = 3
  MaxDown = 2
CHECK_DEADLOCK FALSE
INVARIANTS TypeOK AppsHear CutIsNoticed PongForPing
