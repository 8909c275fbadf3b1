SPECIFICATION ProtocolSpec
CONSTANTS
  MaxOut = 3
  MaxIn = 3
INVARIANTS
  HoldAnnounced
  FreezeAgrees
