CONSTANTS
  Cash = 3
  Cap = 2
  MaxOrders = 2
  MaxKept = 2
SPECIFICATION Spec
INVARIANTS
  ReservationsMatch
  MirrorCatchesUp
  ExposureKept
  CashoutKept
