SPECIFICATION FairSpec
CONSTANT MaxOut = 1
INVARIANTS
  ClocksBelong
PROPERTIES
  ImplementsSignals
  RetreatEnds
  HoldEnds
