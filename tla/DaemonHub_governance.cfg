CONSTANTS
  MaxBox = 2
SPECIFICATION FairSpec
INVARIANTS
  CopiesAgree
  FreezeGovernsIntents
  ObservesUntilEnabled
  HoldKept
PROPERTIES
  AlarmsEnd
