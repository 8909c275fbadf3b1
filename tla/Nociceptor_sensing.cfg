CONSTANTS
  Tick = {"buy", "sell"}
  None = None
  Capacity = 2
  Width = 5
  Batch = 2
  MaxLag = 2
  MinVolume = 5
  MaxVolume = 5
  Decay = 2
  Warmup = 3
  CrisisAt = 70
  HighVolAt = 40
  Band = 8
SPECIFICATION FairSpec
INVARIANTS
  TicksIntact
  NoFalseCrisis
PROPERTIES
  PassesWarranted
  FeedRead
  FeedRecovers
