CONSTANTS
  Regime = {"HighVol", "Crisis"}
  Peer = {p1, p2}
  Quorum = 2
  ClearSkiesLevel = 1
  MaxQueue = 1
  MinTrades = 1
SPECIFICATION Spec
SYMMETRY Symmetry
INVARIANTS
  NoQuorumSurvived
PROPERTIES
  DeadStays
  CascadeComplete
