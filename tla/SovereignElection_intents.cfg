CONSTANTS
  Tab = {1}
  Peer = {2}
  Intent = {i1, i2}
  Daemon = Daemon
  Nobody = Nobody
  MaxScore = 0
  Margin = 1
SPECIFICATION FairSpec
INVARIANTS
  RunsExplained
  IntentsKept
PROPERTIES
  IntentsRun
