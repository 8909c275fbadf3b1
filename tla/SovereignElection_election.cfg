CONSTANTS
  Tab = {2}
  Peer = {1, 3}
  Intent = {}
  Daemon = Daemon
  Nobody = Nobody
  MaxScore = 2
  Margin = 2
SPECIFICATION FairSpec
INVARIANTS
  FollowsKnownPeer
  DaemonSilencesTabs
PROPERTIES
  SilentSovereignReplaced
  SovereignDecided
