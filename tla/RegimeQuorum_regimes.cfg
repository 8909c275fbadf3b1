CONSTANTS
  Tab = {1, 2}
  SameBrowser = {1, 2}
  Connected = {}
  Vote = {1, 2}
  MaxSeverity = 1
  MaxForced = 1
  MaxClosed = 0
SPECIFICATION FairSpec
PROPERTIES
  VotesCease
