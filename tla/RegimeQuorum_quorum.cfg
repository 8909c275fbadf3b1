CONSTANTS
  Tab = {1, 2, 3}
  SameBrowser = {1, 2}
  Connected = {2, 3}
  Vote = {1}
  MaxSeverity = 1
  MaxForced = 0
  MaxClosed = 1
SPECIFICATION Spec
PROPERTIES
  CommitsBacked
