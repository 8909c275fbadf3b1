CONSTANTS
  Order = {o1}
  Worker = {w1, w2}
  None = None
  MaxRetries = 1
  MaxFailures = 1
SPECIFICATION FairSpec
INVARIANTS
  SubmittedWasFilled
  OneHand
PROPERTIES
  QueueDrains
