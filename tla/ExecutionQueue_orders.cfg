CONSTANTS
  Order = {o1, o2}
  Worker = {w1}
  None = None
  MaxRetries = 2
  MaxFailures = 1
SPECIFICATION Spec
SYMMETRY Symmetry
INVARIANTS
  RepeatFillsExplained
  AttemptsBounded
PROPERTIES
  ImplementsLifecycle
