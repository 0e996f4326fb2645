SPECIFICATION Spec
CONSTANTS
  h1 = h1
  h2 = h2
  Hosts <- Two
  Overlap = FALSE
INVARIANTS NoTreeLost StopRequestKept StopIsComplete
PROPERTY ExecuteReturns
CHECK_DEADLOCK FALSE
