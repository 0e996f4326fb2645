SPECIFICATION ResumeSpec
CONSTANTS
  None = None
  Bindings = {b}
  Violations = {}
  Heads = {h1, h2}
  Audits = {audit}
  MaxPushes = 2
  Work <- Reviewing
INVARIANTS VerdictHasEvent FallbackMeansChange
PROPERTY GateNeedsStandingApproval
SYMMETRY HeadSymmetry
CHECK_DEADLOCK FALSE
