SPECIFICATION RunSpec
CONSTANTS
  Bindings = {b1, b2}
  Violations = {1, 2, 3}
  Heads = {h1, h2}
  Audits = {a1}
  None = None
INVARIANTS MachineStateLegal NoSilentLoss ApprovalsFollowState HaltStaysAcknowledgeable AgentGate ActiveNeverStranded DetectionNeverRejected OneRulePerEvent
PROPERTIES MergeAuthorised ProcedureRunsToCompletion
SYMMETRY Symmetry
CHECK_DEADLOCK FALSE
