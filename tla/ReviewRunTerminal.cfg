SPECIFICATION RunSpec
CONSTANTS
  Bindings = {b1}
  Violations = {1, 2}
  Heads = {h1}
  Audits = {a1}
  None = None
INVARIANT TerminalAccountsForAll
CHECK_DEADLOCK FALSE
