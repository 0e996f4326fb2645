SPECIFICATION FairHSpec
CONSTANTS
  None = None
  Bindings = {b}
  Violations = {1}
  Heads = {h}
  Audits = {audit}
  Starts <- Fix
  Others <- Interrupts
  Reports = {"FIX_RESULT", "TRANSIENT", "PERMANENT"}
  RetryBudget = 3
  MaxReceipts = 2
  MaxActions = 2
  MaxFaults = 1
INVARIANTS ConsumedOnce ReplayStable LedgerFits
PROPERTY ActionSettles
CHECK_DEADLOCK FALSE
