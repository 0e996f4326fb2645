SPECIFICATION FairSpec
CONSTANTS
  Absent = Absent
  None = None
  Direct = direct
  Bindings = {direct}
  Heads = {h}
  Audits = {audit}
  Violations <- ArisingViolations
  Starts <- ReviewOrMerge
  Kinds = {"REVIEW_RESULT", "USER_CANCEL"}
  Texts = {"a"}
  Earlier = 1
  MaxSeq = 3
  MaxIncident = 6
  MaxTrouble = 2
  MaxChanges = 2
INVARIANTS ConversationMatchesRun PendingHasTransaction
PROPERTY IncidentTerminates
CHECK_DEADLOCK FALSE
