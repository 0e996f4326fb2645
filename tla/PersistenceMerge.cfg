SPECIFICATION MergeSpec
CONSTANTS
  Absent = Absent
  None = None
  Direct = direct
  Bindings = {direct}
  Heads = {h}
  Audits = {audit}
  Violations <- ArisingViolations
  Starts <- Merge
  Kinds = {"USER_CANCEL"}
  Texts = {"a"}
  Earlier = 2
  MaxSeq = 3
  MaxIncident = 6
  MaxTrouble = 1
  MaxChanges = 1
PROPERTY MergingRunEnds
CHECK_DEADLOCK FALSE
