SPECIFICATION Spec
CONSTANTS
  Absent = Absent
  Texts = {a, b}
  MaxSeq = 4
  MaxComments = 4
  MaxChanges = 2
INVARIANTS NoFalseAlarm IntactIsFaithful
PROPERTY IncidentIsVerifiedAndHidesNothing
CHECK_DEADLOCK FALSE
SYMMETRY Symmetry
