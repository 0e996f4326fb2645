SPECIFICATION LockSpec
CONSTANTS
  p1 = p1
  p2 = p2
  p3 = p3
  p4 = p4
  p5 = p5
  Procs <- MCProcs
  RunOf <- MCRunOf
  HostOf <- MCHostOf
  PidOf <- MCPidOf
  None = None
  Corrupt = Corrupt
INVARIANTS MutualExclusion HolderNamed
PROPERTY LockRespected
CHECK_DEADLOCK FALSE
