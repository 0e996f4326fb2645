SPECIFICATION FairUSpec
CONSTANTS
  None = None
  Bindings = {0, 1, 2, 3, 4}
  Violations = {}
  Heads = {h1, h2}
  Audits = {audit}
  Starts <- AllWaits
  Intents <- AllIntents
  Others <- Work
  MaxSeq = 4
  MaxComments = 1
  MaxPushes = 1
INVARIANTS NothingSwallowed UserReplayStable
PROPERTIES ImplementsUserWait WaitEnds
CHECK_DEADLOCK FALSE
