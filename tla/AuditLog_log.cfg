SPECIFICATION FairSpec
CONSTANTS
  Runners    = {w1, w2}
  Callers    = {c1}
  Ages       = {"expired"}
  MaxEntries = 2
  MaxTrust   = 2
  MaxManual  = 1
  MaxCrashes = 1
INVARIANTS
  CheckpointsBounded
  SignedByActiveRoot
  BundleVerifies
PROPERTIES
  EveryEventCovered
  ImplementsKeptLog
CHECK_DEADLOCK FALSE
