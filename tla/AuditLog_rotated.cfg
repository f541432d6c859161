SPECIFICATION Spec
CONSTANTS
  Runners    = {w1}
  Callers    = {c1}
  Ages       = {}
  MaxEntries = 3
  MaxTrust   = 2
  MaxManual  = 0
  MaxCrashes = 0
INVARIANTS
  BundleAlwaysVerifies
CHECK_DEADLOCK FALSE
