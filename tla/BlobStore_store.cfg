SPECIFICATION Spec
CONSTANTS
  Writers     = {w1, w2}
  Digests     = {d1, d2}
  Prefix     <- MCPrefix
  NoOne       = NoOne
  MaxFailures = 1
SYMMETRY Symmetry
INVARIANTS
  CommittedPresent
  StagingAccounted
  HoldoutHidden
