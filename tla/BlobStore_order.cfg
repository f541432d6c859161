SPECIFICATION Spec
CONSTANTS
  Writers     = {w1, w2}
  Digests     = {d1}
  Prefix     <- MCPrefix
  NoOne       = NoOne
  MaxFailures = 0
SYMMETRY Symmetry
INVARIANTS
  CommittedSynced
