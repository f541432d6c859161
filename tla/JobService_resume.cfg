SPECIFICATION Spec
CONSTANTS
  Streams     = {s1}
  Clients     = {c1}
  Workers     = {w1}
  Candidates  = {"good"}
  Verdict     <- MCVerdict
  None        = None
  MaxAttempts = 1
  MaxRounds   = 1
  QueueLimit  = 1
  MaxJobs     = 1
  MaxRevision = 2
  MaxTrust    = 0
SYMMETRY Symmetry
INVARIANTS
  PinnedParentFound
