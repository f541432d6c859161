SPECIFICATION Spec
CONSTANTS
  Streams     = {s1}
  Clients     = {c1, c2}
  Workers     = {w1}
  Candidates  = {"once", "leak"}
  Verdict     <- MCVerdict
  None        = None
  MaxAttempts = 1
  MaxRounds   = 2
  QueueLimit  = 3
  MaxJobs     = 3
  MaxRevision = 0
  MaxTrust    = 1
SYMMETRY Symmetry
INVARIANTS
  RetryChain
  StageMatchesLoop
PROPERTIES
  TerminalForever
