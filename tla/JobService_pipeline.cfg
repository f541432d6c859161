SPECIFICATION FairSpec
CONSTANTS
  Streams     = {s1}
  Clients     = {c1}
  Workers     = {w1, w2}
  Candidates  = {"good"}
  Verdict     <- MCVerdict
  None        = None
  MaxAttempts = 2
  MaxRounds   = 1
  QueueLimit  = 2
  MaxJobs     = 2
  MaxRevision = 2
  MaxTrust    = 0
INVARIANTS
  TypeOK
  FenceCurrent
  NoLostUpdate
  AcceptedIffReleased
  StageMatchesLoop
PROPERTIES
  ImplementsLine
  JobNeverLoops
  EveryJobSettles
