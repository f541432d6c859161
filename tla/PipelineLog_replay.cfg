SPECIFICATION PipelineSpec
CONSTANTS
  Streams     = {s1}
  Clients     = {c1}
  Workers     = {w1}
  Candidates  = {"once"}
  Verdict     <- MCVerdict
  None        = None
  MaxAttempts = 2
  MaxRounds   = 1
  QueueLimit  = 1
  MaxJobs     = 2
  MaxRevision = 2
  MaxTrust    = 1
INVARIANTS
  JobsReplay
  StreamsReplay
  ReleasesReceipted
  VerdictsCurrent
CHECK_DEADLOCK FALSE
