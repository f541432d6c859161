SPECIFICATION Spec
CONSTANTS
  Requests   = {r1, r2}
  Loops      = {l1, l2}
  NoThread   = NoThread
  QueueLimit = 1
  ChainLimit = 1
  RateLimit  = 1
  Minute     = 1
  Day        = 2
  Watched    = 2
  MinClock   = 1
  MaxClock   = 2
  MaxBack    = 1
  MaxAgain   = 1
SYMMETRY Symmetry
VIEW View
INVARIANTS
  FreshBounded
  QuotaBounded
  RateBounded
PROPERTIES
  LoopSurvives
