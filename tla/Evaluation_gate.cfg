SPECIFICATION Spec
CONSTANTS
  Contents      <- MCContents
  Words         <- Nat
  Tokens        <- MCTokens
  Category      <- MCCategory
  WellShaped    <- MCShaped
  CleanText     <- MCClean
  LongWords     = {600}
  Rank          <- MCRank
  References    <- MCReferences
  Documents     <- MCDocuments
  Policy        <- MCPolicy
  MinTokens     = 8
  MaxTokens     = 12
  MaxCandidates = 3
  CorpusMax     = 8
  PartitionMin  = 2
  PartitionMax  = 4
  SampleMin     = 2
  SampleMax     = 3
  Ratios        <- MCRatios
  Increases     = {500, 501}
  MaxRevision   = 2
INVARIANTS
  CorpusNeverLeaks
  CorpusDistinct
  SurvivorsKernel
  RecordsAccounted
  ReportFaithful
  MetricsDefined
PROPERTIES
  ReleasesOnlyGrow
