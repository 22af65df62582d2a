SPECIFICATION FairSpec
CONSTANTS
  Worker = {w1, w2}
  chunk_size = 2
  MaxHeight = 4
  MaxFailures = 2
INVARIANTS
  NoGap
  FinishedMeansIndexed
PROPERTIES
  InitEnds
