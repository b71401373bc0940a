\* QSYM_MODE with and without AFL, over the maps of two inputs; the tracer may die.
SPECIFICATION FairSpec
CONSTANTS
  a = a
  b = b
  c = c
  e1 = e1
  e2 = e2
  NoInput = NoInput
  Empty = Empty
  Input <- MCInput
  Edge = {e1, e2}
  Bucket = {1, 2}
  Programs <- MCPrograms
  MayDie = TRUE
  AflModes = {TRUE, FALSE}
  SeedNamed = {0}
  MaxAfl = 2
  MaxRewrites = 1
  MaxOutputs = 1
INVARIANT Alternation
INVARIANT CorpusCoversCumulative
INVARIANT KeptInteresting
INVARIANT ImportedJudged
PROPERTY ImplementsWorklist
PROPERTY Halts
