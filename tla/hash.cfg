\* HASH_MODE with and without AFL.
SPECIFICATION FairSpec
CONSTANTS
  a = a
  b = b
  c = c
  NoInput = NoInput
  Input = {a, b, c}
  Generates <- MCGenerates
  SeedDirs <- MCSeedDirs
  AflModes = {TRUE, FALSE}
  MaxAfl = 2
  MaxRewrites = 1
  MaxOutputs = 2
INVARIANT HashLostOnlyByAfl
INVARIANT QueueContentsDistinct
INVARIANT BreadthFirst
PROPERTY ImplementsWorklist
PROPERTY WaitingEventuallyRun
