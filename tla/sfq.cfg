\* The exploration loop: without AFL over every assignment of runs to three inputs, and
\* with an AFL that adds and trims entries of its queue.
SPECIFICATION FairSpec
CONSTANTS
  a = a
  b = b
  c = c
  e1 = e1
  e2 = e2
  NoInput = NoInput
  Input <- MCInput
  Edge = {e1, e2}
  Bucket = {1, 2}
  Path <- MCPath
  Programs <- MCPrograms
  MaxAfl = 2
  MaxRewrites = 1
  MaxOutputs = 2
INVARIANT TypeOK
INVARIANT QueueInv
INVARIANT KeptDistinct
INVARIANT CorpusCoversBitmap
INVARIANT ImportedRepresented
INVARIANT OvertakenOnlyByBetter
PROPERTY ImplementsWorklist
PROPERTY Halts
PROPERTY AflPolled
PROPERTY StaleTraceNeverKept
