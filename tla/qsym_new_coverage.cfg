\* The order in which QSYM_MODE picks its testcases.
SPECIFICATION Spec
CONSTANTS
  a = a
  b = b
  c = c
  e1 = e1
  e2 = e2
  NoInput = NoInput
  Empty = Empty
  Input <- MCInput
  Edge = {e1, e2}
  Bucket = {1, 2}
  Programs <- NewCoveragePrograms
  MayDie = FALSE
  AflModes = {FALSE}
  SeedNamed = {0}
  MaxAfl = 0
  MaxRewrites = 0
  MaxOutputs = 2
INVARIANT NewCoverageFirst
