\* The runner and two fork servers that may die; children that crash or hang.
SPECIFICATION FairSpec
CONSTANTS
  Server <- MCServer
  MayHang = {"target", "tracer"}
  MayDie = {"target", "tracer"}
  Timeouts = {TRUE, FALSE}
  MaxRuns = 2
  MaxTraces = 2
INVARIANT RunnerInv
INVARIANT NobodyWrites
INVARIANT RunFilesFresh
INVARIANT VerdictFresh
PROPERTY RunEnds
