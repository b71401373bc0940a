\* The runner interrupted up to three times, with and without -t and -f.
SPECIFICATION FairProcessesSpec
CONSTANTS
  Timeouts = {TRUE, FALSE}
  ForkServers = {TRUE, FALSE}
  MaxRuns = 3
  MaxSessions = 3
  MaxSignals = 3
INVARIANT OnlyUnregisteredLeft
INVARIANT OutputDirectory
PROPERTY NothingStartsAfterShutdown
PROPERTY AbortEnds
