CONSTANTS
  BufSize = 2
  PipeSize = 3
  MaxThreads = 20
  Unlimited = 9999
  Shift = 9
  Setups <- TestSetups
SPECIFICATION Spec
INVARIANTS SourceKept TargetsWhole FlagsRestored ExitTellsTruth StaysWithinLimit FiltersAsShown
PROPERTIES AbortEnds FlushedInTime

