\* Three workers so that one can lag while another laps it; two pools so that
\* the second meets what the first left behind; two reps so that a slice can
\* be right and then wrong and so disagree with itself; more CPUs online than
\* the process is allowed on, so that it shows which of them a pool was given.
CONSTANTS
  MaxThreads = 3
  MaxReps = 2
  MaxRuns = 2
  MaxPools = 2
  NumCpus = 2
  NumOnline = 3
  Errors = {0, 1}
SPECIFICATION Spec
INVARIANTS
  TypeOK
  VerdictSound
  PinReportComplete
  TeardownQuiescent
  MaskKept
PROPERTIES
  DriverWritesQuiescent
  PoolDrains
\* The process stops creating pools in the end.
CHECK_DEADLOCK FALSE
