\* Chunks 1 and 2 per pass, so that one device finishes a call before the other
\* and passes fall differently into the ring; a ring of 3, the smallest the
\* event of chunk s - 2 survives in; two calls, so that the second starts on a
\* full pipeline.
CONSTANTS
  NumDevices = 2
  Chunks <- MCChunks
  Ring = 3
  MaxPasses = 2
  MaxCalls = 2
SPECIFICATION Spec
INVARIANTS
  TypeOK
  PassIntegrity
  NeverDrained
  FreedWhenIdle
PROPERTY HostNeverStuck
\* Once everything is freed nothing is left to do.
CHECK_DEADLOCK FALSE
