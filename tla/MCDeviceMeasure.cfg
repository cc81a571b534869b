\* Two samples, so that a failure can come before, between and in them; wrong
\* slices can cancel and an error can sit in a context other than the first.
CONSTANTS
  NumSamples = 2
  Transfers = {"pipelined", "plain"}
  Asks <- MCAsks
  DevMax = 6
  MaxPlatforms = 2
  MemShare = 4
  MaxChunks = 6
SPECIFICATION Spec
INVARIANTS
  TypeOK
  WrongNeverPasses
  ContextsFreed
  WorkDivided
\* A measurement ends.
CHECK_DEADLOCK FALSE
