\* Four threads, three rounds: enough for a thread to re-enter twice while
\* another has not left, across a wrap of the generation.
CONSTANTS
  Thread = {t1, t2, t3, t4}
  GenMod = 2
  MaxRounds = 3
SPECIFICATION FallbackSpec
INVARIANTS
  FallbackTypes
  NobodyRunsAhead
PROPERTIES
  ImplementsContract
  AllRoundsComplete
\* The threads stop when their rounds are over.
CHECK_DEADLOCK FALSE
