\* Four threads leave a gap between two that were started; six messages make
\* the slices uneven.  The indices of the messages carry into their second byte, and
\* some have no other byte.
CONSTANTS
  Counts <- MCCounts
  ThreadCounts <- MCThreadCounts
  MallocFails = FALSE
  StartIndex = 254
  Sizes <- MCSizes
  LaneCounts <- MCShape
  Streams <- MCShape
  Ladder <- MCLadder
SPECIFICATION FairSpec
INVARIANTS
  TypeOK
  ReferenceExact
  NoThreadOutlives
  KernelsAgree
PROPERTY Returns
\* The call returns.
CHECK_DEADLOCK FALSE
