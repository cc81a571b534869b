\* One row cut off, and one sweep that resumes.
CONSTANTS
  Registry <- MCRegistry
  Algorithms <- MCAlgorithms
  Batch = 768
  DevMax = 16
  MaxLadder = 64
  Axes <- MCAxes
  Machines <- MCMachines
  Commands = {}
  MaxStarts = 2
  MaxTears = 1
SPECIFICATION Spec
INVARIANT DoneMeansRecorded
CHECK_DEADLOCK FALSE
