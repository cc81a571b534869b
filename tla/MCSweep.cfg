\* Three points, so that a row can be cut off before, in and after another; two
\* sweeps after the first, so that what a resumed one wrote is read again.
CONSTANTS
  Registry <- MCRegistry
  Algorithms <- MCAlgorithms
  Batch = 768
  DevMax = 16
  MaxLadder = 64
  Axes <- MCAxes
  Machines <- MCMachines
  Commands <- MCCommands
  MaxStarts = 3
  MaxTears = 2
SPECIFICATION Spec
INVARIANTS
  TypeOK
  SweepComplete
  CommandsSound
\* No more sweeps are started in the end.
CHECK_DEADLOCK FALSE
