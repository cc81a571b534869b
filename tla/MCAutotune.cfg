\* Four kernels, so that a corpus can be kept, replaced and lost between two
\* of the same width; two speeds, so that one can beat the other in either
\* order; two samples, so that a wrong one can come after a right one.
CONSTANTS
  Table <- MCTable
  Cpu = "cpu"
  Backends = {"opencl"}
  Portable = {1}
  BatchLcm = 768
  Messages = 768
  NumSamples = 2
  Speeds = {1, 2}
SPECIFICATION Spec
INVARIANTS
  TypeOK
  BestIsFastest
  OwnsWhatItUses
  ExitHonest
\* The process exits.
CHECK_DEADLOCK FALSE
