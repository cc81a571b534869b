\* A driver error: on the second of two devices without the pipeline, or after
\* the first sample with it.
CONSTANTS
  NumSamples = 2
  Transfers = {"pipelined", "plain"}
  Asks <- TwoDevices
  DevMax = 6
  MaxPlatforms = 2
  MemShare = 4
  MaxChunks = 6
SPECIFICATION Spec
INVARIANT VerifyFailedMeansWrong
CHECK_DEADLOCK FALSE
