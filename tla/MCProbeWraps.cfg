CONSTANTS
  Devices <- MCDevices
  Pins <- MCPins
  MinLocal = 2
  MaxLocal = 4
  FloorLocal = 1
  PerCu = 4
  Target = 8
  MaxRepeats = 3
  Times = {0, 1, 4, 9}
  Spin = 2
  Modulus = 16
  Stalls = TRUE
SPECIFICATION Spec
INVARIANT OnlyUndercounts
CHECK_DEADLOCK FALSE
