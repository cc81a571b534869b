CONSTANTS
  Machines <- MCMachines
  Jobs <- MCJobs
  MaxSrc = 4
  Modulus = 3
  MaxUnits = 2
  MaxSamples = 1
SPECIFICATION Spec
INVARIANTS TypeOK EnergyTrue MeasuredHardware
CHECK_DEADLOCK FALSE
