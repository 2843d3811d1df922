\* Two recordings are admitted against the same free space; TLC refutes TogetherTheyFit.
SPECIFICATION Spec
CONSTANTS
  Padded <- MCPadded
  StableNames <- MCStableNames
  Paths <- MCPaths
  Address <- MCAddress
  DeviceFiles <- MCDeviceFiles
  Inputs <- MCInputs
  Disks <- MCDisks
  Lengths = {1, 2}
  MaxUint64 = 500
INVARIANTS
  TogetherTheyFit
CHECK_DEADLOCK FALSE
