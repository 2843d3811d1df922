\* Two sources listen on one address under two spellings; TLC refutes NoSharedListener.
SPECIFICATION Spec
CONSTANTS
  Padded <- MCPadded
  StableNames <- MCStableNames
  Paths <- MCPaths
  Address <- MCAddress
  DeviceFiles <- MCDeviceFiles
  Inputs <- MCInputs
  Disks <- MCDisks
  Lengths = {1, 2}
  MaxUint64 = 500
INVARIANTS
  NoSharedListener
CHECK_DEADLOCK FALSE
