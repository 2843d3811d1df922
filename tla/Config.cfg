\* Configurations around every limit, from the document to admitted recordings.
SPECIFICATION Spec
CONSTANTS
  Padded <- MCPadded
  StableNames <- MCStableNames
  Paths <- MCPaths
  Address <- MCAddress
  DeviceFiles <- MCDeviceFiles
  Inputs <- MCInputs
  Disks <- MCDisks
  Lengths = {1, 2}
  MaxUint64 = 500
INVARIANTS
  AcceptedIsSound
  PipelinesAreServable
  AdmittedFits
\* An edge that was refused, or has admitted its recordings, stops.
CHECK_DEADLOCK FALSE
