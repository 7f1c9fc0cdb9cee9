SPECIFICATION TipcSpec
CONSTANTS
  MaxInterrupts = 3
  MaxFaults = 3
INVARIANTS
  Provisioned
  InStep
  BufferOwned
PROPERTIES
  Returns
