SPECIFICATION Spec
CONSTANTS
  MaxPriority = 2
  MaxTries = 3
  MaxIndex = 0
  MaxFaults = 0
  FaultKinds = {}
  MaxUpdates = 1
  ImageKinds = {"good", "bad_boot", "bad_vendor", "invalid"}
  LoaderKinds = {"ok"}
  UseKfld = TRUE
  UseFastboot = FALSE
INVARIANTS StartedSlotMatchesLoader
