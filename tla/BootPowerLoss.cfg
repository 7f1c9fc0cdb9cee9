SPECIFICATION FairSpec
CONSTANTS
  MaxPriority = 2
  MaxTries = 3
  MaxIndex = 2
  MaxFaults = 2
  FaultKinds = {"power"}
  MaxUpdates = 2
  ImageKinds = {"good", "bad_boot", "bad_vendor", "invalid"}
  LoaderKinds = {"ok", "broken"}
  UseKfld = TRUE
  UseFastboot = FALSE
INVARIANTS FallbackSlotIsValid
PROPERTIES ProvenSlotKept BootNeverLowersRollback BootLoopEnds
