SPECIFICATION Spec
CONSTANTS
  MaxPriority = 2
  MaxTries = 2
  MaxIndex = 1
  MaxFaults = 1
  FaultKinds = {"power", "io", "handover"}
  MaxUpdates = 2
  ImageKinds = {"good", "bad_boot", "bad_vendor"}
  LoaderKinds = {"ok", "broken", "missing"}
  UseKfld = TRUE
  UseFastboot = TRUE
INVARIANTS SelectedSlotIsVerified LockedImagesVerified RebootReachesChosenSlot
PROPERTIES NoRollbackLockout
