SPECIFICATION Spec
CONSTANTS
  UseAcpi = TRUE
  MaxImages = 2
  MaxLoaded = 2
  MaxLocations = 2
  MaxDescriptors = 3
  MaxFaults = 1
INVARIANTS
  OkMeansVerified
  GoodColourMeansVerified
  AssertionsHold
  BuffersOwned
CHECK_DEADLOCK FALSE
