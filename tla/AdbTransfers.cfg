CONSTANTS
  Links = {"tcp", "usb"}
  Sizes = {1, 2}
  Kinds <- MCKinds
  FileLen = 4
  BlockLen = 3
  PayloadLen = 2
  MaxPending = 1
  MaxFaults = 1
SPECIFICATION FairSpec
INVARIANTS
  PayloadsFollow
  PullIntact
  ResourcesOwned
PROPERTIES
  JobsEnd
CHECK_DEADLOCK FALSE
