SPECIFICATION Spec
CONSTANTS
  Images <- MCImages
  Loads <- MCLoads
  Bare <- MCBare
  Malformed <- MCMalformed
  Manifest <- MCManifest
  OldImage = "old"
  MaxEntry = 1
  MaxDamages = 1
  MaxErrors = 1
  FaultKinds = {"power", "alternate", "part", "var"}
  None = None
INVARIANTS OkayLeavesOneBootloader
PROPERTIES BootOrderResolves FlashIsSafe
