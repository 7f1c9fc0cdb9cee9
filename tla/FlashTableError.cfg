SPECIFICATION Spec
CONSTANTS
  Images <- MCImages
  Loads <- MCLoads
  Bare <- MCBare
  Malformed <- MCMalformed
  Manifest <- MCManifest
  OldImage = "old"
  MaxEntry = 2
  MaxDamages = 1
  MaxErrors = 1
  FaultKinds = {"primary"}
  None = None
INVARIANTS NeverBricked
