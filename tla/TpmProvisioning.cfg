SPECIFICATION Spec
CONSTANTS
  MaxRollback = 2
  MaxSeeds = 2
  MaxLosses = 2
  MaxErrors = 2
INVARIANTS
  SeedNeverChanges
  LockedForTheOs
  OwnerKeepsIndexes
PROPERTIES
  RollbackHolds
