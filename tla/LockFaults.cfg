SPECIFICATION Spec
CONSTANTS
  Configs <- MCConfigs
  LifeCycle = "unsupported"
  MaxIndex = 1
  MaxFaults = 2
INVARIANTS PrivateDataStaysLocked PrivateDataNeedFreshSystem OkayMeansStored
