CONSTANTS
  ByteSize = 4
  Configs <- MCConfigs
SPECIFICATION Spec
INVARIANTS WatchdogStatusReadable OneShotServedOnce MenuJustified CrashLoopBounded
