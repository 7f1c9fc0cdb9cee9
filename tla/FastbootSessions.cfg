SPECIFICATION FairSpec
CONSTANTS
  Links = {"tcp", "usb"}
  MaxToken = 2
  FragSize = 2
  Block = 2
  SizeLen = 2
  MaxSize = 3
  Commands <- MCCommands
  MaxCommands = 2
  MaxDrops = 1
INVARIANTS ReadsAreCovered InStep DownloadIntact AnswersMatch
PROPERTIES Served ListensAgain
CHECK_DEADLOCK FALSE
