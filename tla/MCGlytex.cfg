SPECIFICATION FairSpec
CONSTANTS
  NumDevices = 2
  Devices <- MCDevices
  NonceSpace = 9
  Batch = 2
  TemplateRefreshSecs = 1
  ReportAfter = 0
  MaxVersion = 2
  Solves <- MCSolves
INVARIANTS PartsTypeOK StopsOnlyOnFailure ExitLosesNothing
PROPERTIES MinersSafety StopsTogether
