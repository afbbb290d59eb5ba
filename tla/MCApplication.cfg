\* Eight contents of config.json, edited once, two days, a small int.
CONSTANTS
  IntLimit = 8
  MaxDay = 2
  MaxEdits = 1
  Callers = {"main", "accept", "signal"}
  GoodPaths = {"logs/server.log"}
  GoodAddresses = {"0.0.0.0"}
  Files <- MCFiles
SPECIFICATION FairSpec
INVARIANT TypeOK
INVARIANT LinesReachTheFile
INVARIANT MainLogsAlone
INVARIANT ServesALoadedFile
PROPERTY StopSignalEndsProgram
PROPERTY ReloadTakesEffect
CHECK_DEADLOCK FALSE
