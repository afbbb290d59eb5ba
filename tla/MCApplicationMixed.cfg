\* Two worker threads, and one edit of config.json that SIGHUP announces
CONSTANTS
  IntLimit = 8
  MaxDay = 1
  MaxEdits = 1
  Callers = {"main", "accept", "signal"}
  GoodPaths = {"logs/server.log"}
  GoodAddresses = {"0.0.0.0"}
  Files <- DeployedFiles
SPECIFICATION FairSpec
INVARIANT OneConfigurationPerSession
CHECK_DEADLOCK FALSE
