\* The reuse_address of config.json as get_bool() returns it
CONSTANTS
  IntLimit = 8
  MaxDay = 1
  MaxEdits = 1
  Callers = {"main", "accept", "signal"}
  GoodPaths = {"logs/server.log"}
  GoodAddresses = {"0.0.0.0"}
  Files <- DeployedFiles
SPECIFICATION FairSpec
INVARIANT ReuseAddressIsThatOfTheFile
CHECK_DEADLOCK FALSE
