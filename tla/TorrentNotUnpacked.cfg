SPECIFICATION MCSpec
CONSTANTS
  Payload <- TwoFiles
  MaxPayloadFailures = 0
  MaxPayloadForeign = 0
  MaxPayloadRestarts = 0
  MaxRows = 1
  MaxOpFailures = 0
  MaxHttpFailures = 0
  MaxHttpForeign = 0
  MaxHttpRestarts = 0
  Lookalikes = {2}
  MaxFiles = 2
  MaxFileBytes = 2
  MaxTotalBytes = 3
  MaxAttempts = 2
  MaxUserFolders = 0
  MaxIoFailures = 0
  MaxCrashes = 0
  Rows = 2
  OwnerOf <- ThreeFiles
  RetryWhileStuck = FALSE
  MaxFailures = 0
  MaxForeign = 0
  MaxRestarts = 0
  Ids = {1, 2}
  Names = {"a", "A", "b"}
  Long = {"b"}
  MaxNameSuffix = 2
  MaxSettled = 0
  MaxComponentBytes = 4
  ExtensionBytes = 2
  MaxLength = 0
INVARIANT CompletedWasUnpacked
CHECK_DEADLOCK FALSE
