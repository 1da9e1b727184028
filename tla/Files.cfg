SPECIFICATION MCSpec
CONSTANTS
  Payload <- TwoFiles
  MaxPayloadFailures = 1
  MaxPayloadForeign = 1
  MaxPayloadRestarts = 1
  MaxRows = 2
  MaxOpFailures = 2
  MaxHttpFailures = 2
  MaxHttpForeign = 1
  MaxHttpRestarts = 2
  Lookalikes = {2}
  MaxFiles = 2
  MaxFileBytes = 2
  MaxTotalBytes = 3
  MaxAttempts = 2
  MaxUserFolders = 1
  MaxIoFailures = 1
  MaxCrashes = 1
  Rows = 2
  OwnerOf <- ThreeFiles
  RetryWhileStuck = FALSE
  MaxFailures = 3
  MaxForeign = 1
  MaxRestarts = 2
  Ids = {1, 2}
  Names = {"a", "A", "b"}
  Long = {"b"}
  MaxNameSuffix = 2
  MaxSettled = 1
  MaxComponentBytes = 4
  ExtensionBytes = 2
  MaxLength = 5
INVARIANTS PublishedIsWhole CompletedIsOwn RunsForItsRow RefusesOnlyForeign NoTraceLeft
  FoldersAreWhole QuarantineIsJournaled NoSharedDestinations NamesAreStable
PROPERTIES UserFilesStay PayloadSurvives OnlyUnpackedVolumesGo RemovesAtomically PausedTorrentsResume
CHECK_DEADLOCK FALSE
