SPECIFICATION MCSpec
CONSTANTS
  Ids = {1, 2}
  Contents = 2
  EventCapacity = 2
  InboxCapacity = 1
  Http = {h1, h2}
  Magnets = {m}
  PreviewLimit = 1
  EarlyMemory = 1
  MaxRequests = 2
  MaxDialogs = 1
  ClosesBusy = FALSE
  Processes = {p1, p2, p3}
  ChannelSize = 1
  MaxKilled = 1
  MaxChanges = 3
  Told <- SomeLists
  RowIds = {1, 4}
  Matched = {1}
  Given <- SomeSettings
  Texts <- SomeTexts
  MaxPort = 2
  Unit = 2
  MinLimit = 2
  MaxDays = 2
  DefaultLimit = 4
  DefaultRatio = 1
  DefaultDays = 1
  MaxEdits = 2
  CommandQueue = 2
  Grouped <- OneSet
  MaxBytes = 1
  MaxPins = 1
  MaxFaults = 1
INVARIANTS ViewFollows NoOrphanPreviews ForwardedIsOpened SavedOrTold
  OfferedIsAccepted SettingsReachEngine RecordIsRows
PROPERTY ListIsCurrent
CHECK_DEADLOCK FALSE
