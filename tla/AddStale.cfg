SPECIFICATION Spec
CONSTANTS
  Http = {h1, h2}
  Magnets = {}
  PreviewLimit = 1
  EarlyMemory = 1
  MaxRequests = 2
  MaxDialogs = 2
  ClosesBusy = TRUE
PROPERTY FailedItemsStay
CHECK_DEADLOCK FALSE
