CONSTANTS
  a = a
  b = b
  set = set
  Http = {a, b}
  Torrent = {}
  InfoHash <- NoTorrent
  Parts <- TwoParts
  Pkg = set
  Commands <- PackageCommands
  MaxConcurrent = 2
  MaxQueue = 2
  MaxFaults = 1
  MaxRestarts = 1
SPECIFICATION Spec
CHECK_DEADLOCK FALSE
INVARIANTS ExtractionHasAllParts
PROPERTIES ImplementsLifecycle OneWorkerAtATime
