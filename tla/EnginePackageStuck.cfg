CONSTANTS
  a = a
  b = b
  set = set
  Http = {a, b}
  Torrent = {}
  InfoHash <- NoTorrent
  Parts <- TwoParts
  Pkg = set
  Commands <- StuckCommands
  MaxConcurrent = 1
  MaxQueue = 2
  MaxFaults = 0
  MaxRestarts = 1
SPECIFICATION FairSpec
CHECK_DEADLOCK FALSE
PROPERTIES FinishedSetIsExtracted
