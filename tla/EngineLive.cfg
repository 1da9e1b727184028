CONSTANTS
  a = a
  b = b
  set = set
  Http = {a, b}
  Torrent = {}
  InfoHash <- NoTorrent
  Parts <- TwoParts
  Pkg = set
  Commands <- LiveCommands
  MaxConcurrent = 1
  MaxQueue = 3
  MaxFaults = 0
  MaxRestarts = 0
SPECIFICATION FairSpec
CHECK_DEADLOCK FALSE
PROPERTIES QueuedRowsStart CommandsEnd
