CONSTANTS
  a = a
  b = b
  set = set
  Http = {}
  Torrent = {a, b}
  InfoHash <- OneTorrent
  Parts <- NoParts
  Pkg = set
  Commands <- DuplicateCommands
  MaxConcurrent = 1
  MaxQueue = 2
  MaxFaults = 1
  MaxRestarts = 0
SPECIFICATION Spec
CHECK_DEADLOCK FALSE
INVARIANTS RestoreAccepts
