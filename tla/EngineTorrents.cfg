CONSTANTS
  a = a
  b = b
  set = set
  Http = {}
  Torrent = {a, b}
  InfoHash <- OneTorrent
  Parts <- NoParts
  Pkg = set
  Commands <- RowCommands
  MaxConcurrent = 1
  MaxQueue = 3
  MaxFaults = 0
  MaxRestarts = 1
SPECIFICATION Spec
SYMMETRY RowSymmetry
CHECK_DEADLOCK FALSE
INVARIANTS WorkersMatchRows SlotsBounded QueuedRowsWait NoLostWakeup
PROPERTIES CommandsOutlastExits ImplementsLifecycle
