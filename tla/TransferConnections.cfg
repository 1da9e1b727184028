CONSTANTS
  v = v
  w = w
  u = u
  x = x
  c = c
  d = d
  Versions = {v}
  Servers <- AnyServer
  Size <- Five
  Tagged = {v}
  Announced = {v}
  Conns = {c, d}
  MinPiece = 1
  MaxPieces = 3
  MaxRetries = 1
  MaxRuns = 1
  MaxChanges = 0
  MaxTicks = 0
  MaxSignals = 1
SPECIFICATION FairSpec
CHECK_DEADLOCK FALSE
INVARIANTS OneWriterPerPiece
PROPERTIES TransfersEnd
