CONSTANTS
  v = v
  w = w
  u = u
  x = x
  c = c
  d = d
  Versions = {v, w, u, x}
  Servers <- NoneRegrown
  Size <- Length
  Tagged = {v, w, x}
  Announced = {v, w}
  Conns = {c}
  MinPiece = 1
  MaxPieces = 2
  MaxRetries = 1
  MaxRuns = 2
  MaxChanges = 1
  MaxTicks = 1
  MaxSignals = 1
SPECIFICATION Spec
CHECK_DEADLOCK FALSE
INVARIANTS CountedBlocksAreWritten PiecesAgree DeliveredWhole SavedProgressResumes
PROPERTIES ProgressIsKept
