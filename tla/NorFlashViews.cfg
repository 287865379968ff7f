SPECIFICATION FairSpec
CONSTANTS
  fat = fat
  rec = rec
  v = v
  w = w
  Last = 1
  K = 2
  Value = {v}
  Erased = Erased
  Mixed = Mixed
  Parts = {fat, rec}
  View <- MCSideBySide
  Cached = {fat}
  Eraser = {rec}
  Polls = 3
  Wrapped = 9
  Waits = {1, 4}
  PowerCuts = TRUE
  MaxRefs = 2
  MaxFailures = 1
  NoBuf = NoBuf
  NoReq = NoReq
INVARIANTS TypeOK BufferWhileOpen SyncArmed
PROPERTIES RawKept FlushedEventually
