SPECIFICATION Spec
CONSTANTS
  fat = fat
  rec = rec
  v = v
  w = w
  Last = 1
  K = 2
  Value = {v, w}
  Erased = Erased
  Mixed = Mixed
  Parts = {fat}
  View <- MCFatOnly
  Cached = {fat}
  Eraser = {}
  Polls = 3
  Wrapped = 9
  Waits = {1, 3, 4}
  PowerCuts = TRUE
  MaxRefs = 1
  MaxFailures = 2
  NoBuf = NoBuf
  NoReq = NoReq
SYMMETRY MCValues
INVARIANT CleanMeansWritten
PROPERTY StoreSpec
