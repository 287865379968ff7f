SPECIFICATION Spec
CONSTANTS
  Capacity <- MCCapacity
  S = 4096
  H = 32
  IndexMod = 65536
  LenMod = 65536
  Frames = {2048, 4096}
  Heads = {0, 90}
  Cut = 600
  Limit = 3000
  PlayLost = TRUE
  MaxMade = 3
  NoFile = NoFile
  NoHead = NoHead
INVARIANT StartsInRing
