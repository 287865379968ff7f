SPECIFICATION Spec
CONSTANTS
  a = a
  b = b
  Contents <- MCContents
  Size <- MCSize
  Remain <- MCRemain
  Windows = {2}
  LastBlock = 3
  CheckMax = 2
  Faults = {"cancel", "restart", "late"}
  MaxStarts = 2
  MaxLoss = 0
  NoFtp = NoFtp
  NoFile = NoFile
  Absent = Absent
  Mark = Mark
  Junk = Junk
INVARIANT PublishedIntact
CHECK_DEADLOCK FALSE
