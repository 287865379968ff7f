SPECIFICATION FairSpec
CONSTANTS
  a = a
  b = b
  Contents <- MCContents
  Size <- MCSize
  Remain <- MCRemain
  Windows = {2}
  LastBlock = 3
  CheckMax = 2
  Faults = {"cancel", "link", "key"}
  MaxStarts = 2
  MaxLoss = 1
  NoFtp = NoFtp
  NoFile = NoFile
  Absent = Absent
  Mark = Mark
  Junk = Junk
PROPERTY TransferEnds
