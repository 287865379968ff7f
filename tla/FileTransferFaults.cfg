SPECIFICATION Spec
CONSTANTS
  a = a
  b = b
  Contents <- MCContents
  Size <- MCSize
  Remain <- MCRemain
  Windows = {2}
  LastBlock = 3
  CheckMax = 2
  Faults = {"send", "write", "open", "rename", "nodev", "nobuf", "key", "power", "link", "cancel", "late"}
  MaxStarts = 2
  MaxLoss = 1
  NoFtp = NoFtp
  NoFile = NoFile
  Absent = Absent
  Mark = Mark
  Junk = Junk
INVARIANTS TypeOK PublishedIntact AppendsAtOffset MarkCoversData MarkTimerOwned
  StartTimerIdle OffsetWithinFile
PROPERTIES ResumeNeverRegresses AppendsBehind
