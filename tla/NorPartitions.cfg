SPECIFICATION Spec
CONSTANTS
  Name = {"fat_nor", "res_nor", "rec_nor", "other"}
  Addr = {0, 1, 2}
  Size = {1, 2}
  Slots = 3
  Capacity = 3
INVARIANTS AscendingApart OpenFits
CHECK_DEADLOCK FALSE
