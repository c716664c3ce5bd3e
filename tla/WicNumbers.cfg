SPECIFICATION Spec
CONSTANTS
  Wks <- LogicalWks
  Formats = {"msdos"}
  SectorSize = 4096
  MaxParts = 3
INVARIANT RealnumIsNum
CHECK_DEADLOCK FALSE
