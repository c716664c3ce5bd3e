SPECIFICATION Spec
CONSTANTS
  Wks <- HoleWks
  Formats = {"msdos"}
  SectorSize = 4096
  MaxParts = 6
INVARIANT ExtendedHoldsLogicals
CHECK_DEADLOCK FALSE
