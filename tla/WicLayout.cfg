SPECIFICATION Spec
CONSTANTS
  Wks <- AllWks
  Formats = {"msdos", "gpt", "gpt-hybrid"}
  SectorSize = 4096
  MaxParts = 5
INVARIANTS
  TypeOK
  PartitionsDisjoint
  DiskHoldsAll
  Aligned
  TableRight
  ContiguousLogicalsHeld
  ImagesKeptApart
\* The tool ends when the image is done.
CHECK_DEADLOCK FALSE
