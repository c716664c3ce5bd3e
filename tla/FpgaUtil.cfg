SPECIFICATION Spec
CONSTANTS
  Jobs = {j1, j2}
  Cwds = {d1, d2}
  Killable = {j1}
  Fallible = {j2}
  MaxSlips = 1
  Commands <- AllCommands
  Bins <- MCBins
  Dtbos <- MCDtbos
  Basename <- MCBasename
  FirmwareName <- MCFirmwareName
SYMMETRY AnyCwd
INVARIANTS
  ReportTruthful
  OverlapContained
  OverlayVerdict
  NothingLeft
PROPERTY OverlayKept
CHECK_DEADLOCK FALSE
