SPECIFICATION Spec
CONSTANTS
  Jobs = {j1, j2}
  Cwds = {d1}
  Killable = {}
  Fallible = {}
  MaxSlips = 0
  Commands <- OneLoad
  Bins <- MCBins
  Dtbos <- MCDtbos
  Basename <- MCBasename
  FirmwareName <- MCFirmwareName
INVARIANT LoadedMeansProgrammed
CHECK_DEADLOCK FALSE
