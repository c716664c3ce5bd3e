SPECIFICATION Spec
CONSTANTS
  None = None
  Trees <- TreeRecords
  RootfsDirs <- MCRootfsDirs
  ImageSizes <- MCImageSizes
  ROOTFS_SIZE = 0
  BootFiles <- MCBootFiles
  EfiBootFiles <- MCEfiBootFiles
  KernelDir <- MCKernelDir
  FileKb = 10
  BOOTDD_EXTRA_SPACE = 20
  KickStarts <- AllKickStarts
  Included <- MCIncluded
  APPEND = "quiet"
  Options <- AllOptions
INVARIANTS
  OwnFiles
  FstabArrives
  ImageFits
  UkiSectionsApart
CHECK_DEADLOCK FALSE
