SPECIFICATION FSSpec
CONSTANTS
  MaxSlots = 8
  Capacities = {8}
  Paths <- MCPaths
  FileNames <- MCFileNames
  Buckets = {0, 1}
  Hash <- MCHash
  Null = Null
  OSDirs <- MCOSDirs
  DiskFiles <- MCDiskFiles
  ReadOnly <- MCReadOnly
  Archives <- MCArchives
  Mounts <- MCMounts
  MaxMounts = 4
  MaxClears = 1
  MaxOpens = 2
  Opens <- MCOpens
  Handles = {h1, h2}
  MaxSize = 2
  Chunks = {1}
  Seeks <- MCSeeks
  DWord = 16
INVARIANT TableIsSound
INVARIANT NamesResolve
INVARIANT SizesAgree
INVARIANT FileInsideOSFile
SYMMETRY MCSymmetry
CHECK_DEADLOCK FALSE
