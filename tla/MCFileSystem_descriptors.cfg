\* Careful clients, but who open files in any order.
SPECIFICATION FsSpec
CONSTANTS
  BLOCK_SIZE = 2
  DISK_BLOCKS = 4
  FirstData = 1
  OwnersPerBlock = 2
  CharHalf = 4
  MAX_FILE_COUNT = 2
  MAX_FD_COUNT = 2
  MaxSize = 3
  Names = {a, b}
  Data <- SomeData
  Lengths = {2}
  Offsets = {0, 1}
  Care <- OpenInAnyOrder
  NoTables = NoTables
  NoName = NoName
  NoFile = NoFile
  Closed = Closed
  Nobody = Nobody
  Nothing = Nothing
  Failed = Failed
PROPERTIES IsFlatFiles
SYMMETRY NameSymmetry
VIEW LiveState
