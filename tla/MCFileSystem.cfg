\* Two files of up to two pages on a disk of three data blocks, one of which
\* umount_fs keeps track of; clients that know the limits.
SPECIFICATION FsSpec
CONSTANTS
  BLOCK_SIZE = 2
  DISK_BLOCKS = 4
  FirstData = 1
  OwnersPerBlock = 2
  CharHalf = 4
  MAX_FILE_COUNT = 2
  MAX_FD_COUNT = 2
  MaxSize = 3
  Names = {a, b}
  Data <- SomeData
  Lengths = {2}
  Offsets = {0, 1}
  Care <- Careful
  NoTables = NoTables
  NoName = NoName
  NoFile = NoFile
  Closed = Closed
  Nobody = Nobody
  Nothing = Nothing
  Failed = Failed
INVARIANTS FsTypeOK OpenFilesExist BlocksBelongToFiles SeekWithinFile
PROPERTIES IsFlatFiles RemountKeepsFiles
SYMMETRY NameSymmetry
VIEW LiveState
