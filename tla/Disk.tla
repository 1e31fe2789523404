-------------------------------- MODULE Disk --------------------------------
(***************************************************************************)
(* disk.c: the virtual disk.  The eleven blocks in front, which hold the   *)
(* file system's tables, are one value here; the others hold bytes.        *)
(***************************************************************************)
EXTENDS Integers

CONSTANTS
  BLOCK_SIZE,
  DISK_BLOCKS,
  FirstData,    \* the number of blocks in front (11)
  NoTables      \* blocks in front that hold no tables

ASSUME BlockSizeAssumption  == BLOCK_SIZE \in Nat \ {0}
ASSUME DiskBlocksAssumption == FirstData \in Nat \ {0} /\ DISK_BLOCKS \in Nat

VARIABLES
  active,   \* the disk is open
  exists,   \* the disk has been made
  meta,     \* the blocks in front
  data      \* block -> its bytes

diskVars == <<active, exists, meta, data>>

DataBlocks == FirstData .. DISK_BLOCKS - 1

ZeroBlock == [i \in 0 .. BLOCK_SIZE - 1 |-> 0]

DiskInit ==
  /\ active = FALSE
  /\ exists = FALSE
  /\ meta = NoTables
  /\ data = [b \in DataBlocks |-> ZeroBlock]

\* make_disk empties the disk, open or not, and fills it with zeros; front is
\* what its caller writes into the blocks in front next.
MakeDisk(front) ==
  /\ exists' = TRUE
  /\ meta' = front
  /\ data' = [b \in DataBlocks |-> ZeroBlock]

OpenDisk == ~active /\ exists /\ active' = TRUE

CloseDisk == active /\ active' = FALSE
=============================================================================
