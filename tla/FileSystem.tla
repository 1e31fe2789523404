----------------------------- MODULE FileSystem -----------------------------
(***************************************************************************)
(* fs.c: named files in the blocks of the virtual disk.  All tables are in *)
(* memory while the file system is mounted; umount_fs writes them into the *)
(* blocks in front of the disk and mount_fs reads them back.               *)
(*                                                                         *)
(* Every call runs under one mutex from its first to its last access and   *)
(* is one step, except fs_get_filesize, which reads the size after it has  *)
(* given the mutex back.  A call that is refused (-1) before it has        *)
(* changed anything is no step at all.                                     *)
(***************************************************************************)
EXTENDS Disk, Sequences, FiniteSets, FiniteSetsExt

CONSTANTS
  Names, NoName,
  MAX_FILE_COUNT, MAX_FD_COUNT,
  OwnersPerBlock,  \* entries of block_belong_list that fit a block (BLOCK_SIZE)
  CharHalf,        \* a char holds -CharHalf .. CharHalf - 1 (128)
  MaxSize,         \* bound on the size of the files clients write
  Data,            \* the byte sequences they write
  Lengths,         \* the numbers of bytes they ask fs_read for
  Offsets,         \* the offsets they pass to fs_lseek and fs_truncate
  Care,            \* the rules, of those below, that clients follow
  NoFile, Closed, Nobody, Nothing, Failed

Files  == 0 .. MAX_FILE_COUNT - 1
Fds    == 0 .. MAX_FD_COUNT - 1
Blocks == 0 .. DISK_BLOCKS - 1

ASSUME FdCountAssumption ==
  /\ MAX_FILE_COUNT \in Nat \ {0}
  /\ MAX_FD_COUNT \in 1 .. MAX_FILE_COUNT
ASSUME TableAssumption ==
  /\ OwnersPerBlock \in Nat
  /\ FirstData < OwnersPerBlock
  /\ DISK_BLOCKS = 2 * OwnersPerBlock
ASSUME SizesAssumption ==
  /\ CharHalf \in 1 .. 128
  /\ MaxSize \in Nat
ASSUME ArgumentsAssumption ==
  /\ Data \subseteq Seq(Nat)
  /\ Lengths \subseteq Nat
  /\ Offsets \subseteq Nat
ASSUME CareAssumption ==
  Care \subseteq {"in_order", "not_at_end", "to_end", "whole_writes", "small_files",
                   "low_blocks", "format_empty", "keep_asked"}

VARIABLES
  tables,                \* the tables of the mounted file system
  fd_file_list,          \* descriptor -> its file, -1 when free
  fd_seek_pointer_list,
  asked,                 \* Nobody, or the descriptor and the file of a fs_get_filesize
  call,                  \* the last call, with its arguments
  result                 \* what it handed back: Nothing for 0, Failed for -1

memVars == <<tables, fd_file_list, fd_seek_pointer_list>>

fsVars == <<diskVars, memVars, asked, call, result>>

Tables ==
  [block_belong_list : [Blocks -> Files \cup {-1}],
   block_page_number : [Blocks -> Nat \cup {-1}],
   file_free_list    : [Files -> BOOLEAN],
   file_name_list    : [Files -> Names \cup {NoName}],
   file_size_list    : [Files -> -1 .. MaxSize]]

FsTypeOK ==
  /\ active \in BOOLEAN
  /\ data \in [DataBlocks -> [0 .. BLOCK_SIZE - 1 -> Nat]]
  /\ tables \in Tables
  /\ fd_file_list \in [Fds -> Files \cup {-1}]
  /\ fd_seek_pointer_list \in [Fds -> Nat \cup {-1}]
  /\ asked \in [fd : Fds, file : Files] \cup {Nobody}

NoBlock == -1

\* Call c ends and hands back r.
Returns(c, r) == call' = c /\ result' = r

\* The clients keep rule when it is among those they follow.
Keeps(rule, condition) == rule \in Care => condition

\* The static arrays before the first mount.
FsInit ==
  /\ DiskInit
  /\ tables = [block_belong_list |-> [b \in Blocks |-> 0],
               block_page_number |-> [b \in Blocks |-> 0],
               file_free_list    |-> [f \in Files |-> FALSE],
               file_name_list    |-> [f \in Files |-> NoName],
               file_size_list    |-> [f \in Files |-> 0]]
  /\ fd_file_list = [d \in Fds |-> 0]
  /\ fd_seek_pointer_list = [d \in Fds |-> 0]
  /\ asked = Nobody
  /\ call = << >>
  /\ result = Nothing

-----------------------------------------------------------------------------
(* The tables on the disk.                                                  *)

\* Defect: char is unsigned.
UnsignedCharOf(n) == n % (2 * CharHalf)

\* C's conversion to a signed char, and its division.
CharOf(n)   == ((n + CharHalf) % (2 * CharHalf)) - CharHalf
TruncDiv(n) == IF n < 0 THEN -((-n) \div BLOCK_SIZE) ELSE n \div BLOCK_SIZE

FreshTables ==
  [owners |-> [k \in 0 .. 1 |-> [j \in 0 .. OwnersPerBlock - 1 |-> -1]],
   pages  |-> [b \in Blocks |-> -1],
   free   |-> [f \in Files |-> TRUE],
   names  |-> [f \in Files |-> NoName],
   sizes  |-> [f \in Files |-> -1]]

\* Defect: both blocks get the second half.
SecondHalf(tb, k, j) == tb.block_belong_list[OwnersPerBlock + j]

\* Both blocks for the owners get the first half of block_belong_list.
OwnerSaved(tb, k, j) == tb.block_belong_list[j]

\* The four bytes of page -1 come out as 255; one byte is kept of a size.
Saved(tb) ==
  [owners |-> [k \in 0 .. 1 |-> [j \in 0 .. OwnersPerBlock - 1 |->
                                   OwnerSaved(tb, k, j)]],
   pages  |-> [b \in Blocks |-> IF tb.block_page_number[b] = -1 THEN 255
                                ELSE tb.block_page_number[b]],
   free   |-> tb.file_free_list,
   names  |-> tb.file_name_list,
   sizes  |-> [f \in Files |-> CharOf(tb.file_size_list[f])]]

Loaded(saved) ==
  [block_belong_list |-> [b \in Blocks |->
      saved.owners[b \div OwnersPerBlock][b % OwnersPerBlock]],
   block_page_number |-> saved.pages,
   file_free_list    |-> saved.free,
   file_name_list    |-> saved.names,
   file_size_list    |-> saved.sizes]

-----------------------------------------------------------------------------
(* Searches of the tables, and changes to them.                             *)

FilesNamed(tb, n) == {f \in Files : ~tb.file_free_list[f] /\ tb.file_name_list[f] = n}

FreeFiles(tb) == {f \in Files : tb.file_free_list[f]}

FreeFds == {d \in Fds : fd_file_list[d] = -1}
IsOpen(d) == fd_file_list[d] # -1

FreeBlocks(tb) == {b \in DataBlocks : tb.block_belong_list[b] = -1}

\* The first block that belongs to file f as its page p.
BlocksOf(tb, f, p) ==
  {b \in DataBlocks : tb.block_belong_list[b] = f /\ tb.block_page_number[b] = p}
BlockOf(tb, f, p) ==
  LET blocks == BlocksOf(tb, f, p) IN IF blocks = {} THEN NoBlock ELSE Min(blocks)

\* The numbers in S in ascending order, as the loops over them meet them.
Ascending(S) ==
  CHOOSE s \in [1 .. Cardinality(S) -> S] : \A i, j \in DOMAIN s : i < j => s[i] < s[j]

\* Each of the pages gets the first free block; they may run out.
Claim(tb, f, pages) ==
  LET free    == Ascending(FreeBlocks(tb))
      turns   == DOMAIN free \cap DOMAIN pages
      got     == {free[i] : i \in turns}
      page(b) == pages[CHOOSE i \in turns : free[i] = b]
  IN [tb EXCEPT
        !.block_belong_list = [b \in Blocks |-> IF b \in got THEN f ELSE @[b]],
        !.block_page_number = [b \in Blocks |-> IF b \in got THEN page(b) ELSE @[b]]]

Disown(tb, blocks) ==
  [tb EXCEPT
     !.block_belong_list = [b \in Blocks |-> IF b \in blocks THEN -1 ELSE @[b]],
     !.block_page_number = [b \in Blocks |-> IF b \in blocks THEN -1 ELSE @[b]]]

Resize(tb, f, n) == [tb EXCEPT !.file_size_list[f] = n]

\* The sequence of pages first, ..., last.
PagesUpTo(first, last) == [i \in 1 .. last - first + 1 |-> first + i - 1]

\* The byte of file f at an offset.
Byte(tb, f, at) == data[BlockOf(tb, f, at \div BLOCK_SIZE)][at % BLOCK_SIZE]

-----------------------------------------------------------------------------
(* make_fs, mount_fs, umount_fs                                             *)

MakeFs ==
  /\ ~active
  /\ MakeDisk(FreshTables)
  /\ Returns(<<"make">>, Nothing)
  /\ UNCHANGED <<active, memVars, asked>>

\* With the disk open make_fs fails after make_disk has emptied it.
MakeFsMounted ==
  /\ active
  /\ Keeps("format_empty", FreeFiles(tables) = Files)
  /\ MakeDisk(NoTables)
  /\ Returns(<<"make">>, Failed)
  /\ UNCHANGED <<active, memVars, asked>>

\* On a disk that exists and is not open there are always tables: where make_fs
\* leaves none behind the disk is open, and umount_fs writes them.
MountFs ==
  /\ meta # NoTables
  /\ OpenDisk
  /\ \A b \in 0 .. FirstData - 2 : Loaded(meta).block_belong_list[b] = -1
  /\ tables' = Loaded(meta)
  /\ fd_file_list' = [d \in Fds |-> -1]
  /\ fd_seek_pointer_list' = [d \in Fds |-> -1]
  /\ Returns(<<"mount">>, Nothing)
  /\ UNCHANGED <<exists, meta, data, asked>>

\* What umount_fs keeps: sizes of one byte, and owners in the first half.
SmallFiles(tb) ==
  \A f \in Files : ~tb.file_free_list[f] => tb.file_size_list[f] < CharHalf

LowBlocks(tb) ==
  \A f \in Files : ~tb.file_free_list[f] =>
    \A p \in 0 .. MaxSize : p * BLOCK_SIZE < tb.file_size_list[f] =>
      BlockOf(tb, f, p) < OwnersPerBlock

UmountFs ==
  /\ CloseDisk
  /\ Keeps("small_files", SmallFiles(tables))
  /\ Keeps("low_blocks", LowBlocks(tables))
  /\ Keeps("keep_asked", asked = Nobody)
  /\ meta' = Saved(tables)
  /\ Returns(<<"umount">>, Nothing)
  /\ UNCHANGED <<exists, data, memVars, asked>>

-----------------------------------------------------------------------------
(* fs_create, fs_delete, fs_open, fs_close, fs_listfiles                    *)

FsCreate(n) ==
  /\ active
  /\ FilesNamed(tables, n) = {}
  /\ FreeFiles(tables) # {}
  /\ LET f == Min(FreeFiles(tables)) IN
       tables' = [tables EXCEPT !.file_free_list[f] = FALSE,
                                !.file_name_list[f] = n,
                                !.file_size_list[f] = 0]
  /\ Returns(<<"create", n>>, Nothing)
  /\ UNCHANGED <<diskVars, fd_file_list, fd_seek_pointer_list, asked>>

FileNamed(n) == Min(FilesNamed(tables, n))

\* Defect: an open file may be deleted.
DeletableOpen(f) == TRUE

Deletable(f) == \A d \in Fds : fd_file_list[d] # f

\* The blocks fs_delete gives back, and a defect: only those the size tells of.
BlocksInSize(f) ==
  {b \in Blocks : /\ tables.block_belong_list[b] = f
                  /\ tables.block_page_number[b] * BLOCK_SIZE < tables.file_size_list[f]}

BlocksOwned(f) == {b \in Blocks : tables.block_belong_list[b] = f}

FsDelete(n) ==
  /\ active
  /\ FilesNamed(tables, n) # {}
  /\ Deletable(FileNamed(n))
  /\ LET f == FileNamed(n) IN
       tables' = [Disown(tables, BlocksOwned(f)) EXCEPT
                    !.file_free_list[f] = TRUE,
                    !.file_name_list[f] = NoName,
                    !.file_size_list[f] = -1]
  /\ Returns(<<"delete", n>>, Nothing)
  /\ UNCHANGED <<diskVars, fd_file_list, fd_seek_pointer_list, asked>>

FsOpen(n) ==
  /\ active
  /\ FilesNamed(tables, n) # {}
  /\ FreeFds # {}
  /\ Keeps("in_order", Min(FreeFds) = FileNamed(n))
  /\ fd_file_list' = [fd_file_list EXCEPT ![Min(FreeFds)] = FileNamed(n)]
  /\ fd_seek_pointer_list' = [fd_seek_pointer_list EXCEPT ![Min(FreeFds)] = 0]
  /\ Returns(<<"open", n>>, Min(FreeFds))
  /\ UNCHANGED <<diskVars, tables, asked>>

AskedFor(d) == asked # Nobody /\ asked.fd = d

FsClose(d) ==
  /\ active
  /\ IsOpen(d)
  /\ Keeps("keep_asked", ~AskedFor(d))
  /\ fd_file_list' = [fd_file_list EXCEPT ![d] = -1]
  /\ fd_seek_pointer_list' = [fd_seek_pointer_list EXCEPT ![d] = -1]
  /\ Returns(<<"close", d>>, Nothing)
  /\ UNCHANGED <<diskVars, tables, asked>>

FsListfiles ==
  /\ active
  /\ Returns(<<"listfiles">>, {tables.file_name_list[f] : f \in Files \ FreeFiles(tables)})
  /\ UNCHANGED <<diskVars, memVars, asked>>

-----------------------------------------------------------------------------
(* fs_read                                                                  *)

\* Defect: the end of the file does not stop a read.
ReadPastEnd(d, n) == n

\* At least one byte is read; the end is that of the file whose number is d.
ReadCount(d, n) ==
  IF n = 0 THEN 0
  ELSE Min({n, Max({1, tables.file_size_list[d] - fd_seek_pointer_list[d]})})

FsRead(d, n) ==
  /\ active
  /\ IsOpen(d)
  /\ LET f     == fd_file_list[d]
         from  == fd_seek_pointer_list[d]
         size  == tables.file_size_list[f]
         count == IF from > size THEN 0 ELSE ReadCount(d, n)
         read  == {from} \cup (from .. from + count - 1)
     IN /\ ~tables.file_free_list[f]
        /\ Keeps("not_at_end", from < size)
        /\ from <= size => \A at \in read : BlockOf(tables, f, at \div BLOCK_SIZE) # NoBlock
        /\ Returns(<<"read", d, n>>, [i \in 1 .. count |-> Byte(tables, f, from + i - 1)])
        /\ fd_seek_pointer_list' = [fd_seek_pointer_list EXCEPT ![d] = from + count]
  /\ UNCHANGED <<diskVars, tables, fd_file_list, asked>>

-----------------------------------------------------------------------------
(* fs_write                                                                 *)

\* The pages fs_write first adds when the pointer is not below the size of the
\* file whose number is d.
Gap(d) ==
  LET from == fd_seek_pointer_list[d]
      size == tables.file_size_list[d]
  IN IF from >= size THEN PagesUpTo(TruncDiv(size) + 1, from \div BLOCK_SIZE) ELSE << >>

\* What a block taken for a new page holds.
Cleared(b) == ZeroBlock

\* The file system after a write: its tables, data and seek pointer.  Space may
\* run out before the write or on the way; the file then ends with the last page
\* there is.
AfterGapFull(d) ==
  LET f    == fd_file_list[d]
      free == Cardinality(FreeBlocks(tables))
  IN [tables |-> Resize(Claim(tables, f, Gap(d)), f, Gap(d)[free + 1] * BLOCK_SIZE),
      data   |-> data,
      seek   |-> fd_seek_pointer_list[d]]

AfterWrite(d, bytes) ==
  LET f     == fd_file_list[d]
      from  == fd_seek_pointer_list[d]
      first == from \div BLOCK_SIZE
      last  == Max({first, (from + Len(bytes) - 1) \div BLOCK_SIZE})
      tb    == Claim(tables, f, Gap(d))
      new   == Ascending({p \in first .. last : BlockOf(tb, f, p) = NoBlock})
      free  == Cardinality(FreeBlocks(tb))
      short == Len(new) > free
      end   == IF short THEN new[free + 1] * BLOCK_SIZE ELSE from + Len(bytes)
      tb2   == Claim(tb, f, new)
      Wrote(p) == p \in first .. last /\ (short => p * BLOCK_SIZE < end)
      Content(b, p) ==
        LET old == IF BlockOf(tb, f, p) = NoBlock THEN Cleared(b) ELSE data[b]
        IN [i \in 0 .. BLOCK_SIZE - 1 |->
              LET at == p * BLOCK_SIZE + i
              IN IF at \in from .. end - 1 THEN bytes[at - from + 1] ELSE old[i]]
  IN [tables |-> Resize(tb2, f, end),
      data   |-> [b \in DataBlocks |->
                    LET p == tb2.block_page_number[b]
                    IN IF Wrote(p) /\ BlockOf(tb2, f, p) = b THEN Content(b, p)
                       ELSE data[b]],
      seek   |-> IF short THEN from ELSE end]

FsWrite(d, bytes) ==
  /\ active
  /\ IsOpen(d)
  /\ ~tables.file_free_list[fd_file_list[d]]
  /\ fd_seek_pointer_list[d] + Len(bytes) <= MaxSize
  /\ LET after == IF Len(Gap(d)) > Cardinality(FreeBlocks(tables)) THEN AfterGapFull(d)
                  ELSE AfterWrite(d, bytes)
         f     == fd_file_list[d]
         from  == fd_seek_pointer_list[d]
         to    == from + Len(bytes)
     IN /\ tables' = after.tables
        /\ data' = after.data
        /\ fd_seek_pointer_list' = [fd_seek_pointer_list EXCEPT ![d] = after.seek]
        /\ Keeps("to_end", to >= tables.file_size_list[f])
        /\ Keeps("whole_writes", after.tables.file_size_list[f] \in {from, to})
  /\ Returns(<<"write", d, bytes>>, Nothing)
  /\ UNCHANGED <<active, exists, meta, fd_file_list, asked>>

-----------------------------------------------------------------------------
(* fs_get_filesize, fs_lseek, fs_truncate                                   *)

FsGetFilesize(d) ==
  /\ active
  /\ IsOpen(d)
  /\ asked = Nobody
  /\ asked' = [fd |-> d, file |-> fd_file_list[d]]
  /\ Returns(<<"get_filesize", d>>, Nothing)
  /\ UNCHANGED <<diskVars, memVars>>

FsGetFilesizeReturn ==
  /\ asked # Nobody
  /\ Returns(<<"answer">>, tables.file_size_list[asked.file])
  /\ asked' = Nobody
  /\ UNCHANGED <<diskVars, memVars>>

\* Defect: the pointer may be moved past the end.
AnyOffset(d, offset) == TRUE

InFile(d, offset) == offset <= tables.file_size_list[fd_file_list[d]]

FsLseek(d, offset) ==
  /\ active
  /\ IsOpen(d)
  /\ InFile(d, offset)
  /\ fd_seek_pointer_list' = [fd_seek_pointer_list EXCEPT ![d] = offset]
  /\ Returns(<<"lseek", d, offset>>, Nothing)
  /\ UNCHANGED <<diskVars, tables, fd_file_list, asked>>

\* The number of pages that n bytes fill, the last one in part.
PageCount(n) == (n + BLOCK_SIZE - 1) \div BLOCK_SIZE

\* Pages are given back from the end; where one is missing the call ends with -1.
FsTruncate(d, length) ==
  /\ active
  /\ IsOpen(d)
  /\ InFile(d, length)
  /\ LET f       == fd_file_list[d]
         pages   == PageCount(length) .. PageCount(tables.file_size_list[f]) - 1
         missing == {p \in pages : BlockOf(tables, f, p) = NoBlock}
         given   == {p \in pages : \A m \in missing : p > m}
         kept    == Disown(tables, {BlockOf(tables, f, p) : p \in given})
     IN /\ Returns(<<"truncate", d, length>>, IF missing = {} THEN Nothing ELSE Failed)
        /\ tables' = IF missing = {} THEN Resize(kept, f, length) ELSE kept
        /\ fd_seek_pointer_list' =
             [fd_seek_pointer_list EXCEPT ![d] = IF missing = {} THEN Min({@, length}) ELSE @]
  /\ UNCHANGED <<diskVars, fd_file_list, asked>>

-----------------------------------------------------------------------------
(* The specification.                                                       *)

FsNext ==
  \/ MakeFs \/ MakeFsMounted \/ MountFs \/ UmountFs
  \/ FsListfiles \/ FsGetFilesizeReturn
  \/ \E n \in Names : FsCreate(n) \/ FsDelete(n) \/ FsOpen(n)
  \/ \E d \in Fds :
       \/ FsClose(d) \/ FsGetFilesize(d)
       \/ \E n \in Lengths : FsRead(d, n)
       \/ \E n \in Offsets : FsLseek(d, n) \/ FsTruncate(d, n)
       \/ \E bytes \in Data : FsWrite(d, bytes)

FsSpec == FsInit /\ [][FsNext]_fsVars

-----------------------------------------------------------------------------
(* Properties.  Line numbers are those of fs.c.                             *)

\* A descriptor is open on a file that exists (540-550, 599, 712).
OpenFilesExist ==
  active => \A d \in Fds : IsOpen(d) => ~tables.file_free_list[fd_file_list[d]]

\* A block that is taken belongs to a file that exists: deleting and truncating
\* leave none behind for the next file of the same number (552-560, 1021-1042).
BlocksBelongToFiles ==
  active => \A b \in DataBlocks : tables.block_belong_list[b] # -1 =>
              ~tables.file_free_list[tables.block_belong_list[b]]

\* The seek pointer is never past the end of its file: "if nbytes exceed end of
\* file, read until end of file" (678).
SeekWithinFile ==
  active => \A d \in Fds : IsOpen(d) =>
    fd_seek_pointer_list[d] <= tables.file_size_list[fd_file_list[d]]

\* The tables in force: those in memory, or what the next mount will load.
Current == IF active THEN tables ELSE Loaded(meta)

\* The bytes of the file named n; -1 where a page has no block.
Contents(n) ==
  LET tb    == Current
      named == FilesNamed(tb, n)
      f     == Min(named)
      size  == tb.file_size_list[f]
      block == [p \in 0 .. PageCount(size) - 1 |-> BlockOf(tb, f, p)]
      ByteAt(at) == LET b == block[at \div BLOCK_SIZE]
                   IN IF b = NoBlock THEN -1 ELSE data[b][at % BLOCK_SIZE]
  IN IF ~exists \/ named = {} THEN NoFile ELSE [i \in 1 .. size |-> ByteAt(i - 1)]

Flat == INSTANCE FlatFiles WITH
  files   <- [n \in Names |-> Contents(n)],
  open    <- [d \in Fds |->
                IF ~active \/ ~IsOpen(d) THEN Closed
                ELSE [name |-> tables.file_name_list[fd_file_list[d]],
                      pos  |-> fd_seek_pointer_list[d]]],
  mounted <- active,
  asked   <- IF asked = Nobody THEN Nobody ELSE asked.fd,
  full    <- exists /\ FreeBlocks(Current) = {}

\* Blocks, pages and tables cannot be noticed: the file system implements flat
\* files, from one mount to the next (331-1051).
IsFlatFiles == Flat!Spec

\* fs_get_filesize, called for a descriptor that is open, does not fail: "Fail when
\* fildes is not valid" (880-895).
AskedIsAnswered ==
  [][asked # Nobody /\ asked' = Nobody => result' # -1]_fsVars

\* Every file is there after umount_fs and mount_fs as it was before (62-63, 27).
RemountKeepsFiles ==
  [][active' # active => [n \in Names |-> Contents(n)]' = [n \in Names |-> Contents(n)]]_fsVars
=============================================================================
