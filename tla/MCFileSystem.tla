--------------------------- MODULE MCFileSystem -----------------------------
(* Instances of FileSystem for TLC.                                         *)
EXTENDS FileSystem, TLC

NameSymmetry == Permutations(Names)

\* The page of a free block is looked at by umount_fs only; -1 and 255 are saved
\* alike, and in the first half, which comes back free, any page is.
LivePages ==
  [b \in Blocks |->
     IF /\ tables.block_belong_list[b] = -1
        /\ b < OwnersPerBlock \/ tables.block_page_number[b] = 255
     THEN -1 ELSE tables.block_page_number[b]]

\* What later steps can depend on: the tables in memory while the disk is open,
\* those on the disk while it is not, and the bytes of the files; never the bytes
\* outside them, the last call and its result.
LiveState ==
  <<active, [n \in Names |-> Contents(n)], asked,
    IF active THEN <<[tables EXCEPT !.block_page_number = LivePages],
                     fd_file_list, fd_seek_pointer_list>>
    ELSE <<exists, meta>> >>

\* Two bytes, which cross into the next page from an odd offset, and none.
SomeData == {<< >>, <<1, 2>>}

\* One byte.
SingleBytes == {<<1>>, <<2>>}

\* Clients that know the limits of this file system.
Careful == {"in_order", "not_at_end", "to_end", "whole_writes", "small_files",
            "low_blocks", "format_empty", "keep_asked"}

\* Clients that do not know of one of them.
OpenInAnyOrder  == Careful \ {"in_order"}
ReadAtEnd       == Careful \ {"not_at_end"}
WriteInside     == Careful \ {"to_end"}
WriteUntilFull  == Careful \ {"whole_writes"}
UnmountLarge    == Careful \ {"small_files"}
UnmountHigh     == Careful \ {"low_blocks"}
FormatAnytime   == Careful \ {"format_empty"}
ForgetAsked     == Careful \ {"keep_asked"}
=============================================================================
