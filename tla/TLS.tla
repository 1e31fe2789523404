-------------------------------- MODULE TLS ---------------------------------
(***************************************************************************)
(* tls.c: local storage for pthreads, kept in pages that clones share      *)
(* until one of them writes (copy on write), and that are inaccessible     *)
(* except while tls_read or tls_write works on them.  Only tls_clone takes *)
(* the library's mutex; every other call relies on its clients.            *)
(*                                                                         *)
(* A thread is in at most one call, described by its frame.  A call that   *)
(* is refused (-1) before it has changed anything is no step at all.       *)
(***************************************************************************)
EXTENDS Integers, Sequences, FiniteSets, FiniteSetsExt

CONSTANTS
  Threads,   \* the pthreads of the program
  MaxSlots,  \* MAX_THREADS, the length of tls_array
  PageSize,  \* bytes per page
  MaxPages,  \* bound on the number of pages mapped at a time
  Sizes,     \* the sizes passed to tls_create
  Requests,  \* the <<offset, length>> passed to tls_read and tls_write
  EmptyWrites,  \* whether clients call tls_write with length 0
  Values,    \* the byte values of the model
  Overlap,   \* sets {op1, op2} of operations that clients let run concurrently
  NoThread, NoStorage

Slots == 0 .. MaxSlots - 1

PageIds == 0 .. MaxPages - 1

Operations == {"create", "destroy", "read", "write", "clone"}

ASSUME MaxSlotsAssumption == MaxSlots \in Nat \ {0}
ASSUME PageSizeAssumption == PageSize \in Nat \ {0}
ASSUME MaxPagesAssumption == MaxPages \in Nat \ {0}
ASSUME SizesAssumption    == Sizes \subseteq Nat
ASSUME RequestsAssumption == Requests \subseteq Nat \X Nat
ASSUME EmptyWritesAssumption == EmptyWrites \in BOOLEAN
ASSUME ValuesAssumption   == 0 \in Values
ASSUME OverlapAssumption  == Overlap \subseteq SUBSET Operations
ASSUME NoThreadAssumption == NoThread \notin Threads
ASSUME NoStorageAssumption == \A n \in Sizes : NoStorage \notin [0 .. n - 1 -> Values]

VARIABLES
  tls_exist_array,  \* slot -> in use
  tls_array,        \* slot -> owner, byte count and pages of a storage
  page,             \* page -> reference count, bytes and protection
  mutex,            \* who has dont_touch_my_mutex
  frame,            \* thread -> the call it is in
  process           \* "running" or "exited"

tlsVars == <<tls_exist_array, tls_array, page, mutex, frame, process>>

NoByte == -1   \* a byte of the caller's buffer that has not been written

Storage == [threadID : Threads \cup {NoThread}, byte_count : Nat,
            page_ptr_array : Seq(PageIds)]

Unmapped == [reference_count |-> 0, data |-> [i \in 0 .. PageSize - 1 |-> 0],
             prot |-> "unmapped"]

Page == [reference_count : Nat \ {0}, data : [0 .. PageSize - 1 -> Values],
         prot : {"NONE", "READ", "WRITE"}] \cup {Unmapped}

\* pc: the next step; slot: tls_array_index; target: the thread to clone or its
\* slot; offset, length, value: the request; at: the page or chunk it has come
\* to; fresh: the copy of a page; buffer: what tls_read has copied so far into
\* the caller's buffer of length bytes, 0 .. length - 1, and the byte behind it.
Idle == [op |-> "none", pc |-> "idle"]

\* Every slot, page and call is well formed; a page is mapped as long as it
\* counts somebody who uses it (tls.c 24-44).
TLSTypeOK ==
  /\ tls_exist_array \in [Slots -> BOOLEAN]
  /\ tls_array \in [Slots -> Storage]
  /\ page \in [PageIds -> Page]
  /\ mutex \in Threads \cup {NoThread}
  /\ \A t \in Threads : frame[t].op \in Operations \cup {"none"}
  /\ process \in {"running", "exited"}

TLSInit ==
  /\ tls_exist_array = [s \in Slots |-> FALSE]
  /\ tls_array = [s \in Slots |-> [threadID |-> NoThread, byte_count |-> 0,
                                   page_ptr_array |-> << >>]]
  /\ page = [p \in PageIds |-> Unmapped]
  /\ mutex = NoThread
  /\ frame = [t \in Threads |-> Idle]
  /\ process = "running"

-----------------------------------------------------------------------------
(* Searches of tls_array, and memory.                                       *)

Own(t) == {s \in Slots : tls_exist_array[s] /\ tls_array[s].threadID = t}

\* The first slot of t, and the first free one.
OwnSlot(t) == Min(Own(t))
FreeSlots  == {s \in Slots : ~tls_exist_array[s]}

PageOf(s, i) == tls_array[s].page_ptr_array[i + 1]
PageCount(s) == Len(tls_array[s].page_ptr_array)

Users(p) == {s \in Slots : tls_exist_array[s]
                           /\ \E i \in 0 .. PageCount(s) - 1 : PageOf(s, i) = p}

Mapped == {p \in PageIds : page[p].prot # "unmapped"}

\* n pages for mmap to return, to go into slot s from index i on.  Which ones does
\* not matter; those of the slot's own place, when they are free, make histories
\* coincide that differ in addresses only.
FreshPages(s, i, n) ==
  LET free == PageIds \ Mapped
      own  == [k \in 1 .. n |-> s * (MaxPages \div MaxSlots) + i + k - 1]
  IN IF \A k \in 1 .. n : own[k] \in free THEN own
     ELSE CHOOSE new \in [1 .. n -> free] :
            \A j, k \in 1 .. n : new[j] = new[k] => j = k

\* mmap does not fail: MaxPages bounds what is mapped at a time.
Mappable(n) == n <= Cardinality(PageIds \ Mapped)

\* An access the protection forbids: sigsegv_handler ends the thread if the
\* page belongs to any storage, and the process if not.
Fault(t, p) ==
  IF Users(p) # {}
  THEN /\ frame' = [frame EXCEPT ![t] = [op |-> "none", pc |-> "killed"]]
       /\ UNCHANGED process
  ELSE process' = "exited" /\ UNCHANGED frame

At(t, pc) == process = "running" /\ frame[t].pc = pc

Goto(t, pc) == frame' = [frame EXCEPT ![t].pc = pc]

\* No call is in progress.
Quiescent == \A t \in Threads : frame[t].op = "none"

Return(t) == frame' = [frame EXCEPT ![t] = Idle]

\* mprotect, after which the call goes on with frame f; on a page that is not
\* mapped it fails and the call returns -1.
MProtect(t, p, prot, f) ==
  \/ /\ p \in Mapped
     /\ page' = [page EXCEPT ![p].prot = prot]
     /\ frame' = [frame EXCEPT ![t] = f]
  \/ /\ p \notin Mapped
     /\ Return(t)
     /\ UNCHANGED page

\* A thread calls op when the calls other threads are in may overlap with it.
Call(t, op, f) ==
  /\ At(t, "idle")
  /\ \A u \in Threads \ {t} :
       frame[u].op # "none" => {op, frame[u].op} \in Overlap
  /\ frame' = [frame EXCEPT ![t] = f]

-----------------------------------------------------------------------------
(* tls_create                                                               *)

CreateFind(t) ==
  /\ Own(t) = {}
  /\ FreeSlots # {}
  /\ \E n \in Sizes :
       Call(t, "create", [op |-> "create", pc |-> "create_claim",
                          slot |-> Min(FreeSlots), length |-> n])
  /\ UNCHANGED <<tls_exist_array, tls_array, page, mutex, process>>

CreateClaim(t) ==
  /\ At(t, "create_claim")
  /\ tls_exist_array' = [tls_exist_array EXCEPT ![frame[t].slot] = TRUE]
  /\ Goto(t, "create_fill")
  /\ UNCHANGED <<tls_array, page, mutex, process>>

\* size / page_size + 1 pages, one more than needed when size is a multiple
PagesFor(size) == (size \div PageSize) + 1

CreateFill(t) ==
  /\ At(t, "create_fill")
  /\ Mappable(PagesFor(frame[t].length))
  /\ LET new == FreshPages(frame[t].slot, 0, PagesFor(frame[t].length)) IN
       /\ tls_array' = [tls_array EXCEPT ![frame[t].slot] =
                          [threadID |-> t, byte_count |-> frame[t].length,
                           page_ptr_array |-> new]]
       /\ page' = [p \in PageIds |-> IF \E i \in 1 .. Len(new) : new[i] = p
                     THEN [Unmapped EXCEPT !.reference_count = 1, !.prot = "NONE"]
                     ELSE page[p]]
  /\ Return(t)
  /\ UNCHANGED <<tls_exist_array, mutex, process>>

-----------------------------------------------------------------------------
(* tls_destroy                                                              *)

DestroyFind(t) ==
  /\ Own(t) # {}
  /\ Call(t, "destroy", [op |-> "destroy", pc |-> "destroy_page",
                         slot |-> OwnSlot(t), at |-> 0])
  /\ UNCHANGED <<tls_exist_array, tls_array, page, mutex, process>>

\* Defect: a page one other thread still shares is unmapped.
ReleaseShared(p) ==
  IF page[p].reference_count <= 2 THEN [page EXCEPT ![p] = Unmapped]
  ELSE [page EXCEPT ![p].reference_count = @ - 1]

\* reference_count--, and munmap when nobody is left
Release(p) ==
  IF page[p].reference_count <= 1 THEN [page EXCEPT ![p] = Unmapped]
  ELSE [page EXCEPT ![p].reference_count = @ - 1]

DestroyPage(t) ==
  /\ At(t, "destroy_page")
  /\ page' = Release(PageOf(frame[t].slot, frame[t].at))
  /\ frame' = [frame EXCEPT ![t].at = @ + 1,
                            ![t].pc = IF frame[t].at + 1 < PageCount(frame[t].slot)
                                      THEN "destroy_page" ELSE "destroy_release"]
  /\ UNCHANGED <<tls_exist_array, tls_array, mutex, process>>

DestroyRelease(t) ==
  /\ At(t, "destroy_release")
  /\ tls_exist_array' = [tls_exist_array EXCEPT ![frame[t].slot] = FALSE]
  /\ tls_array' = [tls_array EXCEPT ![frame[t].slot].byte_count = 0,
                                    ![frame[t].slot].page_ptr_array = << >>]
  /\ Return(t)
  /\ UNCHANGED <<page, mutex, process>>

-----------------------------------------------------------------------------
(* tls_read: the part of a page before the first boundary, whole pages, the  *)
(* rest.  Each piece is made readable, copied, and sealed again.             *)

InRange(s, request) == request[1] + request[2] <= tls_array[s].byte_count

FirstPage(f) == f.offset \div PageSize
End(f)       == f.offset + f.length

\* The loop over whole pages goes on while i + page_size - 1 <= End.
LastWhole(f) == Max({FirstPage(f), ((End(f) + 1) \div PageSize) - 1})
LastRead(f)  == IF (LastWhole(f) + 1) * PageSize < End(f) THEN LastWhole(f) + 1
                ELSE LastWhole(f)

\* Where page i is read from, how many bytes, and where in the buffer they go.
From(f, i) == IF i = FirstPage(f) THEN f.offset % PageSize ELSE 0

Count(f, i) ==
  IF i = FirstPage(f) THEN Min({PageSize - From(f, i), f.length})
  ELSE IF i <= LastWhole(f) THEN PageSize
  ELSE End(f) - i * PageSize

\* Defect: pieces go where they are in the storage, not in the request.
ToUnshifted(f, i) == i * PageSize

To(f, i) == (i * PageSize + From(f, i)) - f.offset

Copied(f, i, data) ==
  [k \in DOMAIN f.buffer |->
     IF k \in To(f, i) .. To(f, i) + Count(f, i) - 1
     THEN data[(k - To(f, i)) + From(f, i)] ELSE f.buffer[k]]

ReadCall(t) ==
  /\ Own(t) # {}
  /\ \E r \in Requests :
       /\ InRange(OwnSlot(t), r)
       /\ Call(t, "read", [op |-> "read", pc |-> "read_open", slot |-> OwnSlot(t),
                           offset |-> r[1], length |-> r[2],
                           at |-> r[1] \div PageSize,
                           buffer |-> [k \in 0 .. r[2] |-> NoByte]])
  /\ UNCHANGED <<tls_exist_array, tls_array, page, mutex, process>>

\* The page the frame has come to.
Here(t) == PageOf(frame[t].slot, frame[t].at)

ReadOpen(t) ==
  /\ At(t, "read_open")
  /\ MProtect(t, Here(t), "READ", [frame[t] EXCEPT !.pc = "read_copy"])
  /\ UNCHANGED <<tls_exist_array, tls_array, mutex, process>>

\* memcpy
ReadCopy(t) ==
  /\ At(t, "read_copy")
  /\ \/ /\ page[Here(t)].prot \in {"READ", "WRITE"}
        /\ frame' = [frame EXCEPT ![t].pc = "read_close",
              ![t].buffer = Copied(frame[t], frame[t].at, page[Here(t)].data)]
        /\ UNCHANGED process
     \/ /\ page[Here(t)].prot \in {"NONE", "unmapped"}
        /\ Fault(t, Here(t))
  /\ UNCHANGED <<tls_exist_array, tls_array, page, mutex>>

\* The frame after the work on a page, of which last is the last one.
NextPage(f, again, done, last) ==
  [f EXCEPT !.at = IF f.at < last THEN @ + 1 ELSE @,
            !.pc = IF f.at < last THEN again ELSE done]

AfterPiece(t) == NextPage(frame[t], "read_open", "read_return", LastRead(frame[t]))

\* Defect: the page stays readable.
ReadLeaveOpen(t) ==
  /\ At(t, "read_close")
  /\ frame' = [frame EXCEPT ![t] = AfterPiece(t)]
  /\ UNCHANGED <<tls_exist_array, tls_array, page, mutex, process>>

ReadClose(t) ==
  /\ At(t, "read_close")
  /\ MProtect(t, Here(t), "NONE", AfterPiece(t))
  /\ UNCHANGED <<tls_exist_array, tls_array, mutex, process>>

ReadReturn(t) ==
  /\ At(t, "read_return")
  /\ Return(t)
  /\ UNCHANGED <<tls_exist_array, tls_array, page, mutex, process>>

-----------------------------------------------------------------------------
(* tls_write: byte by byte; on entering a page the previous one is sealed,   *)
(* and a page that others share is replaced by a copy.                       *)

\* The page of the byte a write has come to.
Target(t) == PageOf(frame[t].slot, frame[t].at \div PageSize)

WriteCall(t) ==
  /\ Own(t) # {}
  /\ \E r \in Requests, v \in Values :
       /\ InRange(OwnSlot(t), r)
       /\ r[2] > 0 \/ EmptyWrites
       /\ Call(t, "write", [op |-> "write",
                            pc |-> IF r[2] > 0 THEN "write_enter" ELSE "write_stray",
                            slot |-> OwnSlot(t), offset |-> r[1],
                            length |-> r[2], at |-> r[1], value |-> v, fresh |-> 0])
  /\ UNCHANGED <<tls_exist_array, tls_array, page, mutex, process>>

\* A write of length 0 skips the loop and seals page_ptr_array[page_index] with a
\* page_index that was never set: whatever it finds there is no page, any page of
\* the library, or memory that cannot be read.
WriteStray(t) ==
  /\ At(t, "write_stray")
  /\ \/ /\ \/ UNCHANGED page
           \/ \E p \in Mapped : page' = [page EXCEPT ![p].prot = "NONE"]
        /\ Return(t)
        /\ UNCHANGED process
     \/ /\ process' = "exited"
        /\ UNCHANGED <<page, frame>>
  /\ UNCHANGED <<tls_exist_array, tls_array, mutex>>

\* Defect: two threads may share a page that is written.
SharedByThree(p) == page[p].reference_count > 2

Shared(p) == page[p].reference_count > 1

WriteEnter(t) ==
  /\ At(t, "write_enter")
  /\ LET f == [frame[t] EXCEPT !.pc = IF Shared(Target(t)) THEN "write_copy"
                                     ELSE "write_open"]
     IN \/ /\ f.at > f.offset
           /\ MProtect(t, PageOf(f.slot, (f.at \div PageSize) - 1), "NONE", f)
        \/ /\ f.at = f.offset
           /\ frame' = [frame EXCEPT ![t] = f]
           /\ UNCHANGED page
  /\ UNCHANGED <<tls_exist_array, tls_array, mutex, process>>

\* The copy is made in a new page that is writable at once; the shared page is
\* readable only meanwhile.  The new page stays when the call fails.
WriteCopy(t) ==
  /\ At(t, "write_copy")
  /\ Mappable(1)
  /\ LET q == FreshPages(frame[t].slot, frame[t].at \div PageSize, 1)[1]
         new == [Unmapped EXCEPT !.reference_count = 1, !.prot = "WRITE"]
     IN \/ /\ Target(t) \in Mapped
           /\ page' = [page EXCEPT ![q] = [new EXCEPT !.data = page[Target(t)].data],
                                   ![Target(t)].prot = "NONE"]
           /\ frame' = [frame EXCEPT ![t].pc = "write_swap", ![t].fresh = q]
        \/ /\ Target(t) \notin Mapped
           /\ page' = [page EXCEPT ![q] = new]
           /\ Return(t)
  /\ UNCHANGED <<tls_exist_array, tls_array, mutex, process>>

Replaced(f) == [tls_array EXCEPT
                  ![f.slot].page_ptr_array[(f.at \div PageSize) + 1] = f.fresh]

\* Defect: the reference to the shared page is not given back.
SwapKeepingCount(t) ==
  /\ At(t, "write_swap")
  /\ tls_array' = Replaced(frame[t])
  /\ Goto(t, "write_open")
  /\ UNCHANGED <<tls_exist_array, page, mutex, process>>

\* Defect: the copy is put in its place before the old page is counted down.
SwapFirst(t) ==
  /\ At(t, "write_swap")
  /\ page' = [page EXCEPT ![frame[t].fresh].reference_count = @ - 1]
  /\ tls_array' = Replaced(frame[t])
  /\ Goto(t, "write_open")
  /\ UNCHANGED <<tls_exist_array, mutex, process>>

WriteSwap(t) ==
  /\ At(t, "write_swap")
  /\ page' = [page EXCEPT ![Target(t)].reference_count = @ - 1]
  /\ tls_array' = Replaced(frame[t])
  /\ Goto(t, "write_open")
  /\ UNCHANGED <<tls_exist_array, mutex, process>>

WriteOpen(t) ==
  /\ At(t, "write_open")
  /\ MProtect(t, Target(t), "WRITE", [frame[t] EXCEPT !.pc = "write_byte"])
  /\ UNCHANGED <<tls_exist_array, tls_array, mutex, process>>

AfterByte(f) ==
  IF f.at + 1 = End(f) THEN [f EXCEPT !.pc = "write_close"]
  ELSE [f EXCEPT !.at = @ + 1,
                 !.pc = IF (f.at + 1) % PageSize = 0 THEN "write_enter"
                        ELSE "write_byte"]

WriteByte(t) ==
  /\ At(t, "write_byte")
  /\ \/ /\ page[Target(t)].prot = "WRITE"
        /\ page' = [page EXCEPT ![Target(t)].data[frame[t].at % PageSize]
                                  = frame[t].value]
        /\ frame' = [frame EXCEPT ![t] = AfterByte(@)]
        /\ UNCHANGED process
     \/ /\ page[Target(t)].prot # "WRITE"
        /\ Fault(t, Target(t))
        /\ UNCHANGED page
  /\ UNCHANGED <<tls_exist_array, tls_array, mutex>>

WriteClose(t) ==
  /\ At(t, "write_close")
  /\ MProtect(t, Target(t), "NONE", Idle)
  /\ UNCHANGED <<tls_exist_array, tls_array, mutex, process>>

-----------------------------------------------------------------------------
(* tls_clone: under the mutex, which its error returns do not give back.     *)

CloneCall(t) ==
  /\ \E u \in Threads :
       Call(t, "clone", [op |-> "clone", pc |-> "clone_lock", target |-> u])
  /\ UNCHANGED <<tls_exist_array, tls_array, page, mutex, process>>

CloneLock(t) ==
  /\ At(t, "clone_lock")
  /\ mutex = NoThread
  /\ mutex' = t
  /\ Goto(t, "clone_find")
  /\ UNCHANGED <<tls_exist_array, tls_array, page, process>>

Cloneable(t, target) == Own(target) # {} /\ Own(t) = {} /\ FreeSlots # {}

CloneFind(t) ==
  /\ At(t, "clone_find")
  /\ LET target == frame[t].target IN
     \/ /\ ~Cloneable(t, target)
        /\ Return(t)
     \/ /\ Cloneable(t, target)
        /\ frame' = [frame EXCEPT ![t] =
             [op |-> "clone", pc |-> "clone_claim", slot |-> Min(FreeSlots),
              target |-> OwnSlot(target)]]
  /\ UNCHANGED <<tls_exist_array, tls_array, page, mutex, process>>

CloneClaim(t) ==
  /\ At(t, "clone_claim")
  /\ tls_exist_array' = [tls_exist_array EXCEPT ![frame[t].slot] = TRUE]
  /\ Goto(t, "clone_fill")
  /\ UNCHANGED <<tls_array, page, mutex, process>>

\* reference_count++ for every page of the target
Share(pages) ==
  [p \in PageIds |-> IF \E i \in 1 .. Len(pages) : pages[i] = p
                     THEN [page[p] EXCEPT !.reference_count = @ + 1] ELSE page[p]]

CloneFill(t) ==
  /\ At(t, "clone_fill")
  /\ tls_array' = [tls_array EXCEPT
       ![frame[t].slot] = [tls_array[frame[t].target] EXCEPT !.threadID = t]]
  /\ page' = Share(tls_array[frame[t].target].page_ptr_array)
  /\ Goto(t, "clone_unlock")
  /\ UNCHANGED <<tls_exist_array, mutex, process>>

CloneUnlock(t) ==
  /\ At(t, "clone_unlock")
  /\ mutex' = NoThread
  /\ Return(t)
  /\ UNCHANGED <<tls_exist_array, tls_array, page, process>>

-----------------------------------------------------------------------------
(* The specification.                                                       *)

\* Client code follows a stray pointer into a page of the library, or into one
\* that is gone.
Touch(t) ==
  /\ At(t, "idle")
  /\ Quiescent
  /\ \E p \in PageIds : page[p].prot \in {"NONE", "unmapped"} /\ Fault(t, p)
  /\ UNCHANGED <<tls_exist_array, tls_array, page, mutex>>

Step(t) ==
  \/ CreateClaim(t) \/ CreateFill(t)
  \/ DestroyPage(t) \/ DestroyRelease(t)
  \/ ReadOpen(t) \/ ReadCopy(t) \/ ReadClose(t) \/ ReadReturn(t)
  \/ WriteEnter(t) \/ WriteCopy(t) \/ WriteSwap(t) \/ WriteOpen(t)
  \/ WriteByte(t) \/ WriteClose(t)
  \/ CloneLock(t) \/ CloneFind(t) \/ CloneClaim(t) \/ CloneFill(t)
  \/ CloneUnlock(t)

TLSNext ==
  \E t \in Threads :
    \/ CreateFind(t) \/ DestroyFind(t) \/ ReadCall(t) \/ WriteCall(t)
    \/ CloneCall(t) \/ Touch(t) \/ WriteStray(t)
    \/ Step(t)

TLSSpec == TLSInit /\ [][TLSNext]_tlsVars

\* Every thread is scheduled, and a mutex that is given back again and again is
\* taken in the end.
TLSFairSpec == TLSSpec /\ \A t \in Threads : SF_tlsVars(Step(t))

-----------------------------------------------------------------------------
(* Properties.                                                              *)
(* Line numbers are those of tls.c.                                         *)

\* A storage counts from the end of the call that fills it to the start of the
\* one that destroys it.
UnderWork(s) ==
  \E t \in Threads :
    /\ frame[t].pc \in {"create_fill", "clone_fill", "destroy_page",
                        "destroy_release"}
    /\ frame[t].slot = s

Bytes(s) == [i \in 0 .. tls_array[s].byte_count - 1 |->
               page[PageOf(s, i \div PageSize)].data[i % PageSize]]

Contents(t) ==
  LET own == {s \in Own(t) : ~UnderWork(s)}
  IN IF own = {} THEN NoStorage ELSE Bytes(Min(own))

Memory == INSTANCE PrivateMemory
            WITH mem <- [t \in Threads |-> Contents(t)]

\* Sharing pages between clones cannot be noticed: the library implements
\* memories that are private to their threads (110-499).
IsPrivateMemory == Memory!Spec

\* Between calls the reference count of a page is the number of storages that
\* use it, and exactly the pages in use are mapped: nothing is freed early,
\* twice or never (194-205, 392-414, 490-496).
ReferenceCountsExact ==
  Quiescent => \A p \in PageIds : /\ page[p].reference_count = Cardinality(Users(p))
                                  /\ p \in Mapped <=> Users(p) # {}

\* Between calls no page of any storage can be touched directly
\* (159, 300, 314, 328, 387, 423).
PagesSealed == Quiescent => \A p \in Mapped : page[p].prot = "NONE"

\* What tls_read hands back is what the thread's storage holds, over all pieces
\* of the request (283-332).
ReadReturnsContents ==
  \A t \in Threads : frame[t].pc = "read_return" =>
    \A k \in 0 .. frame[t].length - 1 :
      frame[t].buffer[k] = Bytes(frame[t].slot)[frame[t].offset + k]

\* A thread that reads or writes its own storage is not ended by the library's
\* handler for doing so ("threadFuncClone1 tls_read success", test_tls.c 125).
CallsSurvive ==
  [][\A t \in Threads :
       frame[t].op \in {"read", "write"} /\ frame[t].pc # "write_stray" =>
         frame'[t].pc # "killed" /\ process' = "running"]_tlsVars

\* The same when it writes nothing: an error is only an "attempt to write more data
\* than the LSA can hold" (366-423).
EmptyWritesSurvive ==
  [][\A t \in Threads : frame[t].pc = "write_stray" => process' = "running"]_tlsVars

\* tls_read writes nothing behind the buffer it is given: the test passes one of
\* just as many bytes as it asks for (304-313, test_tls.c 37-38).
ReadStaysInBuffer ==
  \A t \in Threads : frame[t].op = "read" => frame[t].buffer[frame[t].length] = NoByte

\* A clone comes back: with a storage, or with the error of a target that has
\* none or a caller that has one (440-461).
ClonesReturn ==
  \A t \in Threads : frame[t].op = "clone" ~> frame[t].op = "none"
=============================================================================
