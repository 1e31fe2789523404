------------------------- MODULE PrivateMemoryProofs --------------------------
(***************************************************************************)
(* Proof that TLS implements PrivateMemory, for clients that serialise     *)
(* their calls: whose memory a storage is, what each step of a call does   *)
(* to the bytes of every storage, and which step of the memories it is.    *)
(***************************************************************************)
EXTENDS TLSProofs

-----------------------------------------------------------------------------
(* Whose memory a storage is.                                               *)

\* A storage that counts: it has pages and is not being destroyed.
Live(s) ==
  /\ Pages(s) # << >>
  /\ \A t \in Threads : frame[t].op = "destroy" => frame[t].slot # s

Storages(t) == {s \in Slots : Live(s) /\ tls_array[s].threadID = t}

\* A thread has one storage at most, and none while it makes one; the copy of a page that a
\* write is about to put in place holds the same bytes, and a page being written is not shared.
OneEach ==
  \A s1, s2 \in Slots :
    /\ Pages(s1) # << >> => tls_array[s1].threadID \in Threads /\ tls_array[s1].byte_count \in Sizes
    /\ Pages(s1) # << >> /\ Pages(s2) # << >> /\ tls_array[s1].threadID = tls_array[s2].threadID
         => s1 = s2

NoneYet(t) ==
  frame[t].pc \in {"create_claim", "create_fill", "clone_claim", "clone_fill"} =>
    \A s \in Slots : Pages(s) # << >> => tls_array[s].threadID # t

CopyOK(t) ==
  /\ frame[t].pc = "write_swap" => page[frame[t].fresh].data = page[Target(t)].data
  /\ frame[t].pc \in {"write_open", "write_byte", "write_close"} => ~Shared(Target(t))

PrivInv == OneEach /\ \A t \in Threads : NoneYet(t) /\ CopyOK(t)
-----------------------------------------------------------------------------
(* What a thread's memory holds.                                            *)

\* The storages that count are those the abstract memory is read from.
LEMMA OwnStorage ==
  ASSUME TLSInv, NEW t \in Threads
  PROVE  {s \in Own(t) : ~UnderWork(s)} = Storages(t)
<1>0. Types /\ \A s \in Slots : StorageOK(s)
  BY DEF TLSInv
<1>1. \A u \in Threads : PlaceOK(u)
  BY DEF TLSInv
<1> SUFFICES ASSUME NEW s \in Slots
             PROVE  s \in Own(t) /\ ~UnderWork(s) <=> s \in Storages(t)
  BY DEF Own, Storages
<1>2. ASSUME s \in Own(t), ~UnderWork(s) PROVE s \in Storages(t)
  <2>1. Pages(s) # << >>
    BY <1>0, <1>2 DEF StorageOK, Own, UnderWork
  <2>2. ASSUME NEW u \in Threads, frame[u].op = "destroy" PROVE frame[u].slot # s
    <3>1. frame[u].pc \in {"destroy_page", "destroy_release"} BY <1>0, <2>2, StepKinds
    <3> QED BY <1>2, <3>1 DEF UnderWork
  <2> QED BY <1>2, <2>1, <2>2 DEF Storages, Live, Own
<1>3. ASSUME s \in Storages(t) PROVE s \in Own(t) /\ ~UnderWork(s)
  <2>1. Pages(s) # << >> /\ tls_array[s].threadID = t BY <1>3 DEF Storages, Live
  <2>2. s \in Own(t) BY <1>0, <2>1 DEF Own, StorageOK
  <2>3. ASSUME NEW u \in Threads, frame[u].slot = s,
               frame[u].pc \in {"create_fill", "clone_fill", "destroy_page", "destroy_release"}
        PROVE  FALSE
    <3>1. frame[u].pc \in {"destroy_page", "destroy_release"}
      BY <1>1, <2>1, <2>3 DEF PlaceOK
    <3>2. frame[u].op = "destroy" BY <1>0, <3>1, StepKinds
    <3> QED BY <1>3, <2>3, <3>2 DEF Storages, Live
  <2> QED BY <2>2, <2>3 DEF UnderWork
<1> QED BY <1>2, <1>3

\* A thread's memory is what its one storage holds, or none.
MemoriesAre ==
  \A t \in Threads :
    /\ \A s \in Storages(t) : Contents(t) = Bytes(s) /\ Storages(t) = {s}
    /\ Storages(t) = {} => Contents(t) = NoStorage

\* It follows from the invariants.
LEMMA ContentsAre ==
  TLSInv /\ PrivInv => MemoriesAre
<1> SUFFICES ASSUME TLSInv, PrivInv, NEW t \in Threads
             PROVE  /\ \A s \in Storages(t) : Contents(t) = Bytes(s) /\ Storages(t) = {s}
                    /\ Storages(t) = {} => Contents(t) = NoStorage
  BY DEF MemoriesAre
<1>1. Contents(t) = IF Storages(t) = {} THEN NoStorage ELSE Bytes(Min(Storages(t)))
  BY OwnStorage DEF Contents
<1>2. ASSUME NEW s \in Storages(t) PROVE Storages(t) = {s} /\ Min(Storages(t)) = s
  <2>1. Storages(t) \subseteq Slots /\ \A u \in Storages(t) : u = s
    BY <1>2 DEF Storages, Live, PrivInv, OneEach
  <2>2. Slots \subseteq Nat BY MaxSlotsAssumption DEF Slots
  <2>3. Min(Storages(t)) \in Storages(t) BY <1>2, <2>1, <2>2, LeastNatural
  <2> QED BY <1>2, <2>1, <2>3
<1> QED BY <1>1, <1>2

\* The same after a step.
LEMMA ContentsAreNext ==
  TLSInv' /\ PrivInv' => MemoriesAre'
BY ContentsAre, PTL

\* A memory stays the same when its storage does.
LEMMA ContentsKept ==
  ASSUME TLSInv, PrivInv, TLSInv', PrivInv', NEW t \in Threads,
         Storages(t)' = Storages(t), \A s \in Storages(t) : Bytes(s)' = Bytes(s)
  PROVE  Contents(t)' = Contents(t)
<1>1. MemoriesAre /\ MemoriesAre'
  BY ContentsAre, ContentsAreNext
<1> QED BY <1>1 DEF MemoriesAre

\* The pages of a storage that counts are in use.
LEMMA LivePages ==
  ASSUME TLSInv, NEW s \in Slots, Live(s), NEW i \in 1 .. Len(Pages(s))
  PROVE  /\ Pages(s)[i] \in PageIds /\ Pages(s)[i] \in Mapped
         /\ Holds(s, Pages(s)[i]) /\ s \in Holders(Pages(s)[i])
<1>1. Types /\ Counted
  BY DEF TLSInv
<1>2. Pages(s) \in Seq(PageIds)
  BY <1>1 DEF Types, Storage, Pages
<1>3. Pages(s)[i] \in PageIds
  BY <1>2
<1>4. Holds(s, Pages(s)[i])
  BY DEF Live, Holds
<1>5. s \in Holders(Pages(s)[i])
  BY <1>4, HoldersCount DEF Holders
<1> QED BY <1>1, <1>3, <1>4, <1>5, HeldMapped

\* Every byte of a storage is on one of its pages.
LEMMA BytePage ==
  ASSUME TLSInv, NEW s \in Slots, Pages(s) # << >>, NEW x \in 0 .. tls_array[s].byte_count - 1
  PROVE  /\ x \div PageSize \in Nat /\ (x \div PageSize) + 1 \in 1 .. Len(Pages(s))
         /\ x % PageSize \in 0 .. PageSize - 1
         /\ PageOf(s, x \div PageSize) = Pages(s)[(x \div PageSize) + 1]
<1> DEFINE n == tls_array[s].byte_count
           k == PageSize
<1>1. Types /\ StorageOK(s)
  BY DEF TLSInv
<1>2. n \in Nat /\ k \in Nat \ {0} /\ Len(Pages(s)) = (n \div k) + 1
  BY <1>1, PageSizeAssumption DEF Types, Storage, StorageOK, PagesFor
<1>3. x \in Nat /\ x <= n
  BY <1>2
<1>4. x \div k \in Nat /\ x % k \in 0 .. k - 1 /\ n \div k \in Nat
  BY <1>2, <1>3, Division
<1>5. x \div k <= n \div k
  BY <1>2, <1>3, PagesInOrder
<1>6. (x \div k) + 1 \in 1 .. Len(Pages(s))
  <2> DEFINE a == x \div k
             b == n \div k
  <2>1. a \in Nat /\ b \in Nat /\ a <= b /\ Len(Pages(s)) = b + 1 BY <1>2, <1>4, <1>5
  <2> HIDE DEF a, b
  <2>2. a + 1 \in 1 .. Len(Pages(s)) BY <2>1
  <2> QED BY <2>2 DEF a
<1> QED BY <1>4, <1>6 DEF PageOf, Pages

\* A storage holds the same bytes when its pages do.
LEMMA BytesKept ==
  ASSUME TLSInv, NEW s \in Slots, Pages(s) # << >>,
         tls_array'[s].byte_count = tls_array[s].byte_count,
         \A i \in 1 .. Len(Pages(s)) : page'[Pages(s)'[i]].data = page[Pages(s)[i]].data
  PROVE  Bytes(s)' = Bytes(s)
<1>1. ASSUME NEW x \in 0 .. tls_array[s].byte_count - 1
      PROVE  page'[PageOf(s, x \div PageSize)'].data[x % PageSize]
               = page[PageOf(s, x \div PageSize)].data[x % PageSize]
  <2> DEFINE i == x \div PageSize
  <2>1. i + 1 \in 1 .. Len(Pages(s)) BY BytePage
  <2>2. PageOf(s, i) = Pages(s)[i + 1] /\ PageOf(s, i)' = Pages(s)'[i + 1]
    BY DEF PageOf, Pages
  <2> HIDE DEF i
  <2>3. page'[PageOf(s, i)'].data = page[PageOf(s, i)].data BY <2>1, <2>2
  <2> QED BY <2>3 DEF i
<1> QED BY <1>1 DEF Bytes

\* A step stays in the call it is of, or ends it.
LEMMA OpKept ==
  ASSUME TLSInv, NEW t \in Threads, Step(t)
  PROVE  frame'[t].op \in {frame[t].op, "none"}
<1>0. Types /\ frame \in [Threads -> Frames]
  BY DEF TLSInv, Types
<1>1. Idle.op = "none"
  BY DEF Idle
<1>2. frame[t].op # "none" => "op" \in DOMAIN frame[t] /\ "pc" \in DOMAIN frame[t]
  BY <1>0, FrameKinds DEF CreateFrames, DestroyFrames, ReadFrames, WriteFrames, SearchFrames,
     CopyFrames
<1>3. CASE CreateClaim(t) \/ CreateFill(t) \/ DestroyRelease(t)
  BY <1>3, <1>0, <1>1, <1>2, StepKinds DEF CreateClaim, CreateFill, DestroyRelease, At, Goto, Return
<1>4. CASE DestroyPage(t)
  <2> DEFINE next == frame[t].at + 1
             pc == IF next < PageCount(frame[t].slot) THEN "destroy_page" ELSE "destroy_release"
             g == [frame[t] EXCEPT !.at = next, !.pc = pc]
  <2>1. frame' = [frame EXCEPT ![t] = g]
    BY <1>0, <1>4 DEF DestroyPage
  <2>2. frame[t] \in DestroyFrames /\ frame[t].op = "destroy"
    BY <1>0, <1>4, StepKinds, FrameKinds DEF DestroyPage, At
  <2> HIDE DEF next, pc
  <2>3. g.op = "destroy" BY <2>2 DEF DestroyFrames
  <2> HIDE DEF g
  <2> QED BY <1>0, <2>1, <2>2, <2>3
<1>5. CASE ReadOpen(t) \/ ReadReturn(t)
  BY <1>5, <1>0, <1>1, <1>2, StepKinds DEF ReadOpen, ReadReturn, MProtect, At, Return
<1>6. CASE ReadCopy(t)
  <2> DEFINE b == Copied(frame[t], frame[t].at, page[Here(t)].data)
             g == [frame[t] EXCEPT !.pc = "read_close", !.buffer = b]
  <2>1. frame' = [frame EXCEPT ![t] = g] /\ frame[t].op = "read"
    BY <1>0, <1>6, ReadCopyRuns
  <2>2. frame[t] \in ReadFrames(frame[t].length) BY <1>0, <2>1, FrameKinds
  <2> HIDE DEF b
  <2>3. g.op = "read" BY <2>2 DEF ReadFrames
  <2> HIDE DEF g
  <2> QED BY <1>0, <2>1, <2>3
<1>7. CASE ReadClose(t)
  <2> DEFINE g == AfterPiece(t)
  <2>0. frame[t].op = "read" BY <1>0, <1>7, StepKinds DEF ReadClose, At
  <2>1. frame[t] \in ReadFrames(frame[t].length) BY <1>0, <2>0, FrameKinds
  <2>2. frame' = [frame EXCEPT ![t] = g] \/ frame' = [frame EXCEPT ![t] = Idle]
    BY <1>7 DEF ReadClose, MProtect, Return
  <2> DEFINE at == IF frame[t].at < LastRead(frame[t]) THEN frame[t].at + 1 ELSE frame[t].at
             pc == IF frame[t].at < LastRead(frame[t]) THEN "read_open" ELSE "read_return"
  <2>3. g = [frame[t] EXCEPT !.at = at, !.pc = pc] BY DEF AfterPiece, NextPage
  <2> HIDE DEF at, pc, g
  <2>4. g.op = "read" BY <2>1, <2>3 DEF ReadFrames
  <2> QED BY <1>0, <1>1, <2>0, <2>2, <2>4
<1>8. CASE WriteEnter(t) \/ WriteOpen(t) \/ WriteClose(t)
  BY <1>8, <1>0, <1>1, <1>2, StepKinds DEF WriteEnter, WriteOpen, WriteClose, MProtect, At, Return
<1>9. CASE WriteCopy(t) \/ WriteSwap(t)
  BY <1>9, <1>0, <1>1, <1>2, StepKinds DEF WriteCopy, WriteSwap, At, Goto, Return
<1>10. CASE WriteByte(t)
  <2> DEFINE f == frame[t]
             pc == IF (f.at + 1) % PageSize = 0 THEN "write_enter" ELSE "write_byte"
             next == f.at + 1
  <2>1. frame' = [frame EXCEPT ![t] = AfterByte(f)] /\ f.op = "write" BY <1>10, WriteByteRuns
  <2>2. f \in WriteFrames BY <1>0, <2>1, FrameKinds
  <2>3. AfterByte(f) = [f EXCEPT !.pc = "write_close"]
        \/ AfterByte(f) = [f EXCEPT !.at = next, !.pc = pc]
    BY DEF AfterByte
  <2>4. f.op = "write" BY <2>1
  <2> HIDE DEF f, pc, next
  <2>5. AfterByte(f).op = "write" BY <2>2, <2>3 DEF WriteFrames
  <2> QED BY <1>0, <2>1, <2>4, <2>5 DEF f
<1>11. CASE CloneLock(t) \/ CloneClaim(t) \/ CloneFill(t) \/ CloneUnlock(t)
  BY <1>11, <1>0, <1>1, <1>2, StepKinds
     DEF CloneLock, CloneClaim, CloneFill, CloneUnlock, At, Goto, Return
<1>12. CASE CloneFind(t)
  <2>1. frame[t].op = "clone" BY <1>0, <1>12, StepKinds DEF CloneFind, At
  <2> QED BY <1>0, <1>1, <1>12, <2>1 DEF CloneFind, Return
<1> QED BY <1>3, <1>4, <1>5, <1>6, <1>7, <1>8, <1>9, <1>10, <1>11, <1>12 DEF Step

-----------------------------------------------------------------------------
(* Steps that no memory shows.                                              *)

Unseen(t) ==
  \/ CreateFind(t) \/ ReadCall(t) \/ WriteCall(t) \/ CloneCall(t) \/ Touch(t)
  \/ CreateClaim(t)
  \/ ReadOpen(t) \/ ReadCopy(t) \/ ReadClose(t) \/ ReadReturn(t)
  \/ WriteEnter(t) \/ WriteCopy(t) \/ WriteOpen(t) \/ WriteClose(t)
  \/ CloneLock(t) \/ CloneFind(t) \/ CloneClaim(t) \/ CloneUnlock(t)

\* A write copies the page it has come to, which others share, to a page that nobody uses.
LEMMA CopyMade ==
  ASSUME TLSInv, NEW t \in Threads, WriteCopy(t)
  PROVE  /\ frame[t].op = "write"
         /\ frame'[t].pc = "write_swap" /\ frame'[t].slot = frame[t].slot
         /\ frame'[t].at = frame[t].at
         /\ frame'[t].fresh \in PageIds \ Mapped
         /\ page'[frame'[t].fresh].data = page[Target(t)].data
         /\ \A p \in PageIds : p # frame'[t].fresh => page'[p].data = page[p].data
<1> DEFINE slot == frame[t].slot
           i == frame[t].at \div PageSize
           q == FreshPages(slot, i, 1)[1]
           old == Target(t)
           blank == [Unmapped EXCEPT !.reference_count = 1, !.prot = "WRITE"]
           d == page[old].data
           new == [blank EXCEPT !.data = d]
           g == [frame[t] EXCEPT !.pc = "write_swap", !.fresh = q]
<1>0. Types /\ Counted
  BY DEF TLSInv
<1>1. frame[t].op = "write" /\ Mappable(1)
  BY <1>0, StepKinds DEF WriteCopy, At
<1>2. /\ slot \in Slots /\ frame[t].at \in Nat /\ old \in Mapped /\ old \in PageIds
      /\ frame[t] \in WriteFrames
  BY <1>1, WriteFrame
<1>3. /\ page' = [page EXCEPT ![q] = new, ![old].prot = "NONE"]
      /\ frame' = [frame EXCEPT ![t] = g]
  BY <1>0, <1>2 DEF WriteCopy, Types
<1>4. q \in PageIds \ Mapped
  <2>1. slot \in Nat /\ i \in Nat
    <3>1. Slots \subseteq Nat BY MaxSlotsAssumption DEF Slots
    <3>2. i \in Nat BY <1>2, PageSizeAssumption, Division
    <3> QED BY <1>2, <3>1, <3>2
  <2> DEFINE one == 1
  <2>2. one \in Nat /\ 1 \in 1 .. one /\ Mappable(one) BY <1>1
  <2> HIDE DEF slot, i, one
  <2>3. FreshPages(slot, i, one) \in [1 .. one -> PageIds \ Mapped] BY <2>1, <2>2, NewPages
  <2>4. FreshPages(slot, i, one)[1] \in PageIds \ Mapped BY <2>2, <2>3
  <2> QED BY <2>4 DEF one
<1>5. new.data = d
  <2> HIDE DEF d
  <2> QED BY DEF Unmapped
<1> HIDE DEF q, old, new, d
<1>6. /\ g.pc = "write_swap" /\ g.slot = frame[t].slot /\ g.at = frame[t].at /\ g.fresh = q
  BY <1>2 DEF WriteFrames
<1> HIDE DEF g
<1>7. frame'[t] = g
  BY <1>0, <1>3 DEF Types
<1> DEFINE middle == [page EXCEPT ![q] = new]
<1>8. page' = [middle EXCEPT ![old].prot = "NONE"]
  BY <1>3
<1>9. /\ middle[q] = new /\ DOMAIN middle = PageIds
      /\ \A p \in PageIds : p # q => middle[p] = page[p]
  BY <1>0, <1>4 DEF Types
<1> HIDE DEF middle
<1>10. /\ page'[q] = new /\ old # q
       /\ \A p \in PageIds : p # q /\ p # old => page'[p] = page[p]
       /\ page'[old] = [page[old] EXCEPT !.prot = "NONE"]
  BY <1>2, <1>4, <1>8, <1>9
<1>11. page'[old].data = page[old].data
  <2>1. page[old] \in Page BY <1>0, <1>2 DEF Types
  <2> QED BY <1>10, <2>1 DEF Page, Unmapped
<1> QED BY <1>1, <1>4, <1>5, <1>6, <1>7, <1>10, <1>11 DEF d, old

\* Such a step moves no storage and changes no byte that is in use, and it is not of a destroy.
LEMMA UnseenStep ==
  ASSUME TLSInv, NEW t \in Threads, Unseen(t)
  PROVE  /\ UNCHANGED tls_array
         /\ \A q \in Mapped : page'[q].data = page[q].data
         /\ frame[t].op # "destroy" /\ frame'[t].op # "destroy"
         /\ \A u \in Threads : u # t => frame'[u] = frame[u]
<1>0. Types /\ Counted
  BY DEF TLSInv
<1>1. \A u \in Threads : u # t => frame'[u] = frame[u]
  BY <1>0, OthersStay DEF Unseen, Step
<1>2. UNCHANGED tls_array
  BY DEF Unseen, CreateFind, ReadCall, WriteCall, CloneCall, Touch, CreateClaim, ReadOpen,
     ReadCopy, ReadClose, ReadReturn, WriteEnter, WriteCopy, WriteOpen, WriteClose, CloneLock,
     CloneFind, CloneClaim, CloneUnlock
<1>3. frame[t].op # "destroy" /\ frame'[t].op # "destroy"
  <2>1. CASE CreateFind(t) \/ ReadCall(t) \/ WriteCall(t) \/ CloneCall(t)
    BY <1>0, <2>1, StepKinds DEF CreateFind, ReadCall, WriteCall, CloneCall, Call, At, Types
  <2>2. CASE Touch(t)
    BY <1>0, <2>2, StepKinds DEF Touch, Fault, At, Types
  <2>3. CASE Unseen(t) /\ Step(t)
    <3>1. frame[t].op # "destroy"
      <4>1. frame[t].pc \notin {"destroy_page", "destroy_release"}
        BY <2>3, <1>0, StepKinds DEF Unseen, CreateFind, ReadCall, WriteCall, CloneCall, Call, Touch, CreateClaim, ReadOpen,
           ReadCopy, ReadClose, ReadReturn, WriteEnter, WriteCopy, WriteOpen, WriteClose, CloneLock,
           CloneFind, CloneClaim, CloneUnlock, At
      <4> QED BY <1>0, <4>1, StepKinds
    <3> QED BY <2>3, <3>1, OpKept
  <2> QED BY <2>1, <2>2, <2>3 DEF Unseen, Step
<1>4. \A q \in Mapped : page'[q].data = page[q].data
  <2>1. CASE UNCHANGED page
    BY <2>1
  <2>2. ASSUME NEW p \in Mapped, NEW x \in {"NONE", "READ", "WRITE"},
               page' = [page EXCEPT ![p].prot = x]
        PROVE  \A q \in Mapped : page'[q].data = page[q].data
    BY <1>0, <2>2, ProtectedPage DEF Mapped
  <2>3. CASE ReadOpen(t) \/ ReadClose(t)
    BY <2>1, <2>2, <2>3 DEF ReadOpen, ReadClose, MProtect
  <2>4. CASE WriteEnter(t) \/ WriteOpen(t) \/ WriteClose(t)
    BY <2>1, <2>2, <2>4 DEF WriteEnter, WriteOpen, WriteClose, MProtect
  <2>5. CASE WriteCopy(t)
    BY <1>0, <2>5, CopyMade DEF Mapped
  <2>6. CASE UNCHANGED page \/ ReadOpen(t) \/ ReadClose(t) \/ WriteEnter(t) \/ WriteOpen(t)
             \/ WriteClose(t) \/ WriteCopy(t)
    BY <2>1, <2>3, <2>4, <2>5, <2>6
  <2> QED BY <2>6 DEF Unseen, CreateFind, ReadCall, WriteCall, CloneCall, Touch, CreateClaim,
     ReadCopy, ReadReturn, CloneLock, CloneFind, CloneClaim, CloneUnlock
<1> QED BY <1>1, <1>2, <1>3, <1>4

-----------------------------------------------------------------------------
(* The invariant that every thread has one storage at most.                 *)

\* Only a write is where the copy of a page matters, and only a thread that makes a storage is
\* where it has none yet.
WritesOnly ==
  \A t \in Threads :
    /\ frame[t].op # "write" =>
         frame[t].pc \notin {"write_swap", "write_open", "write_byte", "write_close"}
    /\ frame[t].op \notin {"create", "clone"} =>
         frame[t].pc \notin {"create_claim", "create_fill", "clone_claim", "clone_fill"}

\* It follows from the frames a thread can have.
LEMMA WritesOnlyHolds ==
  Types => WritesOnly
BY StepKinds DEF WritesOnly

\* The same after a step.
LEMMA WritesOnlyNext ==
  TLSInv' => WritesOnly'
<1>1. TLSInv => WritesOnly
  BY WritesOnlyHolds DEF TLSInv
<1> QED BY <1>1, PTL

\* The other threads keep their part of the invariant; only a write of theirs could lose it,
\* and nobody else is in a call during a write.
LEMMA PrivateKept ==
  ASSUME TLSInv, PrivInv, NEW t \in Threads, UNCHANGED tls_array,
         \A u \in Threads : u # t => frame'[u] = frame[u],
         frame[t].op # "none" \/ UNCHANGED page,
         NoneYet(t)', CopyOK(t)'
  PROVE  PrivInv'
<1>0. Types /\ Serial
  BY DEF TLSInv
<1>1. OneEach'
  BY DEF PrivInv, OneEach, Pages
<1>2. ASSUME NEW u \in Threads, u # t PROVE NoneYet(u)' /\ CopyOK(u)'
  <2>1. NoneYet(u) /\ CopyOK(u) /\ frame'[u] = frame[u] BY <1>2 DEF PrivInv
  <2>2. NoneYet(u)' BY <2>1 DEF NoneYet, Pages
  <2>3. CASE UNCHANGED page
    BY <2>1, <2>2, <2>3 DEF CopyOK, Target, PageOf, Shared
  <2>4. CASE frame[t].op # "none"
    <3>1. frame[u].op # "write" BY <1>0, <1>2, <2>4, Company
    <3>2. frame'[u].pc \notin {"write_swap", "write_open", "write_byte", "write_close"}
      BY <1>0, <2>1, <3>1, StepKinds
    <3> QED BY <2>2, <3>2 DEF CopyOK
  <2> QED BY <2>2, <2>3, <2>4
<1> QED BY <1>1, <1>2 DEF PrivInv

\* Where a thread has come to that begins a call, or is ended.
LEMMA PrivateBegins ==
  ASSUME TLSInv, PrivInv, NEW t \in Threads,
         CreateFind(t) \/ DestroyFind(t) \/ ReadCall(t) \/ WriteCall(t) \/ CloneCall(t) \/ Touch(t)
  PROVE  PrivInv'
<1>0. Types /\ \A s \in Slots : StorageOK(s)
  BY DEF TLSInv
<1>1. /\ UNCHANGED <<tls_array, page>>
      /\ \A u \in Threads : u # t => frame'[u] = frame[u]
  BY <1>0, OthersStay DEF CreateFind, DestroyFind, ReadCall, WriteCall, CloneCall, Touch
<1>2. CopyOK(t)' /\ (frame'[t].pc \in {"create_claim", "create_fill", "clone_claim", "clone_fill"}
                       => Own(t) = {})
  <2>1. CASE CreateFind(t)
    BY <1>0, <2>1 DEF CreateFind, Call, Types, CopyOK
  <2>2. CASE DestroyFind(t) \/ ReadCall(t) \/ WriteCall(t) \/ CloneCall(t)
    BY <1>0, <2>2 DEF DestroyFind, ReadCall, WriteCall, CloneCall, Call, Types, CopyOK
  <2>3. CASE Touch(t)
    BY <1>0, <2>3 DEF Touch, Fault, At, Types, CopyOK
  <2> QED BY <2>1, <2>2, <2>3
<1>3. NoneYet(t)'
  BY <1>0, <1>1, <1>2 DEF NoneYet, Own, StorageOK, Pages
<1> QED BY <1>1, <1>2, <1>3, PrivateKept

\* A thread in tls_create, tls_destroy, tls_read or tls_clone, but for the steps that fill or
\* give up a storage.
LEMMA PrivateGoesOn ==
  ASSUME TLSInv, PrivInv, TLSInv', NEW t \in Threads,
         \/ CreateClaim(t) \/ DestroyPage(t)
         \/ ReadOpen(t) \/ ReadCopy(t) \/ ReadClose(t) \/ ReadReturn(t)
         \/ CloneLock(t) \/ CloneFind(t) \/ CloneClaim(t) \/ CloneUnlock(t)
  PROVE  PrivInv'
<1>0. Types /\ (\A s \in Slots : StorageOK(s)) /\ WritesOnly'
  BY WritesOnlyNext DEF TLSInv
<1>1. /\ UNCHANGED tls_array
      /\ \A u \in Threads : u # t => frame'[u] = frame[u]
  BY <1>0, OthersStay DEF Step, CreateClaim, DestroyPage, ReadOpen, ReadCopy, ReadClose, ReadReturn,
     CloneLock, CloneFind, CloneClaim, CloneUnlock
<1>2. frame[t].pc \in {"create_claim", "destroy_page", "read_open", "read_copy", "read_close",
                       "read_return", "clone_lock", "clone_find", "clone_claim", "clone_unlock"}
  BY DEF CreateClaim, DestroyPage, ReadOpen, ReadCopy, ReadClose, ReadReturn,
     CloneLock, CloneFind, CloneClaim, CloneUnlock, At
<1>3. /\ frame[t].op \in {"create", "destroy", "read", "clone"}
      /\ frame'[t].op \in {frame[t].op, "none"}
  BY <1>0, <1>2, StepKinds, OpKept DEF Step
<1>4. CopyOK(t)'
  BY <1>0, <1>3 DEF WritesOnly, CopyOK
<1>5. NoneYet(t)'
  <2>1. CASE CreateClaim(t) \/ CloneClaim(t)
    <3>1. NoneYet(t) BY DEF PrivInv
    <3> QED BY <1>1, <2>1, <3>1 DEF CreateClaim, CloneClaim, At, NoneYet, Pages
  <2>2. CASE CloneLock(t)
    <3>1. frame'[t].pc = "clone_find"
      <4>1. frame[t] \in SearchFrames BY <1>0, <2>2, StepKinds DEF CloneLock, At
      <4> QED BY <1>0, <2>2, <4>1 DEF CloneLock, Goto, Types, SearchFrames
    <3> QED BY <3>1 DEF NoneYet
  <2>3. CASE CloneUnlock(t)
    BY <1>0, <2>3 DEF CloneUnlock, Return, Idle, NoneYet, Types
  <2>4. CASE CloneFind(t)
    <3>1. frame'[t].pc = "idle" \/ Own(t) = {}
      BY <1>0, <2>4 DEF CloneFind, Return, Idle, Types, Cloneable
    <3> QED BY <1>0, <1>1, <3>1 DEF NoneYet, Own, StorageOK, Pages
  <2>5. CASE DestroyPage(t) \/ ReadOpen(t) \/ ReadCopy(t) \/ ReadClose(t) \/ ReadReturn(t)
    <3>1. frame[t].pc \in {"destroy_page", "read_open", "read_copy", "read_close", "read_return"}
      BY <2>5 DEF DestroyPage, ReadOpen, ReadCopy, ReadClose, ReadReturn, At
    <3>2. frame'[t].op \notin {"create", "clone"} BY <1>0, <1>3, <3>1, StepKinds
    <3> QED BY <1>0, <3>2 DEF WritesOnly, NoneYet
  <2> QED BY <2>1, <2>2, <2>3, <2>4, <2>5
<1> QED BY <1>1, <1>3, <1>4, <1>5, PrivateKept

\* The page of the byte a write has come to, when the write stays on it.
LEMMA SameTarget ==
  ASSUME NEW t \in Threads, UNCHANGED tls_array, frame'[t].slot = frame[t].slot,
         frame'[t].at \div PageSize = frame[t].at \div PageSize
  PROVE  Target(t)' = Target(t)
BY DEF Target, PageOf

\* A write puts a copy of a page in its place.
LEMMA CopyPlaced ==
  ASSUME TLSInv, NEW t \in Threads, WriteSwap(t)
  PROVE  LET slot == frame[t].slot
             idx == (frame[t].at \div PageSize) + 1
             q == frame[t].fresh
             new == tls_array'[slot].page_ptr_array
         IN /\ frame[t].op = "write" /\ slot \in Slots /\ Pages(slot) # << >>
            /\ frame'[t].pc = "write_open" /\ frame'[t].op = "write"
            /\ frame'[t].slot = slot /\ frame'[t].at = frame[t].at
            /\ tls_array'[slot].threadID = tls_array[slot].threadID
            /\ tls_array'[slot].byte_count = tls_array[slot].byte_count
            /\ idx \in 1 .. Len(Pages(slot)) /\ Pages(slot)[idx] = Target(t)
            /\ new[idx] = q /\ new # << >>
            /\ Len(new) = Len(Pages(slot))
            /\ \A i \in 1 .. Len(Pages(slot)) : i # idx => new[i] = Pages(slot)[i]
            /\ \A s \in Slots : s # slot => tls_array'[s] = tls_array[s]
            /\ q \in PageIds /\ page'[q] = page[q] /\ page[q].reference_count = 1
            /\ \A p \in PageIds : page'[p].data = page[p].data
            /\ Target(t)' = q
<1> DEFINE slot == frame[t].slot
           idx == (frame[t].at \div PageSize) + 1
           q == frame[t].fresh
           old == Target(t)
           seq == Pages(slot)
           new == [seq EXCEPT ![idx] = q]
           st == [tls_array[slot] EXCEPT !.page_ptr_array = new]
           g == [frame[t] EXCEPT !.pc = "write_open"]
<1>0. /\ frame[t].pc = "write_swap" /\ Types /\ Serial /\ Counted
      /\ page' = [page EXCEPT ![old].reference_count = @ - 1]
      /\ tls_array' = [tls_array EXCEPT ![slot].page_ptr_array[idx] = q]
      /\ frame' = [frame EXCEPT ![t] = g]
  BY DEF WriteSwap, At, TLSInv, Replaced, Goto
<1>1. frame[t].op = "write"
  BY <1>0, StepKinds
<1>2. /\ frame[t] \in WriteFrames /\ PlaceOK(t) /\ slot \in Slots
      /\ old \in Mapped /\ old \in PageIds
  BY <1>1, WriteFrame
<1>3. /\ q \in PageIds /\ idx \in 1 .. Len(seq) /\ Holders(q) = {Copy} /\ Shared(old)
      /\ old = seq[idx]
  <2>1. AccessOK(t) /\ \A s \in Slots : StorageOK(s) BY DEF TLSInv
  <2>2. q \in PageIds BY <1>2 DEF WriteFrames
  <2>3. idx \in 1 .. Len(seq) BY <1>0, <1>1, <1>2, <2>1, PagesReached
  <2> QED BY <1>0, <2>1, <2>2, <2>3 DEF AccessOK, Target, PageOf, Pages
<1>4. page[q].reference_count = 1
  <2>1. Cardinality({Copy}) = 1 BY FS_Singleton
  <2> QED BY <1>0, <1>3, <2>1 DEF Counted
<1>5. q # old
  BY <1>3, <1>4 DEF Shared
<1>6. /\ seq \in Seq(PageIds) /\ tls_array[slot] \in Storage
      /\ tls_array[slot].page_ptr_array = seq /\ seq # << >>
  <2>1. Mine(t) BY <1>1, <1>2 DEF PlaceOK
  <2> QED BY <1>0, <1>2, <2>1 DEF Types, Storage, Pages, Mine
<1>7. /\ g.pc = "write_open" /\ g.op = "write" /\ g.slot = slot /\ g.at = frame[t].at
  BY <1>2 DEF WriteFrames
<1> HIDE DEF g
<1>8. frame'[t] = g
  BY <1>0 DEF Types
<1>9. page[old] \in [reference_count : Nat \ {0}, data : [0 .. PageSize - 1 -> Values],
                     prot : {"NONE", "READ", "WRITE"}]
  BY <1>0, <1>2 DEF Types, Page, Mapped, Unmapped
<1>10. /\ page'[q] = page[q] /\ \A p \in PageIds : page'[p].data = page[p].data
  <2> HIDE DEF old, q
  <2>1. \A p \in PageIds : p # old => page'[p] = page[p] BY <1>0, <1>2 DEF Types
  <2>2. page'[old] = [page[old] EXCEPT !.reference_count = @ - 1] BY <1>0, <1>2 DEF Types
  <2>3. page'[old].data = page[old].data BY <1>9, <2>2
  <2> QED BY <1>3, <1>5, <2>1, <2>3
<1>11. Target(t)' = tls_array'[slot].page_ptr_array[idx]
  <2>1. Target(t)' = tls_array'[g.slot].page_ptr_array[(g.at \div PageSize) + 1]
    BY <1>8 DEF Target, PageOf
  <2> QED BY <1>7, <2>1
<1> HIDE DEF idx, q, old, seq
<1>12. /\ Len(new) = Len(seq) /\ new # << >> /\ new \in Seq(PageIds)
       /\ new[idx] = q /\ \A i \in 1 .. Len(seq) : i # idx => new[i] = seq[i]
  BY <1>3, <1>6
<1> HIDE DEF new
<1>13. /\ st.page_ptr_array = new /\ st.threadID = tls_array[slot].threadID
       /\ st.byte_count = tls_array[slot].byte_count
  BY <1>6 DEF Storage
<1>14. tls_array' = [tls_array EXCEPT ![slot] = st]
  BY <1>0, <1>2, <1>6 DEF Types, new
<1> HIDE DEF st
<1>15. tls_array'[slot] = st /\ \A s \in Slots : s # slot => tls_array'[s] = tls_array[s]
  BY <1>0, <1>2, <1>14 DEF Types
<1>16. tls_array'[slot].page_ptr_array = new
  BY <1>13, <1>15
<1> QED BY <1>1, <1>2, <1>3, <1>4, <1>6, <1>7, <1>8, <1>10, <1>11, <1>12, <1>13, <1>15, <1>16
        DEF idx, q, old, seq

\* A write stores one byte in the page it has come to.
LEMMA ByteStored ==
  ASSUME TLSInv, NEW t \in Threads, WriteByte(t)
  PROVE  /\ frame[t].op = "write" /\ frame[t].pc = "write_byte" /\ UNCHANGED tls_array
         /\ frame[t].at \in Nat /\ frame[t].value \in Values
         /\ Target(t) \in PageIds
         /\ page'[Target(t)].data =
              [page[Target(t)].data EXCEPT ![frame[t].at % PageSize] = frame[t].value]
         /\ page[Target(t)].data \in [0 .. PageSize - 1 -> Values]
         /\ \A p \in PageIds : p # Target(t) => page'[p] = page[p]
         /\ \A p \in PageIds : page'[p].reference_count = page[p].reference_count
         /\ frame'[t].op = "write" /\ frame'[t].pc \in {"write_enter", "write_byte", "write_close"}
         /\ frame'[t].pc # "write_enter" => Target(t)' = Target(t)
<1> DEFINE f == frame[t]
           k == PageSize
           at == f.at
           next == at + 1
           p == Target(t)
           r == at % k
           v == f.value
           pc == IF next % k = 0 THEN "write_enter" ELSE "write_byte"
           g == AfterByte(f)
<1>0. Types /\ Counted
  BY DEF TLSInv
<1>1. /\ f.pc = "write_byte" /\ f.op = "write"
      /\ page' = [page EXCEPT ![p].data[r] = v]
      /\ frame' = [frame EXCEPT ![t] = g]
      /\ UNCHANGED tls_array
  BY WriteByteRuns
<1>2. f \in WriteFrames /\ p \in Mapped /\ p \in PageIds /\ at \in Nat
  BY <1>1, WriteFrame
<1>3. v \in Values /\ r \in 0 .. k - 1 /\ k \in Nat \ {0}
  BY <1>2, PageSizeAssumption, Division DEF WriteFrames
<1>4. page[p] \in [reference_count : Nat \ {0}, data : [0 .. k - 1 -> Values],
                   prot : {"NONE", "READ", "WRITE"}]
  BY <1>0, <1>2 DEF Types, Page, Mapped, Unmapped
<1>5. /\ \A q \in PageIds : page'[q].reference_count = page[q].reference_count
      /\ \A q \in PageIds : q # p => page'[q] = page[q]
  BY <1>0, <1>1, <1>2, <1>3, StoredByte
<1>6. page'[p].data = [page[p].data EXCEPT ![r] = v]
  <2> HIDE DEF r, v, p
  <2> DEFINE d == [page[p].data EXCEPT ![r] = v]
             new == [page[p] EXCEPT !.data = d]
  <2>1. page' = [page EXCEPT ![p] = new] BY <1>1
  <2> HIDE DEF d
  <2>2. new.data = d BY <1>4
  <2> HIDE DEF new
  <2>3. page'[p] = new BY <1>0, <1>2, <2>1 DEF Types
  <2> QED BY <2>2, <2>3 DEF d
<1>7. frame'[t] = g
  BY <1>0, <1>1 DEF Types
<1>8. /\ g.op = "write" /\ g.pc \in {"write_enter", "write_byte", "write_close"} /\ g.slot = f.slot
      /\ g.pc # "write_enter" => g.at \div k = at \div k
  <2>1. g = [f EXCEPT !.pc = "write_close"]
        \/ g = [f EXCEPT !.at = next, !.pc = pc]
    BY DEF AfterByte
  <2>2. pc # "write_enter" => next \div k = at \div k
    BY <1>2, <1>3, NextNumber
  <2>3. pc \in {"write_enter", "write_byte"} OBVIOUS
  <2> DEFINE x == next
             y == pc
  <2>4. g = [f EXCEPT !.pc = "write_close"] \/ g = [f EXCEPT !.at = x, !.pc = y] BY <2>1
  <2>5. (y # "write_enter" => x \div k = at \div k) /\ y \in {"write_enter", "write_byte"}
    BY <2>2, <2>3
  <2>6. f.op = "write" BY <1>1
  <2> HIDE DEF x, y, g, f
  <2>7. CASE g = [f EXCEPT !.pc = "write_close"]
    BY <1>2, <2>6, <2>7 DEF WriteFrames
  <2>8. CASE g = [f EXCEPT !.at = x, !.pc = y]
    <3>1. g.op = "write" /\ g.pc = y /\ g.slot = f.slot /\ g.at = x
      BY <1>2, <2>6, <2>8 DEF WriteFrames
    <3> QED BY <2>5, <3>1
  <2> QED BY <2>4, <2>7, <2>8
<1> HIDE DEF g
<1>9. frame'[t].pc # "write_enter" => Target(t)' = Target(t)
  <2>1. frame'[t].slot = frame[t].slot BY <1>7, <1>8
  <2>2. g.pc # "write_enter" => frame'[t].at \div PageSize = frame[t].at \div PageSize
    BY <1>7, <1>8
  <2> QED BY <1>1, <1>7, <2>1, <2>2, SameTarget
<1> QED BY <1>1, <1>2, <1>3, <1>4, <1>5, <1>6, <1>7, <1>8, <1>9

\* tls_create fills its slot with pages of zeros that nobody uses.
LEMMA FilledFresh ==
  ASSUME TLSInv, NEW t \in Threads, CreateFill(t)
  PROVE  LET slot == frame[t].slot
             new == tls_array'[slot].page_ptr_array
         IN /\ frame[t].pc = "create_fill" /\ frame[t].op = "create" /\ slot \in Slots
            /\ frame[t].length \in Sizes /\ frame'[t].op = "none"
            /\ tls_array'[slot].threadID = t
            /\ tls_array'[slot].byte_count = frame[t].length
            /\ \A s \in Slots : s # slot => tls_array'[s] = tls_array[s]
            /\ \A i \in 1 .. Len(new) :
                 /\ new[i] \in PageIds \ Mapped
                 /\ page'[new[i]].data = [j \in 0 .. PageSize - 1 |-> 0]
            /\ \A p \in Mapped : page'[p] = page[p]
<1> DEFINE slot == frame[t].slot
           n   == PagesFor(frame[t].length)
           new == FreshPages(slot, 0, n)
           st  == [threadID |-> t, byte_count |-> frame[t].length, page_ptr_array |-> new]
           blank == [Unmapped EXCEPT !.reference_count = 1, !.prot = "NONE"]
<1>0. /\ frame[t].pc = "create_fill" /\ Types /\ Mappable(n)
      /\ tls_array' = [tls_array EXCEPT ![slot] = st]
      /\ page' = [p \in PageIds |-> IF \E i \in 1 .. Len(new) : new[i] = p THEN blank ELSE page[p]]
      /\ frame' = [frame EXCEPT ![t] = Idle]
  BY DEF CreateFill, At, Return, TLSInv
<1>1. frame[t] \in CreateFrames /\ frame[t].op = "create"
  BY <1>0, StepKinds, FrameKinds
<1>2. slot \in Slots /\ slot \in Nat /\ frame[t].length \in Nat /\ frame[t].length \in Sizes
  <2>1. slot \in Slots /\ frame[t].length \in Sizes BY <1>1 DEF CreateFrames
  <2>2. Slots \subseteq Nat BY MaxSlotsAssumption DEF Slots
  <2> QED BY <2>1, <2>2, SizesAssumption
<1>3. n \in Nat \ {0}
  <2>1. frame[t].length \div PageSize \in Nat BY <1>2, PageSizeAssumption, Division
  <2> QED BY <2>1 DEF PagesFor
<1>4. new \in [1 .. n -> PageIds \ Mapped]
  <2> HIDE DEF n
  <2> QED BY <1>0, <1>2, <1>3, NewPages
<1> HIDE DEF new
<1>5. Len(new) = n
  BY <1>3, <1>4
<1>6. blank.data = [j \in 0 .. PageSize - 1 |-> 0]
  <2> DEFINE zeros == [j \in 0 .. PageSize - 1 |-> 0]
  <2>1. Unmapped = [reference_count |-> 0, data |-> zeros, prot |-> "unmapped"] BY DEF Unmapped
  <2> HIDE DEF zeros
  <2>2. blank.data = zeros BY <2>1
  <2> QED BY <2>2 DEF zeros
<1>7. /\ st.threadID = t /\ st.page_ptr_array = new /\ st.byte_count = frame[t].length
  OBVIOUS
<1> HIDE DEF st, blank, n
<1>8. /\ tls_array'[slot] = st /\ \A s \in Slots : s # slot => tls_array'[s] = tls_array[s]
  BY <1>0, <1>2 DEF Types
<1>9. frame'[t].op = "none"
  BY <1>0 DEF Types, Idle
<1>10. ASSUME NEW i \in 1 .. Len(new)
       PROVE  new[i] \in PageIds \ Mapped /\ page'[new[i]] = blank
  BY <1>0, <1>4, <1>5
<1>11. \A p \in Mapped : page'[p] = page[p]
  BY <1>0, <1>4, <1>5 DEF Mapped
<1> QED BY <1>0, <1>1, <1>2, <1>6, <1>7, <1>8, <1>9, <1>10, <1>11

\* tls_clone fills its slot with the pages of the target.
LEMMA FilledShared ==
  ASSUME TLSInv, NEW t \in Threads, CloneFill(t)
  PROVE  LET slot == frame[t].slot
             target == frame[t].target
         IN /\ frame[t].pc = "clone_fill" /\ frame[t].op = "clone"
            /\ slot \in Slots /\ target \in Slots /\ slot # target
            /\ Pages(target) # << >> /\ Pages(slot) = << >>
            /\ frame'[t].op = "clone" /\ frame'[t].pc = "clone_unlock"
            /\ tls_array'[slot].threadID = t
            /\ tls_array'[slot].byte_count = tls_array[target].byte_count
            /\ tls_array'[slot].page_ptr_array = Pages(target)
            /\ \A s \in Slots : s # slot => tls_array'[s] = tls_array[s]
            /\ \A p \in PageIds : page'[p].data = page[p].data
<1> DEFINE slot == frame[t].slot
           target == frame[t].target
           new == Pages(target)
           st  == [tls_array[target] EXCEPT !.threadID = t]
           g   == [frame[t] EXCEPT !.pc = "clone_unlock"]
<1>0. /\ frame[t].pc = "clone_fill" /\ Types /\ Counted /\ PlaceOK(t)
      /\ tls_array' = [tls_array EXCEPT ![slot] = st]
      /\ page' = [p \in PageIds |-> IF \E i \in 1 .. Len(new) : new[i] = p
                                    THEN [page[p] EXCEPT !.reference_count = @ + 1] ELSE page[p]]
      /\ frame' = [frame EXCEPT ![t] = g]
  BY DEF CloneFill, At, Goto, TLSInv, Share, Pages
<1>1. frame[t] \in CopyFrames /\ frame[t].op = "clone"
  BY <1>0, StepKinds
<1>2. slot \in Slots /\ target \in Slots
  BY <1>1 DEF CopyFrames
<1>3. /\ g.pc = "clone_unlock" /\ g.op = "clone"
  BY <1>1 DEF CopyFrames
<1>4. new # << >> /\ Pages(slot) = << >> /\ slot # target
  BY <1>0 DEF PlaceOK
<1>5. tls_array[target] \in Storage /\ new = tls_array[target].page_ptr_array
  BY <1>0, <1>2 DEF Types, Pages
<1>6. /\ st.threadID = t /\ st.page_ptr_array = new
      /\ st.byte_count = tls_array[target].byte_count
  BY <1>5 DEF Storage
<1> HIDE DEF st, g, new, target
<1>7. /\ tls_array'[slot] = st /\ \A s \in Slots : s # slot => tls_array'[s] = tls_array[s]
  BY <1>0, <1>2 DEF Types
<1>8. ASSUME NEW p \in PageIds PROVE page'[p].data = page[p].data
  <2>1. page[p] \in Page BY <1>0 DEF Types
  <2>2. page'[p] = [page[p] EXCEPT !.reference_count = @ + 1] \/ page'[p] = page[p] BY <1>0
  <2> QED BY <2>1, <2>2 DEF Page, Unmapped
<1>9. frame'[t] = g
  BY <1>0 DEF Types
<1> QED BY <1>0, <1>1, <1>2, <1>3, <1>4, <1>6, <1>7, <1>8, <1>9 DEF new, target

\* tls_destroy empties its slot at the end.
LEMMA SlotGivenUp ==
  ASSUME TLSInv, NEW t \in Threads, DestroyRelease(t)
  PROVE  LET slot == frame[t].slot
         IN /\ frame[t].op = "destroy" /\ slot \in Slots /\ frame'[t].op = "none"
            /\ Pages(slot) # << >> /\ tls_array'[slot].page_ptr_array = << >>
            /\ \A s \in Slots : s # slot => tls_array'[s] = tls_array[s]
            /\ UNCHANGED page
<1> DEFINE slot == frame[t].slot
           st == [tls_array[slot] EXCEPT !.byte_count = 0, !.page_ptr_array = << >>]
<1>0. /\ frame[t].pc = "destroy_release" /\ Types
      /\ tls_array' = [tls_array EXCEPT ![slot].byte_count = 0,
                                        ![slot].page_ptr_array = << >>]
      /\ frame' = [frame EXCEPT ![t] = Idle]
      /\ UNCHANGED page
  BY DEF DestroyRelease, At, Return, TLSInv
<1>1. frame[t].op = "destroy"
  BY <1>0, StepKinds
<1>2. slot \in Slots /\ PlaceOK(t)
  BY <1>1, DestroyFrame
<1>3. tls_array' = [tls_array EXCEPT ![slot] = st]
  BY <1>0, <1>2 DEF Types
<1>4. st.page_ptr_array = << >>
  <2> DEFINE none == << >>
  <2>1. tls_array[slot] \in Storage BY <1>0, <1>2 DEF Types
  <2> HIDE DEF none
  <2>2. [tls_array[slot] EXCEPT !.byte_count = 0, !.page_ptr_array = none].page_ptr_array = none
    BY <2>1 DEF Storage
  <2> QED BY <2>2 DEF none
<1> HIDE DEF st
<1>5. /\ tls_array'[slot] = st /\ \A s \in Slots : s # slot => tls_array'[s] = tls_array[s]
  BY <1>0, <1>2, <1>3 DEF Types
<1>6. frame'[t].op = "none"
  BY <1>0 DEF Types, Idle
<1>7. Pages(slot) # << >>
  BY <1>1, <1>2 DEF PlaceOK, Mine
<1> QED BY <1>0, <1>1, <1>2, <1>4, <1>5, <1>6, <1>7

\* A thread in tls_write, until it puts the copy of a page in its place.
LEMMA PrivateWrites ==
  ASSUME TLSInv, PrivInv, TLSInv', NEW t \in Threads,
         WriteEnter(t) \/ WriteCopy(t) \/ WriteOpen(t) \/ WriteByte(t) \/ WriteClose(t)
  PROVE  PrivInv'
<1>0. Types /\ Counted /\ WritesOnly' /\ CopyOK(t)
  BY WritesOnlyNext DEF TLSInv, PrivInv
<1>1. /\ UNCHANGED tls_array
      /\ \A u \in Threads : u # t => frame'[u] = frame[u]
  BY <1>0, OthersStay DEF Step, WriteEnter, WriteCopy, WriteOpen, WriteByte, WriteClose
<1>2. frame[t].op = "write"
  BY <1>0, StepKinds DEF WriteEnter, WriteCopy, WriteOpen, WriteByte, WriteClose, At
<1>3. frame[t] \in WriteFrames /\ Target(t) \in Mapped /\ Target(t) \in PageIds
  BY <1>2, WriteFrame
<1>4. frame'[t].op \in {"write", "none"}
  BY <1>2, OpKept DEF Step
<1>5. NoneYet(t)'
  BY <1>0, <1>4 DEF WritesOnly, NoneYet
<1>6. CopyOK(t)'
  <2>1. CASE WriteEnter(t)
    <3> DEFINE g == [frame[t] EXCEPT !.pc = IF Shared(Target(t)) THEN "write_copy" ELSE "write_open"]
    <3>1. /\ g.pc \in {"write_copy", "write_open"} /\ (g.pc = "write_open" => ~Shared(Target(t)))
          /\ g.slot = frame[t].slot /\ g.at = frame[t].at /\ g.offset = frame[t].offset
      BY <1>3 DEF WriteFrames
    <3>2. \/ MProtect(t, PageOf(g.slot, (g.at \div PageSize) - 1), "NONE", g)
          \/ frame' = [frame EXCEPT ![t] = g] /\ UNCHANGED page
      BY <2>1 DEF WriteEnter
    <3> HIDE DEF g
    <3>3. \/ frame'[t] = g /\ \A p \in PageIds : page'[p].reference_count = page[p].reference_count
          \/ frame'[t].pc = "idle"
      <4>1. CASE UNCHANGED page /\ frame' = [frame EXCEPT ![t] = g]
        BY <1>0, <4>1 DEF Types
      <4>2. CASE MProtect(t, PageOf(g.slot, (g.at \div PageSize) - 1), "NONE", g)
        <5> DEFINE p == PageOf(g.slot, (g.at \div PageSize) - 1)
        <5>1. MProtect(t, p, "NONE", g) BY <4>2
        <5> HIDE DEF p
        <5> QED BY <1>0, <5>1, ProtectedPage DEF MProtect, Return, Idle, Types
      <4> QED BY <3>2, <4>1, <4>2
    <3>4. CASE frame'[t].pc = "idle" BY <3>4 DEF CopyOK
    <3>5. CASE frame'[t] = g /\ \A p \in PageIds : page'[p].reference_count = page[p].reference_count
      <4>1. Target(t)' = Target(t) BY <1>1, <3>1, <3>5, SameTarget
      <4> QED BY <1>3, <3>1, <3>5, <4>1 DEF CopyOK, Shared
    <3> QED BY <3>3, <3>4, <3>5
  <2>2. CASE WriteCopy(t)
    <3>1. /\ frame'[t].pc = "write_swap" /\ frame'[t].slot = frame[t].slot
          /\ frame'[t].at = frame[t].at
          /\ frame'[t].fresh \in PageIds \ Mapped
          /\ page'[frame'[t].fresh].data = page[Target(t)].data
          /\ \A p \in PageIds : p # frame'[t].fresh => page'[p].data = page[p].data
      BY <2>2, CopyMade
    <3>2. Target(t)' = Target(t) BY <1>1, <3>1, SameTarget
    <3>3. Target(t) # frame'[t].fresh BY <1>3, <3>1
    <3> QED BY <1>3, <3>1, <3>2, <3>3 DEF CopyOK
  <2>3. CASE WriteOpen(t)
    <3>1. /\ page' = [page EXCEPT ![Target(t)].prot = "WRITE"]
          /\ frame' = [frame EXCEPT ![t].pc = "write_byte"]
      BY <1>0, <1>3, <2>3 DEF WriteOpen, MProtect, Types
    <3>2. /\ frame'[t].pc = "write_byte" /\ frame'[t].slot = frame[t].slot
          /\ frame'[t].at = frame[t].at
      BY <1>0, <1>3, <3>1 DEF Types, WriteFrames
    <3>3. Target(t)' = Target(t) BY <1>1, <3>2, SameTarget
    <3>4. \A p \in PageIds : page'[p].reference_count = page[p].reference_count
      BY <1>0, <1>3, <3>1, ProtectedPage
    <3>5. ~Shared(Target(t)) BY <1>0, <2>3 DEF CopyOK, WriteOpen, At
    <3> QED BY <1>3, <3>2, <3>3, <3>4, <3>5 DEF CopyOK, Shared
  <2>4. CASE WriteByte(t)
    <3>1. /\ frame[t].pc = "write_byte"
          /\ \A p \in PageIds : page'[p].reference_count = page[p].reference_count
          /\ frame'[t].pc \in {"write_enter", "write_byte", "write_close"}
          /\ frame'[t].pc # "write_enter" => Target(t)' = Target(t)
      BY <2>4, ByteStored
    <3>2. ~Shared(Target(t)) BY <1>0, <3>1 DEF CopyOK
    <3> QED BY <1>3, <3>1, <3>2 DEF CopyOK, Shared
  <2>5. CASE WriteClose(t)
    <3>1. frame'[t] = Idle BY <1>0, <2>5 DEF WriteClose, MProtect, Return, Types
    <3> QED BY <3>1 DEF CopyOK, Idle
  <2> QED BY <2>1, <2>2, <2>3, <2>4, <2>5
<1> QED BY <1>1, <1>2, <1>5, <1>6, PrivateKept

\* Nobody else is where the invariant says more than that a thread has one storage at most.
LEMMA OthersApart ==
  ASSUME TLSInv, NEW t \in Threads, \A u \in Threads : u # t => frame'[u] = frame[u],
         \/ frame[t].pc \in {"create_fill", "clone_fill"}
         \/ frame[t].op \in {"destroy", "write"}
  PROVE  \A u \in Threads : u # t => NoneYet(u)' /\ CopyOK(u)'
<1> SUFFICES ASSUME NEW u \in Threads, u # t PROVE NoneYet(u)' /\ CopyOK(u)'
  OBVIOUS
<1>0. Types /\ Serial
  BY DEF TLSInv
<1>1. frame[u].pc \notin {"create_claim", "create_fill", "clone_claim", "clone_fill",
                          "write_swap", "write_open", "write_byte", "write_close"}
  <2>1. CASE frame[t].pc \in {"create_fill", "clone_fill"}
    BY <2>1, FillerAlone
  <2>2. CASE frame[t].op \in {"destroy", "write"}
    <3>1. frame[u].op \in {"none", "read"} BY <1>0, <2>2, Company
    <3> QED BY <1>0, <3>1, StepKinds
  <2> QED BY <2>1, <2>2
<1> QED BY <1>1 DEF NoneYet, CopyOK

\* The steps that fill a storage, give one up, or change which pages one has.
LEMMA PrivateMoves ==
  ASSUME TLSInv, PrivInv, TLSInv', NEW t \in Threads,
         CreateFill(t) \/ CloneFill(t) \/ DestroyRelease(t) \/ WriteSwap(t)
  PROVE  PrivInv'
<1>0. Types /\ WritesOnly' /\ OneEach /\ NoneYet(t)
  BY WritesOnlyNext DEF TLSInv, PrivInv
<1>1. \A u \in Threads : u # t => frame'[u] = frame[u]
  BY <1>0, OthersStay DEF Step
<1>2. \A u \in Threads : u # t => NoneYet(u)' /\ CopyOK(u)'
  <2>1. CASE CreateFill(t) \/ CloneFill(t)
    BY <1>1, <2>1, OthersApart DEF CreateFill, CloneFill, At
  <2>2. CASE DestroyRelease(t) \/ WriteSwap(t)
    <3>1. frame[t].op \in {"destroy", "write"} BY <2>2, SlotGivenUp, CopyPlaced
    <3> QED BY <1>1, <3>1, OthersApart
  <2> QED BY <2>1, <2>2
<1> DEFINE slot == frame[t].slot
<1>3. CASE CreateFill(t) \/ CloneFill(t)
  <2>1. /\ frame[t].pc \in {"create_fill", "clone_fill"} /\ slot \in Slots
        /\ tls_array'[slot].threadID = t /\ tls_array'[slot].byte_count \in Sizes
        /\ \A s \in Slots : s # slot => tls_array'[s] = tls_array[s]
        /\ frame'[t].op # "write"
        /\ frame'[t].pc \notin {"create_claim", "create_fill", "clone_claim", "clone_fill"}
    <3>1. CASE CreateFill(t)
      BY <1>0, <3>1, FilledFresh DEF WritesOnly
    <3>2. CASE CloneFill(t)
      <4>1. tls_array[frame[t].target].byte_count \in Sizes
        BY <1>0, <3>2, FilledShared DEF OneEach
      <4> QED BY <3>2, <4>1, FilledShared
    <3> QED BY <1>3, <3>1, <3>2
  <2>2. \A s \in Slots : Pages(s) # << >> => tls_array[s].threadID # t
    BY <1>0, <2>1 DEF NoneYet
  <2> HIDE DEF slot
  <2>3. OneEach'
    BY <1>0, <2>1, <2>2 DEF OneEach, Pages
  <2>4. NoneYet(t)' /\ CopyOK(t)'
    BY <1>0, <2>1 DEF NoneYet, CopyOK, WritesOnly
  <2> QED BY <1>2, <2>3, <2>4 DEF PrivInv
<1>4. CASE DestroyRelease(t)
  <2>1. /\ slot \in Slots /\ tls_array'[slot].page_ptr_array = << >> /\ frame'[t].op = "none"
        /\ \A s \in Slots : s # slot => tls_array'[s] = tls_array[s]
    BY <1>4, SlotGivenUp
  <2> HIDE DEF slot
  <2>2. OneEach'
    BY <1>0, <2>1 DEF OneEach, Pages
  <2>3. NoneYet(t)' /\ CopyOK(t)'
    BY <1>0, <2>1 DEF NoneYet, CopyOK, WritesOnly
  <2> QED BY <1>2, <2>2, <2>3 DEF PrivInv
<1>5. CASE WriteSwap(t)
  <2> DEFINE q == frame[t].fresh
  <2>1. /\ slot \in Slots /\ Pages(slot) # << >>
        /\ frame'[t].pc = "write_open"
        /\ tls_array'[slot].threadID = tls_array[slot].threadID
        /\ tls_array'[slot].byte_count = tls_array[slot].byte_count
        /\ \A s \in Slots : s # slot => tls_array'[s] = tls_array[s]
        /\ q \in PageIds /\ page'[q] = page[q] /\ page[q].reference_count = 1
        /\ Target(t)' = q
    BY <1>5, CopyPlaced
  <2> HIDE DEF slot, q
  <2>2. OneEach'
    BY <1>0, <2>1 DEF OneEach, Pages
  <2>3. NoneYet(t)' /\ CopyOK(t)'
    BY <2>1 DEF NoneYet, CopyOK, Shared
  <2> QED BY <1>2, <2>2, <2>3 DEF PrivInv
<1> QED BY <1>3, <1>4, <1>5

\* Every step keeps it.
LEMMA PrivateStep ==
  ASSUME TLSInv, PrivInv, TLSInv', [TLSNext]_tlsVars
  PROVE  PrivInv'
<1>1. CASE UNCHANGED tlsVars
  BY <1>1 DEF tlsVars, PrivInv, OneEach, NoneYet, CopyOK, Pages, Target, PageOf, Shared
<1>2. CASE TLSNext
  <2>1. PICK t \in Threads :
          \/ CreateFind(t) \/ DestroyFind(t) \/ ReadCall(t) \/ WriteCall(t)
          \/ CloneCall(t) \/ Touch(t) \/ Step(t)
    BY <1>2, NoStray DEF TLSNext, TLSInv
  <2>2. CASE Step(t)
    BY <2>2, PrivateGoesOn, PrivateWrites, PrivateMoves DEF Step
  <2> QED BY <2>1, <2>2, PrivateBegins
<1> QED BY <1>1, <1>2

-----------------------------------------------------------------------------
(* The library implements memories that are private to their threads.       *)

\* What a storage holds is a memory, and not the lack of one.
LEMMA BytesAre ==
  ASSUME TLSInv, PrivInv, NEW s \in Slots, Live(s)
  PROVE  /\ Bytes(s) \in [0 .. tls_array[s].byte_count - 1 -> Values]
         /\ Bytes(s) # NoStorage
<1>0. Types /\ OneEach
  BY DEF TLSInv, PrivInv
<1> DEFINE n == tls_array[s].byte_count
<1>1. Pages(s) # << >> /\ n \in Sizes
  BY <1>0 DEF Live, OneEach
<1>2. ASSUME NEW x \in 0 .. n - 1
      PROVE  page[PageOf(s, x \div PageSize)].data[x % PageSize] \in Values
  <2> DEFINE i == (x \div PageSize) + 1
             r == x % PageSize
             p == PageOf(s, x \div PageSize)
  <2>1. i \in 1 .. Len(Pages(s)) /\ r \in 0 .. PageSize - 1 /\ p = Pages(s)[i]
    BY <1>1, BytePage
  <2> HIDE DEF i, r, p
  <2>2. p \in PageIds /\ p \in Mapped BY <2>1, LivePages
  <2>3. page[p].data \in [0 .. PageSize - 1 -> Values]
    BY <1>0, <2>2 DEF Types, Page, Mapped, Unmapped
  <2>4. page[p].data[r] \in Values BY <2>1, <2>3
  <2> QED BY <2>4 DEF p, r
<1>3. Bytes(s) \in [0 .. n - 1 -> Values]
  BY <1>2 DEF Bytes
<1> QED BY <1>1, <1>3, NoStorageAssumption

\* A thread that has a storage has a memory.
LEMMA HasMemory ==
  ASSUME TLSInv, PrivInv, NEW t \in Threads, NEW s \in Storages(t)
  PROVE  Contents(t) = Bytes(s) /\ Contents(t) # NoStorage
<1>1. s \in Slots /\ Live(s)
  BY DEF Storages
<1>2. Contents(t) = Bytes(s)
  BY ContentsAre DEF MemoriesAre
<1> QED BY <1>1, <1>2, BytesAre

\* When no storage moves and no destroy begins or ends, those that count are the same.
LEMMA StoragesKept ==
  ASSUME UNCHANGED tls_array, NEW u \in Threads,
         \A t \in Threads : frame[t].op = "destroy" \/ frame'[t].op = "destroy" =>
           frame'[t].op = frame[t].op /\ frame'[t].slot = frame[t].slot
  PROVE  Storages(u)' = Storages(u)
BY DEF Storages, Live, Pages

\* A step that moves no storage and changes no byte in use shows in no memory.
LEMMA UnseenKept ==
  ASSUME TLSInv, PrivInv, TLSInv', PrivInv', NEW t \in Threads, Unseen(t), NEW u \in Threads
  PROVE  Contents(u)' = Contents(u)
<1>1. /\ UNCHANGED tls_array
      /\ \A q \in Mapped : page'[q].data = page[q].data
      /\ frame[t].op # "destroy" /\ frame'[t].op # "destroy"
      /\ \A v \in Threads : v # t => frame'[v] = frame[v]
  BY UnseenStep
<1>2. Storages(u)' = Storages(u)
  BY <1>1, StoragesKept
<1>3. ASSUME NEW s \in Storages(u) PROVE Bytes(s)' = Bytes(s)
  <2>1. s \in Slots /\ Live(s) /\ Pages(s) # << >> BY <1>3 DEF Storages, Live
  <2>2. Pages(s)' = Pages(s) /\ tls_array'[s].byte_count = tls_array[s].byte_count
    BY <1>1 DEF Pages
  <2>3. \A i \in 1 .. Len(Pages(s)) : page'[Pages(s)'[i]].data = page[Pages(s)[i]].data
    BY <1>1, <2>1, <2>2, LivePages
  <2> QED BY <2>1, <2>2, <2>3, BytesKept
<1> QED BY <1>2, <1>3, ContentsKept

\* tls_destroy lets go of pages that no other storage has, or that are kept for the others.
LEMMA ReleaseKept ==
  ASSUME TLSInv, PrivInv, TLSInv', PrivInv', NEW t \in Threads, DestroyPage(t), NEW u \in Threads
  PROVE  Contents(u)' = Contents(u)
<1> DEFINE slot == frame[t].slot
           p == PageOf(slot, frame[t].at)
<1>0. /\ frame[t].pc = "destroy_page" /\ Types /\ Counted
      /\ page' = Release(p) /\ UNCHANGED tls_array
  BY DEF DestroyPage, At, TLSInv
<1>1. frame[t].op = "destroy"
  BY <1>0, StepKinds
<1>2. /\ frame[t] \in DestroyFrames /\ slot \in Slots /\ frame[t].at \in Nat /\ PlaceOK(t)
      /\ Pages(slot) \in Seq(PageIds)
      /\ \A v \in Threads : v # t => frame[v].op \in {"none", "read"}
  BY <1>1, DestroyFrame
<1>3. frame'[t].op = "destroy" /\ frame'[t].slot = slot
  <2> DEFINE next == frame[t].at + 1
             pc == IF next < PageCount(slot) THEN "destroy_page" ELSE "destroy_release"
             g == [frame[t] EXCEPT !.at = next, !.pc = pc]
  <2>1. frame' = [frame EXCEPT ![t] = g]
    BY <1>0 DEF DestroyPage, Types
  <2> HIDE DEF next, pc, slot
  <2>2. g.op = "destroy" /\ g.slot = frame[t].slot BY <1>1, <1>2 DEF DestroyFrames
  <2> HIDE DEF g
  <2> QED BY <1>0, <2>1, <2>2 DEF Types, slot
<1>4. \A v \in Threads : v # t => frame'[v] = frame[v]
  BY <1>0, OthersStay DEF Step
<1>5. Storages(u)' = Storages(u)
  BY <1>0, <1>1, <1>2, <1>3, <1>4, StoragesKept
<1>6. /\ frame[t].at + 1 \in 1 .. Len(Pages(slot)) /\ p = Pages(slot)[frame[t].at + 1]
      /\ p \in PageIds /\ slot \in Holders(p) /\ p \in Mapped
  <2> DEFINE i == frame[t].at + 1
  <2>1. frame[t].at < Len(Pages(slot)) BY <1>0, <1>2 DEF PlaceOK
  <2>2. i \in 1 .. Len(Pages(slot)) /\ frame[t].at < i BY <1>2, <2>1
  <2>3. p = Pages(slot)[i] BY DEF PageOf, Pages
  <2>4. p \in PageIds BY <1>2, <2>2, <2>3
  <2>5. \A v \in Threads : frame[v].op = "destroy" /\ frame[v].slot = slot => frame[v].at < i
    BY <1>2, <2>2
  <2>6. Holds(slot, p) BY <2>2, <2>3, <2>5 DEF Holds
  <2>7. slot \in Holders(p) BY <1>2, <2>6, HoldersCount DEF Holders
  <2> QED BY <1>0, <2>2, <2>3, <2>4, <2>7, HeldMapped
<1> HIDE DEF p
<1>7. ASSUME NEW s \in Storages(u) PROVE Bytes(s)' = Bytes(s)
  <2>1. s \in Slots /\ Live(s) /\ Pages(s) # << >> /\ s # slot
    BY <1>1, <1>7 DEF Storages, Live
  <2>2. Pages(s)' = Pages(s) /\ tls_array'[s].byte_count = tls_array[s].byte_count
    BY <1>0 DEF Pages
  <2>3. ASSUME NEW i \in 1 .. Len(Pages(s)) PROVE page'[Pages(s)[i]].data = page[Pages(s)[i]].data
    <3>1. Pages(s)[i] \in PageIds /\ s \in Holders(Pages(s)[i]) BY <2>1, LivePages
    <3>2. CASE Pages(s)[i] = p
      <4>1. page[p].reference_count > 1 BY <1>0, <1>6, <2>1, <3>1, <3>2, TwoHolders
      <4>2. page'[p].data = page[p].data BY <1>0, <1>6, <4>1, ReleasedPage
      <4> QED BY <3>2, <4>2
    <3>3. CASE Pages(s)[i] # p
      BY <1>0, <1>6, <3>1, <3>3, ReleasedPage
    <3> QED BY <3>2, <3>3
  <2> QED BY <2>1, <2>2, <2>3, BytesKept
<1> QED BY <1>5, <1>7, ContentsKept

\* Nor does the end of tls_destroy show.
LEMMA GivenUpKept ==
  ASSUME TLSInv, PrivInv, TLSInv', PrivInv', NEW t \in Threads, DestroyRelease(t),
         NEW u \in Threads
  PROVE  Contents(u)' = Contents(u)
<1> DEFINE slot == frame[t].slot
<1>1. /\ frame[t].op = "destroy" /\ slot \in Slots /\ frame'[t].op = "none"
      /\ tls_array'[slot].page_ptr_array = << >>
      /\ \A s \in Slots : s # slot => tls_array'[s] = tls_array[s]
      /\ UNCHANGED page
  BY SlotGivenUp
<1>2. \A v \in Threads : v # t => frame'[v] = frame[v] /\ frame[v].op # "destroy"
  <2>1. Types BY DEF TLSInv
  <2> QED BY <1>1, <2>1, OthersStay, DestroyFrame DEF Step
<1>3. Storages(u)' = Storages(u)
  <2> SUFFICES ASSUME NEW s \in Slots PROVE s \in Storages(u)' <=> s \in Storages(u)
    BY DEF Storages
  <2>1. CASE s = slot
    BY <1>1, <2>1 DEF Storages, Live, Pages
  <2>2. CASE s # slot
    BY <1>1, <1>2, <2>2 DEF Storages, Live, Pages
  <2> QED BY <2>1, <2>2
<1>4. ASSUME NEW s \in Storages(u) PROVE Bytes(s)' = Bytes(s)
  <2>1. s \in Slots /\ s # slot BY <1>1, <1>4 DEF Storages, Live
  <2>2. tls_array'[s] = tls_array[s] BY <1>1, <2>1
  <2> QED BY <1>1, <2>2 DEF Bytes, PageOf
<1> QED BY <1>3, <1>4, ContentsKept

\* A copy that takes the place of a page holds the same bytes, so no memory changes.
LEMMA SwapKept ==
  ASSUME TLSInv, PrivInv, TLSInv', PrivInv', NEW t \in Threads, WriteSwap(t), NEW u \in Threads
  PROVE  Contents(u)' = Contents(u)
<1> DEFINE slot == frame[t].slot
           idx == (frame[t].at \div PageSize) + 1
           q == frame[t].fresh
           new == tls_array'[slot].page_ptr_array
<1>1. /\ frame[t].op = "write" /\ slot \in Slots /\ Pages(slot) # << >>
      /\ frame'[t].op = "write"
      /\ tls_array'[slot].threadID = tls_array[slot].threadID
      /\ tls_array'[slot].byte_count = tls_array[slot].byte_count
      /\ Pages(slot)[idx] = Target(t)
      /\ new[idx] = q /\ new # << >>
      /\ \A i \in 1 .. Len(Pages(slot)) : i # idx => new[i] = Pages(slot)[i]
      /\ \A s \in Slots : s # slot => tls_array'[s] = tls_array[s]
      /\ q \in PageIds
      /\ \A p \in PageIds : page'[p].data = page[p].data
  BY CopyPlaced
<1>2. page[q].data = page[Target(t)].data
  <2>1. CopyOK(t) BY DEF PrivInv
  <2> QED BY <2>1 DEF CopyOK, WriteSwap, At
<1>3. \A v \in Threads : v # t => frame'[v] = frame[v] /\ frame[v].op # "destroy"
  <2>1. Types BY DEF TLSInv
  <2> QED BY <1>1, <2>1, OthersStay, WriterAlone DEF Step
<1> HIDE DEF slot, idx, q
<1>4. Storages(u)' = Storages(u)
  <2> SUFFICES ASSUME NEW s \in Slots PROVE s \in Storages(u)' <=> s \in Storages(u)
    BY DEF Storages
  <2>1. /\ Pages(s)' # << >> <=> Pages(s) # << >>
        /\ tls_array'[s].threadID = tls_array[s].threadID
    BY <1>1 DEF Pages
  <2>2. \A v \in Threads : frame[v].op # "destroy" /\ frame'[v].op # "destroy"
    BY <1>1, <1>3
  <2> QED BY <2>1, <2>2 DEF Storages, Live
<1>5. ASSUME NEW s \in Storages(u) PROVE Bytes(s)' = Bytes(s)
  <2>1. s \in Slots /\ Live(s) /\ Pages(s) # << >> BY <1>5 DEF Storages, Live
  <2>2. tls_array'[s].byte_count = tls_array[s].byte_count BY <1>1, <2>1
  <2>3. ASSUME NEW i \in 1 .. Len(Pages(s)) PROVE page'[Pages(s)'[i]].data = page[Pages(s)[i]].data
    <3>1. Pages(s)[i] \in PageIds BY <2>1, LivePages
    <3>2. CASE s = slot /\ i = idx
      <4>1. Pages(s)'[i] = q BY <1>1, <3>2 DEF Pages
      <4>2. page'[q].data = page[q].data BY <1>1
      <4> QED BY <1>1, <1>2, <3>2, <4>1, <4>2
    <3>3. CASE s = slot /\ i # idx
      <4>1. Pages(s)'[i] = Pages(s)[i] BY <1>1, <3>3 DEF Pages
      <4> QED BY <1>1, <3>1, <4>1
    <3>4. CASE s # slot
      <4>1. Pages(s)'[i] = Pages(s)[i] BY <1>1, <2>1, <3>4 DEF Pages
      <4> QED BY <1>1, <3>1, <4>1
    <3> QED BY <3>2, <3>3, <3>4
  <2> QED BY <2>1, <2>2, <2>3, BytesKept
<1> QED BY <1>4, <1>5, ContentsKept

\* Who has which memory, as the abstract specification has it.
Memories == [t \in Threads |-> Contents(t)]

\* One memory changes and the others do not.
LEMMA MemoriesChange ==
  ASSUME NEW t \in Threads, NEW x, Contents(t)' = x,
         \A u \in Threads : u # t => Contents(u)' = Contents(u)
  PROVE  Memories' = [Memories EXCEPT ![t] = x]
BY DEF Memories

\* tls_destroy takes the thread's memory when it begins.
LEMMA DestroyShows ==
  ASSUME Orderly, TLSInv, PrivInv, TLSInv', PrivInv', NEW t \in Threads, DestroyFind(t)
  PROVE  Contents(t) # NoStorage /\ Memories' = [Memories EXCEPT ![t] = NoStorage]
<1> DEFINE slot == OwnSlot(t)
           g == [op |-> "destroy", pc |-> "destroy_page", slot |-> slot, at |-> 0]
<1>0. /\ Types /\ Own(t) # {} /\ Call(t, "destroy", g) /\ UNCHANGED <<tls_array, page>>
      /\ Types' /\ Serial' /\ OneEach
  BY DEF DestroyFind, TLSInv, PrivInv
<1>1. \A u \in Threads : frame[u].pc \notin {"create_fill", "clone_fill"}
  <2>1. g.op = "destroy" /\ "destroy" \in {"destroy", "read", "write"} OBVIOUS
  <2> HIDE DEF g
  <2> QED BY <1>0, <2>1, NobodyFills
<1>2. slot \in Slots /\ Pages(slot) # << >> /\ tls_array[slot].threadID = t
  BY <1>0, <1>1, FoundStorage
<1> HIDE DEF slot
<1>3. /\ frame'[t].op = "destroy" /\ frame'[t].slot = slot
      /\ \A u \in Threads : u # t => frame'[u] = frame[u]
      /\ frame[t].op = "none"
  BY <1>0, StepKinds DEF Call, At, Types
<1>4. \A u \in Threads : frame[u].op # "destroy" /\ (u # t => frame'[u].op # "destroy")
  BY <1>0, <1>3 DEF Serial, MayOverlap
<1>5. slot \in Storages(t)
  BY <1>2, <1>4 DEF Storages, Live
<1>6. Contents(t) # NoStorage
  BY <1>5, HasMemory
<1>7. Storages(t)' = {}
  BY <1>0, <1>2, <1>3 DEF Storages, Live, Pages, OneEach
<1>8. Contents(t)' = NoStorage
  BY <1>7, ContentsAreNext DEF MemoriesAre
<1>9. ASSUME NEW u \in Threads, u # t PROVE Contents(u)' = Contents(u)
  <2>1. Storages(u)' = Storages(u)
    BY <1>0, <1>2, <1>3, <1>4, <1>9 DEF Storages, Live, Pages
  <2>2. \A s : Bytes(s)' = Bytes(s) BY <1>0 DEF Bytes, PageOf
  <2> QED BY <2>1, <2>2, ContentsKept
<1> QED BY <1>6, <1>8, <1>9, MemoriesChange

\* While a storage is filled, every other memory stays as it is.
LEMMA OthersMemory ==
  ASSUME TLSInv, PrivInv, TLSInv', PrivInv', NEW t \in Threads,
         frame[t].pc \in {"create_fill", "clone_fill"},
         \A u \in Threads : u # t => frame'[u] = frame[u], frame'[t].op # "destroy",
         tls_array'[frame[t].slot].threadID = t, tls_array'[frame[t].slot].page_ptr_array # << >>,
         \A s \in Slots : s # frame[t].slot => tls_array'[s] = tls_array[s],
         \A p \in Mapped : page'[p].data = page[p].data
  PROVE  /\ Storages(t) = {} /\ Contents(t) = NoStorage
         /\ frame[t].slot \in Slots /\ frame[t].slot \in Storages(t)'
         /\ \A u \in Threads : u # t => Contents(u)' = Contents(u)
<1> DEFINE slot == frame[t].slot
<1>0. Types /\ PlaceOK(t) /\ NoneYet(t)
  BY DEF TLSInv, PrivInv
<1>1. \A u \in Threads : frame[u].op # "destroy" /\ frame'[u].op # "destroy"
  BY <1>0, FillerAlone, StepKinds
<1>2. Pages(slot) = << >>
  BY <1>0 DEF PlaceOK
<1>3. Storages(t) = {}
  BY <1>0 DEF NoneYet, Storages, Live
<1>4. Contents(t) = NoStorage
  BY <1>3, ContentsAre DEF MemoriesAre
<1>5. slot \in Slots
  BY <1>0, StepKinds, FrameKinds DEF CreateFrames, CopyFrames
<1> HIDE DEF slot
<1>6. slot \in Storages(t)'
  BY <1>1, <1>5 DEF Storages, Live, Pages, slot
<1>7. ASSUME NEW u \in Threads, u # t PROVE Contents(u)' = Contents(u)
  <2>1. Storages(u)' = Storages(u)
    <3> SUFFICES ASSUME NEW s \in Slots PROVE s \in Storages(u)' <=> s \in Storages(u)
      BY DEF Storages
    <3>1. CASE s = slot BY <1>2, <1>7, <3>1 DEF Storages, Live, slot
    <3>2. CASE s # slot BY <1>1, <3>2 DEF Storages, Live, Pages, slot
    <3> QED BY <3>1, <3>2
  <2>2. ASSUME NEW s \in Storages(u) PROVE Bytes(s)' = Bytes(s)
    <3>1. s \in Slots /\ Live(s) /\ Pages(s) # << >> /\ s # slot
      BY <1>2, <2>2 DEF Storages, Live
    <3>2. Pages(s)' = Pages(s) /\ tls_array'[s].byte_count = tls_array[s].byte_count
      BY <3>1 DEF Pages, slot
    <3>3. \A i \in 1 .. Len(Pages(s)) : page'[Pages(s)'[i]].data = page[Pages(s)[i]].data
      BY <3>1, <3>2, LivePages
    <3> QED BY <3>1, <3>2, <3>3, BytesKept
  <2> QED BY <2>1, <2>2, ContentsKept
<1> QED BY <1>3, <1>4, <1>5, <1>6, <1>7 DEF slot

\* Every byte of a storage is on one of its pages, also after a step.
BytesOnPages ==
  \A s \in Slots : Pages(s) # << >> => \A x \in 0 .. tls_array[s].byte_count - 1 :
    /\ (x \div PageSize) + 1 \in 1 .. Len(Pages(s))
    /\ x % PageSize \in 0 .. PageSize - 1

\* It follows from the invariant, which holds after every step.
LEMMA BytesOnPagesNext ==
  TLSInv' => BytesOnPages'
<1>1. TLSInv => BytesOnPages
  BY BytePage DEF BytesOnPages
<1> QED BY <1>1, PTL

\* tls_create gives the thread a memory of zeros when it has filled its storage.
LEMMA CreateShows ==
  ASSUME TLSInv, PrivInv, TLSInv', PrivInv', NEW t \in Threads, CreateFill(t)
  PROVE  /\ Contents(t) = NoStorage /\ frame[t].length \in Sizes
         /\ Memories' = [Memories EXCEPT ![t] = [i \in 0 .. frame[t].length - 1 |-> 0]]
<1>0. PICK slot \in Slots : slot = frame[t].slot
  BY FilledFresh
<1> DEFINE new == tls_array'[slot].page_ptr_array
           n == frame[t].length
<1>1. /\ frame[t].pc = "create_fill" /\ slot \in Slots /\ n \in Sizes /\ frame'[t].op = "none"
      /\ tls_array'[slot].threadID = t /\ tls_array'[slot].byte_count = n
      /\ \A s \in Slots : s # slot => tls_array'[s] = tls_array[s]
      /\ \A i \in 1 .. Len(new) :
           /\ new[i] \in PageIds \ Mapped
           /\ page'[new[i]].data = [j \in 0 .. PageSize - 1 |-> 0]
      /\ \A p \in Mapped : page'[p] = page[p]
  <2> DEFINE own == frame[t].slot
             pages == tls_array'[own].page_ptr_array
  <2>1. /\ frame[t].pc = "create_fill" /\ own \in Slots /\ n \in Sizes /\ frame'[t].op = "none"
        /\ tls_array'[own].threadID = t /\ tls_array'[own].byte_count = n
        /\ \A s \in Slots : s # own => tls_array'[s] = tls_array[s]
        /\ \A i \in 1 .. Len(pages) :
             /\ pages[i] \in PageIds \ Mapped
             /\ page'[pages[i]].data = [j \in 0 .. PageSize - 1 |-> 0]
        /\ \A p \in Mapped : page'[p] = page[p]
    BY FilledFresh
  <2>2. own = slot BY <1>0
  <2> HIDE DEF own
  <2> QED BY <2>1, <2>2, Zenon
<1>2. tls_exist_array'[slot] /\ frame'[t].pc = "idle" /\ StorageOK(slot)'
      /\ \A u \in Threads : u # t => frame'[u] = frame[u]
  <2>1. Types /\ PlaceOK(t) BY DEF TLSInv
  <2>2. tls_exist_array'[slot] BY <1>0, <1>1, <2>1 DEF PlaceOK, CreateFill
  <2>3. \A s \in Slots : StorageOK(s)' BY DEF TLSInv
  <2>4. frame'[t].pc = "idle" BY <2>1 DEF CreateFill, Return, Idle, Types
  <2>5. \A u \in Threads : u # t => frame'[u] = frame[u] BY <2>1, OthersStay DEF Step
  <2> QED BY <1>1, <2>2, <2>3, <2>4, <2>5
<1>3. new # << >>
  <2>1. \A u \in Threads : frame'[u].pc \notin {"create_fill", "clone_fill"}
    BY <1>1, <1>2, FillerAlone
  <2> QED BY <1>2, <2>1 DEF StorageOK, Pages
<1>4. /\ Contents(t) = NoStorage /\ slot \in Storages(t)'
      /\ \A u \in Threads : u # t => Contents(u)' = Contents(u)
  <2>1. \A p \in Mapped : page'[p].data = page[p].data BY <1>1
  <2> QED BY <1>0, <1>1, <1>2, <1>3, <2>1, OthersMemory
<1>5. Bytes(slot)' = [i \in 0 .. n - 1 |-> 0]
  <2>1. ASSUME NEW x \in 0 .. n - 1
        PROVE  page'[new[(x \div PageSize) + 1]].data[x % PageSize] = 0
    <3> DEFINE i == (x \div PageSize) + 1
               r == x % PageSize
    <3>1. i \in 1 .. Len(new) /\ r \in 0 .. PageSize - 1
      BY <1>1, <1>3, BytesOnPagesNext DEF BytesOnPages, Pages
    <3> HIDE DEF i, r
    <3>2. page'[new[i]].data = [j \in 0 .. PageSize - 1 |-> 0] BY <1>1, <3>1
    <3>3. page'[new[i]].data[r] = 0 BY <3>1, <3>2
    <3> QED BY <3>3 DEF i, r
  <2>2. Bytes(slot)' = [x \in 0 .. n - 1 |-> page'[new[(x \div PageSize) + 1]].data[x % PageSize]]
    BY <1>1 DEF Bytes, PageOf
  <2> HIDE DEF new, n
  <2> QED BY <2>1, <2>2
<1>6. Contents(t)' = Bytes(slot)'
  BY <1>4, ContentsAreNext DEF MemoriesAre
<1> QED BY <1>1, <1>4, <1>5, <1>6, MemoriesChange

\* tls_clone gives the thread what the target's owner has.
LEMMA CloneShows ==
  ASSUME TLSInv, PrivInv, TLSInv', PrivInv', NEW t \in Threads, CloneFill(t)
  PROVE  /\ Contents(t) = NoStorage
         /\ tls_array[frame[t].target].threadID \in Threads
         /\ Contents(tls_array[frame[t].target].threadID) # NoStorage
         /\ Memories' = [Memories EXCEPT ![t] = Contents(tls_array[frame[t].target].threadID)]
<1>0. PICK slot \in Slots, target \in Slots : slot = frame[t].slot /\ target = frame[t].target
  BY FilledShared
<1>1. /\ frame[t].pc = "clone_fill" /\ frame[t].op = "clone"
      /\ slot \in Slots /\ target \in Slots /\ slot # target
      /\ Pages(target) # << >> /\ Pages(slot) = << >>
      /\ frame'[t].op = "clone" /\ frame'[t].pc = "clone_unlock"
      /\ tls_array'[slot].threadID = t
      /\ tls_array'[slot].byte_count = tls_array[target].byte_count
      /\ tls_array'[slot].page_ptr_array = Pages(target)
      /\ \A s \in Slots : s # slot => tls_array'[s] = tls_array[s]
      /\ \A p \in PageIds : page'[p].data = page[p].data
  BY <1>0, FilledShared
<1>2. Types /\ OneEach /\ Mapped \subseteq PageIds
  BY DEF TLSInv, PrivInv, Mapped
<1>3. \A u \in Threads : u # t => frame'[u] = frame[u]
  BY <1>2, OthersStay DEF Step
<1>4. /\ Contents(t) = NoStorage /\ slot \in Storages(t)'
      /\ \A u \in Threads : u # t => Contents(u)' = Contents(u)
  BY <1>0, <1>1, <1>2, <1>3, OthersMemory
<1> DEFINE owner == tls_array[target].threadID
<1>5. owner \in Threads /\ target \in Storages(owner)
  <2>1. owner \in Threads BY <1>1, <1>2 DEF OneEach
  <2>2. \A u \in Threads : frame[u].op # "destroy" BY <1>1, FillerAlone
  <2> QED BY <1>1, <2>1, <2>2 DEF Storages, Live
<1> HIDE DEF owner
<1>6. Contents(owner) = Bytes(target) /\ Contents(owner) # NoStorage
  BY <1>5, HasMemory
<1>7. Bytes(slot)' = Bytes(target)
  <2>1. ASSUME NEW x \in 0 .. tls_array[target].byte_count - 1
        PROVE  page'[PageOf(slot, x \div PageSize)'].data[x % PageSize]
                 = page[PageOf(target, x \div PageSize)].data[x % PageSize]
    <3> DEFINE i == x \div PageSize
               p == Pages(target)[i + 1]
    <3>1. i + 1 \in 1 .. Len(Pages(target)) BY <1>1, BytePage
    <3>2. PageOf(slot, i)' = p /\ PageOf(target, i) = p BY <1>1 DEF PageOf, Pages
    <3>3. p \in PageIds
      <4>1. Pages(target) \in Seq(PageIds) BY <1>1, <1>2 DEF Types, Storage, Pages
      <4> HIDE DEF i
      <4> QED BY <3>1, <4>1
    <3> HIDE DEF i, p
    <3>4. page'[p].data = page[p].data BY <1>1, <3>3
    <3> QED BY <3>2, <3>4 DEF i
  <2> QED BY <1>1, <2>1 DEF Bytes
<1>8. Contents(t)' = Bytes(slot)'
  BY <1>4, ContentsAreNext DEF MemoriesAre
<1>9. Contents(t)' = Contents(owner)
  BY <1>6, <1>7, <1>8
<1>10. Memories' = [Memories EXCEPT ![t] = Contents(owner)]
  BY <1>4, <1>9, MemoriesChange
<1> QED BY <1>0, <1>4, <1>5, <1>6, <1>10 DEF owner

\* tls_write changes one byte of the thread's own memory, because no other storage has the page.
LEMMA WriteShows ==
  ASSUME TLSInv, PrivInv, TLSInv', PrivInv', NEW t \in Threads, WriteByte(t)
  PROVE  /\ Contents(t) # NoStorage /\ frame[t].at \in DOMAIN Contents(t)
         /\ frame[t].value \in Values
         /\ Memories' = [Memories EXCEPT ![t] = [Contents(t) EXCEPT ![frame[t].at] = frame[t].value]]
<1>0. PICK slot, at, v, p : /\ slot = frame[t].slot /\ at = frame[t].at
                            /\ v = frame[t].value /\ p = Target(t)
  OBVIOUS
<1> DEFINE k == PageSize
           n == tls_array[slot].byte_count
<1>1. /\ frame[t].op = "write" /\ frame[t].pc = "write_byte" /\ UNCHANGED tls_array
      /\ at \in Nat /\ v \in Values /\ p \in PageIds
      /\ page'[p].data = [page[p].data EXCEPT ![at % k] = v]
      /\ page[p].data \in [0 .. k - 1 -> Values]
      /\ \A q \in PageIds : q # p => page'[q] = page[q]
      /\ frame'[t].op = "write"
  BY <1>0, ByteStored
<1>2. Types /\ Counted /\ OneEach /\ CopyOK(t)
  BY DEF TLSInv, PrivInv
<1>3. \A u \in Threads : u # t => frame'[u] = frame[u] /\ frame[u].op # "destroy"
  BY <1>1, <1>2, OthersStay, WriterAlone DEF Step
<1>4. /\ slot \in Slots /\ slot \in Storages(t) /\ at \in 0 .. n - 1 /\ n \in Nat
      /\ Live(slot)
  <2>1. frame[t] \in WriteFrames /\ PlaceOK(t) BY <1>1, WriteFrame
  <2>2. slot \in Slots /\ Mine(t) /\ End(frame[t]) <= n /\ at < End(frame[t]) /\ End(frame[t]) \in Nat
    BY <1>0, <1>1, <2>1, WriteFrame DEF PlaceOK
  <2>3. n \in Nat BY <1>2, <2>2 DEF Types, Storage
  <2>4. slot \in Storages(t) BY <1>0, <1>1, <1>3, <2>2 DEF Storages, Live, Mine
  <2> QED BY <1>1, <2>2, <2>3, <2>4 DEF Storages
<1>5. p = PageOf(slot, at \div k)
  BY <1>0 DEF Target
<1>6. ASSUME NEW s \in Slots, Live(s), NEW i \in 1 .. Len(Pages(s)), Pages(s)[i] = p
      PROVE  s = slot
  <2>1. s \in Holders(p) BY <1>6, LivePages
  <2>2. slot \in Holders(p)
    <3>1. /\ (at \div k) + 1 \in 1 .. Len(Pages(slot))
          /\ PageOf(slot, at \div k) = Pages(slot)[(at \div k) + 1]
      BY <1>4, BytePage DEF Live
    <3> QED BY <1>4, <1>5, <3>1, LivePages
  <2>3. ~Shared(p) BY <1>0, <1>1, <1>2 DEF CopyOK
  <2> QED BY <1>1, <1>2, <2>1, <2>2, <2>3, TwoHolders DEF Shared
<1>7. ASSUME NEW u \in Threads PROVE Storages(u)' = Storages(u)
  BY <1>1, <1>3, StoragesKept
<1>8. ASSUME NEW u \in Threads, u # t PROVE Contents(u)' = Contents(u)
  <2>1. ASSUME NEW s \in Storages(u) PROVE Bytes(s)' = Bytes(s)
    <3>1. s \in Slots /\ Live(s) /\ Pages(s) # << >> /\ s # slot
      BY <1>4, <1>8, <2>1 DEF Storages, Live
    <3>2. ASSUME NEW i \in 1 .. Len(Pages(s))
          PROVE  page'[Pages(s)'[i]].data = page[Pages(s)[i]].data
      <4>1. Pages(s)[i] \in PageIds BY <3>1, LivePages
      <4>2. Pages(s)[i] # p BY <1>6, <3>1
      <4>3. Pages(s)' = Pages(s) BY <1>1 DEF Pages
      <4> QED BY <1>1, <4>1, <4>2, <4>3
    <3>3. tls_array'[s].byte_count = tls_array[s].byte_count BY <1>1
    <3> QED BY <3>1, <3>2, <3>3, BytesKept
  <2> QED BY <1>7, <2>1, ContentsKept
<1>9. Bytes(slot)' = [Bytes(slot) EXCEPT ![at] = v]
  <2>1. ASSUME NEW x \in 0 .. n - 1
        PROVE  page'[PageOf(slot, x \div k)].data[x % k]
                 = IF x = at THEN v ELSE page[PageOf(slot, x \div k)].data[x % k]
    <3> DEFINE i == x \div k
               r == x % k
               j == at \div k
               m == at % k
               q == PageOf(slot, i)
    <3>1. /\ i \in Nat /\ i + 1 \in 1 .. Len(Pages(slot)) /\ r \in 0 .. k - 1
          /\ q = Pages(slot)[i + 1]
      BY <1>4, BytePage DEF Live
    <3>2. /\ j \in Nat /\ j + 1 \in 1 .. Len(Pages(slot)) /\ m \in 0 .. k - 1
          /\ p = Pages(slot)[j + 1]
      BY <1>4, <1>5, BytePage DEF Live
    <3>3. x = i * k + r /\ at = j * k + m
      <4>1. x \in Nat /\ at \in Nat /\ k \in Nat \ {0} BY <1>4, PageSizeAssumption
      <4> QED BY <4>1, Division
    <3>4. q \in PageIds BY <1>4, <3>1, LivePages
    <3>5. q = p => i = j
      <4>1. \A a, b \in 1 .. Len(Pages(slot)) : Pages(slot)[a] = Pages(slot)[b] => a = b
        BY <1>4 DEF TLSInv, StorageOK
      <4> HIDE DEF i, j, q
      <4>2. q = p => i + 1 = j + 1 BY <3>1, <3>2, <4>1
      <4> QED BY <3>1, <3>2, <4>2
    <3>6. (q = p /\ r = m) <=> x = at
      <4>1. ASSUME q = p, r = m PROVE x = at BY <3>3, <3>5, <4>1
      <4> QED BY <1>5, <4>1
    <3>7. CASE q # p
      <4>1. page'[q] = page[q] BY <1>1, <3>4, <3>7
      <4> QED BY <3>6, <3>7, <4>1
    <3>8. CASE q = p
      <4> HIDE DEF r, m
      <4>1. page'[q].data[r] = IF r = m THEN v ELSE page[q].data[r]
        BY <1>1, <3>1, <3>2, <3>8 DEF m
      <4> QED BY <3>6, <3>8, <4>1 DEF r, m
    <3> QED BY <3>7, <3>8
  <2>2. Bytes(slot) = [x \in 0 .. n - 1 |-> page[PageOf(slot, x \div k)].data[x % k]]
    BY DEF Bytes
  <2>3. Bytes(slot)' = [x \in 0 .. n - 1 |-> page'[PageOf(slot, x \div k)].data[x % k]]
    BY <1>1 DEF Bytes, PageOf
  <2> HIDE DEF n, k
  <2> QED BY <1>4, <2>1, <2>2, <2>3
<1>10. /\ Contents(t) = Bytes(slot) /\ Contents(t) # NoStorage
       /\ Contents(t)' = [Contents(t) EXCEPT ![at] = v]
  <2>1. Contents(t) = Bytes(slot) /\ Contents(t) # NoStorage BY <1>4, HasMemory
  <2>2. slot \in Storages(t)' BY <1>4, <1>7
  <2>3. Contents(t)' = Bytes(slot)' BY <2>2, ContentsAreNext DEF MemoriesAre
  <2> QED BY <1>9, <2>1, <2>3
<1>11. at \in DOMAIN Contents(t)
  BY <1>4, <1>10, BytesAre
<1> DEFINE x == [Contents(t) EXCEPT ![at] = v]
<1>12. Memories' = [Memories EXCEPT ![t] = x]
  <2>1. Contents(t)' = x BY <1>10
  <2> HIDE DEF x
  <2> QED BY <1>8, <2>1, MemoriesChange
<1> QED BY <1>0, <1>1, <1>10, <1>11, <1>12

\* Every step of the library is a step of the private memories, or does not show.
LEMMA MemoryStep ==
  ASSUME Orderly, TLSInv, PrivInv, TLSInv', PrivInv', [TLSNext]_tlsVars
  PROVE  Memory!Next \/ UNCHANGED Memories
<1>1. CASE UNCHANGED tlsVars
  BY <1>1 DEF tlsVars, Memories, Contents, Own, UnderWork, Bytes, PageOf
<1>2. CASE TLSNext
  <2>1. PICK t \in Threads :
          \/ CreateFind(t) \/ DestroyFind(t) \/ ReadCall(t) \/ WriteCall(t)
          \/ CloneCall(t) \/ Touch(t) \/ Step(t)
    BY <1>2, NoStray DEF TLSNext, TLSInv
  <2>2. CASE Unseen(t) \/ DestroyPage(t) \/ DestroyRelease(t) \/ WriteSwap(t)
    <3>1. \A u \in Threads : Contents(u)' = Contents(u)
      BY <2>2, UnseenKept, ReleaseKept, GivenUpKept, SwapKept
    <3> QED BY <3>1 DEF Memories
  <2>3. CASE DestroyFind(t)
    <3>1. Memory!Destroy(t) BY <2>3, DestroyShows DEF Memory!Destroy, Memory!None, Memories
    <3> QED BY <3>1 DEF Memory!Next
  <2>4. CASE CreateFill(t)
    <3>1. Memory!Create(t) BY <2>4, CreateShows DEF Memory!Create, Memory!None, Memories
    <3> QED BY <3>1 DEF Memory!Next
  <2>5. CASE CloneFill(t)
    <3> DEFINE owner == tls_array[frame[t].target].threadID
    <3>1. /\ owner \in Threads /\ Contents(t) = NoStorage /\ Contents(owner) # NoStorage
          /\ Memories' = [Memories EXCEPT ![t] = Contents(owner)]
      BY <2>5, CloneShows
    <3> HIDE DEF owner
    <3>2. Memory!Clone(t, owner) BY <3>1 DEF Memory!Clone, Memory!None, Memories
    <3> QED BY <3>1, <3>2 DEF Memory!Next
  <2>6. CASE WriteByte(t)
    <3>1. Memory!Write(t)
      BY <2>6, WriteShows DEF Memory!Write, Memory!None, Memories
    <3> QED BY <3>1 DEF Memory!Next
  <2> QED BY <2>1, <2>2, <2>3, <2>4, <2>5, <2>6 DEF Unseen, Step
<1> QED BY <1>1, <1>2

\* Sharing pages between clones cannot be noticed: the library implements memories that are
\* private to their threads (110-499).
THEOREM IsPrivateMemoryHolds ==
  ASSUME Orderly
  PROVE  TLSSpec => IsPrivateMemory
<1>1. TLSInit => PrivInv /\ Memory!Init
  <2> SUFFICES ASSUME TLSInit PROVE PrivInv /\ Memory!Init
    OBVIOUS
  <2>1. \A s \in Slots : Pages(s) = << >> /\ ~tls_exist_array[s] BY DEF TLSInit, Pages
  <2>2. \A t \in Threads : frame[t].pc = "idle" BY DEF TLSInit, Idle
  <2>3. PrivInv BY <2>1, <2>2 DEF PrivInv, OneEach, NoneYet, CopyOK
  <2>4. \A t \in Threads : Contents(t) = NoStorage
    <3>1. \A t \in Threads : {s \in Own(t) : ~UnderWork(s)} = {} BY <2>1 DEF Own
    <3> QED BY <3>1 DEF Contents
  <2> QED BY <2>3, <2>4 DEF Memory!Init
<1>2. TLSInv /\ TLSInv' /\ PrivInv /\ [TLSNext]_tlsVars
        => PrivInv' /\ [Memory!Next]_([t \in Threads |-> Contents(t)])
  BY PrivateStep, MemoryStep DEF Memories
<1> QED BY <1>1, <1>2, TLSInvariant, PTL DEF TLSSpec, IsPrivateMemory, Memory!Spec
=============================================================================
