--------------------------- MODULE FileSystemProofs ---------------------------
(***************************************************************************)
(* Proofs about FileSystem.                                                *)
(***************************************************************************)
EXTENDS FileSystem, FiniteSetTheorems, TLAPS

-----------------------------------------------------------------------------
(* Least elements and ascending sequences.                                  *)

\* A set of natural numbers that is not empty has a least element.
LEMMA LeastNatural ==
  ASSUME NEW S \in SUBSET Nat, S # {}
  PROVE  /\ Min(S) \in S
         /\ \A y \in S : Min(S) <= y
<1> DEFINE Below == {0 .. m : m \in S}
<1>1. Below \subseteq FiniteSubsetsOf(Nat)
  <2>1. ASSUME NEW m \in S PROVE 0 .. m \in FiniteSubsetsOf(Nat)
    <3>1. IsFiniteSet(0 .. m)
      <4>1. m \in Int /\ 0 \in Int OBVIOUS
      <4> QED BY <4>1, FS_Interval
    <3> QED BY <3>1 DEF FiniteSubsetsOf
  <2> QED BY <2>1
<1>2. PICK B \in Below : \A C \in Below : ~ (<<C, B>> \in StrictSubsetOrdering(Nat))
  <2>1. Below # {} OBVIOUS
  <2> HIDE DEF Below
  <2> QED BY <1>1, <2>1, FS_StrictSubsetOrderingWellFounded, WFMin
<1>3. PICK m \in S : B = 0 .. m
  OBVIOUS
<1>4. ASSUME NEW y \in S, y < m PROVE FALSE
  <2>1. 0 .. y \in Below OBVIOUS
  <2>2. 0 .. y \subseteq 0 .. m /\ m \notin 0 .. y /\ m \in 0 .. m
    BY <1>4
  <2>3. <<0 .. y, 0 .. m>> \in StrictSubsetOrdering(Nat)
    BY <2>2 DEF StrictSubsetOrdering
  <2> QED BY <1>2, <1>3, <2>1, <2>3
<1>5. \A y \in S : m <= y
  BY <1>4
<1> QED BY <1>5 DEF Min

\* The lesser and the greater of two integers.
LEMMA LesserGreater ==
  ASSUME NEW a \in Int, NEW b \in Int
  PROVE  /\ Min({a, b}) \in {a, b} /\ Min({a, b}) <= a /\ Min({a, b}) <= b
         /\ Max({a, b}) \in {a, b} /\ Max({a, b}) >= a /\ Max({a, b}) >= b
<1>1. \E x \in {a, b} : \A y \in {a, b} : x =< y
  BY a <= b \/ b <= a
<1>2. \E x \in {a, b} : \A y \in {a, b} : x >= y
  BY a <= b \/ b <= a
<1>3. Min({a, b}) \in {a, b} /\ \A y \in {a, b} : Min({a, b}) =< y
  BY <1>1 DEF Min
<1>4. Max({a, b}) \in {a, b} /\ \A y \in {a, b} : Max({a, b}) >= y
  BY <1>2 DEF Max
<1> QED BY <1>3, <1>4

\* The sequence is strictly ascending.
Increasing(s) == \A i, j \in DOMAIN s : i < j => s[i] < s[j]

\* The set can be listed in ascending order.
Listable(S) == \E s \in [1 .. Cardinality(S) -> S] : Increasing(s)

\* A set that is listable without its least element is listable.
LEMMA ListLeastFirst ==
  ASSUME NEW T \in SUBSET Nat, IsFiniteSet(T), T # {}, Listable(T \ {Min(T)})
  PROVE  Listable(T)
<1> DEFINE m == Min(T)
           R == T \ {m}
           n == Cardinality(R)
<1>1. m \in T /\ \A y \in T : m <= y
  BY LeastNatural
<1>2. Cardinality(T) \in Nat /\ n \in Nat /\ n = Cardinality(T) - 1 /\ R \subseteq T
  BY <1>1, FS_RemoveElement, FS_CardinalityType
<1>3. PICK s \in [1 .. n -> R] : Increasing(s)
  BY DEF Listable
<1> HIDE DEF m, n
<1> DEFINE k == Cardinality(T)
           t == [i \in 1 .. k |-> IF i = 1 THEN m ELSE s[i - 1]]
<1>4. \A i \in 1 .. k : i # 1 => i - 1 \in 1 .. n
  BY <1>2
<1>5. t \in [1 .. k -> T]
  BY <1>1, <1>2, <1>3, <1>4
<1>6. \A i, j \in 1 .. k : i < j => t[i] < t[j]
  <2> SUFFICES ASSUME NEW i \in 1 .. k, NEW j \in 1 .. k, i < j PROVE t[i] < t[j]
    OBVIOUS
  <2>1. j - 1 \in 1 .. n /\ s[j - 1] \in R /\ t[j] = s[j - 1]
    BY <1>2, <1>4, <1>3
  <2>2. CASE i = 1
    <3>1. t[i] = m BY <2>2
    <3>2. m <= s[j - 1] /\ m # s[j - 1] /\ m \in Nat /\ s[j - 1] \in Nat
      BY <1>1, <2>1
    <3> QED BY <2>1, <3>1, <3>2
  <2>3. CASE i # 1
    <3>1. i - 1 \in 1 .. n /\ i - 1 < j - 1 /\ t[i] = s[i - 1]
      BY <1>2, <1>4, <2>3
    <3> QED BY <1>3, <2>1, <3>1 DEF Increasing
  <2> QED BY <2>2, <2>3
<1> QED BY <1>5, <1>6 DEF Listable, Increasing

\* A finite set of natural numbers is listable: a smallest one that is not would
\* be so without its least element.
LEMMA EverySetListable ==
  ASSUME NEW S \in SUBSET Nat, IsFiniteSet(S)
  PROVE  Listable(S)
<1> DEFINE Bad == {T \in FiniteSubsetsOf(Nat) : ~Listable(T)}
<1> SUFFICES ASSUME ~Listable(S) PROVE FALSE
  OBVIOUS
<1>1. S \in Bad
  BY DEF FiniteSubsetsOf
<1>2. PICK T \in Bad : \A U \in Bad : ~ (<<U, T>> \in StrictSubsetOrdering(Nat))
  <2>1. Bad # {} /\ Bad \subseteq FiniteSubsetsOf(Nat) BY <1>1
  <2> HIDE DEF Bad
  <2> QED BY <2>1, FS_StrictSubsetOrderingWellFounded, WFMin
<1>3. T \in SUBSET Nat /\ IsFiniteSet(T) /\ ~Listable(T)
  BY DEF FiniteSubsetsOf
<1>4. T # {}
  <2>1. Listable({})
    <3>1. Cardinality({}) = 0 BY FS_EmptySet
    <3>2. [i \in 1 .. 0 |-> i] \in [1 .. 0 -> {}] OBVIOUS
    <3>3. Increasing([i \in 1 .. 0 |-> i]) BY DEF Increasing
    <3> QED BY <3>1, <3>2, <3>3 DEF Listable
  <2> QED BY <1>3, <2>1
<1> DEFINE U == T \ {Min(T)}
<1>5. Min(T) \in T
  BY <1>3, <1>4, LeastNatural
<1>6. U \in FiniteSubsetsOf(Nat)
  BY <1>3, FS_RemoveElement DEF FiniteSubsetsOf
<1>7. <<U, T>> \in StrictSubsetOrdering(Nat)
  BY <1>3, <1>5 DEF StrictSubsetOrdering
<1>8. Listable(U)
  BY <1>2, <1>6, <1>7
<1> QED BY <1>3, <1>4, <1>8, ListLeastFirst

\* Ascending lists the elements of its argument, each of them once.
LEMMA AscendingLists ==
  ASSUME NEW S \in SUBSET Nat, IsFiniteSet(S)
  PROVE  /\ Cardinality(S) \in Nat
         /\ Ascending(S) \in [1 .. Cardinality(S) -> S]
         /\ Increasing(Ascending(S))
         /\ \A i, j \in 1 .. Cardinality(S) : Ascending(S)[i] = Ascending(S)[j] => i = j
         /\ \A x \in S : \E i \in 1 .. Cardinality(S) : Ascending(S)[i] = x
<1> DEFINE n == Cardinality(S)
           s == Ascending(S)
<1>1. n \in Nat
  BY FS_CardinalityType
<1>2. s \in [1 .. n -> S] /\ Increasing(s)
  BY EverySetListable DEF Listable, Increasing, Ascending
<1> HIDE DEF s, n
<1>3. \A i, j \in 1 .. n : s[i] = s[j] => i = j
  <2> SUFFICES ASSUME NEW i \in 1 .. n, NEW j \in 1 .. n, s[i] = s[j] PROVE i = j
    OBVIOUS
  <2>1. s[i] \in Nat /\ s[j] \in Nat BY <1>2
  <2>2. ~(i < j) BY <1>2, <2>1 DEF Increasing
  <2>3. ~(j < i) BY <1>2, <2>1 DEF Increasing
  <2> QED BY <1>1, <2>2, <2>3
<1>4. s \in Injection(1 .. n, S)
  BY <1>2, <1>3 DEF Injection, IsInjective
<1>5. IsFiniteSet(1 .. n) /\ Cardinality(1 .. n) = n
  <2>1. 1 \in Int /\ n \in Int BY <1>1
  <2> QED BY <1>1, <2>1, FS_Interval
<1>6. s \in Surjection(1 .. n, S)
  BY <1>4, <1>5, FS_Injection DEF n
<1> QED BY <1>1, <1>2, <1>3, <1>6 DEF Surjection, s, n

-----------------------------------------------------------------------------
(* What holds whatever clients do: descriptors and blocks refer to files    *)
(* that exist.                                                              *)

TableShapes ==
  [block_belong_list : [Blocks -> Files \cup {-1}],
   block_page_number : [Blocks -> Int],
   file_free_list    : [Files -> BOOLEAN],
   file_name_list    : [Files -> Names \cup {NoName}],
   file_size_list    : [Files -> Int]]

OwnersExist(tb) ==
  \A b \in Blocks : tb.block_belong_list[b] # -1 =>
    ~tb.file_free_list[tb.block_belong_list[b]]

OpenOnExisting ==
  \A d \in Fds : IsOpen(d) => ~tables.file_free_list[fd_file_list[d]]

\* The tables in memory, those the next mount would load, and the descriptors.
OwnersInv ==
  /\ tables \in TableShapes
  /\ OwnersExist(tables)
  /\ meta # NoTables => Loaded(meta) \in TableShapes /\ OwnersExist(Loaded(meta))
  /\ fd_file_list \in [Fds -> Files \cup {-1}]
  /\ fd_seek_pointer_list \in [Fds -> Nat \cup {-1}]
  /\ OpenOnExisting
  /\ \A d \in Fds : IsOpen(d) => fd_seek_pointer_list[d] \in Nat

\* The numbers of files, descriptors and blocks.
LEMMA NumberSets ==
  /\ Files \in SUBSET Nat /\ Fds \in SUBSET Nat /\ Blocks \in SUBSET Nat
  /\ DataBlocks \in SUBSET Blocks /\ Fds \subseteq Files /\ 0 \in Files /\ -1 \notin Files
  /\ BLOCK_SIZE \in Nat \ {0} /\ OwnersPerBlock \in Nat \ {0}
BY FdCountAssumption, TableAssumption, BlockSizeAssumption, DiskBlocksAssumption
   DEF Files, Fds, Blocks, DataBlocks

\* Where the owner of a block is in the two blocks for owners.
LEMMA OwnerPlace ==
  ASSUME NEW b \in Blocks
  PROVE  /\ b \div OwnersPerBlock \in 0 .. 1
         /\ b % OwnersPerBlock \in 0 .. OwnersPerBlock - 1
         /\ b % OwnersPerBlock \in Blocks
         /\ b < OwnersPerBlock => b % OwnersPerBlock = b
<1>1. OwnersPerBlock \in Nat \ {0} /\ b \in Nat /\ b < 2 * OwnersPerBlock
  BY NumberSets, TableAssumption DEF Blocks
<1>2. CASE b < OwnersPerBlock
  <2>1. b % OwnersPerBlock = b /\ b \div OwnersPerBlock = 0 BY <1>1, <1>2, SMT
  <2> QED BY <1>1, <1>2, <2>1
<1>3. CASE b >= OwnersPerBlock
  <2>1. b \div OwnersPerBlock = 1 BY <1>1, <1>3, SMT
  <2>2. b % OwnersPerBlock = b - OwnersPerBlock BY <1>1, <1>3, SMT
  <2> QED BY <1>1, <1>3, <2>1, <2>2, TableAssumption DEF Blocks
<1> QED BY <1>1, <1>2, <1>3

\* Claim gives blocks to file f and pages from the list; nothing else changes.
LEMMA ClaimShape ==
  ASSUME NEW tb \in TableShapes, NEW f \in Files,
         NEW P \in SUBSET Int, tb.block_page_number \in [Blocks -> P],
         NEW n \in Nat, NEW pages \in [1 .. n -> P]
  PROVE  /\ Claim(tb, f, pages) \in TableShapes
         /\ Claim(tb, f, pages).block_page_number \in [Blocks -> P]
         /\ \A b \in Blocks : \/ Claim(tb, f, pages).block_belong_list[b] = f
                              \/ Claim(tb, f, pages).block_belong_list[b]
                                   = tb.block_belong_list[b]
         /\ Claim(tb, f, pages).file_free_list = tb.file_free_list
         /\ Claim(tb, f, pages).file_name_list = tb.file_name_list
         /\ Claim(tb, f, pages).file_size_list = tb.file_size_list
<1> DEFINE free    == Ascending(FreeBlocks(tb))
           turns   == DOMAIN free \cap DOMAIN pages
           got     == {free[i] : i \in turns}
           page(b) == pages[CHOOSE i \in turns : free[i] = b]
           owners  == [b \in Blocks |-> IF b \in got THEN f ELSE tb.block_belong_list[b]]
           nums    == [b \in Blocks |-> IF b \in got THEN page(b) ELSE tb.block_page_number[b]]
<1> DEFINE C == Claim(tb, f, pages)
<1>1. C = [tb EXCEPT !.block_belong_list = owners, !.block_page_number = nums]
  BY DEF Claim, TableShapes
<1>2. \A b \in got : page(b) \in P
  <2> SUFFICES ASSUME NEW b \in got PROVE page(b) \in P
    OBVIOUS
  <2>1. \E i \in turns : free[i] = b OBVIOUS
  <2> DEFINE i == CHOOSE j \in turns : free[j] = b
  <2>2. i \in turns BY <2>1
  <2> QED BY <2>2
<1> HIDE DEF got, page
<1>3. nums \in [Blocks -> P]
  BY <1>2
<1>4. owners \in [Blocks -> Files \cup {-1}]
  BY DEF TableShapes
<1>5. \A b \in Blocks : owners[b] = f \/ owners[b] = tb.block_belong_list[b]
  OBVIOUS
<1> HIDE DEF nums, owners, C
<1>6. /\ C.block_belong_list = owners /\ C.block_page_number = nums
      /\ C.file_free_list = tb.file_free_list /\ C.file_name_list = tb.file_name_list
      /\ C.file_size_list = tb.file_size_list
  BY <1>1 DEF TableShapes
<1>7. C \in TableShapes
  BY <1>1, <1>3, <1>4 DEF TableShapes
<1> QED BY <1>3, <1>5, <1>6, <1>7 DEF C

\* The free blocks can be counted.
LEMMA FreeBlocksCount ==
  ASSUME NEW tb
  PROVE  /\ FreeBlocks(tb) \in SUBSET Blocks /\ FreeBlocks(tb) \in SUBSET DataBlocks
         /\ FreeBlocks(tb) \in SUBSET Nat
         /\ IsFiniteSet(FreeBlocks(tb))
         /\ Cardinality(FreeBlocks(tb)) \in Nat
<1>1. IsFiniteSet(DataBlocks)
  BY DiskBlocksAssumption, FS_Interval DEF DataBlocks
<1>2. FreeBlocks(tb) \in SUBSET DataBlocks
  BY DEF FreeBlocks
<1> QED BY <1>1, <1>2, NumberSets, FS_Subset, FS_CardinalityType

\* The parts of fs_write, for a call (d, bytes) that finds room for the gap: the
\* file, the pages written to, those among them that are new, and the end.
FileOf(d)     == fd_file_list[d]
FirstPage(d)  == fd_seek_pointer_list[d] \div BLOCK_SIZE
LastPage(d, bytes) ==
  Max({FirstPage(d), (fd_seek_pointer_list[d] + Len(bytes) - 1) \div BLOCK_SIZE})
Grown(d) == Claim(tables, FileOf(d), Gap(d))
Missing(d, bytes) ==
  {p \in FirstPage(d) .. LastPage(d, bytes) : BlockOf(Grown(d), FileOf(d), p) = NoBlock}
NewPages(d, bytes) == Ascending(Missing(d, bytes))
Room(d) == Cardinality(FreeBlocks(Grown(d)))
Short(d, bytes) == Len(NewPages(d, bytes)) > Room(d)
End(d, bytes) ==
  IF Short(d, bytes) THEN NewPages(d, bytes)[Room(d) + 1] * BLOCK_SIZE
  ELSE fd_seek_pointer_list[d] + Len(bytes)
Written(d, bytes) == Claim(Grown(d), FileOf(d), NewPages(d, bytes))

\* AfterWrite put together from these parts.
LEMMA AfterWriteParts ==
  ASSUME NEW d, NEW bytes
  PROVE  /\ AfterWrite(d, bytes).tables
              = Resize(Written(d, bytes), FileOf(d), End(d, bytes))
         /\ AfterWrite(d, bytes).seek
              = IF Short(d, bytes) THEN fd_seek_pointer_list[d] ELSE End(d, bytes)
BY DEF AfterWrite, FileOf, FirstPage, LastPage, Grown, Missing, NewPages, Room,
       Short, End, Written

\* The pages of a gap are a sequence of numbers, and none below zero when no size
\* is less than -1.
LEMMA GapShape ==
  ASSUME OwnersInv, NEW d \in Fds, IsOpen(d)
  PROVE  \E n \in Nat :
           /\ Gap(d) \in [1 .. n -> Int]
           /\ Len(Gap(d)) = n
           /\ \A i \in 1 .. n : Gap(d)[i] <= FirstPage(d)
           /\ tables.file_size_list[d] >= -1 => Gap(d) \in [1 .. n -> Nat]
<1> DEFINE from == fd_seek_pointer_list[d]
           size == tables.file_size_list[d]
           first == TruncDiv(size) + 1
           last  == FirstPage(d)
           n == IF last - first + 1 >= 0 THEN last - first + 1 ELSE 0
<1>1. from \in Nat /\ size \in Int /\ d \in Files /\ BLOCK_SIZE \in Nat \ {0}
  BY NumberSets DEF OwnersInv, TableShapes
<1>2. first \in Int /\ last \in Nat /\ (size >= -1 => first \in Nat)
  <2> HIDE DEF size, from
  <2>1. last \in Nat BY <1>1 DEF FirstPage, from
  <2>2. TruncDiv(size) \in Int
    BY <1>1 DEF TruncDiv
  <2>3. ASSUME size >= -1 PROVE TruncDiv(size) >= -1
    <3>1. CASE size >= 0
      <4>1. size \div BLOCK_SIZE >= 0 BY <1>1, <3>1
      <4> QED BY <4>1, <3>1, <1>1 DEF TruncDiv
    <3>2. CASE size < 0
      <4>1. size = -1 BY <1>1, <2>3, <3>2
      <4>2. 1 \div BLOCK_SIZE <= 1 /\ 1 \div BLOCK_SIZE \in Nat
        <5>1. CASE BLOCK_SIZE = 1 BY <5>1
        <5>2. CASE BLOCK_SIZE > 1 BY <5>2, <1>1
        <5> QED BY <5>1, <5>2, <1>1
      <4> QED BY <4>1, <4>2 DEF TruncDiv
    <3> QED BY <1>1, <3>1, <3>2
  <2> QED BY <2>1, <2>2, <2>3
<1>3. CASE from >= size
  <2> HIDE DEF first, last
  <2>0. n \in Nat /\ 1 .. last - first + 1 = 1 .. n BY <1>2
  <2>1. Gap(d) = [i \in 1 .. n |-> first + i - 1]
    BY <1>3, <2>0 DEF Gap, PagesUpTo, first, last, FirstPage
  <2>2. \A i \in 1 .. n : first + i - 1 \in Int /\ first + i - 1 <= last
    BY <1>2
  <2>3. size >= -1 => \A i \in 1 .. n : first + i - 1 \in Nat
    BY <1>2
  <2> HIDE DEF n, size
  <2>4. Len(Gap(d)) = n BY <2>0, <2>1
  <2>5. Gap(d) \in [1 .. n -> Int] BY <2>1, <2>2
  <2>6. \A i \in 1 .. n : Gap(d)[i] <= FirstPage(d) BY <2>1, <2>2 DEF last
  <2>7. size >= -1 => Gap(d) \in [1 .. n -> Nat] BY <2>1, <2>3
  <2> QED BY <2>0, <2>4, <2>5, <2>6, <2>7 DEF size
<1>4. CASE ~(from >= size)
  <2>1. Gap(d) = << >> BY <1>4 DEF Gap
  <2>2. Gap(d) \in [1 .. 0 -> Int] /\ Gap(d) \in [1 .. 0 -> Nat] /\ Len(Gap(d)) = 0
    BY <2>1
  <2> QED BY <2>2
<1> QED BY <1>3, <1>4

\* A number lies on the page that division tells.
LEMMA Division ==
  ASSUME NEW x \in Nat, NEW k \in Nat \ {0}
  PROVE  /\ x \div k \in Nat
         /\ (x \div k) * k <= x
         /\ x < (x \div k + 1) * k
         /\ \A p \in Int : p * k <= x <=> p <= x \div k
<1>1. x \div k \in Nat /\ (x \div k) * k <= x /\ x < (x \div k + 1) * k
  BY SMT
<1>2. \A p \in Int : p * k <= x <=> p <= x \div k
  <2> SUFFICES ASSUME NEW p \in Int PROVE p * k <= x <=> p <= x \div k
    OBVIOUS
  <2> DEFINE q == x \div k
  <2>1. q \in Nat /\ q * k <= x /\ x < (q + 1) * k BY <1>1
  <2> HIDE DEF q
  <2>2. ASSUME p <= q PROVE p * k <= q * k BY <2>1, <2>2, SMT
  <2>3. ASSUME p >= q + 1 PROVE p * k >= (q + 1) * k BY <2>1, <2>3, SMT
  <2>4. p * k \in Int /\ q * k \in Int /\ (q + 1) * k \in Int BY <2>1
  <2>5. p <= q \/ p >= q + 1 BY <2>1
  <2> QED BY <2>1, <2>2, <2>3, <2>4, <2>5 DEF q
<1> QED BY <1>1, <1>2

\* The pages a write touches and where it ends.
LEMMA WritePieces ==
  ASSUME OwnersInv, NEW d \in Fds, IsOpen(d), NEW bytes \in Data
  PROVE  /\ fd_seek_pointer_list[d] \in Nat /\ Len(bytes) \in Nat
         /\ FirstPage(d) \in Nat /\ LastPage(d, bytes) \in Nat
         /\ FirstPage(d) <= LastPage(d, bytes)
         /\ LastPage(d, bytes) * BLOCK_SIZE <= fd_seek_pointer_list[d] + Len(bytes)
         /\ fd_seek_pointer_list[d] + Len(bytes) <= (LastPage(d, bytes) + 1) * BLOCK_SIZE
         /\ Room(d) \in Nat
         /\ \E n \in Nat :
              /\ NewPages(d, bytes) \in [1 .. n -> Missing(d, bytes)]
              /\ Len(NewPages(d, bytes)) = n
              /\ Short(d, bytes) => Room(d) + 1 \in 1 .. n
         /\ End(d, bytes) \in Nat
         /\ End(d, bytes) <= fd_seek_pointer_list[d] + Len(bytes)
<1> DEFINE from  == fd_seek_pointer_list[d]
           first == FirstPage(d)
           last  == LastPage(d, bytes)
           len   == Len(bytes)
           n     == Cardinality(Missing(d, bytes))
<1>1. from \in Nat /\ len \in Nat /\ BLOCK_SIZE \in Nat \ {0}
  <2>1. bytes \in Seq(Nat) BY ArgumentsAssumption
  <2> QED BY <2>1, NumberSets DEF OwnersInv
<1>2. first \in Nat /\ first * BLOCK_SIZE <= from
  BY <1>1, Division DEF FirstPage
<1>3. /\ last \in Nat /\ first <= last
      /\ last * BLOCK_SIZE <= from + len
      /\ from + len <= (last + 1) * BLOCK_SIZE
  <2> DEFINE other == (from + len - 1) \div BLOCK_SIZE
  <2> HIDE DEF from, len
  <2>1. other \in Int BY <1>1
  <2>2. other \in Nat => other * BLOCK_SIZE <= from + len
    <3>1. CASE from + len - 1 \in Nat
      BY <1>1, <3>1, Division
    <3>2. CASE from + len - 1 \notin Nat
      <4>1. from + len - 1 = -1 BY <1>1, <3>2
      <4>2. (-1) \div BLOCK_SIZE < 0 BY <1>1, SMT
      <4> QED BY <4>1, <4>2
    <3> QED BY <3>1, <3>2
  <2>3. last = Max({first, other}) BY DEF LastPage, from, len
  <2> HIDE DEF other, first, last
  <2>4. last \in {first, other} /\ last >= first
    <3>1. first \in Int /\ other \in Int BY <1>2, <2>1
    <3>2. Max({first, other}) \in {first, other} /\ Max({first, other}) >= first
      BY <3>1, LesserGreater
    <3> QED BY <2>3, <3>2
  <2>5. last \in Nat /\ last * BLOCK_SIZE <= from + len
    <3>1. CASE last = first
      BY <1>1, <1>2, <3>1
    <3>2. CASE last = other
      BY <1>1, <1>2, <2>1, <2>2, <2>4, <3>2
    <3> QED BY <2>4, <3>1, <3>2
  <2>6. from + len <= (last + 1) * BLOCK_SIZE
    <3>1. CASE from + len = 0
      BY <1>1, <2>5, <3>1
    <3>2. CASE from + len # 0
      <4>1. from + len - 1 \in Nat BY <1>1, <3>2
      <4>2. from + len - 1 < (other + 1) * BLOCK_SIZE /\ other \in Nat
        BY <1>1, <4>1, Division DEF other
      <4>3. last >= other
        <5>1. first \in Int /\ other \in Int BY <1>2, <2>1
        <5>2. Max({first, other}) >= other BY <5>1, LesserGreater
        <5> QED BY <2>3, <5>2
      <4>4. (other + 1) * BLOCK_SIZE <= (last + 1) * BLOCK_SIZE
        BY <1>1, <2>5, <4>2, <4>3, SMT
      <4>5. /\ (other + 1) * BLOCK_SIZE \in Int /\ (last + 1) * BLOCK_SIZE \in Int
        BY <1>1, <2>5, <4>2
      <4> QED BY <1>1, <4>2, <4>4, <4>5
    <3> QED BY <3>1, <3>2
  <2> QED BY <2>4, <2>5, <2>6
<1>4. Room(d) \in Nat
  BY FreeBlocksCount DEF Room
<1>5. Missing(d, bytes) \in SUBSET (first .. last) /\ Missing(d, bytes) \in SUBSET Nat
  BY <1>2, <1>3 DEF Missing
<1>6. IsFiniteSet(Missing(d, bytes))
  <2>1. first \in Int /\ last \in Int BY <1>2, <1>3
  <2>2. IsFiniteSet(first .. last) BY <2>1, FS_Interval
  <2> QED BY <1>5, <2>2, FS_Subset
<1>7. n \in Nat /\ NewPages(d, bytes) \in [1 .. n -> Missing(d, bytes)]
  BY <1>5, <1>6, AscendingLists DEF NewPages
<1> HIDE DEF n
<1>8. Len(NewPages(d, bytes)) = n
  BY <1>7
<1>9. Short(d, bytes) => Room(d) + 1 \in 1 .. n
  BY <1>4, <1>7, <1>8 DEF Short
<1>10. End(d, bytes) \in Nat /\ End(d, bytes) <= from + len
  <2>1. CASE ~Short(d, bytes)
    BY <1>1, <2>1 DEF End
  <2>2. CASE Short(d, bytes)
    <3> DEFINE p == NewPages(d, bytes)[Room(d) + 1]
    <3>1. p \in first .. last
      BY <1>5, <1>7, <1>9, <2>2
    <3>2. End(d, bytes) = p * BLOCK_SIZE
      BY <2>2 DEF End
    <3> HIDE DEF p, first, last
    <3>3. p \in Nat /\ p <= last BY <3>1, <1>2, <1>3
    <3>4. p * BLOCK_SIZE \in Nat BY <1>1, <3>3
    <3>5. p * BLOCK_SIZE <= last * BLOCK_SIZE BY <1>1, <1>3, <3>3, SMT
    <3> QED BY <1>1, <1>3, <3>2, <3>3, <3>4, <3>5
  <2> QED BY <2>1, <2>2
<1> QED BY <1>1, <1>2, <1>3, <1>4, <1>7, <1>8, <1>9, <1>10

\* Resize changes the size of one file only.
LEMMA ResizeShape ==
  ASSUME NEW tb \in TableShapes, NEW f \in Files, NEW k \in Int
  PROVE  /\ Resize(tb, f, k) \in TableShapes
         /\ Resize(tb, f, k).block_belong_list = tb.block_belong_list
         /\ Resize(tb, f, k).block_page_number = tb.block_page_number
         /\ Resize(tb, f, k).file_free_list = tb.file_free_list
         /\ Resize(tb, f, k).file_name_list = tb.file_name_list
         /\ Resize(tb, f, k).file_size_list = [tb.file_size_list EXCEPT ![f] = k]
BY DEF Resize, TableShapes

NewEntry(tb, f, n) ==
  [tb EXCEPT !.file_free_list[f] = FALSE, !.file_name_list[f] = n, !.file_size_list[f] = 0]

\* fs_create changes the entry of one file only.
LEMMA NewEntryShape ==
  ASSUME NEW tb \in TableShapes, NEW f \in Files, NEW n \in Names
  PROVE  /\ NewEntry(tb, f, n) \in TableShapes
         /\ NewEntry(tb, f, n).block_belong_list = tb.block_belong_list
         /\ NewEntry(tb, f, n).block_page_number = tb.block_page_number
         /\ NewEntry(tb, f, n).file_free_list = [tb.file_free_list EXCEPT ![f] = FALSE]
         /\ NewEntry(tb, f, n).file_size_list = [tb.file_size_list EXCEPT ![f] = 0]
<1> DEFINE free  == [tb.file_free_list EXCEPT ![f] = FALSE]
           names == [tb.file_name_list EXCEPT ![f] = n]
           sizes == [tb.file_size_list EXCEPT ![f] = 0]
           t == NewEntry(tb, f, n)
<1>1. t = [tb EXCEPT !.file_free_list = free,
                     !.file_name_list = names,
                     !.file_size_list = sizes]
  BY DEF NewEntry
<1>2. /\ free \in [Files -> BOOLEAN] /\ names \in [Files -> Names \cup {NoName}]
      /\ sizes \in [Files -> Int]
  BY DEF TableShapes
<1> HIDE DEF free, names, sizes, t
<1>3. /\ t.block_belong_list = tb.block_belong_list
      /\ t.block_page_number = tb.block_page_number
      /\ t.file_free_list = free /\ t.file_size_list = sizes
  BY <1>1 DEF TableShapes
<1>4. t \in TableShapes
  BY <1>1, <1>2 DEF TableShapes
<1> QED BY <1>3, <1>4 DEF free, sizes, t

ClearedEntry(tb, f) ==
  [tb EXCEPT !.file_free_list[f] = TRUE, !.file_name_list[f] = NoName, !.file_size_list[f] = -1]

\* fs_delete clears the entry of one file only.
LEMMA ClearedEntryShape ==
  ASSUME NEW tb \in TableShapes, NEW f \in Files
  PROVE  /\ ClearedEntry(tb, f) \in TableShapes
         /\ ClearedEntry(tb, f).block_belong_list = tb.block_belong_list
         /\ ClearedEntry(tb, f).block_page_number = tb.block_page_number
         /\ ClearedEntry(tb, f).file_free_list = [tb.file_free_list EXCEPT ![f] = TRUE]
         /\ ClearedEntry(tb, f).file_size_list = [tb.file_size_list EXCEPT ![f] = -1]
<1> DEFINE free  == [tb.file_free_list EXCEPT ![f] = TRUE]
           names == [tb.file_name_list EXCEPT ![f] = NoName]
           sizes == [tb.file_size_list EXCEPT ![f] = -1]
           t == ClearedEntry(tb, f)
<1>1. t = [tb EXCEPT !.file_free_list = free,
                     !.file_name_list = names,
                     !.file_size_list = sizes]
  BY DEF ClearedEntry
<1>2. /\ free \in [Files -> BOOLEAN] /\ names \in [Files -> Names \cup {NoName}]
      /\ sizes \in [Files -> Int]
  BY DEF TableShapes
<1> HIDE DEF free, names, sizes, t
<1>3. /\ t.block_belong_list = tb.block_belong_list
      /\ t.block_page_number = tb.block_page_number
      /\ t.file_free_list = free /\ t.file_size_list = sizes
  BY <1>1 DEF TableShapes
<1>4. t \in TableShapes
  BY <1>1, <1>2 DEF TableShapes
<1> QED BY <1>3, <1>4 DEF free, sizes, t

\* Blocks that are given back belong to nobody; nothing else changes.
LEMMA DisownShape ==
  ASSUME NEW tb \in TableShapes, NEW blocks
  PROVE  /\ Disown(tb, blocks) \in TableShapes
         /\ \A b \in Blocks :
              /\ Disown(tb, blocks).block_belong_list[b]
                   = IF b \in blocks THEN -1 ELSE tb.block_belong_list[b]
              /\ Disown(tb, blocks).block_page_number[b]
                   = IF b \in blocks THEN -1 ELSE tb.block_page_number[b]
         /\ Disown(tb, blocks).file_free_list = tb.file_free_list
         /\ Disown(tb, blocks).file_name_list = tb.file_name_list
         /\ Disown(tb, blocks).file_size_list = tb.file_size_list
<1> DEFINE owners == [b \in Blocks |-> IF b \in blocks THEN -1 ELSE tb.block_belong_list[b]]
           nums   == [b \in Blocks |-> IF b \in blocks THEN -1 ELSE tb.block_page_number[b]]
           D == Disown(tb, blocks)
<1>1. D = [tb EXCEPT !.block_belong_list = owners, !.block_page_number = nums]
  BY DEF Disown, TableShapes
<1>2. owners \in [Blocks -> Files \cup {-1}] /\ nums \in [Blocks -> Int]
  BY DEF TableShapes
<1>3. \A b \in Blocks :
        /\ owners[b] = IF b \in blocks THEN -1 ELSE tb.block_belong_list[b]
        /\ nums[b] = IF b \in blocks THEN -1 ELSE tb.block_page_number[b]
  OBVIOUS
<1> HIDE DEF owners, nums, D
<1>4. /\ D.block_belong_list = owners /\ D.block_page_number = nums
      /\ D.file_free_list = tb.file_free_list /\ D.file_name_list = tb.file_name_list
      /\ D.file_size_list = tb.file_size_list
  BY <1>1 DEF TableShapes
<1>5. D \in TableShapes
  BY <1>1, <1>2 DEF TableShapes
<1> QED BY <1>3, <1>4, <1>5 DEF D

\* The tables and the pointer after fs_write.
LEMMA WriteOwners ==
  ASSUME OwnersInv, NEW d \in Fds, IsOpen(d), ~tables.file_free_list[FileOf(d)],
         NEW bytes \in Data,
         NEW after, after = IF Len(Gap(d)) > Cardinality(FreeBlocks(tables))
                            THEN AfterGapFull(d) ELSE AfterWrite(d, bytes)
  PROVE  /\ after.tables \in TableShapes
         /\ OwnersExist(after.tables)
         /\ after.tables.file_free_list = tables.file_free_list
         /\ after.seek \in Nat
<1> DEFINE f == FileOf(d)
           grown == Grown(d)
<1>1. f \in Files /\ tables \in TableShapes /\ OwnersExist(tables)
  BY DEF OwnersInv, FileOf, IsOpen
<1>2. PICK n \in Nat : Gap(d) \in [1 .. n -> Int] /\ Len(Gap(d)) = n
  BY GapShape
<1>3. /\ grown \in TableShapes
      /\ grown.file_free_list = tables.file_free_list
      /\ \A b \in Blocks : \/ grown.block_belong_list[b] = f
                           \/ grown.block_belong_list[b] = tables.block_belong_list[b]
  <2>1. tables.block_page_number \in [Blocks -> Int] BY <1>1 DEF TableShapes
  <2>2. grown = Claim(tables, f, Gap(d)) BY DEF Grown
  <2>3. Int \in SUBSET Int OBVIOUS
  <2> HIDE DEF f, grown
  <2>4. f \in Files /\ tables \in TableShapes BY <1>1
  <2>5. Gap(d) \in [1 .. n -> Int] BY <1>2
  <2> QED BY <2>1, <2>2, <2>3, <2>4, <2>5, ClaimShape
<1>4. OwnersExist(grown)
  BY <1>1, <1>3 DEF OwnersExist
<1>5. CASE Len(Gap(d)) > Cardinality(FreeBlocks(tables))
  <2> DEFINE k == Gap(d)[Cardinality(FreeBlocks(tables)) + 1] * BLOCK_SIZE
  <2>1. k \in Int
    <3>1. Cardinality(FreeBlocks(tables)) + 1 \in 1 .. n
      BY <1>2, <1>5, FreeBlocksCount
    <3>2. Gap(d)[Cardinality(FreeBlocks(tables)) + 1] \in Int BY <1>2, <3>1
    <3> QED BY <3>2, NumberSets
  <2>2. after.tables = Resize(grown, f, k) /\ after.seek = fd_seek_pointer_list[d]
    BY <1>5 DEF AfterGapFull, Grown, FileOf
  <2>3. after.seek \in Nat BY <2>2 DEF OwnersInv
  <2> HIDE DEF k, grown, f
  <2>4. /\ after.tables \in TableShapes
        /\ after.tables.file_free_list = grown.file_free_list
        /\ after.tables.block_belong_list = grown.block_belong_list
    <3>1. f \in Files /\ grown \in TableShapes BY <1>1, <1>3
    <3>2. /\ Resize(grown, f, k) \in TableShapes
          /\ Resize(grown, f, k).file_free_list = grown.file_free_list
          /\ Resize(grown, f, k).block_belong_list = grown.block_belong_list
      BY <3>1, <2>1, ResizeShape
    <3>3. after.tables \in TableShapes BY <2>2, <3>2
    <3> QED BY <2>2, <3>2
  <2> QED BY <1>3, <1>4, <2>3, <2>4 DEF OwnersExist
<1>6. CASE ~(Len(Gap(d)) > Cardinality(FreeBlocks(tables)))
  <2> DEFINE full == Written(d, bytes)
  <2>1. PICK m \in Nat : NewPages(d, bytes) \in [1 .. m -> Missing(d, bytes)]
    BY WritePieces
  <2>2. /\ End(d, bytes) \in Nat /\ fd_seek_pointer_list[d] \in Nat
        /\ NewPages(d, bytes) \in [1 .. m -> Int]
    BY <2>1, WritePieces DEF Missing
  <2>3. after.tables = Resize(full, f, End(d, bytes))
        /\ after.seek = IF Short(d, bytes) THEN fd_seek_pointer_list[d] ELSE End(d, bytes)
    BY <1>6, AfterWriteParts
  <2>4. /\ full \in TableShapes
        /\ full.file_free_list = grown.file_free_list
        /\ \A b \in Blocks : \/ full.block_belong_list[b] = f
                           \/ full.block_belong_list[b] = grown.block_belong_list[b]
    <3>1. grown.block_page_number \in [Blocks -> Int] BY <1>3 DEF TableShapes
    <3>2. full = Claim(grown, f, NewPages(d, bytes)) BY DEF Written
    <3>3. Int \in SUBSET Int OBVIOUS
    <3> HIDE DEF f, grown, full
    <3>4. f \in Files /\ grown \in TableShapes BY <1>1, <1>3
    <3> QED BY ZenonT(30), <2>2, <3>1, <3>2, <3>3, <3>4, ClaimShape
  <2> HIDE DEF full, grown, f
  <2>5. OwnersExist(full)
    BY <1>1, <1>3, <1>4, <2>4 DEF OwnersExist, f
  <2>6. /\ after.tables \in TableShapes
        /\ after.tables.file_free_list = full.file_free_list
        /\ after.tables.block_belong_list = full.block_belong_list
    <3> DEFINE k == End(d, bytes)
    <3>1. f \in Files /\ full \in TableShapes BY <1>1, <2>4
    <3>2. k \in Int BY <2>2
    <3> HIDE DEF k
    <3>3. /\ Resize(full, f, k) \in TableShapes
          /\ Resize(full, f, k).file_free_list = full.file_free_list
          /\ Resize(full, f, k).block_belong_list = full.block_belong_list
      BY <3>1, <3>2, ResizeShape
    <3> QED BY <2>3, <3>3 DEF k
  <2> QED BY <1>3, <2>2, <2>3, <2>4, <2>5, <2>6 DEF OwnersExist
<1> QED BY <1>5, <1>6

\* After make_fs mount_fs reads no owners.
LEMMA FreshLoads ==
  /\ Loaded(FreshTables) \in TableShapes
  /\ OwnersExist(Loaded(FreshTables))
<1>1. \A b \in Blocks : Loaded(FreshTables).block_belong_list[b] = -1
  BY OwnerPlace DEF Loaded, FreshTables
<1>2. Loaded(FreshTables) \in TableShapes
  <2>1. \A b \in Blocks :
          FreshTables.owners[b \div OwnersPerBlock][b % OwnersPerBlock] = -1
    BY OwnerPlace DEF FreshTables
  <2>2. FreshTables.pages \in [Blocks -> Int] BY DEF FreshTables
  <2>3. FreshTables.free \in [Files -> BOOLEAN] BY DEF FreshTables
  <2>4. FreshTables.names \in [Files -> Names \cup {NoName}] BY DEF FreshTables
  <2>5. FreshTables.sizes \in [Files -> Int] BY DEF FreshTables
  <2> QED BY <2>1, <2>2, <2>3, <2>4, <2>5 DEF Loaded, TableShapes
<1> QED BY <1>1, <1>2 DEF OwnersExist

\* After umount_fs it reads the owners of the first half twice, pages with 255 in
\* place of -1, and the low byte of every size.
LEMMA SavedLoads ==
  ASSUME NEW tb \in TableShapes
  PROVE  /\ Loaded(Saved(tb)) \in TableShapes
         /\ \A b \in Blocks :
              /\ Loaded(Saved(tb)).block_belong_list[b]
                   = tb.block_belong_list[b % OwnersPerBlock]
              /\ Loaded(Saved(tb)).block_page_number[b]
                   = IF tb.block_page_number[b] = -1 THEN 255 ELSE tb.block_page_number[b]
         /\ Loaded(Saved(tb)).file_free_list = tb.file_free_list
         /\ Loaded(Saved(tb)).file_size_list = [f \in Files |-> CharOf(tb.file_size_list[f])]
<1> DEFINE sv == Saved(tb)
           ld == Loaded(sv)
           sizes == [f \in Files |-> CharOf(tb.file_size_list[f])]
           nums == [b \in Blocks |-> IF tb.block_page_number[b] = -1 THEN 255
                                     ELSE tb.block_page_number[b]]
<1>1. \A b \in Blocks :
        sv.owners[b \div OwnersPerBlock][b % OwnersPerBlock]
          = tb.block_belong_list[b % OwnersPerBlock]
  BY OwnerPlace DEF Saved, OwnerSaved
<1>2. /\ sv.pages = nums /\ sv.free = tb.file_free_list
      /\ sv.names = tb.file_name_list /\ sv.sizes = sizes
  BY DEF Saved, OwnerSaved
<1>3. nums \in [Blocks -> Int]
  BY DEF TableShapes
<1>4. sizes \in [Files -> Int]
  <2>1. \A k \in Int : CharOf(k) \in Int
    <3> SUFFICES ASSUME NEW k \in Int PROVE CharOf(k) \in Int
      OBVIOUS
    <3>1. 2 * CharHalf \in Nat \ {0} BY SizesAssumption
    <3>2. (k + CharHalf) % (2 * CharHalf) \in Int BY <3>1, SizesAssumption
    <3> QED BY <3>2, SizesAssumption DEF CharOf
  <2> QED BY <2>1 DEF TableShapes
<1> HIDE DEF sv, nums, sizes
<1> DEFINE owners == [b \in Blocks |-> tb.block_belong_list[b % OwnersPerBlock]]
<1>5. owners \in [Blocks -> Files \cup {-1}]
  BY OwnerPlace DEF TableShapes
<1>6. /\ ld.block_belong_list = owners /\ ld.block_page_number = nums
      /\ ld.file_free_list = tb.file_free_list /\ ld.file_name_list = tb.file_name_list
      /\ ld.file_size_list = sizes
  BY <1>1, <1>2 DEF Loaded
<1>7. ld \in TableShapes
  BY <1>1, <1>2, <1>3, <1>4, <1>5 DEF Loaded, TableShapes
<1> QED BY <1>6, <1>7 DEF nums, sizes, sv

\* The files that a search of the tables finds.
LEMMA FoundFiles ==
  ASSUME OwnersInv, NEW n
  PROVE  /\ FreeFiles(tables) # {} =>
              Min(FreeFiles(tables)) \in Files /\ tables.file_free_list[Min(FreeFiles(tables))]
         /\ FilesNamed(tables, n) # {} =>
              FileNamed(n) \in Files /\ ~tables.file_free_list[FileNamed(n)]
         /\ FreeFds # {} => Min(FreeFds) \in Fds /\ ~IsOpen(Min(FreeFds))
<1>1. FreeFiles(tables) # {} => Min(FreeFiles(tables)) \in FreeFiles(tables)
  <2>1. FreeFiles(tables) \in SUBSET Nat BY NumberSets DEF FreeFiles
  <2> QED BY <2>1, LeastNatural
<1>2. FilesNamed(tables, n) # {} => FileNamed(n) \in FilesNamed(tables, n)
  <2>1. FilesNamed(tables, n) \in SUBSET Nat BY NumberSets DEF FilesNamed
  <2> QED BY <2>1, LeastNatural DEF FileNamed
<1>3. FreeFds # {} => Min(FreeFds) \in FreeFds
  <2>1. FreeFds \in SUBSET Nat BY NumberSets DEF FreeFds
  <2> QED BY <2>1, LeastNatural
<1> QED BY <1>1, <1>2, <1>3 DEF FreeFiles, FilesNamed, FreeFds, IsOpen

\* Calls that leave the tables and the descriptors alone.
LEMMA OwnersStay ==
  ASSUME OwnersInv, UNCHANGED <<memVars, meta>>
  PROVE  OwnersInv'
BY DEF OwnersInv, memVars, OpenOnExisting, IsOpen

\* Calls that move the seek pointer of a descriptor only.
LEMMA OwnersStayOnSeek ==
  ASSUME OwnersInv, UNCHANGED <<tables, meta, fd_file_list>>, NEW d \in Fds, NEW k \in Nat,
         fd_seek_pointer_list' = [fd_seek_pointer_list EXCEPT ![d] = k]
  PROVE  OwnersInv'
<1>1. fd_seek_pointer_list' \in [Fds -> Nat \cup {-1}]
  BY DEF OwnersInv
<1>2. \A e \in Fds : IsOpen(e)' => fd_seek_pointer_list'[e] \in Nat
  BY DEF OwnersInv, IsOpen
<1>3. OpenOnExisting'
  BY DEF OwnersInv, OpenOnExisting, IsOpen
<1> QED BY <1>1, <1>2, <1>3 DEF OwnersInv

\* make_fs, mount_fs and umount_fs.
LEMMA MakeMountOwners ==
  ASSUME OwnersInv, MakeFs \/ MakeFsMounted \/ MountFs \/ UmountFs
  PROVE  OwnersInv'
<1>1. CASE MakeFs
  <2>1. UNCHANGED memVars /\ meta' = FreshTables
    BY <1>1 DEF MakeFs, MakeDisk
  <2>2. Loaded(meta') \in TableShapes /\ OwnersExist(Loaded(meta'))
    BY <2>1, FreshLoads
  <2> QED BY <2>1, <2>2 DEF OwnersInv, memVars, OpenOnExisting, IsOpen
<1>2. CASE MakeFsMounted
  <2>1. UNCHANGED memVars /\ meta' = NoTables
    BY <1>2 DEF MakeFsMounted, MakeDisk
  <2> QED BY <2>1 DEF OwnersInv, memVars, OpenOnExisting, IsOpen
<1>3. CASE MountFs
  <2>1. /\ meta # NoTables /\ meta' = meta
        /\ tables' = Loaded(meta)
        /\ fd_file_list' = [d \in Fds |-> -1]
        /\ fd_seek_pointer_list' = [d \in Fds |-> -1]
    BY <1>3 DEF MountFs
  <2>2. tables' \in TableShapes /\ OwnersExist(tables')
    BY <2>1 DEF OwnersInv
  <2>3. \A d \in Fds : ~IsOpen(d)'
    BY <2>1 DEF IsOpen
  <2> QED BY <2>1, <2>2, <2>3 DEF OwnersInv, OpenOnExisting
<1>4. CASE UmountFs
  <2>1. UNCHANGED memVars /\ meta' = Saved(tables)
    BY <1>4 DEF UmountFs
  <2> DEFINE ld == Loaded(Saved(tables))
  <2>2. tables \in TableShapes /\ OwnersExist(tables)
    BY DEF OwnersInv
  <2>3. /\ ld \in TableShapes
        /\ \A b \in Blocks : ld.block_belong_list[b] = tables.block_belong_list[b % OwnersPerBlock]
        /\ ld.file_free_list = tables.file_free_list
    BY <2>2, SavedLoads
  <2> HIDE DEF ld
  <2>4. OwnersExist(ld)
    BY <2>2, <2>3, OwnerPlace DEF OwnersExist
  <2> QED BY <2>1, <2>3, <2>4 DEF OwnersInv, memVars, OpenOnExisting, IsOpen, ld
<1> QED BY <1>1, <1>2, <1>3, <1>4

\* fs_create: the file it takes was free, so nothing referred to it.
LEMMA CreateOwners ==
  ASSUME OwnersInv, NEW n \in Names, FsCreate(n)
  PROVE  OwnersInv'
<1> DEFINE f == Min(FreeFiles(tables))
<1>1. f \in Files /\ tables.file_free_list[f]
  BY FoundFiles DEF FsCreate
<1>2. /\ tables' = NewEntry(tables, f, n)
      /\ UNCHANGED <<meta, fd_file_list, fd_seek_pointer_list>>
  BY DEF FsCreate, diskVars, NewEntry
<1> HIDE DEF f
<1>3. tables \in TableShapes
  BY DEF OwnersInv
<1>4. /\ tables' \in TableShapes
      /\ tables'.block_belong_list = tables.block_belong_list
      /\ tables'.file_free_list = [tables.file_free_list EXCEPT ![f] = FALSE]
  <2>1. f \in Files /\ tables \in TableShapes BY <1>1, <1>3
  <2>2. /\ NewEntry(tables, f, n) \in TableShapes
        /\ NewEntry(tables, f, n).block_belong_list = tables.block_belong_list
        /\ NewEntry(tables, f, n).file_free_list = [tables.file_free_list EXCEPT ![f] = FALSE]
    BY <2>1, NewEntryShape
  <2> QED BY <1>2, <1>3, <2>2
<1>5. OwnersExist(tables')
  BY <1>3, <1>4 DEF OwnersInv, OwnersExist, TableShapes
<1>6. OpenOnExisting'
  BY <1>2, <1>3, <1>4 DEF OwnersInv, OpenOnExisting, IsOpen, TableShapes
<1> QED BY <1>2, <1>4, <1>5, <1>6 DEF OwnersInv, IsOpen

\* fs_delete: no descriptor is open on the file, and none of its blocks is left.
LEMMA DeleteOwners ==
  ASSUME OwnersInv, NEW n \in Names, FsDelete(n)
  PROVE  OwnersInv'
<1> DEFINE f == FileNamed(n)
           kept == Disown(tables, BlocksOwned(f))
<1>1. f \in Files /\ Deletable(f)
  BY FoundFiles DEF FsDelete
<1>2. /\ tables' = ClearedEntry(kept, f)
      /\ UNCHANGED <<meta, fd_file_list, fd_seek_pointer_list>>
  BY DEF FsDelete, diskVars, ClearedEntry
<1>3. tables \in TableShapes /\ OwnersExist(tables)
  BY DEF OwnersInv
<1>4. /\ kept \in TableShapes /\ kept.file_free_list = tables.file_free_list
      /\ \A b \in Blocks : kept.block_belong_list[b]
           = IF b \in BlocksOwned(f) THEN -1 ELSE tables.block_belong_list[b]
  BY <1>3, DisownShape
<1> HIDE DEF f, kept
<1>5. /\ tables' \in TableShapes
      /\ tables'.block_belong_list = kept.block_belong_list
      /\ tables'.file_free_list = [tables.file_free_list EXCEPT ![f] = TRUE]
  <2>1. f \in Files /\ kept \in TableShapes BY <1>1, <1>4
  <2>2. /\ ClearedEntry(kept, f) \in TableShapes
        /\ ClearedEntry(kept, f).block_belong_list = kept.block_belong_list
        /\ ClearedEntry(kept, f).file_free_list = [kept.file_free_list EXCEPT ![f] = TRUE]
    BY <2>1, ClearedEntryShape
  <2> QED BY <1>2, <1>4, <2>2
<1>6. OwnersExist(tables')
  BY <1>1, <1>3, <1>4, <1>5 DEF OwnersExist, TableShapes, BlocksOwned
<1>7. OpenOnExisting'
  BY <1>1, <1>2, <1>3, <1>5 DEF OwnersInv, OpenOnExisting, IsOpen, TableShapes, Deletable
<1> QED BY <1>2, <1>5, <1>6, <1>7 DEF OwnersInv, IsOpen

\* fs_open and fs_close.
LEMMA OpenCloseOwners ==
  ASSUME OwnersInv,
         \/ \E n \in Names : FsOpen(n)
         \/ \E d \in Fds : FsClose(d)
  PROVE  OwnersInv'
<1>1. CASE \E n \in Names : FsOpen(n)
  <2>1. PICK n \in Names : FsOpen(n) BY <1>1
  <2> DEFINE d == Min(FreeFds)
             f == FileNamed(n)
  <2>2. d \in Fds /\ f \in Files /\ ~tables.file_free_list[f]
    BY <2>1, FoundFiles DEF FsOpen
  <2>3. /\ fd_file_list' = [fd_file_list EXCEPT ![d] = f]
        /\ fd_seek_pointer_list' = [fd_seek_pointer_list EXCEPT ![d] = 0]
        /\ UNCHANGED <<tables, meta>>
    BY <2>1 DEF FsOpen, diskVars
  <2> HIDE DEF d, f
  <2> QED BY <2>2, <2>3 DEF OwnersInv, OpenOnExisting, IsOpen
<1>2. CASE \E d \in Fds : FsClose(d)
  <2>1. PICK d \in Fds : FsClose(d) BY <1>2
  <2>2. /\ fd_file_list' = [fd_file_list EXCEPT ![d] = -1]
        /\ fd_seek_pointer_list' = [fd_seek_pointer_list EXCEPT ![d] = -1]
        /\ UNCHANGED <<tables, meta>>
    BY <2>1 DEF FsClose, diskVars
  <2> QED BY <2>1, <2>2 DEF OwnersInv, OpenOnExisting, IsOpen
<1> QED BY <1>1, <1>2

\* The number of bytes fs_read takes is a natural number.
LEMMA ReadCountType ==
  ASSUME OwnersInv, NEW d \in Fds, IsOpen(d), NEW n \in Lengths
  PROVE  ReadCount(d, n) \in Nat
<1> DEFINE rest == tables.file_size_list[d] - fd_seek_pointer_list[d]
           most == Max({1, rest})
<1>1. n \in Nat /\ rest \in Int
  BY ArgumentsAssumption, NumberSets DEF OwnersInv, TableShapes
<1>2. ReadCount(d, n) = IF n = 0 THEN 0 ELSE Min({n, most})
  BY DEF ReadCount
<1> HIDE DEF rest
<1>3. most \in Int /\ most >= 1
  <2>1. 1 \in Int OBVIOUS
  <2> QED BY <1>1, <2>1, LesserGreater
<1> HIDE DEF most
<1>4. Min({n, most}) \in {n, most}
  <2>1. n \in Int /\ most \in Int BY <1>1, <1>3
  <2> QED BY <2>1, LesserGreater
<1> QED BY <1>1, <1>2, <1>3, <1>4

\* fs_read, fs_lseek and fs_truncate.
LEMMA SeekingOwners ==
  ASSUME OwnersInv, NEW d \in Fds,
         \/ \E n \in Lengths : FsRead(d, n)
         \/ \E n \in Offsets : FsLseek(d, n) \/ FsTruncate(d, n)
  PROVE  OwnersInv'
<1>1. CASE \E n \in Lengths : FsRead(d, n)
  <2>1. PICK n \in Lengths : FsRead(d, n) BY <1>1
  <2> DEFINE from == fd_seek_pointer_list[d]
             size == tables.file_size_list[fd_file_list[d]]
             count == IF from > size THEN 0 ELSE ReadCount(d, n)
  <2>2. IsOpen(d) /\ UNCHANGED <<tables, meta, fd_file_list>>
        /\ fd_seek_pointer_list' = [fd_seek_pointer_list EXCEPT ![d] = from + count]
    BY <2>1 DEF FsRead, diskVars
  <2>3. from + count \in Nat
    <3>1. ReadCount(d, n) \in Nat BY <2>2, ReadCountType
    <3>2. from \in Nat BY <2>2 DEF OwnersInv
    <3> QED BY <3>1, <3>2
  <2> HIDE DEF from, count
  <2> QED BY <2>2, <2>3, OwnersStayOnSeek
<1>2. CASE \E n \in Offsets : FsLseek(d, n)
  <2>1. PICK n \in Offsets : FsLseek(d, n) BY <1>2
  <2>2. n \in Nat BY ArgumentsAssumption
  <2>3. UNCHANGED <<tables, meta, fd_file_list>>
        /\ fd_seek_pointer_list' = [fd_seek_pointer_list EXCEPT ![d] = n]
    BY <2>1 DEF FsLseek, diskVars
  <2> QED BY <2>2, <2>3, OwnersStayOnSeek
<1>3. CASE \E n \in Offsets : FsTruncate(d, n)
  <2>1. PICK n \in Offsets : FsTruncate(d, n) BY <1>3
  <2>2. n \in Nat /\ n \in Int BY ArgumentsAssumption
  <2>3. PICK blocks :
          \E k \in Nat :
            /\ \/ tables' = Resize(Disown(tables, blocks), fd_file_list[d], n)
               \/ tables' = Disown(tables, blocks)
            /\ fd_seek_pointer_list' = [fd_seek_pointer_list EXCEPT ![d] = k]
    <3> DEFINE f       == fd_file_list[d]
               pages   == PageCount(n) .. PageCount(tables.file_size_list[f]) - 1
               missing == {p \in pages : BlockOf(tables, f, p) = NoBlock}
               given   == {p \in pages : \A m \in missing : p > m}
               blocks  == {BlockOf(tables, f, p) : p \in given}
               from    == fd_seek_pointer_list[d]
               k == IF missing = {} THEN Min({from, n}) ELSE from
    <3>1. /\ tables' = IF missing = {} THEN Resize(Disown(tables, blocks), f, n)
                       ELSE Disown(tables, blocks)
          /\ fd_seek_pointer_list' =
               [fd_seek_pointer_list EXCEPT ![d] = IF missing = {} THEN Min({@, n}) ELSE @]
      BY <2>1 DEF FsTruncate
    <3>2. fd_seek_pointer_list' = [fd_seek_pointer_list EXCEPT ![d] = k]
      BY <3>1 DEF OwnersInv
    <3>3. from \in Nat BY <2>1 DEF OwnersInv, FsTruncate
    <3> HIDE DEF missing, blocks, from, f
    <3>4. k \in Nat
      <4>1. from \in Int /\ n \in Int BY <2>2, <3>3
      <4>2. Min({from, n}) \in {from, n} BY <4>1, LesserGreater
      <4> QED BY <2>2, <3>3, <4>2
    <3> HIDE DEF k
    <3>5. \/ tables' = Resize(Disown(tables, blocks), f, n)
          \/ tables' = Disown(tables, blocks)
      BY <3>1
    <3> QED BY <3>2, <3>4, <3>5 DEF f
  <2> DEFINE kept == Disown(tables, blocks)
             f == fd_file_list[d]
  <2>4. f \in Files /\ tables \in TableShapes /\ OwnersExist(tables)
    BY <2>1 DEF OwnersInv, IsOpen, FsTruncate
  <2>5. /\ kept \in TableShapes /\ kept.file_free_list = tables.file_free_list
        /\ \A b \in Blocks : kept.block_belong_list[b]
             = IF b \in blocks THEN -1 ELSE tables.block_belong_list[b]
    BY <2>4, DisownShape
  <2> HIDE DEF kept, f
  <2>6. /\ Resize(kept, f, n) \in TableShapes
        /\ Resize(kept, f, n).block_belong_list = kept.block_belong_list
        /\ Resize(kept, f, n).file_free_list = kept.file_free_list
    <3>1. kept \in TableShapes /\ f \in Files BY <2>4, <2>5
    <3> QED BY <2>2, <3>1, ResizeShape
  <2>7. /\ tables' \in TableShapes /\ tables'.file_free_list = tables.file_free_list
        /\ tables'.block_belong_list = kept.block_belong_list
    <3>1. tables' = Resize(kept, f, n) \/ tables' = kept
      BY <2>3 DEF kept, f
    <3>2. CASE tables' = Resize(kept, f, n)
      BY <2>5, <2>6, <3>2
    <3>3. CASE tables' = kept
      BY <2>5, <3>3
    <3> QED BY <3>1, <3>2, <3>3
  <2>8. OwnersExist(tables')
    BY <2>4, <2>5, <2>7 DEF OwnersExist
  <2>9. UNCHANGED <<meta, fd_file_list>>
    BY <2>1 DEF FsTruncate, diskVars
  <2>10. OpenOnExisting'
    BY <2>7, <2>9 DEF OwnersInv, OpenOnExisting, IsOpen
  <2>11. /\ fd_seek_pointer_list' \in [Fds -> Nat \cup {-1}]
         /\ \A e \in Fds : IsOpen(e)' => fd_seek_pointer_list'[e] \in Nat
    BY <2>3, <2>9 DEF OwnersInv, IsOpen
  <2> QED BY <2>7, <2>8, <2>9, <2>10, <2>11 DEF OwnersInv
<1> QED BY <1>1, <1>2, <1>3

\* fs_write.
LEMMA WriteStepOwners ==
  ASSUME OwnersInv, NEW d \in Fds, NEW bytes \in Data, FsWrite(d, bytes)
  PROVE  OwnersInv'
<1> DEFINE after == IF Len(Gap(d)) > Cardinality(FreeBlocks(tables))
                    THEN AfterGapFull(d) ELSE AfterWrite(d, bytes)
<1>1. /\ IsOpen(d) /\ ~tables.file_free_list[FileOf(d)]
      /\ UNCHANGED <<meta, fd_file_list>>
      /\ tables' = after.tables
      /\ fd_seek_pointer_list' = [fd_seek_pointer_list EXCEPT ![d] = after.seek]
  BY DEF FsWrite, FileOf
<1>2. /\ after.tables \in TableShapes
      /\ OwnersExist(after.tables)
      /\ after.tables.file_free_list = tables.file_free_list
      /\ after.seek \in Nat
  BY <1>1, WriteOwners
<1> HIDE DEF after
<1>3. OpenOnExisting'
  BY <1>1, <1>2 DEF OwnersInv, OpenOnExisting, IsOpen
<1>4. /\ fd_seek_pointer_list' \in [Fds -> Nat \cup {-1}]
      /\ \A e \in Fds : IsOpen(e)' => fd_seek_pointer_list'[e] \in Nat
  BY <1>1, <1>2 DEF OwnersInv, IsOpen
<1> QED BY <1>1, <1>2, <1>3, <1>4 DEF OwnersInv

\* Every step of the file system keeps what refers to files on files that exist.
LEMMA StepOwnersInv ==
  ASSUME OwnersInv, [FsNext]_fsVars
  PROVE  OwnersInv'
<1>1. CASE MakeFs \/ MakeFsMounted \/ MountFs \/ UmountFs
  BY <1>1, MakeMountOwners
<1>2. CASE FsListfiles \/ FsGetFilesizeReturn \/ (\E d \in Fds : FsGetFilesize(d)) \/ UNCHANGED fsVars
  <2>1. UNCHANGED <<memVars, meta>>
    BY <1>2 DEF FsListfiles, FsGetFilesizeReturn, FsGetFilesize, fsVars, diskVars
  <2> QED BY <2>1, OwnersStay
<1>3. CASE \E n \in Names : FsCreate(n) \/ FsDelete(n)
  BY <1>3, CreateOwners, DeleteOwners
<1>4. CASE (\E n \in Names : FsOpen(n)) \/ (\E d \in Fds : FsClose(d))
  BY <1>4, OpenCloseOwners
<1>5. CASE \E d \in Fds : \/ \E n \in Lengths : FsRead(d, n)
                          \/ \E n \in Offsets : FsLseek(d, n) \/ FsTruncate(d, n)
  BY <1>5, SeekingOwners
<1>6. CASE \E d \in Fds : \E bytes \in Data : FsWrite(d, bytes)
  BY <1>6, WriteStepOwners
<1> QED BY <1>1, <1>2, <1>3, <1>4, <1>5, <1>6 DEF FsNext

\* It holds of the static arrays before the first mount.
LEMMA InitOwnersInv == FsInit => OwnersInv
<1> SUFFICES ASSUME FsInit PROVE OwnersInv
  OBVIOUS
<1>1. tables \in TableShapes
  BY NumberSets DEF FsInit, TableShapes
<1>2. OwnersExist(tables) /\ OpenOnExisting
  BY NumberSets DEF FsInit, OwnersExist, OpenOnExisting
<1>3. meta = NoTables
  BY DEF FsInit, DiskInit
<1>4. fd_file_list \in [Fds -> Files \cup {-1}] /\ fd_seek_pointer_list \in [Fds -> Nat \cup {-1}]
      /\ \A d \in Fds : fd_seek_pointer_list[d] \in Nat
  BY NumberSets DEF FsInit
<1> QED BY <1>1, <1>2, <1>3, <1>4 DEF OwnersInv

\* What refers to a file refers to one that exists, whatever clients do.
THEOREM OwnersInvariant == FsSpec => []OwnersInv
<1>1. OwnersInv /\ [FsNext]_fsVars => OwnersInv'
  BY StepOwnersInv
<1> QED BY <1>1, InitOwnersInv, PTL DEF FsSpec

\* A descriptor is open on a file that exists: fs_delete refuses open files and
\* mount_fs closes them all.
THEOREM OpenFilesExistHolds == FsSpec => []OpenFilesExist
<1>1. OwnersInv => OpenFilesExist
  BY DEF OwnersInv, OpenOnExisting, OpenFilesExist
<1> QED BY <1>1, OwnersInvariant, PTL

\* A block that is taken belongs to a file that exists, also after mounts of tables
\* that were saved in part only.
THEOREM BlocksBelongToFilesHolds == FsSpec => []BlocksBelongToFiles
<1>1. OwnersInv => BlocksBelongToFiles
  BY NumberSets DEF OwnersInv, OwnersExist, BlocksBelongToFiles
<1> QED BY <1>1, OwnersInvariant, PTL

-----------------------------------------------------------------------------
(* Types.  A file keeps its size over umount_fs only when it fits a char:   *)
(* clients unmount when all of them do.                                     *)

Unmounts == {"small_files", "low_blocks"} \subseteq Care

Saveable(tb) == SmallFiles(tb) /\ LowBlocks(tb)

Numbered(tb) ==
  /\ tb.block_page_number \in [Blocks -> Nat \cup {-1}]
  /\ tb.file_size_list \in [Files -> -1 .. MaxSize]
  /\ \A f \in Files : tb.file_free_list[f] => tb.file_size_list[f] = -1

DiskBytes == [DataBlocks -> [0 .. BLOCK_SIZE - 1 -> Nat]]

\* The numbers in the tables in memory, and in those the next mount would load.
FsTypeInv ==
  /\ OwnersInv
  /\ active \in BOOLEAN
  /\ data \in DiskBytes
  /\ Numbered(tables)
  /\ meta # NoTables => Numbered(Loaded(meta))
  /\ asked \in [fd : Fds, file : Files] \cup {Nobody}

\* The invariant gives the types.
LEMMA FsTypeInvTypes == FsTypeInv => FsTypeOK
<1> SUFFICES ASSUME FsTypeInv PROVE FsTypeOK
  OBVIOUS
<1>1. tables \in Tables
  BY DEF FsTypeInv, OwnersInv, TableShapes, Tables, Numbered
<1> QED BY <1>1 DEF FsTypeInv, FsTypeOK, DiskBytes, OwnersInv

\* A size that fits a char is saved as it is.
LEMMA CharOfKeeps ==
  ASSUME NEW k \in Int, -1 <= k, k < CharHalf
  PROVE  CharOf(k) = k
<1>1. CharHalf \in Nat \ {0}
  BY SizesAssumption
<1>2. k + CharHalf \in Nat /\ k + CharHalf < 2 * CharHalf
  BY <1>1
<1>3. (k + CharHalf) % (2 * CharHalf) = k + CharHalf
  BY <1>1, <1>2, SMT
<1> QED BY <1>1, <1>3 DEF CharOf

\* The bytes on the disk after a write.
LEMMA WriteData ==
  ASSUME OwnersInv, data \in DiskBytes, NEW d \in Fds, IsOpen(d), NEW bytes \in Data
  PROVE  AfterWrite(d, bytes).data \in DiskBytes
<1> DEFINE f     == FileOf(d)
           from  == fd_seek_pointer_list[d]
           first == FirstPage(d)
           last  == LastPage(d, bytes)
           end   == End(d, bytes)
           Old(b, p) == IF BlockOf(Grown(d), f, p) = NoBlock THEN Cleared(b) ELSE data[b]
           New(b, p) ==
             [i \in 0 .. BLOCK_SIZE - 1 |->
                IF p * BLOCK_SIZE + i \in from .. end - 1
                THEN bytes[(p * BLOCK_SIZE + i) - from + 1] ELSE Old(b, p)[i]]
           Wrote(p) == p \in first .. last /\ (Short(d, bytes) => p * BLOCK_SIZE < end)
           page(b) == Written(d, bytes).block_page_number[b]
           Here(b) == Wrote(page(b)) /\ BlockOf(Written(d, bytes), f, page(b)) = b
<1>1. AfterWrite(d, bytes).data
        = [b \in DataBlocks |-> IF Here(b) THEN New(b, page(b)) ELSE data[b]]
  BY DEF AfterWrite, FileOf, FirstPage, LastPage, Grown, Missing, NewPages, Room,
         Short, End, Written
<1>2. /\ from \in Nat /\ Len(bytes) \in Nat /\ first \in Nat /\ last \in Nat
      /\ end \in Nat /\ end <= from + Len(bytes)
      /\ bytes \in Seq(Nat) /\ BLOCK_SIZE \in Nat \ {0}
  BY WritePieces, ArgumentsAssumption, NumberSets
<1>3. \A b \in DataBlocks : \A p : Old(b, p) \in [0 .. BLOCK_SIZE - 1 -> Nat]
  BY DEF DiskBytes, Cleared, ZeroBlock
<1> HIDE DEF Old, first, last, from, end
<1>4. \A b \in DataBlocks : \A p \in first .. last :
        New(b, p) \in [0 .. BLOCK_SIZE - 1 -> Nat]
  <2> SUFFICES ASSUME NEW b \in DataBlocks, NEW p \in first .. last,
                      NEW i \in 0 .. BLOCK_SIZE - 1
               PROVE  New(b, p)[i] \in Nat
    OBVIOUS
  <2> DEFINE at == p * BLOCK_SIZE + i
  <2>1. at \in Int BY <1>2
  <2>2. New(b, p)[i] = IF at \in from .. end - 1 THEN bytes[at - from + 1] ELSE Old(b, p)[i]
    OBVIOUS
  <2> HIDE DEF at
  <2>3. CASE at \in from .. end - 1
    <3>1. at - from + 1 \in 1 .. Len(bytes) BY <1>2, <2>1, <2>3
    <3>2. bytes[at - from + 1] \in Nat BY <1>2, <3>1
    <3> QED BY <2>2, <2>3, <3>2
  <2>4. CASE at \notin from .. end - 1
    <3>1. Old(b, p)[i] \in Nat BY <1>3
    <3> QED BY <2>2, <2>4, <3>1
  <2> QED BY <2>3, <2>4
<1>5. \A b \in DataBlocks : Here(b) => page(b) \in first .. last
  OBVIOUS
<1>6. \A b \in DataBlocks : data[b] \in [0 .. BLOCK_SIZE - 1 -> Nat]
  BY DEF DiskBytes
<1> HIDE DEF Here, New, page
<1>7. \A b \in DataBlocks :
        (IF Here(b) THEN New(b, page(b)) ELSE data[b]) \in [0 .. BLOCK_SIZE - 1 -> Nat]
  BY <1>4, <1>5, <1>6
<1> QED BY <1>1, <1>7 DEF DiskBytes

\* The numbers in the tables after a write.
LEMMA WriteNumbers ==
  ASSUME FsTypeInv, NEW d \in Fds, IsOpen(d), ~tables.file_free_list[FileOf(d)],
         NEW bytes \in Data, fd_seek_pointer_list[d] + Len(bytes) <= MaxSize,
         NEW after, after = IF Len(Gap(d)) > Cardinality(FreeBlocks(tables))
                            THEN AfterGapFull(d) ELSE AfterWrite(d, bytes)
  PROVE  Numbered(after.tables) /\ after.data \in DiskBytes
<1> DEFINE f     == FileOf(d)
           P     == Nat \cup {-1}
           grown == Grown(d)
           from  == fd_seek_pointer_list[d]
<1>1. /\ OwnersInv /\ f \in Files /\ tables \in TableShapes /\ Numbered(tables)
      /\ ~tables.file_free_list[f] /\ d \in Files
  BY NumberSets DEF FsTypeInv, OwnersInv, FileOf, IsOpen
<1>2. P \in SUBSET Int /\ tables.block_page_number \in [Blocks -> P]
  BY <1>1 DEF Numbered
<1>3. PICK n \in Nat :
        /\ Len(Gap(d)) = n /\ Gap(d) \in [1 .. n -> Nat]
        /\ \A i \in 1 .. n : Gap(d)[i] <= FirstPage(d)
  <2>1. tables.file_size_list[d] >= -1
    BY <1>1, SizesAssumption DEF Numbered
  <2> QED BY <1>1, <2>1, GapShape
<1>4. Gap(d) \in [1 .. n -> P]
  BY <1>3
<1>5. /\ grown \in TableShapes /\ grown.block_page_number \in [Blocks -> P]
      /\ grown.file_free_list = tables.file_free_list
      /\ grown.file_size_list = tables.file_size_list
  <2>1. grown = Claim(tables, f, Gap(d)) BY DEF Grown
  <2> HIDE DEF f, P, grown
  <2>2. f \in Files /\ tables \in TableShapes BY <1>1
  <2> QED BY <1>2, <1>4, <2>1, <2>2, ClaimShape
<1>6. \* A table whose file f gets a new size.
      ASSUME NEW t \in TableShapes, t.block_page_number \in [Blocks -> P],
             t.file_free_list = tables.file_free_list,
             t.file_size_list = tables.file_size_list,
             NEW k \in 0 .. MaxSize
      PROVE  Numbered(Resize(t, f, k))
  <2>1. k \in Int /\ f \in Files BY <1>1, SizesAssumption
  <2>2. /\ Resize(t, f, k).block_page_number = t.block_page_number
        /\ Resize(t, f, k).file_free_list = t.file_free_list
        /\ Resize(t, f, k).file_size_list = [t.file_size_list EXCEPT ![f] = k]
    <3> HIDE DEF f
    <3> QED BY <2>1, <1>6, ResizeShape
  <2> DEFINE r == Resize(t, f, k)
  <2> HIDE DEF r, f
  <2>3. r.block_page_number \in [Blocks -> P] BY <1>6, <2>2 DEF r
  <2>4. r.file_size_list \in [Files -> -1 .. MaxSize]
    BY <1>1, <1>6, <2>2, SizesAssumption DEF r, Numbered
  <2>5. \A g \in Files : r.file_free_list[g] => r.file_size_list[g] = -1
    BY <1>1, <1>6, <2>2 DEF r, Numbered
  <2> QED BY <2>3, <2>4, <2>5 DEF Numbered, r
<1>7. /\ from \in Nat /\ Len(bytes) \in Nat /\ FirstPage(d) \in Nat
      /\ FirstPage(d) * BLOCK_SIZE <= from /\ BLOCK_SIZE \in Nat \ {0}
  <2>1. from \in Nat /\ Len(bytes) \in Nat /\ BLOCK_SIZE \in Nat \ {0}
    BY <1>1, WritePieces, NumberSets
  <2> QED BY <2>1, Division DEF FirstPage
<1>8. CASE Len(Gap(d)) > Cardinality(FreeBlocks(tables))
  <2> DEFINE p == Gap(d)[Cardinality(FreeBlocks(tables)) + 1]
             k == p * BLOCK_SIZE
  <2>1. p \in Nat /\ p <= FirstPage(d)
    <3>1. Cardinality(FreeBlocks(tables)) + 1 \in 1 .. n
      BY <1>3, <1>8, FreeBlocksCount
    <3> QED BY <1>3, <3>1
  <2>2. after.tables = Resize(grown, f, k) /\ after.data = data
    BY <1>8 DEF AfterGapFull, Grown, FileOf
  <2>3. k \in 0 .. MaxSize
    <3> HIDE DEF p, from
    <3>1. k \in Nat BY <1>7, <2>1
    <3>2. k <= FirstPage(d) * BLOCK_SIZE BY <1>7, <2>1, SMT
    <3>3. from <= MaxSize BY <1>7, SizesAssumption DEF from
    <3> QED BY <1>7, <3>1, <3>2, <3>3, SizesAssumption
  <2> HIDE DEF k, grown, f, P
  <2>4. Numbered(Resize(grown, f, k)) BY <1>5, <1>6, <2>3
  <2> QED BY <2>2, <2>4 DEF FsTypeInv
<1>9. CASE ~(Len(Gap(d)) > Cardinality(FreeBlocks(tables)))
  <2> DEFINE full == Written(d, bytes)
             k == End(d, bytes)
  <2>1. PICK m \in Nat : NewPages(d, bytes) \in [1 .. m -> Missing(d, bytes)]
    BY <1>1, WritePieces
  <2>2. k \in 0 .. MaxSize
    BY SMTT(30), <1>1, <1>7, WritePieces, SizesAssumption
  <2>3. NewPages(d, bytes) \in [1 .. m -> P]
    <3>1. Missing(d, bytes) \subseteq Nat
      BY <1>7 DEF Missing
    <3> QED BY <2>1, <3>1
  <2>4. after.tables = Resize(full, f, k) /\ after.data = AfterWrite(d, bytes).data
    BY <1>9, AfterWriteParts
  <2>5. /\ full \in TableShapes /\ full.block_page_number \in [Blocks -> P]
        /\ full.file_free_list = grown.file_free_list
        /\ full.file_size_list = grown.file_size_list
    <3>1. full = Claim(grown, f, NewPages(d, bytes)) BY DEF Written
    <3> HIDE DEF f, P, grown, full
    <3>2. f \in Files /\ grown \in TableShapes BY <1>1, <1>5
    <3>3. grown.block_page_number \in [Blocks -> P] BY <1>5
    <3> QED BY ZenonT(30), <1>2, <2>3, <3>1, <3>2, <3>3, ClaimShape
  <2> HIDE DEF full, grown, f, k, P
  <2>6. Numbered(Resize(full, f, k))
    <3>1. /\ full \in TableShapes /\ full.block_page_number \in [Blocks -> P]
          /\ full.file_free_list = tables.file_free_list
          /\ full.file_size_list = tables.file_size_list
      BY <1>5, <2>5
    <3> QED BY <1>6, <2>2, <3>1
  <2>7. after.data \in DiskBytes
    BY <2>4, <1>1, WriteData DEF FsTypeInv
  <2> QED BY <2>4, <2>6, <2>7
<1> QED BY <1>8, <1>9

\* What mount_fs reads after make_fs is numbered.
LEMMA FreshNumbers == Numbered(Loaded(FreshTables))
<1>1. FreshTables.pages \in [Blocks -> Nat \cup {-1}]
  BY DEF FreshTables
<1>2. FreshTables.sizes \in [Files -> -1 .. MaxSize]
  BY SizesAssumption DEF FreshTables
<1>3. \A f \in Files : FreshTables.sizes[f] = -1
  BY DEF FreshTables
<1> QED BY <1>1, <1>2, <1>3 DEF Loaded, Numbered

\* After umount_fs so is what mount_fs reads, with the sizes there were, when every
\* size fits a char.
LEMMA SavedNumbers ==
  ASSUME NEW tb \in TableShapes, Numbered(tb),
         \A f \in Files : ~tb.file_free_list[f] => tb.file_size_list[f] < CharHalf
  PROVE  /\ Numbered(Loaded(Saved(tb)))
         /\ \A f \in Files : Loaded(Saved(tb)).file_size_list[f] = tb.file_size_list[f]
<1> DEFINE ld == Loaded(Saved(tb))
<1>1. /\ ld \in TableShapes
      /\ \A b \in Blocks : ld.block_page_number[b]
           = IF tb.block_page_number[b] = -1 THEN 255 ELSE tb.block_page_number[b]
      /\ ld.file_free_list = tb.file_free_list
      /\ ld.file_size_list = [f \in Files |-> CharOf(tb.file_size_list[f])]
  BY SavedLoads
<1> HIDE DEF ld
<1>2. \A f \in Files : CharOf(tb.file_size_list[f]) = tb.file_size_list[f]
  <2> SUFFICES ASSUME NEW f \in Files PROVE CharOf(tb.file_size_list[f]) = tb.file_size_list[f]
    OBVIOUS
  <2> DEFINE k == tb.file_size_list[f]
  <2>1. k \in -1 .. MaxSize BY DEF Numbered
  <2>2. k < CharHalf BY SizesAssumption DEF Numbered
  <2> HIDE DEF k
  <2>3. k \in Int /\ -1 <= k BY <2>1, SizesAssumption
  <2>4. CharOf(k) = k BY <2>2, <2>3, CharOfKeeps
  <2> QED BY <2>4 DEF k
<1>3. ld.block_page_number \in [Blocks -> Nat \cup {-1}]
  <2>1. ld.block_page_number \in [Blocks -> Int] BY <1>1 DEF TableShapes
  <2> QED BY <1>1, <2>1 DEF Numbered
<1>4. \A f \in Files : ld.file_size_list[f] = tb.file_size_list[f]
  BY <1>1, <1>2
<1>5. ld.file_size_list \in [Files -> -1 .. MaxSize]
  <2>1. ld.file_size_list \in [Files -> Int] BY <1>1 DEF TableShapes
  <2> QED BY <1>4, <2>1 DEF Numbered
<1>6. \A f \in Files : ld.file_free_list[f] => ld.file_size_list[f] = -1
  BY <1>1, <1>4 DEF Numbered
<1> QED BY <1>3, <1>4, <1>5, <1>6 DEF Numbered, ld

\* Calls that leave the tables, the disk and the question of fs_get_filesize alone,
\* or answer it.
LEMMA NumbersStay ==
  ASSUME FsTypeInv, OwnersInv', UNCHANGED <<tables, diskVars>>,
         \/ asked' = asked \/ asked' = Nobody
         \/ \E d \in Fds : IsOpen(d) /\ asked' = [fd |-> d, file |-> fd_file_list[d]]
  PROVE  FsTypeInv'
<1>1. asked' \in [fd : Fds, file : Files] \cup {Nobody}
  <2>1. ASSUME NEW d \in Fds, IsOpen(d), asked' = [fd |-> d, file |-> fd_file_list[d]]
        PROVE  asked' \in [fd : Fds, file : Files]
    <3>1. fd_file_list[d] \in Files BY <2>1 DEF FsTypeInv, OwnersInv, IsOpen
    <3> QED BY <2>1, <3>1
  <2> QED BY <2>1 DEF FsTypeInv
<1> QED BY <1>1 DEF FsTypeInv, diskVars

\* make_fs, mount_fs and umount_fs.
LEMMA MakeMountNumbers ==
  ASSUME Unmounts, FsTypeInv, OwnersInv', MakeFs \/ MakeFsMounted \/ MountFs \/ UmountFs
  PROVE  FsTypeInv'
<1>0. [b \in DataBlocks |-> ZeroBlock] \in DiskBytes
  BY DEF DiskBytes, ZeroBlock
<1>1. CASE MakeFs
  <2>1. UNCHANGED <<memVars, active, asked>> /\ meta' = FreshTables
        /\ data' = [b \in DataBlocks |-> ZeroBlock]
    BY <1>1 DEF MakeFs, MakeDisk
  <2>2. Numbered(Loaded(meta'))
    BY <2>1, FreshNumbers
  <2> QED BY <1>0, <2>1, <2>2 DEF FsTypeInv, memVars
<1>2. CASE MakeFsMounted
  <2>1. UNCHANGED <<memVars, active, asked>> /\ meta' = NoTables
        /\ data' = [b \in DataBlocks |-> ZeroBlock]
    BY <1>2 DEF MakeFsMounted, MakeDisk
  <2> QED BY <1>0, <2>1 DEF FsTypeInv, memVars
<1>3. CASE MountFs
  <2>1. /\ meta # NoTables /\ tables' = Loaded(meta) /\ active' = TRUE
        /\ UNCHANGED <<meta, data, asked>>
    BY <1>3 DEF MountFs, OpenDisk
  <2> QED BY <2>1 DEF FsTypeInv
<1>4. CASE UmountFs
  <2>1. /\ meta' = Saved(tables) /\ active' = FALSE /\ Saveable(tables)
        /\ UNCHANGED <<memVars, data, asked>>
    BY <1>4 DEF UmountFs, CloseDisk, Keeps, Unmounts, Saveable
  <2>2. Numbered(Loaded(Saved(tables)))
    <3>1. tables \in TableShapes /\ Numbered(tables)
      BY DEF FsTypeInv, OwnersInv
    <3>2. \A f \in Files : ~tables.file_free_list[f] => tables.file_size_list[f] < CharHalf
      BY <2>1 DEF Saveable, SmallFiles, LowBlocks
    <3> QED BY <3>1, <3>2, SavedNumbers
  <2> QED BY <2>1, <2>2 DEF FsTypeInv, memVars
<1> QED BY <1>1, <1>2, <1>3, <1>4

\* fs_create and fs_delete.
LEMMA CreateDeleteNumbers ==
  ASSUME FsTypeInv, OwnersInv', NEW n \in Names, FsCreate(n) \/ FsDelete(n)
  PROVE  FsTypeInv'
<1>1. OwnersInv /\ tables \in TableShapes /\ Numbered(tables)
  BY DEF FsTypeInv, OwnersInv
<1>2. CASE FsCreate(n)
  <2> DEFINE f == Min(FreeFiles(tables))
             t == NewEntry(tables, f, n)
  <2>1. f \in Files BY <1>1, <1>2, FoundFiles DEF FsCreate
  <2>2. tables' = t /\ UNCHANGED <<diskVars, asked>>
    BY <1>2 DEF FsCreate, NewEntry
  <2> HIDE DEF f
  <2>3. /\ t.block_page_number = tables.block_page_number
        /\ t.file_free_list = [tables.file_free_list EXCEPT ![f] = FALSE]
        /\ t.file_size_list = [tables.file_size_list EXCEPT ![f] = 0]
    BY <1>1, <2>1, NewEntryShape
  <2> HIDE DEF t
  <2>4. Numbered(t)
    BY <1>1, <2>1, <2>3, SizesAssumption DEF Numbered, TableShapes
  <2> QED BY <2>2, <2>4 DEF FsTypeInv, diskVars
<1>3. CASE FsDelete(n)
  <2> DEFINE f == FileNamed(n)
             kept == Disown(tables, BlocksOwned(f))
             t == ClearedEntry(kept, f)
  <2>1. f \in Files BY <1>1, <1>3, FoundFiles DEF FsDelete
  <2>2. tables' = t /\ UNCHANGED <<diskVars, asked>>
    BY <1>3 DEF FsDelete, ClearedEntry
  <2>3. /\ kept \in TableShapes /\ kept.file_free_list = tables.file_free_list
        /\ kept.file_size_list = tables.file_size_list
        /\ \A b \in Blocks : kept.block_page_number[b]
             = IF b \in BlocksOwned(f) THEN -1 ELSE tables.block_page_number[b]
    BY <1>1, DisownShape
  <2> HIDE DEF f, kept
  <2>4. /\ t.block_page_number = kept.block_page_number
        /\ t.file_free_list = [kept.file_free_list EXCEPT ![f] = TRUE]
        /\ t.file_size_list = [kept.file_size_list EXCEPT ![f] = -1]
    BY <2>1, <2>3, ClearedEntryShape
  <2> HIDE DEF t
  <2>5. kept.block_page_number \in [Blocks -> Nat \cup {-1}]
    <3>1. kept.block_page_number \in [Blocks -> Int] BY <2>3 DEF TableShapes
    <3> QED BY <1>1, <2>3, <3>1 DEF Numbered
  <2>6. /\ t.file_size_list \in [Files -> -1 .. MaxSize]
        /\ \A g \in Files : t.file_free_list[g] => t.file_size_list[g] = -1
    BY <1>1, <2>1, <2>3, <2>4, SizesAssumption DEF Numbered, TableShapes
  <2>7. Numbered(t)
    BY <2>4, <2>5, <2>6 DEF Numbered
  <2> QED BY <2>2, <2>7 DEF FsTypeInv, diskVars
<1> QED BY <1>2, <1>3

\* fs_write.
LEMMA WriteStepNumbers ==
  ASSUME FsTypeInv, OwnersInv', NEW d \in Fds, NEW bytes \in Data, FsWrite(d, bytes)
  PROVE  FsTypeInv'
<1> DEFINE after == IF Len(Gap(d)) > Cardinality(FreeBlocks(tables))
                    THEN AfterGapFull(d) ELSE AfterWrite(d, bytes)
<1>1. /\ IsOpen(d) /\ ~tables.file_free_list[FileOf(d)]
      /\ fd_seek_pointer_list[d] + Len(bytes) <= MaxSize
      /\ UNCHANGED <<active, meta, asked>>
      /\ tables' = after.tables /\ data' = after.data
  BY DEF FsWrite, FileOf
<1>2. Numbered(after.tables) /\ after.data \in DiskBytes
  BY <1>1, WriteNumbers
<1> HIDE DEF after
<1> QED BY <1>1, <1>2 DEF FsTypeInv

\* fs_truncate.
LEMMA TruncateNumbers ==
  ASSUME FsTypeInv, OwnersInv', NEW d \in Fds, NEW n \in Offsets, FsTruncate(d, n)
  PROVE  FsTypeInv'
<1> DEFINE f       == fd_file_list[d]
           pages   == PageCount(n) .. PageCount(tables.file_size_list[f]) - 1
           missing == {p \in pages : BlockOf(tables, f, p) = NoBlock}
           given   == {p \in pages : \A m \in missing : p > m}
           blocks  == {BlockOf(tables, f, p) : p \in given}
           kept    == Disown(tables, blocks)
<1>1. /\ OwnersInv /\ tables \in TableShapes /\ Numbered(tables) /\ f \in Files
      /\ ~tables.file_free_list[f]
  BY DEF FsTypeInv, OwnersInv, FsTruncate, IsOpen, OpenOnExisting
<1>2. /\ tables' = IF missing = {} THEN Resize(kept, f, n) ELSE kept
      /\ UNCHANGED <<diskVars, asked>>
      /\ n <= tables.file_size_list[f]
  BY DEF FsTruncate, InFile
<1>3. n \in 0 .. MaxSize
  <2>1. n \in Nat BY ArgumentsAssumption
  <2>2. tables.file_size_list[f] \in -1 .. MaxSize BY <1>1 DEF Numbered
  <2> QED BY <1>2, <2>1, <2>2, SizesAssumption
<1> HIDE DEF missing, blocks
<1>4. /\ kept \in TableShapes /\ kept.file_free_list = tables.file_free_list
      /\ kept.file_size_list = tables.file_size_list
      /\ \A b \in Blocks : kept.block_page_number[b]
           = IF b \in blocks THEN -1 ELSE tables.block_page_number[b]
  BY <1>1, DisownShape
<1> HIDE DEF kept, f
<1>5. kept.block_page_number \in [Blocks -> Nat \cup {-1}]
  <2>1. kept.block_page_number \in [Blocks -> Int] BY <1>4 DEF TableShapes
  <2> QED BY <1>1, <1>4, <2>1 DEF Numbered
<1>6. Numbered(kept)
  BY <1>1, <1>4, <1>5 DEF Numbered
<1>7. Numbered(Resize(kept, f, n))
  <2> DEFINE r == Resize(kept, f, n)
  <2>1. n \in Int /\ kept \in TableShapes /\ f \in Files BY <1>1, <1>3, <1>4, SizesAssumption
  <2>2. /\ r.block_page_number = kept.block_page_number
        /\ r.file_free_list = kept.file_free_list
        /\ r.file_size_list = [kept.file_size_list EXCEPT ![f] = n]
    BY <2>1, ResizeShape
  <2> HIDE DEF r
  <2>3. r.file_size_list \in [Files -> -1 .. MaxSize]
    <3>1. n \in -1 .. MaxSize BY <1>3, SizesAssumption
    <3>2. kept.file_size_list \in [Files -> -1 .. MaxSize] BY <1>6 DEF Numbered
    <3> QED BY <2>2, <3>1, <3>2
  <2>4. \A g \in Files : r.file_free_list[g] => r.file_size_list[g] = -1
    BY <1>1, <1>4, <1>6, <2>2 DEF Numbered
  <2>5. Numbered(r)
    BY <1>5, <2>2, <2>3, <2>4 DEF Numbered
  <2> QED BY <2>5 DEF r
<1>8. Numbered(tables')
  BY <1>2, <1>6, <1>7
<1> QED BY <1>2, <1>8 DEF FsTypeInv, diskVars

\* Every step keeps the types.
LEMMA StepFsTypeInv ==
  ASSUME Unmounts, FsTypeInv, [FsNext]_fsVars
  PROVE  FsTypeInv'
<1>0. OwnersInv'
  BY StepOwnersInv DEF FsTypeInv
<1>1. CASE MakeFs \/ MakeFsMounted \/ MountFs \/ UmountFs
  BY <1>0, <1>1, MakeMountNumbers
<1>2. CASE \/ FsListfiles \/ FsGetFilesizeReturn \/ UNCHANGED fsVars
           \/ \E n \in Names : FsOpen(n)
           \/ \E d \in Fds : \/ FsClose(d) \/ FsGetFilesize(d)
                             \/ \E n \in Lengths : FsRead(d, n)
                             \/ \E n \in Offsets : FsLseek(d, n)
  <2>1. /\ UNCHANGED <<tables, diskVars>>
        /\ \/ asked' = asked \/ asked' = Nobody
           \/ \E d \in Fds : IsOpen(d) /\ asked' = [fd |-> d, file |-> fd_file_list[d]]
    BY <1>2 DEF FsListfiles, FsGetFilesizeReturn, fsVars, memVars, FsOpen, FsClose,
                FsGetFilesize, FsRead, FsLseek
  <2> QED BY <1>0, <2>1, NumbersStay
<1>3. CASE \E n \in Names : FsCreate(n) \/ FsDelete(n)
  BY <1>0, <1>3, CreateDeleteNumbers
<1>4. CASE \E d \in Fds : \E bytes \in Data : FsWrite(d, bytes)
  BY <1>0, <1>4, WriteStepNumbers
<1>5. CASE \E d \in Fds : \E n \in Offsets : FsTruncate(d, n)
  BY <1>0, <1>5, TruncateNumbers
<1> QED BY <1>1, <1>2, <1>3, <1>4, <1>5 DEF FsNext

\* It holds of the static arrays before the first mount.
LEMMA InitFsTypeInv == FsInit => FsTypeInv
<1> SUFFICES ASSUME FsInit PROVE FsTypeInv
  OBVIOUS
<1>1. OwnersInv BY InitOwnersInv
<1>2. Numbered(tables)
  BY SizesAssumption DEF FsInit, Numbered
<1>3. data \in DiskBytes
  BY DEF FsInit, DiskInit, DiskBytes, ZeroBlock
<1>4. meta = NoTables /\ active = FALSE /\ asked = Nobody
  BY DEF FsInit, DiskInit
<1> QED BY <1>1, <1>2, <1>3, <1>4 DEF FsTypeInv

\* The numbers in the tables, in memory and on the disk, are in range.
THEOREM FsTypeInvariant ==
  ASSUME Unmounts
  PROVE  FsSpec => []FsTypeInv
<1>1. FsTypeInv /\ [FsNext]_fsVars => FsTypeInv'
  BY StepFsTypeInv
<1> QED BY <1>1, InitFsTypeInv, PTL DEF FsSpec

\* The tables, descriptors, pointers and bytes have their types when clients unmount
\* only while every size fits the byte it is saved in: a longer one comes back as
\* another number, less than any size.
THEOREM FsTypeCorrect ==
  ASSUME Unmounts
  PROVE  FsSpec => []FsTypeOK
BY FsTypeInvariant, FsTypeInvTypes, PTL

-----------------------------------------------------------------------------
(* Seek pointers.  Clients open files in the order of their numbers, so that *)
(* a descriptor has the number of its file, do not read at the end of a file *)
(* and unmount when the tables can be saved.                                 *)

KnowTheLimits ==
  {"in_order", "not_at_end", "small_files", "low_blocks"} \subseteq Care

\* Every page of every file, up to its size, has a block.
Whole(tb) ==
  \A f \in Files : ~tb.file_free_list[f] =>
    /\ tb.file_size_list[f] >= 0
    /\ \A p \in Nat : p * BLOCK_SIZE < tb.file_size_list[f] => BlocksOf(tb, f, p) # {}

InOrder == \A d \in Fds : IsOpen(d) => fd_file_list[d] = d

PointersInside ==
  \A d \in Fds : IsOpen(d) =>
    fd_seek_pointer_list[d] <= tables.file_size_list[fd_file_list[d]]

SeekInv ==
  /\ FsTypeInv
  /\ active => InOrder
  /\ Whole(tables)
  /\ meta # NoTables => Whole(Loaded(meta))
  /\ PointersInside

\* The block of a page that has one.
LEMMA BlockOfPresent ==
  ASSUME NEW tb, NEW f, NEW p
  PROVE  /\ BlocksOf(tb, f, p) # {} => BlockOf(tb, f, p) \in BlocksOf(tb, f, p)
         /\ BlocksOf(tb, f, p) = {} <=> BlockOf(tb, f, p) = NoBlock
<1>1. BlocksOf(tb, f, p) \in SUBSET Nat
  BY NumberSets DEF BlocksOf
<1>2. BlocksOf(tb, f, p) # {} => Min(BlocksOf(tb, f, p)) \in BlocksOf(tb, f, p)
  BY <1>1, LeastNatural
<1>3. NoBlock \notin Nat
  BY DEF NoBlock
<1> QED BY <1>1, <1>2, <1>3 DEF BlockOf

\* Claim takes free blocks only, and gives one to each of the first pages.
LEMMA ClaimPlaces ==
  ASSUME NEW tb \in TableShapes, NEW f \in Files, NEW n \in Nat, NEW pages \in [1 .. n -> Int]
  PROVE  /\ \A b \in Blocks :
              (n = 0 \/ b \notin FreeBlocks(tb)) =>
                /\ Claim(tb, f, pages).block_belong_list[b] = tb.block_belong_list[b]
                /\ Claim(tb, f, pages).block_page_number[b] = tb.block_page_number[b]
         /\ \A i \in 1 .. n : i <= Cardinality(FreeBlocks(tb)) =>
              \E b \in FreeBlocks(tb) :
                /\ Claim(tb, f, pages).block_belong_list[b] = f
                /\ Claim(tb, f, pages).block_page_number[b] = pages[i]
<1> DEFINE k       == Cardinality(FreeBlocks(tb))
           free    == Ascending(FreeBlocks(tb))
           turns   == DOMAIN free \cap DOMAIN pages
           got     == {free[i] : i \in turns}
           turn(b) == CHOOSE i \in turns : free[i] = b
           page(b) == pages[turn(b)]
           owners  == [b \in Blocks |-> IF b \in got THEN f ELSE tb.block_belong_list[b]]
           nums    == [b \in Blocks |-> IF b \in got THEN page(b) ELSE tb.block_page_number[b]]
           C == Claim(tb, f, pages)
<1>1. C = [tb EXCEPT !.block_belong_list = owners, !.block_page_number = nums]
  BY DEF Claim, TableShapes
<1>2. FreeBlocks(tb) \in SUBSET Nat /\ FreeBlocks(tb) \in SUBSET Blocks
      /\ IsFiniteSet(FreeBlocks(tb)) /\ k \in Nat
  BY FreeBlocksCount
<1>3. free \in [1 .. k -> FreeBlocks(tb)]
      /\ \A i, j \in 1 .. k : free[i] = free[j] => i = j
  BY <1>2, AscendingLists
<1> HIDE DEF k, free
<1>4. turns = 1 .. k \cap 1 .. n
  BY <1>3
<1>5. got \subseteq FreeBlocks(tb) /\ (n = 0 => got = {})
  BY <1>3, <1>4
<1>6. ASSUME NEW i \in 1 .. n, i <= k
      PROVE  free[i] \in FreeBlocks(tb) /\ free[i] \in got /\ page(free[i]) = pages[i]
  <2>1. i \in 1 .. k /\ i \in turns BY <1>2, <1>4, <1>6
  <2>2. turn(free[i]) \in turns /\ free[turn(free[i])] = free[i]
    BY <2>1
  <2>3. turn(free[i]) = i
    <3> HIDE DEF turn
    <3> QED BY <1>3, <1>4, <2>1, <2>2
  <2> QED BY <1>3, <2>1, <2>3
<1> HIDE DEF got, page, C
<1>7. \A b \in Blocks : b \notin got =>
        owners[b] = tb.block_belong_list[b] /\ nums[b] = tb.block_page_number[b]
  OBVIOUS
<1>8. \A b \in Blocks : b \in got => owners[b] = f /\ nums[b] = page(b)
  OBVIOUS
<1> HIDE DEF owners, nums
<1>9. C.block_belong_list = owners /\ C.block_page_number = nums
  BY <1>1 DEF TableShapes
<1>10. \A b \in Blocks : (n = 0 \/ b \notin FreeBlocks(tb)) =>
         /\ C.block_belong_list[b] = tb.block_belong_list[b]
         /\ C.block_page_number[b] = tb.block_page_number[b]
  BY <1>5, <1>7, <1>9
<1>11. \A i \in 1 .. n : i <= k =>
         \E b \in FreeBlocks(tb) :
           C.block_belong_list[b] = f /\ C.block_page_number[b] = pages[i]
  <2> SUFFICES ASSUME NEW i \in 1 .. n, i <= k
               PROVE  \E b \in FreeBlocks(tb) :
                        C.block_belong_list[b] = f /\ C.block_page_number[b] = pages[i]
    OBVIOUS
  <2>1. free[i] \in Blocks /\ free[i] \in FreeBlocks(tb) /\ free[i] \in got
        /\ page(free[i]) = pages[i]
    BY <1>2, <1>6
  <2>2. C.block_belong_list[free[i]] = f /\ C.block_page_number[free[i]] = pages[i]
    BY <1>8, <1>9, <2>1
  <2> QED BY <2>1, <2>2
<1> QED BY <1>10, <1>11 DEF C, k

\* The file of a descriptor has its number, and there is no gap to fill.
LEMMA NoGap ==
  ASSUME SeekInv, active, NEW d \in Fds, IsOpen(d)
  PROVE  /\ fd_file_list[d] = d /\ FileOf(d) = d /\ d \in Files
         /\ ~tables.file_free_list[d]
         /\ fd_seek_pointer_list[d] \in Nat
         /\ tables.file_size_list[d] \in 0 .. MaxSize
         /\ fd_seek_pointer_list[d] <= tables.file_size_list[d]
         /\ Len(Gap(d)) = 0 /\ Gap(d) \in [1 .. 0 -> Int]
<1> DEFINE from == fd_seek_pointer_list[d]
           size == tables.file_size_list[d]
<1>1. fd_file_list[d] = d /\ FileOf(d) = d /\ d \in Files
  BY NumberSets DEF SeekInv, InOrder, FileOf
<1>2. ~tables.file_free_list[d]
  BY <1>1 DEF SeekInv, FsTypeInv, OwnersInv, OpenOnExisting
<1>3. from \in Nat
  BY DEF SeekInv, FsTypeInv, OwnersInv
<1>4. size \in 0 .. MaxSize /\ from <= size
  <2>1. size \in -1 .. MaxSize
    BY <1>1 DEF SeekInv, FsTypeInv, Numbered
  <2>2. size >= 0
    BY <1>1, <1>2 DEF SeekInv, Whole
  <2>3. from <= size
    BY <1>1 DEF SeekInv, PointersInside
  <2> QED BY <2>1, <2>2, <2>3, SizesAssumption
<1>5. Len(Gap(d)) = 0 /\ Gap(d) \in [1 .. 0 -> Int]
  <2> HIDE DEF from, size
  <2>1. CASE from >= size
    <3>1. from = size /\ size \in Nat BY <1>3, <1>4, <2>1
    <3> DEFINE q == from \div BLOCK_SIZE
    <3>2. q \in Nat BY <1>3, NumberSets
    <3>3. TruncDiv(size) = q BY <3>1 DEF TruncDiv
    <3>4. Gap(d) = PagesUpTo(TruncDiv(size) + 1, q)
      BY <2>1 DEF Gap, from, size
    <3> HIDE DEF q
    <3>5. 1 .. q - (q + 1) + 1 = 1 .. 0 BY <3>2
    <3>6. Gap(d) = [i \in 1 .. 0 |-> q + 1 + i - 1]
      BY <3>3, <3>4, <3>5 DEF PagesUpTo
    <3> QED BY <3>6
  <2>2. CASE ~(from >= size)
    <3>1. Gap(d) = << >> BY <2>2 DEF Gap, from, size
    <3> QED BY <3>1
  <2> QED BY <2>1, <2>2
<1> QED BY <1>1, <1>2, <1>3, <1>4, <1>5

\* So the tables a write starts from are those there are.
LEMMA Ungrown ==
  ASSUME SeekInv, active, NEW d \in Fds, IsOpen(d)
  PROVE  /\ Grown(d) \in TableShapes
         /\ Grown(d).file_free_list = tables.file_free_list
         /\ Grown(d).file_size_list = tables.file_size_list
         /\ \A f \in Files : \A p : BlocksOf(Grown(d), f, p) = BlocksOf(tables, f, p)
<1>1. tables \in TableShapes /\ tables.block_page_number \in [Blocks -> Int]
  BY DEF SeekInv, FsTypeInv, OwnersInv, TableShapes
<1>2. d \in Files /\ Gap(d) \in [1 .. 0 -> Int] /\ FileOf(d) = d
  BY NoGap
<1>3. Grown(d) = Claim(tables, d, Gap(d))
  BY <1>2 DEF Grown
<1> DEFINE gap == Gap(d)
           zero == 0
           grown == Claim(tables, d, gap)
<1>4. zero \in Nat /\ gap \in [1 .. zero -> Int] /\ Int \in SUBSET Int
  BY <1>2
<1>5. zero = 0 OBVIOUS
<1> HIDE DEF gap, zero
<1>6. /\ grown \in TableShapes
      /\ grown.file_free_list = tables.file_free_list
      /\ grown.file_size_list = tables.file_size_list
  BY ZenonT(30), <1>1, <1>2, <1>4, ClaimShape
<1>7. \A b \in Blocks : (zero = 0 \/ b \notin FreeBlocks(tables)) =>
        /\ grown.block_belong_list[b] = tables.block_belong_list[b]
        /\ grown.block_page_number[b] = tables.block_page_number[b]
  BY <1>1, <1>2, <1>4, ClaimPlaces
<1> HIDE DEF grown
<1>8. \A f \in Files : \A p : BlocksOf(grown, f, p) = BlocksOf(tables, f, p)
  BY <1>5, <1>7, NumberSets DEF BlocksOf
<1> QED BY <1>3, <1>6, <1>8 DEF grown, gap

\* A write leaves every file whole, and the pointer inside the file it wrote to.
LEMMA WriteWhole ==
  ASSUME SeekInv, active, NEW d \in Fds, IsOpen(d), NEW bytes \in Data
  PROVE  LET full == Resize(Written(d, bytes), d, End(d, bytes))
             seek == IF Short(d, bytes) THEN fd_seek_pointer_list[d] ELSE End(d, bytes)
         IN  /\ full.file_free_list = tables.file_free_list
             /\ full.file_size_list = [tables.file_size_list EXCEPT ![d] = End(d, bytes)]
             /\ Whole(full)
             /\ seek <= End(d, bytes)
<1> DEFINE grown == Grown(d)
           new   == NewPages(d, bytes)
           room  == Room(d)
           short == Short(d, bytes)
           end   == End(d, bytes)
           from  == fd_seek_pointer_list[d]
           first == FirstPage(d)
           last  == LastPage(d, bytes)
           len   == Len(bytes)
           size  == tables.file_size_list[d]
           wrote == Written(d, bytes)
           full  == Resize(wrote, d, end)
           seek  == IF short THEN from ELSE end
<1>1. /\ OwnersInv /\ d \in Files /\ FileOf(d) = d /\ ~tables.file_free_list[d]
      /\ from \in Nat /\ size \in Nat /\ from <= size /\ BLOCK_SIZE \in Nat \ {0}
  BY NoGap, NumberSets, SizesAssumption DEF SeekInv, FsTypeInv
<1>2. /\ grown \in TableShapes
      /\ grown.file_free_list = tables.file_free_list
      /\ grown.file_size_list = tables.file_size_list
      /\ \A f \in Files : \A p : BlocksOf(grown, f, p) = BlocksOf(tables, f, p)
  BY Ungrown
<1>3. /\ first \in Nat /\ last \in Nat /\ first <= last /\ room \in Nat /\ len \in Nat
      /\ last * BLOCK_SIZE <= from + len /\ from + len <= (last + 1) * BLOCK_SIZE
      /\ end \in Nat
  BY <1>1, WritePieces
<1>4. PICK m \in Nat : /\ new \in [1 .. m -> Missing(d, bytes)]
                       /\ Len(new) = m
                       /\ short => room + 1 \in 1 .. m
  BY <1>1, WritePieces
<1>5. first * BLOCK_SIZE <= from /\ from < (first + 1) * BLOCK_SIZE
  BY <1>1, Division DEF FirstPage
<1>6. Missing(d, bytes) = {p \in first .. last : BlocksOf(tables, d, p) = {}}
  BY <1>1, <1>2, BlockOfPresent DEF Missing
<1>7. Increasing(new) /\ \A p \in Missing(d, bytes) : \E i \in 1 .. m : new[i] = p
  <2>1. Missing(d, bytes) \in SUBSET (first .. last) /\ Missing(d, bytes) \in SUBSET Nat
    BY <1>3, <1>6
  <2>2. IsFiniteSet(Missing(d, bytes))
    <3>1. first \in Int /\ last \in Int BY <1>3
    <3>2. IsFiniteSet(first .. last) BY <3>1, FS_Interval
    <3> QED BY <2>1, <3>2, FS_Subset
  <2>3. /\ Increasing(new) /\ new \in [1 .. Cardinality(Missing(d, bytes)) -> Missing(d, bytes)]
        /\ Cardinality(Missing(d, bytes)) \in Nat
        /\ \A p \in Missing(d, bytes) : \E i \in 1 .. Cardinality(Missing(d, bytes)) : new[i] = p
    BY <2>1, <2>2, AscendingLists DEF NewPages
  <2>4. Len(new) = Cardinality(Missing(d, bytes))
    <3> HIDE DEF new
    <3> QED BY <2>3
  <2> QED BY <1>4, <2>3, <2>4
<1>8. /\ wrote \in TableShapes
      /\ wrote.file_free_list = grown.file_free_list
      /\ wrote.file_size_list = grown.file_size_list
      /\ \A b \in Blocks : b \notin FreeBlocks(grown) =>
           /\ wrote.block_belong_list[b] = grown.block_belong_list[b]
           /\ wrote.block_page_number[b] = grown.block_page_number[b]
      /\ \A i \in 1 .. m : i <= room =>
           \E b \in FreeBlocks(grown) :
             wrote.block_belong_list[b] = d /\ wrote.block_page_number[b] = new[i]
  <2>1. wrote = Claim(grown, d, new) BY <1>1 DEF Written
  <2>2. grown.block_page_number \in [Blocks -> Int] BY <1>2 DEF TableShapes
  <2>3. new \in [1 .. m -> Int]
    BY <1>3, <1>4, <1>6
  <2>4. room = Cardinality(FreeBlocks(grown)) BY DEF Room
  <2>5. d \in Files /\ grown \in TableShapes /\ Int \in SUBSET Int BY <1>1, <1>2
  <2> HIDE DEF grown, new, room, wrote
  <2>6. /\ Claim(grown, d, new) \in TableShapes
        /\ Claim(grown, d, new).file_free_list = grown.file_free_list
        /\ Claim(grown, d, new).file_size_list = grown.file_size_list
    BY ZenonT(30), <2>2, <2>3, <2>5, ClaimShape
  <2>7. /\ \A b \in Blocks : b \notin FreeBlocks(grown) =>
             /\ Claim(grown, d, new).block_belong_list[b] = grown.block_belong_list[b]
             /\ Claim(grown, d, new).block_page_number[b] = grown.block_page_number[b]
        /\ \A i \in 1 .. m : i <= Cardinality(FreeBlocks(grown)) =>
             \E b \in FreeBlocks(grown) :
               /\ Claim(grown, d, new).block_belong_list[b] = d
               /\ Claim(grown, d, new).block_page_number[b] = new[i]
    BY <2>3, <2>5, ClaimPlaces
  <2> QED BY <2>1, <2>4, <2>6, <2>7
<1> HIDE DEF grown, new, room, short, end, from, first, last, len, size, wrote
<1>9. /\ full.block_belong_list = wrote.block_belong_list
      /\ full.block_page_number = wrote.block_page_number
      /\ full.file_free_list = wrote.file_free_list
      /\ full.file_size_list = [wrote.file_size_list EXCEPT ![d] = end]
  <2>1. end \in Int /\ wrote \in TableShapes /\ d \in Files BY <1>1, <1>3, <1>8
  <2> QED BY <2>1, ResizeShape
<1> HIDE DEF full
<1>10. \* A page that had its block has it still.
       ASSUME NEW f \in Files, NEW p, BlocksOf(tables, f, p) # {}
       PROVE  BlocksOf(full, f, p) # {}
  <2>1. PICK b \in DataBlocks : grown.block_belong_list[b] = f /\ grown.block_page_number[b] = p
    <3>1. BlocksOf(grown, f, p) # {} BY <1>2, <1>10
    <3> QED BY <3>1 DEF BlocksOf
  <2>2. b \notin FreeBlocks(grown) /\ b \in Blocks
    BY <2>1, NumberSets DEF FreeBlocks
  <2>3. b \in BlocksOf(full, f, p)
    BY <1>8, <1>9, <2>1, <2>2 DEF BlocksOf
  <2> QED BY <2>3
<1>11. \* A page below the end has its block.
       ASSUME NEW p \in Nat, p * BLOCK_SIZE < end
       PROVE  BlocksOf(full, d, p) # {}
  <2>1. CASE BlocksOf(tables, d, p) # {}
    BY <1>1, <1>10, <2>1
  <2>2. CASE BlocksOf(tables, d, p) = {}
    <3>1. p >= first
      <4>1. ASSUME p < first PROVE FALSE
        <5>1. p * BLOCK_SIZE < first * BLOCK_SIZE BY <1>1, <1>3, <4>1, SMT
        <5>2. p * BLOCK_SIZE \in Nat /\ first * BLOCK_SIZE \in Nat BY <1>1, <1>3
        <5>3. p * BLOCK_SIZE < size BY <1>1, <1>5, <5>1, <5>2
        <5> QED BY <1>1, <2>2, <5>3 DEF SeekInv, Whole, size
      <4> QED BY <1>3, <4>1
    <3>2. p <= last
      <4>1. ASSUME p >= last + 1 PROVE FALSE
        <5>1. p * BLOCK_SIZE >= (last + 1) * BLOCK_SIZE BY <1>1, <1>3, <4>1, SMT
        <5>2. p * BLOCK_SIZE \in Nat /\ (last + 1) * BLOCK_SIZE \in Nat BY <1>1, <1>3
        <5>3. end <= from + len
          BY <1>1, WritePieces DEF end, from, len
        <5> QED BY <1>1, <1>3, <1>11, <5>1, <5>2, <5>3
      <4> QED BY <1>3, <4>1
    <3>3. PICK i \in 1 .. m : new[i] = p
      BY <1>3, <1>6, <1>7, <2>2, <3>1, <3>2
    <3>4. i <= room
      <4>1. CASE ~short
        <5>1. m <= room BY <1>3, <1>4, <4>1 DEF Short, short, new, room
        <5> QED BY <1>3, <5>1
      <4>2. CASE short
        <5>1. end = new[room + 1] * BLOCK_SIZE /\ room + 1 \in 1 .. m
          BY <1>4, <4>2 DEF End, end, short, new, room
        <5>2. new[room + 1] \in Nat BY <1>3, <1>4, <1>6, <5>1
        <5>3. ASSUME i >= room + 1 PROVE FALSE
          <6>1. new[room + 1] <= p
            <7>1. CASE i = room + 1 BY <3>3, <5>2, <7>1
            <7>2. CASE i > room + 1
              BY <1>3, <1>4, <1>7, <3>3, <5>1, <5>2, <7>2 DEF Increasing
            <7> QED BY <1>3, <5>3, <7>1, <7>2
          <6>2. new[room + 1] * BLOCK_SIZE <= p * BLOCK_SIZE BY <1>1, <5>2, <6>1, SMT
          <6>3. p * BLOCK_SIZE \in Nat BY <1>1
          <6> QED BY <1>3, <1>11, <5>1, <6>2, <6>3
        <5> QED BY <1>3, <5>3
      <4> QED BY <4>1, <4>2
    <3>5. PICK b \in FreeBlocks(grown) :
            wrote.block_belong_list[b] = d /\ wrote.block_page_number[b] = p
      BY <1>8, <3>3, <3>4
    <3>6. b \in BlocksOf(full, d, p)
      BY <1>9, <3>5 DEF BlocksOf, FreeBlocks
    <3> QED BY <3>6
  <2> QED BY <2>1, <2>2
<1>12. full.file_free_list = tables.file_free_list
       /\ full.file_size_list = [tables.file_size_list EXCEPT ![d] = end]
  BY <1>2, <1>8, <1>9
<1>13. Whole(full)
  <2> SUFFICES ASSUME NEW f \in Files, ~full.file_free_list[f]
               PROVE  /\ full.file_size_list[f] >= 0
                      /\ \A p \in Nat : p * BLOCK_SIZE < full.file_size_list[f] =>
                           BlocksOf(full, f, p) # {}
    BY DEF Whole
  <2>0. tables.file_size_list \in [Files -> Int]
    BY <1>1 DEF OwnersInv, TableShapes
  <2>1. CASE f = d
    <3>1. full.file_size_list[f] = end BY <1>1, <1>12, <2>0, <2>1
    <3> QED BY <1>3, <1>11, <2>1, <3>1
  <2>2. CASE f # d
    <3>1. full.file_size_list[f] = tables.file_size_list[f] BY <1>12, <2>0, <2>2
    <3>2. ~tables.file_free_list[f] BY <1>12
    <3> QED BY <1>10, <3>1, <3>2 DEF SeekInv, Whole
  <2> QED BY <2>1, <2>2
<1>14. seek <= end
  <2>1. CASE ~short BY <1>3, <2>1
  <2>2. CASE short
    <3> DEFINE q == new[room + 1]
    <3>1. end = q * BLOCK_SIZE /\ q \in Missing(d, bytes)
      BY <1>4, <2>2 DEF End, end, short, new, room
    <3> HIDE DEF q
    <3>2. q \in Nat /\ q >= first /\ BlocksOf(tables, d, q) = {}
      BY <1>3, <1>6, <3>1
    <3>3. CASE q = first
      <4>1. ~(q * BLOCK_SIZE < size)
        BY <1>1, <3>2 DEF SeekInv, Whole, size
      <4>2. q * BLOCK_SIZE \in Nat BY <1>1, <3>2
      <4> QED BY <1>1, <2>2, <3>1, <4>1, <4>2
    <3>4. CASE q >= first + 1
      <4>1. q * BLOCK_SIZE >= (first + 1) * BLOCK_SIZE BY <1>1, <1>3, <3>2, <3>4, SMT
      <4>2. q * BLOCK_SIZE \in Nat /\ (first + 1) * BLOCK_SIZE \in Nat BY <1>1, <1>3, <3>2
      <4> QED BY <1>1, <1>5, <2>2, <3>1, <4>1, <4>2
    <3> QED BY <1>3, <3>2, <3>3, <3>4
  <2> QED BY <2>1, <2>2
<1> QED BY <1>12, <1>13, <1>14 DEF full, end, short, from, wrote
\* Calls that change nothing that files and pointers depend on.
LEMMA SeekStays ==
  ASSUME SeekInv, FsTypeInv', UNCHANGED <<memVars, active, meta>>
  PROVE  SeekInv'
BY DEF SeekInv, memVars, InOrder, PointersInside, IsOpen

\* Tables that can be saved are loaded whole: the block of a page keeps its owner
\* because it lies in the half that is saved.
LEMMA SavedWhole ==
  ASSUME NEW tb \in TableShapes, Numbered(tb), Whole(tb), Saveable(tb)
  PROVE  Whole(Loaded(Saved(tb)))
<1> DEFINE ld == Loaded(Saved(tb))
<1>1. /\ \A b \in Blocks :
           /\ ld.block_belong_list[b] = tb.block_belong_list[b % OwnersPerBlock]
           /\ ld.block_page_number[b]
                = IF tb.block_page_number[b] = -1 THEN 255 ELSE tb.block_page_number[b]
      /\ ld.file_free_list = tb.file_free_list
  BY SavedLoads
<1>2. \A f \in Files : ld.file_size_list[f] = tb.file_size_list[f]
  BY SavedNumbers DEF Saveable, SmallFiles, LowBlocks
<1> HIDE DEF ld
<1>3. ASSUME NEW f \in Files, ~ld.file_free_list[f], NEW p \in Nat,
             p * BLOCK_SIZE < ld.file_size_list[f]
      PROVE  BlocksOf(ld, f, p) # {}
  <2>1. ~tb.file_free_list[f] /\ p * BLOCK_SIZE < tb.file_size_list[f]
    BY <1>1, <1>2, <1>3
  <2>2. p \in 0 .. MaxSize
    <3>1. tb.file_size_list[f] \in -1 .. MaxSize BY DEF Numbered
    <3>2. p * 1 <= p * BLOCK_SIZE BY NumberSets, SMT
    <3>3. p * BLOCK_SIZE \in Nat BY NumberSets
    <3> QED BY <2>1, <3>1, <3>2, <3>3, SizesAssumption
  <2> DEFINE b == BlockOf(tb, f, p)
  <2>3. b < OwnersPerBlock
    BY <2>1, <2>2 DEF Saveable, SmallFiles, LowBlocks
  <2>4. b \in BlocksOf(tb, f, p)
    <3>1. BlocksOf(tb, f, p) # {} BY <2>1 DEF Whole
    <3> QED BY <3>1, BlockOfPresent
  <2> HIDE DEF b
  <2>5. b \in DataBlocks /\ b \in Blocks /\ tb.block_belong_list[b] = f
        /\ tb.block_page_number[b] = p
    BY <2>4, NumberSets DEF BlocksOf
  <2>6. b % OwnersPerBlock = b
    BY <2>3, <2>5, OwnerPlace
  <2>7. b \in BlocksOf(ld, f, p)
    BY <1>1, <2>5, <2>6 DEF BlocksOf
  <2> QED BY <2>7
<1>4. \A f \in Files : ~ld.file_free_list[f] => ld.file_size_list[f] >= 0
  BY <1>1, <1>2 DEF Whole
<1> QED BY <1>3, <1>4 DEF Whole, ld

\* make_fs, mount_fs and umount_fs.
LEMMA MakeMountSeek ==
  ASSUME KnowTheLimits, SeekInv, FsTypeInv', MakeFs \/ MakeFsMounted \/ MountFs \/ UmountFs
  PROVE  SeekInv'
<1>1. CASE MakeFs
  <2>1. UNCHANGED <<memVars, active>> /\ meta' = FreshTables
    BY <1>1 DEF MakeFs, MakeDisk
  <2>2. \A f \in Files : Loaded(FreshTables).file_free_list[f]
    BY DEF Loaded, FreshTables
  <2>3. Whole(Loaded(meta'))
    BY <2>1, <2>2 DEF Whole
  <2> QED BY <2>1, <2>3 DEF SeekInv, memVars, InOrder, PointersInside, IsOpen
<1>2. CASE MakeFsMounted
  <2>1. UNCHANGED <<memVars, active>> /\ meta' = NoTables
    BY <1>2 DEF MakeFsMounted, MakeDisk
  <2> QED BY <2>1 DEF SeekInv, memVars, InOrder, PointersInside, IsOpen
<1>3. CASE MountFs
  <2>1. /\ meta # NoTables /\ meta' = meta /\ tables' = Loaded(meta)
        /\ fd_file_list' = [d \in Fds |-> -1]
    BY <1>3 DEF MountFs
  <2>2. InOrder' /\ PointersInside'
    BY <2>1 DEF InOrder, PointersInside, IsOpen
  <2> QED BY <2>1, <2>2 DEF SeekInv
<1>4. CASE UmountFs
  <2>1. UNCHANGED memVars /\ active' = FALSE /\ meta' = Saved(tables) /\ Saveable(tables)
    BY <1>4 DEF UmountFs, CloseDisk, Keeps, KnowTheLimits, Saveable
  <2>2. Whole(Loaded(Saved(tables)))
    <3>1. tables \in TableShapes /\ Numbered(tables) /\ Whole(tables)
      BY DEF SeekInv, FsTypeInv, OwnersInv
    <3> QED BY <2>1, <3>1, SavedWhole
  <2> QED BY <2>1, <2>2 DEF SeekInv, memVars, PointersInside, IsOpen
<1> QED BY <1>1, <1>2, <1>3, <1>4

\* fs_create: the new file is empty, and no descriptor was open on it.
LEMMA CreateSeek ==
  ASSUME SeekInv, FsTypeInv', NEW n \in Names, FsCreate(n)
  PROVE  SeekInv'
<1> DEFINE f == Min(FreeFiles(tables))
           t == NewEntry(tables, f, n)
<1>1. OwnersInv /\ tables \in TableShapes /\ Whole(tables)
  BY DEF SeekInv, FsTypeInv, OwnersInv
<1>2. f \in Files /\ tables.file_free_list[f]
  BY <1>1, FoundFiles DEF FsCreate
<1>3. tables' = t /\ UNCHANGED <<active, meta, fd_file_list, fd_seek_pointer_list>>
  BY DEF FsCreate, NewEntry, diskVars
<1> HIDE DEF f
<1>4. /\ t.block_belong_list = tables.block_belong_list
      /\ t.block_page_number = tables.block_page_number
      /\ t.file_free_list = [tables.file_free_list EXCEPT ![f] = FALSE]
      /\ t.file_size_list = [tables.file_size_list EXCEPT ![f] = 0]
  BY <1>1, <1>2, NewEntryShape
<1> HIDE DEF t
<1>5. \A g \in Files : \A p : BlocksOf(t, g, p) = BlocksOf(tables, g, p)
  BY <1>4 DEF BlocksOf
<1>6. \A g \in Files : g # f => /\ t.file_free_list[g] = tables.file_free_list[g]
                                /\ t.file_size_list[g] = tables.file_size_list[g]
  BY <1>1, <1>4 DEF TableShapes
<1>7. t.file_size_list[f] = 0
  BY <1>1, <1>2, <1>4 DEF TableShapes
<1>8. Whole(t)
  <2>1. \A p \in Nat : ~(p * BLOCK_SIZE < 0) BY NumberSets
  <2> QED BY <1>1, <1>5, <1>6, <1>7, <2>1 DEF Whole
<1>9. \A d \in Fds : IsOpen(d) => fd_file_list[d] # f /\ fd_file_list[d] \in Files
  BY <1>1, <1>2 DEF OwnersInv, OpenOnExisting, IsOpen
<1>10. PointersInside'
  BY <1>3, <1>6, <1>9 DEF SeekInv, PointersInside, IsOpen
<1>11. InOrder' <=> InOrder
  BY <1>3 DEF InOrder, IsOpen
<1> QED BY <1>3, <1>8, <1>10, <1>11 DEF SeekInv

\* fs_delete: the blocks of the other files stay.
LEMMA DeleteSeek ==
  ASSUME SeekInv, FsTypeInv', NEW n \in Names, FsDelete(n)
  PROVE  SeekInv'
<1> DEFINE f == FileNamed(n)
           kept == Disown(tables, BlocksOwned(f))
           t == ClearedEntry(kept, f)
<1>1. OwnersInv /\ tables \in TableShapes /\ Whole(tables)
  BY DEF SeekInv, FsTypeInv, OwnersInv
<1>2. f \in Files /\ Deletable(f)
  BY <1>1, FoundFiles DEF FsDelete
<1>3. tables' = t /\ UNCHANGED <<active, meta, fd_file_list, fd_seek_pointer_list>>
  BY DEF FsDelete, ClearedEntry, diskVars
<1>4. /\ kept \in TableShapes /\ kept.file_free_list = tables.file_free_list
      /\ kept.file_size_list = tables.file_size_list
      /\ \A b \in Blocks :
           /\ kept.block_belong_list[b]
                = IF b \in BlocksOwned(f) THEN -1 ELSE tables.block_belong_list[b]
           /\ kept.block_page_number[b]
                = IF b \in BlocksOwned(f) THEN -1 ELSE tables.block_page_number[b]
  BY <1>1, DisownShape
<1> HIDE DEF f, kept
<1>5. /\ t.block_belong_list = kept.block_belong_list
      /\ t.block_page_number = kept.block_page_number
      /\ t.file_free_list = [kept.file_free_list EXCEPT ![f] = TRUE]
      /\ t.file_size_list = [kept.file_size_list EXCEPT ![f] = -1]
  BY <1>2, <1>4, ClearedEntryShape
<1> HIDE DEF t
<1>6. \A g \in Files : g # f => /\ t.file_free_list[g] = tables.file_free_list[g]
                                /\ t.file_size_list[g] = tables.file_size_list[g]
  BY <1>1, <1>4, <1>5 DEF TableShapes
<1>7. t.file_free_list[f]
  BY <1>1, <1>2, <1>4, <1>5 DEF TableShapes
<1>8. ASSUME NEW g \in Files, g # f, NEW p, BlocksOf(tables, g, p) # {}
      PROVE  BlocksOf(t, g, p) # {}
  <2>1. PICK b \in DataBlocks : tables.block_belong_list[b] = g /\ tables.block_page_number[b] = p
    BY <1>8 DEF BlocksOf
  <2>2. b \in Blocks /\ b \notin BlocksOwned(f)
    BY <1>8, <2>1, NumberSets DEF BlocksOwned
  <2>3. b \in BlocksOf(t, g, p)
    BY <1>4, <1>5, <2>1, <2>2 DEF BlocksOf
  <2> QED BY <2>3
<1>9. Whole(t)
  BY <1>1, <1>6, <1>7, <1>8 DEF Whole
<1>10. \A d \in Fds : IsOpen(d) => fd_file_list[d] # f /\ fd_file_list[d] \in Files
  BY <1>1, <1>2 DEF OwnersInv, IsOpen, Deletable
<1>11. PointersInside'
  BY <1>3, <1>6, <1>10 DEF SeekInv, PointersInside, IsOpen
<1>12. InOrder' <=> InOrder
  BY <1>3 DEF InOrder, IsOpen
<1> QED BY <1>3, <1>9, <1>11, <1>12 DEF SeekInv

\* fs_open and fs_close.
LEMMA OpenCloseSeek ==
  ASSUME KnowTheLimits, SeekInv, FsTypeInv',
         \/ \E n \in Names : FsOpen(n)
         \/ \E d \in Fds : FsClose(d)
  PROVE  SeekInv'
<1>0. OwnersInv /\ fd_file_list \in [Fds -> Files \cup {-1}]
      /\ fd_seek_pointer_list \in [Fds -> Nat \cup {-1}]
  BY DEF SeekInv, FsTypeInv, OwnersInv
<1>1. CASE \E n \in Names : FsOpen(n)
  <2>1. PICK n \in Names : FsOpen(n) BY <1>1
  <2> DEFINE d == Min(FreeFds)
             f == FileNamed(n)
  <2>2. d \in Fds /\ f \in Files /\ ~tables.file_free_list[f]
    BY <1>0, <2>1, FoundFiles DEF FsOpen
  <2>3. /\ fd_file_list' = [fd_file_list EXCEPT ![d] = f]
        /\ fd_seek_pointer_list' = [fd_seek_pointer_list EXCEPT ![d] = 0]
        /\ UNCHANGED <<tables, meta, active>> /\ active /\ d = f
    BY <2>1 DEF FsOpen, diskVars, Keeps, KnowTheLimits
  <2> HIDE DEF d, f
  <2>4. tables.file_size_list[f] >= 0
    BY <2>2 DEF SeekInv, Whole
  <2>5. InOrder'
    BY <1>0, <2>2, <2>3 DEF SeekInv, InOrder, IsOpen
  <2>6. PointersInside'
    BY <1>0, <2>2, <2>3, <2>4 DEF SeekInv, PointersInside, IsOpen
  <2> QED BY <2>3, <2>5, <2>6 DEF SeekInv
<1>2. CASE \E d \in Fds : FsClose(d)
  <2>1. PICK d \in Fds : FsClose(d) BY <1>2
  <2>2. /\ fd_file_list' = [fd_file_list EXCEPT ![d] = -1]
        /\ fd_seek_pointer_list' = [fd_seek_pointer_list EXCEPT ![d] = -1]
        /\ UNCHANGED <<tables, meta, active>> /\ active
    BY <2>1 DEF FsClose, diskVars
  <2>3. InOrder' /\ PointersInside'
    BY <1>0, <2>2 DEF SeekInv, InOrder, PointersInside, IsOpen
  <2> QED BY <2>2, <2>3 DEF SeekInv
<1> QED BY <1>1, <1>2
\* Calls that move the seek pointer of one descriptor only, to a place in its file.
LEMMA SeekMoves ==
  ASSUME SeekInv, FsTypeInv', UNCHANGED <<tables, active, meta, fd_file_list>>, active,
         NEW d \in Fds, IsOpen(d), NEW k \in Nat, k <= tables.file_size_list[d],
         fd_seek_pointer_list' = [fd_seek_pointer_list EXCEPT ![d] = k]
  PROVE  SeekInv'
<1>1. fd_seek_pointer_list \in [Fds -> Nat \cup {-1}] /\ fd_file_list[d] = d
  BY NoGap DEF SeekInv, FsTypeInv, OwnersInv
<1>2. PointersInside'
  BY <1>1 DEF SeekInv, PointersInside, IsOpen
<1> QED BY <1>2 DEF SeekInv, InOrder, IsOpen

\* fs_read and fs_lseek.
LEMMA ReadLseekSeek ==
  ASSUME KnowTheLimits, SeekInv, FsTypeInv', NEW d \in Fds,
         \/ \E n \in Lengths : FsRead(d, n)
         \/ \E n \in Offsets : FsLseek(d, n)
  PROVE  SeekInv'
<1>0. active /\ IsOpen(d) /\ UNCHANGED <<tables, active, meta, fd_file_list>>
  BY DEF FsRead, FsLseek, diskVars
<1> DEFINE from == fd_seek_pointer_list[d]
           size == tables.file_size_list[d]
<1>1. OwnersInv /\ fd_file_list[d] = d /\ from \in Nat /\ size \in Nat /\ from <= size
  BY <1>0, NoGap, SizesAssumption DEF SeekInv, FsTypeInv
<1>2. CASE \E n \in Lengths : FsRead(d, n)
  <2>1. PICK n \in Lengths : FsRead(d, n) BY <1>2
  <2> DEFINE count == IF from > size THEN 0 ELSE ReadCount(d, n)
  <2>2. fd_seek_pointer_list' = [fd_seek_pointer_list EXCEPT ![d] = from + count]
        /\ from < size
    BY <1>1, <2>1 DEF FsRead, Keeps, KnowTheLimits
  <2> DEFINE k == ReadCount(d, n)
             rest == size - from
  <2>3. k \in Nat BY <1>0, <1>1, ReadCountType
  <2>4. k <= rest
    <3>0. k = IF n = 0 THEN 0 ELSE Min({n, Max({1, rest})})
      BY DEF ReadCount
    <3>1. n \in Nat /\ rest \in Nat /\ rest >= 1 BY <1>1, <2>2, ArgumentsAssumption
    <3> HIDE DEF k, rest
    <3> DEFINE most == Max({1, rest})
    <3>2. most = rest
      <4>1. 1 \in Int /\ rest \in Int BY <3>1
      <4>2. most \in {1, rest} /\ most >= 1 /\ most >= rest BY <4>1, LesserGreater
      <4> QED BY <3>1, <4>2
    <3> HIDE DEF most
    <3>3. Min({n, most}) <= most
      <4>1. n \in Int /\ most \in Int BY <3>1, <3>2
      <4> QED BY <4>1, LesserGreater
    <3> QED BY <3>0, <3>1, <3>2, <3>3 DEF most
  <2>5. count = k BY <1>1
  <2> HIDE DEF k, count, from, size
  <2>6. from + count \in Nat /\ from + count <= size
    BY <1>1, <2>3, <2>4, <2>5
  <2> QED BY <1>0, <2>2, <2>6, SeekMoves DEF size
<1>3. CASE \E n \in Offsets : FsLseek(d, n)
  <2>1. PICK n \in Offsets : FsLseek(d, n) BY <1>3
  <2>2. n \in Nat BY ArgumentsAssumption
  <2>3. fd_seek_pointer_list' = [fd_seek_pointer_list EXCEPT ![d] = n] /\ n <= size
    BY <1>1, <2>1 DEF FsLseek, InFile
  <2> QED BY <1>0, <2>2, <2>3, SeekMoves
<1> QED BY <1>2, <1>3

\* The pages of n bytes are those that begin below n.
LEMMA PagesOfSize ==
  ASSUME NEW n \in Nat, NEW p \in Nat
  PROVE  PageCount(n) \in Nat /\ (p < PageCount(n) <=> p * BLOCK_SIZE < n)
<1>1. BLOCK_SIZE \in Nat \ {0}
  BY NumberSets
<1>2. n + BLOCK_SIZE - 1 \in Nat
  BY <1>1
<1>3. /\ PageCount(n) \in Nat
      /\ (p + 1) * BLOCK_SIZE <= n + BLOCK_SIZE - 1 <=> p + 1 <= PageCount(n)
  <2>1. p + 1 \in Int OBVIOUS
  <2> QED BY <1>1, <1>2, <2>1, Division DEF PageCount
<1>4. (p + 1) * BLOCK_SIZE = p * BLOCK_SIZE + BLOCK_SIZE
  BY <1>1, SMT
<1>5. p * BLOCK_SIZE \in Nat
  BY <1>1
<1> QED BY <1>1, <1>3, <1>4, <1>5

\* fs_truncate: every page is there to be given back, and those of the bytes that
\* stay are kept.
LEMMA TruncateSeek ==
  ASSUME SeekInv, FsTypeInv', NEW d \in Fds, NEW n \in Offsets, FsTruncate(d, n)
  PROVE  SeekInv'
<1> DEFINE size    == tables.file_size_list[d]
           from    == fd_seek_pointer_list[d]
           pages   == PageCount(n) .. PageCount(size) - 1
           missing == {p \in pages : BlockOf(tables, d, p) = NoBlock}
           given   == {p \in pages : \A m \in missing : p > m}
           blocks  == {BlockOf(tables, d, p) : p \in given}
           kept    == Disown(tables, blocks)
           t       == Resize(kept, d, n)
<1>0. active /\ IsOpen(d) /\ UNCHANGED <<active, meta, fd_file_list>>
  BY DEF FsTruncate, diskVars
<1>1. /\ tables \in TableShapes /\ Whole(tables)
      /\ fd_file_list[d] = d /\ d \in Files /\ ~tables.file_free_list[d]
      /\ from \in Nat /\ size \in Nat /\ fd_seek_pointer_list \in [Fds -> Nat \cup {-1}]
  BY <1>0, NoGap, SizesAssumption DEF SeekInv, FsTypeInv, OwnersInv
<1>2. n \in Nat /\ n <= size
  BY <1>1, ArgumentsAssumption DEF FsTruncate, InFile
<1>3. /\ tables' = IF missing = {} THEN t ELSE kept
      /\ fd_seek_pointer_list' =
           [fd_seek_pointer_list EXCEPT ![d] = IF missing = {} THEN Min({@, n}) ELSE @]
  BY <1>1 DEF FsTruncate
<1>4. PageCount(n) \in Nat /\ PageCount(size) \in Nat
  BY <1>1, <1>2, PagesOfSize
<1>5. \A p \in pages : p \in Nat /\ BlockOf(tables, d, p) \in BlocksOf(tables, d, p)
  <2> SUFFICES ASSUME NEW p \in pages
               PROVE  p \in Nat /\ BlockOf(tables, d, p) \in BlocksOf(tables, d, p)
    OBVIOUS
  <2> HIDE DEF size
  <2>1. p \in Nat /\ p < PageCount(size) BY <1>4
  <2>2. p * BLOCK_SIZE < size BY <1>1, <2>1, PagesOfSize
  <2>3. BlocksOf(tables, d, p) # {} BY <1>1, <2>1, <2>2 DEF Whole, size
  <2> QED BY <2>1, <2>3, BlockOfPresent
<1>6. missing = {}
  <2>1. \A p \in pages : BlocksOf(tables, d, p) # {} BY <1>5
  <2> HIDE DEF pages
  <2> QED BY <2>1, BlockOfPresent
<1>7. \A b \in blocks : /\ tables.block_belong_list[b] = d
                        /\ tables.block_page_number[b] >= PageCount(n)
  <2> SUFFICES ASSUME NEW p \in pages
               PROVE  /\ tables.block_belong_list[BlockOf(tables, d, p)] = d
                      /\ tables.block_page_number[BlockOf(tables, d, p)] >= PageCount(n)
    OBVIOUS
  <2>1. p >= PageCount(n) BY <1>4
  <2> HIDE DEF pages
  <2> QED BY <1>5, <2>1 DEF BlocksOf
<1>8. tables' = t /\ fd_seek_pointer_list' = [fd_seek_pointer_list EXCEPT ![d] = Min({from, n})]
  BY <1>3, <1>6
<1> HIDE DEF blocks, missing, given, pages
<1>9. /\ kept \in TableShapes /\ kept.file_free_list = tables.file_free_list
      /\ kept.file_size_list = tables.file_size_list
      /\ \A b \in Blocks : b \notin blocks =>
           /\ kept.block_belong_list[b] = tables.block_belong_list[b]
           /\ kept.block_page_number[b] = tables.block_page_number[b]
  BY <1>1, DisownShape
<1> HIDE DEF kept
<1>10. /\ t.block_belong_list = kept.block_belong_list
       /\ t.block_page_number = kept.block_page_number
       /\ t.file_free_list = kept.file_free_list
       /\ t.file_size_list = [kept.file_size_list EXCEPT ![d] = n]
  <2>1. n \in Int /\ kept \in TableShapes /\ d \in Files BY <1>1, <1>2, <1>9
  <2> QED BY <2>1, ResizeShape
<1> HIDE DEF t
<1>11. ASSUME NEW f \in Files, NEW p \in Nat, BlocksOf(tables, f, p) # {},
              f # d \/ p < PageCount(n)
       PROVE  BlocksOf(t, f, p) # {}
  <2>1. PICK b \in DataBlocks : tables.block_belong_list[b] = f /\ tables.block_page_number[b] = p
    BY <1>11 DEF BlocksOf
  <2>2. b \in Blocks /\ b \notin blocks
    BY <1>4, <1>7, <1>11, <2>1, NumberSets
  <2>3. b \in BlocksOf(t, f, p)
    BY <1>9, <1>10, <2>1, <2>2 DEF BlocksOf
  <2> QED BY <2>3
<1>12. /\ t.file_size_list[d] = n
       /\ \A f \in Files : f # d => t.file_size_list[f] = tables.file_size_list[f]
  BY <1>1, <1>9, <1>10 DEF TableShapes
<1>13. Whole(t)
  <2> SUFFICES ASSUME NEW f \in Files, ~t.file_free_list[f]
               PROVE  /\ t.file_size_list[f] >= 0
                      /\ \A p \in Nat : p * BLOCK_SIZE < t.file_size_list[f] =>
                           BlocksOf(t, f, p) # {}
    BY DEF Whole
  <2>0. ~tables.file_free_list[f] BY <1>9, <1>10
  <2>1. CASE f # d
    BY <1>1, <1>11, <1>12, <2>0, <2>1 DEF Whole
  <2>2. CASE f = d
    <3> SUFFICES ASSUME NEW p \in Nat, p * BLOCK_SIZE < n PROVE BlocksOf(t, d, p) # {}
      BY <1>2, <1>12, <2>2
    <3>1. p < PageCount(n) BY <1>2, PagesOfSize
    <3>2. p * BLOCK_SIZE < size
      <4>1. p * BLOCK_SIZE \in Nat BY NumberSets
      <4> QED BY <1>1, <1>2, <4>1
    <3>3. BlocksOf(tables, d, p) # {} BY <1>1, <3>2 DEF Whole
    <3> QED BY <1>1, <1>11, <3>1, <3>3
  <2> QED BY <2>1, <2>2
<1> DEFINE k == Min({from, n})
<1>14. k \in Nat /\ k <= n
  <2> HIDE DEF from
  <2>1. from \in Int /\ n \in Int BY <1>1, <1>2
  <2>2. k \in {from, n} /\ k <= n BY <2>1, LesserGreater
  <2> QED BY <1>1, <1>2, <2>2
<1> HIDE DEF k
<1>15. PointersInside'
  <2> SUFFICES ASSUME NEW e \in Fds, fd_file_list[e] # -1
               PROVE  fd_seek_pointer_list'[e] <= tables'.file_size_list[fd_file_list[e]]
    BY <1>0 DEF PointersInside, IsOpen
  <2>1. fd_file_list[e] = e /\ e \in Files
    BY <1>0, NoGap DEF IsOpen
  <2>2. CASE e = d
    BY <1>1, <1>8, <1>12, <1>14, <2>1, <2>2 DEF k
  <2>3. CASE e # d
    <3>1. fd_seek_pointer_list[e] <= tables.file_size_list[e]
      BY <2>1 DEF SeekInv, PointersInside, IsOpen
    <3> QED BY <1>1, <1>8, <1>12, <2>1, <2>3, <3>1
  <2> QED BY <2>2, <2>3
<1> QED BY <1>0, <1>8, <1>13, <1>15 DEF SeekInv, InOrder, IsOpen

\* fs_write.
LEMMA WriteSeek ==
  ASSUME SeekInv, FsTypeInv', NEW d \in Fds, NEW bytes \in Data, FsWrite(d, bytes)
  PROVE  SeekInv'
<1> DEFINE full == Resize(Written(d, bytes), d, End(d, bytes))
           seek == IF Short(d, bytes) THEN fd_seek_pointer_list[d] ELSE End(d, bytes)
<1>0. active /\ IsOpen(d) /\ UNCHANGED <<active, meta, fd_file_list>>
  BY DEF FsWrite
<1>1. /\ FileOf(d) = d /\ d \in Files /\ fd_file_list[d] = d /\ Len(Gap(d)) = 0
      /\ fd_seek_pointer_list \in [Fds -> Nat \cup {-1}]
      /\ tables.file_size_list \in [Files -> Int]
  BY <1>0, NoGap DEF SeekInv, FsTypeInv, OwnersInv, TableShapes
<1>2. ~(Len(Gap(d)) > Cardinality(FreeBlocks(tables)))
  BY <1>1, FreeBlocksCount
<1>3. /\ tables' = AfterWrite(d, bytes).tables
      /\ fd_seek_pointer_list' = [fd_seek_pointer_list EXCEPT ![d] = AfterWrite(d, bytes).seek]
  BY <1>2 DEF FsWrite
<1>4. /\ tables' = full
      /\ fd_seek_pointer_list' = [fd_seek_pointer_list EXCEPT ![d] = seek]
  BY <1>1, <1>3, AfterWriteParts
<1>5. /\ full.file_size_list = [tables.file_size_list EXCEPT ![d] = End(d, bytes)]
      /\ Whole(full)
      /\ seek <= End(d, bytes)
  BY <1>0, WriteWhole
<1> HIDE DEF full, seek
<1>6. PointersInside'
  <2> SUFFICES ASSUME NEW e \in Fds, fd_file_list[e] # -1
               PROVE  fd_seek_pointer_list'[e] <= tables'.file_size_list[fd_file_list[e]]
    BY <1>0 DEF PointersInside, IsOpen
  <2>1. fd_file_list[e] = e /\ e \in Files
    BY <1>0, NoGap DEF IsOpen
  <2>2. CASE e = d
    BY <1>1, <1>4, <1>5, <2>1, <2>2
  <2>3. CASE e # d
    <3>1. fd_seek_pointer_list[e] <= tables.file_size_list[e]
      BY <2>1 DEF SeekInv, PointersInside, IsOpen
    <3> QED BY <1>1, <1>4, <1>5, <2>1, <2>3, <3>1
  <2> QED BY <2>2, <2>3
<1> QED BY <1>0, <1>4, <1>5, <1>6 DEF SeekInv, InOrder, IsOpen

\* Every step keeps files whole and pointers inside them.
LEMMA StepSeekInv ==
  ASSUME KnowTheLimits, SeekInv, [FsNext]_fsVars
  PROVE  SeekInv'
<1>0. FsTypeInv'
  BY StepFsTypeInv DEF SeekInv, KnowTheLimits, Unmounts
<1>1. CASE MakeFs \/ MakeFsMounted \/ MountFs \/ UmountFs
  BY <1>0, <1>1, MakeMountSeek
<1>2. CASE FsListfiles \/ FsGetFilesizeReturn \/ (\E d \in Fds : FsGetFilesize(d)) \/ UNCHANGED fsVars
  <2>1. UNCHANGED <<memVars, active, meta>>
    BY <1>2 DEF FsListfiles, FsGetFilesizeReturn, FsGetFilesize, fsVars, diskVars
  <2> QED BY <1>0, <2>1, SeekStays
<1>3. CASE \E n \in Names : FsCreate(n) \/ FsDelete(n)
  BY <1>0, <1>3, CreateSeek, DeleteSeek
<1>4. CASE (\E n \in Names : FsOpen(n)) \/ (\E d \in Fds : FsClose(d))
  BY <1>0, <1>4, OpenCloseSeek
<1>5. CASE \E d \in Fds : (\E n \in Lengths : FsRead(d, n)) \/ (\E n \in Offsets : FsLseek(d, n))
  BY <1>0, <1>5, ReadLseekSeek
<1>6. CASE \E d \in Fds : \E n \in Offsets : FsTruncate(d, n)
  BY <1>0, <1>6, TruncateSeek
<1>7. CASE \E d \in Fds : \E bytes \in Data : FsWrite(d, bytes)
  BY <1>0, <1>7, WriteSeek
<1> QED BY <1>1, <1>2, <1>3, <1>4, <1>5, <1>6, <1>7 DEF FsNext

\* It holds of the static arrays before the first mount: every file has size 0.
LEMMA InitSeekInv == FsInit => SeekInv
<1> SUFFICES ASSUME FsInit PROVE SeekInv
  OBVIOUS
<1>1. FsTypeInv BY InitFsTypeInv
<1>2. Whole(tables)
  <2>1. \A p \in Nat : ~(p * BLOCK_SIZE < 0) BY NumberSets
  <2> QED BY <2>1 DEF FsInit, Whole
<1>3. PointersInside
  BY NumberSets DEF FsInit, PointersInside
<1>4. meta = NoTables /\ active = FALSE
  BY DEF FsInit, DiskInit
<1> QED BY <1>1, <1>2, <1>3, <1>4 DEF SeekInv

\* Files are whole, on the disk as in memory, and pointers inside them.
THEOREM SeekInvariant ==
  ASSUME KnowTheLimits
  PROVE  FsSpec => []SeekInv
<1>1. SeekInv /\ [FsNext]_fsVars => SeekInv'
  BY StepSeekInv
<1> QED BY <1>1, InitSeekInv, PTL DEF FsSpec

\* The seek pointer of a descriptor is never past the end of its file, when clients
\* open files in the order of their numbers, do not read at the end of a file and
\* unmount when the tables can be saved.
THEOREM SeekWithinFileHolds ==
  ASSUME KnowTheLimits
  PROVE  FsSpec => []SeekWithinFile
<1>1. SeekInv => SeekWithinFile
  BY DEF SeekInv, PointersInside, SeekWithinFile
<1> QED BY <1>1, SeekInvariant, PTL
-----------------------------------------------------------------------------
(* Remounting.                                                              *)

\* The blocks of file f, page by page; the bytes in such a list of blocks; and those
\* that the file named n has in tables tb.
PagesOf(tb, f) ==
  [p \in 0 .. PageCount(tb.file_size_list[f]) - 1 |-> BlockOf(tb, f, p)]
BytesAt(block, size) ==
  LET ByteAt(at) == LET b == block[at \div BLOCK_SIZE]
                   IN IF b = NoBlock THEN -1 ELSE data[b][at % BLOCK_SIZE]
  IN [i \in 1 .. size |-> ByteAt(i - 1)]
BytesIn(tb, n) ==
  LET f == Min(FilesNamed(tb, n))
  IN IF FilesNamed(tb, n) = {} THEN NoFile
     ELSE BytesAt(PagesOf(tb, f), tb.file_size_list[f])

\* The block of a page is the same after umount_fs and mount_fs: what the second
\* half of the disk repeats comes after the block it is, and no page of a file that
\* can be saved has the number 255 of a free block.
LEMMA SavedBlock ==
  ASSUME NEW tb \in TableShapes, Numbered(tb), Whole(tb), Saveable(tb),
         NEW f \in Files, ~tb.file_free_list[f],
         NEW p \in Nat, p * BLOCK_SIZE < tb.file_size_list[f]
  PROVE  BlockOf(Loaded(Saved(tb)), f, p) = BlockOf(tb, f, p)
<1> DEFINE ld == Loaded(Saved(tb))
           b  == BlockOf(tb, f, p)
           m  == BlockOf(ld, f, p)
<1>1. /\ \A c \in Blocks :
           /\ ld.block_belong_list[c] = tb.block_belong_list[c % OwnersPerBlock]
           /\ ld.block_page_number[c]
                = IF tb.block_page_number[c] = -1 THEN 255 ELSE tb.block_page_number[c]
      /\ ld.file_free_list = tb.file_free_list
      /\ ld.file_size_list[f] = tb.file_size_list[f]
  BY SavedLoads, SavedNumbers DEF Saveable, SmallFiles, LowBlocks
<1> HIDE DEF ld
<1>2. p \in 0 .. MaxSize /\ p # 255
  <2>1. tb.file_size_list[f] \in -1 .. MaxSize /\ tb.file_size_list[f] < CharHalf
    BY DEF Numbered, Saveable, SmallFiles, LowBlocks
  <2>2. p * 1 <= p * BLOCK_SIZE BY NumberSets, SMT
  <2>3. p * BLOCK_SIZE \in Nat BY NumberSets
  <2> QED BY <2>1, <2>2, <2>3, SizesAssumption
<1>3. b < OwnersPerBlock
  BY <1>2 DEF Saveable, SmallFiles, LowBlocks
<1>4. b \in BlocksOf(tb, f, p)
  <2>1. BlocksOf(tb, f, p) # {} BY DEF Whole
  <2> QED BY <2>1, BlockOfPresent
<1>5. \A c \in Blocks : c < OwnersPerBlock =>
        (c \in BlocksOf(ld, f, p) <=> c \in BlocksOf(tb, f, p))
  <2> SUFFICES ASSUME NEW c \in Blocks, c < OwnersPerBlock
               PROVE  c \in BlocksOf(ld, f, p) <=> c \in BlocksOf(tb, f, p)
    OBVIOUS
  <2>1. c % OwnersPerBlock = c BY OwnerPlace
  <2>2. /\ ld.block_belong_list[c] = tb.block_belong_list[c]
        /\ ld.block_page_number[c] = p <=> tb.block_page_number[c] = p
    BY <1>1, <1>2, <2>1
  <2> QED BY <2>2 DEF BlocksOf
<1>6. b \in BlocksOf(ld, f, p)
  BY <1>3, <1>4, <1>5, NumberSets DEF BlocksOf
<1>7. m = Min(BlocksOf(ld, f, p)) /\ b = Min(BlocksOf(tb, f, p))
  BY <1>4, <1>6 DEF BlockOf
<1>8. BlocksOf(ld, f, p) \in SUBSET Nat /\ BlocksOf(tb, f, p) \in SUBSET Nat
      /\ BlocksOf(ld, f, p) \in SUBSET Blocks
  BY NumberSets DEF BlocksOf
<1> HIDE DEF b, m
<1>9. m \in BlocksOf(ld, f, p) /\ m <= b
  BY <1>6, <1>7, <1>8, LeastNatural
<1>10. m \in BlocksOf(tb, f, p)
  <2>1. m \in Nat /\ b \in Nat /\ OwnersPerBlock \in Nat /\ m \in Blocks
    BY <1>4, <1>8, <1>9, NumberSets
  <2>2. m < OwnersPerBlock BY <1>3, <1>9, <2>1
  <2> QED BY <1>5, <1>9, <2>1, <2>2
<1>11. b <= m
  BY <1>7, <1>8, <1>10, LeastNatural
<1>12. m \in Nat /\ b \in Nat
  BY <1>4, <1>8, <1>9
<1>13. m = b
  BY <1>9, <1>11, <1>12
<1> QED BY <1>13 DEF m, b, ld

\* So every file is the same.
LEMMA SavedBytes ==
  ASSUME NEW tb \in TableShapes, Numbered(tb), Whole(tb), Saveable(tb), NEW n
  PROVE  BytesIn(Loaded(Saved(tb)), n) = BytesIn(tb, n)
<1> DEFINE ld    == Loaded(Saved(tb))
           named == FilesNamed(tb, n)
           f     == Min(named)
           size  == tb.file_size_list[f]
<1>1. FilesNamed(ld, n) = named
  BY DEF Loaded, Saved, FilesNamed
<1>2. CASE named = {}
  BY <1>1, <1>2 DEF BytesIn
<1>3. CASE named # {}
  <2>1. f \in Files /\ ~tb.file_free_list[f]
    <3>1. named \in SUBSET Nat BY NumberSets DEF FilesNamed
    <3>2. f \in named BY <1>3, <3>1, LeastNatural
    <3> QED BY <3>2 DEF FilesNamed
  <2> HIDE DEF f, named
  <2>2. ld.file_size_list[f] = size
    BY <2>1, SavedNumbers DEF Saveable, SmallFiles, LowBlocks
  <2>3. size \in Nat
    <3>1. size \in -1 .. MaxSize /\ size >= 0
      BY <2>1 DEF Numbered, Whole
    <3> QED BY <3>1, SizesAssumption
  <2> HIDE DEF size
  <2>4. PagesOf(ld, f) = PagesOf(tb, f)
    <3> HIDE DEF ld
    <3> SUFFICES ASSUME NEW p \in 0 .. PageCount(size) - 1
                 PROVE  BlockOf(ld, f, p) = BlockOf(tb, f, p)
      BY <2>2 DEF PagesOf, size
    <3>1. 0 \in Nat /\ PageCount(size) \in Nat BY <2>3, PagesOfSize
    <3>2. p \in Nat /\ p < PageCount(size) BY <3>1
    <3>3. p * BLOCK_SIZE < size BY <2>3, <3>2, PagesOfSize
    <3> QED BY <2>1, <3>2, <3>3, SavedBlock DEF size, ld
  <2> HIDE DEF ld
  <2> QED BY <1>1, <1>3, <2>2, <2>4 DEF BytesIn, size, f, named, ld
<1> QED BY <1>2, <1>3

\* The contents of a file, before a step and after it.
LEMMA ContentsAreBytes ==
  ASSUME NEW n
  PROVE  /\ Contents(n) = IF exists THEN BytesIn(Current, n) ELSE NoFile
         /\ Contents(n)' = IF exists' THEN BytesIn(Current, n)' ELSE NoFile
<1>1. Contents(n) = IF exists THEN BytesIn(Current, n) ELSE NoFile
  BY DEF Contents, BytesIn, BytesAt, PagesOf
<1>2. Contents(n)' = IF exists' THEN BytesIn(Current, n)' ELSE NoFile
  BY DEF Contents, BytesIn, BytesAt, PagesOf
<1> QED BY <1>1, <1>2

\* Every file is there after umount_fs and after mount_fs as it was before, with the
\* bytes it had, when clients unmount while sizes fit a byte and blocks lie in the
\* half of the disk whose owners are saved, and keep to the other limits.
THEOREM RemountKeepsFilesHolds ==
  ASSUME KnowTheLimits
  PROVE  FsSpec => RemountKeepsFiles
<1> DEFINE Kept == [n \in Names |-> Contents(n)]' = [n \in Names |-> Contents(n)]
<1>1. ASSUME SeekInv, [FsNext]_fsVars, active' # active PROVE Kept
  <2>1. MountFs \/ UmountFs
    BY ZenonT(30), <1>1 DEF FsNext, MakeFs, MakeFsMounted, FsListfiles, FsGetFilesizeReturn, FsCreate,
                FsDelete, FsOpen, FsClose, FsGetFilesize, FsRead, FsLseek, FsTruncate,
                FsWrite, fsVars, diskVars
  <2>2. ASSUME NEW n \in Names PROVE Contents(n)' = Contents(n)
    <3>1. CASE MountFs
      <4>1. /\ exists' = exists /\ data' = data /\ ~active /\ active' = TRUE
            /\ tables' = Loaded(meta)
        BY <3>1 DEF MountFs, OpenDisk
      <4>2. BytesIn(Current, n)' = BytesIn(Current, n)
        BY <4>1 DEF Current, BytesIn, BytesAt, PagesOf
      <4> QED BY <4>1, <4>2, ContentsAreBytes
    <3>2. CASE UmountFs
      <4>1. /\ exists' = exists /\ data' = data /\ active /\ active' = FALSE
            /\ meta' = Saved(tables) /\ Saveable(tables)
        BY <3>2 DEF UmountFs, CloseDisk, Keeps, KnowTheLimits, Saveable
      <4>2. tables \in TableShapes /\ Numbered(tables) /\ Whole(tables)
        BY <1>1 DEF SeekInv, FsTypeInv, OwnersInv
      <4>3. BytesIn(Loaded(Saved(tables)), n) = BytesIn(tables, n)
        BY <4>1, <4>2, SavedBytes
      <4>4. BytesIn(Current, n)' = BytesIn(Loaded(Saved(tables)), n)
        BY <4>1 DEF Current, BytesIn, BytesAt, PagesOf
      <4>5. BytesIn(Current, n) = BytesIn(tables, n)
        BY <4>1 DEF Current
      <4> QED BY <4>1, <4>3, <4>4, <4>5, ContentsAreBytes
    <3> QED BY <2>1, <3>1, <3>2
  <2> QED BY <2>2
<1>2. SeekInv /\ [FsNext]_fsVars => [active' # active => Kept]_fsVars
  BY <1>1
<1> QED BY <1>2, SeekInvariant, PTL DEF FsSpec, RemountKeepsFiles
=============================================================================
