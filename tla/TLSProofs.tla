------------------------------- MODULE TLSProofs -------------------------------
(***************************************************************************)
(* Proofs about TLS, for clients that serialise their calls but for those  *)
(* that do not disturb each other (clones, and a read while another thread *)
(* destroys its storage) and never call tls_write with length 0.           *)
(***************************************************************************)
EXTENDS TLS, FiniteSetTheorems, WellFoundedInduction, TLAPS

Orderly == Overlap \subseteq {{"clone"}, {"read", "destroy"}} /\ ~EmptyWrites

-----------------------------------------------------------------------------
(* The inductive invariant.                                                 *)

\* The calls a thread can be in.
IdleFrames    == [op : {"none"}, pc : {"idle", "killed"}]
CreateFrames  == [op : {"create"}, pc : {"create_claim", "create_fill"},
                  slot : Slots, length : Sizes]
DestroyFrames == [op : {"destroy"}, pc : {"destroy_page", "destroy_release"},
                  slot : Slots, at : Nat]
ReadFrames(n) == [op : {"read"}, pc : {"read_open", "read_copy", "read_close", "read_return"},
                  slot : Slots, offset : Nat, length : {n}, at : Nat,
                  buffer : [0 .. n -> Values \cup {NoByte}]]
WriteFrames   == [op : {"write"}, pc : {"write_enter", "write_copy", "write_swap",
                                        "write_open", "write_byte", "write_close"},
                  slot : Slots, offset : Nat, length : Nat \ {0}, at : Nat,
                  value : Values, fresh : PageIds]
SearchFrames  == [op : {"clone"}, pc : {"clone_lock", "clone_find"}, target : Threads]
CopyFrames    == [op : {"clone"}, pc : {"clone_claim", "clone_fill", "clone_unlock"},
                  slot : Slots, target : Slots]

Frames ==
  UNION {IdleFrames, CreateFrames, DestroyFrames, UNION {ReadFrames(n) : n \in Nat},
         WriteFrames, SearchFrames, CopyFrames}

Types ==
  /\ tls_exist_array \in [Slots -> BOOLEAN]
  /\ tls_array \in [Slots -> Storage]
  /\ page \in [PageIds -> Page]
  /\ mutex \in Threads \cup {NoThread}
  /\ frame \in [Threads -> Frames]
  /\ process \in {"running", "exited"}

\* Two calls at a time are two clones, or a read and a destroy.
MayOverlap(f, g) ==
  \/ f.op = "clone" /\ g.op = "clone"
  \/ f.op = "read" /\ g.op = "destroy"
  \/ f.op = "destroy" /\ g.op = "read"

Serial ==
  \A t, u \in Threads :
    t # u /\ frame[t].op # "none" /\ frame[u].op # "none" => MayOverlap(frame[t], frame[u])

\* A clone that is past the lock has the mutex.
MutexHeld ==
  \A t \in Threads :
    frame[t].pc \in {"clone_find", "clone_claim", "clone_fill", "clone_unlock"} => mutex = t

Pages(s) == tls_array[s].page_ptr_array

\* A slot that has pages is in use, and has as many as its bytes call for, all of
\* them different; one in use that has none is about to be filled.
StorageOK(s) ==
  /\ Pages(s) # << >> => tls_exist_array[s] /\ Len(Pages(s)) = PagesFor(tls_array[s].byte_count)
  /\ tls_exist_array[s] /\ Pages(s) = << >> =>
       \E t \in Threads : frame[t].pc \in {"create_fill", "clone_fill"} /\ frame[t].slot = s
  /\ \A i, j \in 1 .. Len(Pages(s)) : Pages(s)[i] = Pages(s)[j] => i = j

\* The storage a call works on, and how far it has come.
Mine(t) == Pages(frame[t].slot) # << >> /\ tls_array[frame[t].slot].threadID = t

PlaceOK(t) ==
  /\ frame[t].pc \in {"create_claim", "clone_claim"} => ~tls_exist_array[frame[t].slot]
  /\ frame[t].pc \in {"create_fill", "clone_fill"} =>
       tls_exist_array[frame[t].slot] /\ Pages(frame[t].slot) = << >>
  /\ frame[t].pc \in {"clone_claim", "clone_fill"} => Pages(frame[t].target) # << >>
  /\ frame[t].pc = "clone_unlock" => Mine(t)
  /\ frame[t].op \in {"destroy", "read", "write"} => Mine(t)
  /\ frame[t].pc = "destroy_page" => frame[t].at < Len(Pages(frame[t].slot))
  /\ frame[t].pc = "destroy_release" => frame[t].at = Len(Pages(frame[t].slot))
  /\ frame[t].op \in {"read", "write"} => End(frame[t]) <= tls_array[frame[t].slot].byte_count
  /\ frame[t].op = "read" =>
       FirstPage(frame[t]) <= frame[t].at /\ frame[t].at <= LastRead(frame[t])
  /\ frame[t].op = "write" => frame[t].offset <= frame[t].at /\ frame[t].at < End(frame[t])
  /\ frame[t].pc = "write_enter" /\ frame[t].at > frame[t].offset =>
       frame[t].at % PageSize = 0

\* Who is to be counted for a page: the slots that have it, but for the pages a
\* destroy has let go already, and the copy a write is about to put in place.
Holds(s, p) ==
  \E i \in 1 .. Len(Pages(s)) :
    /\ Pages(s)[i] = p
    /\ \A t \in Threads : frame[t].op = "destroy" /\ frame[t].slot = s => frame[t].at < i

Pending(p) == \E t \in Threads : frame[t].pc = "write_swap" /\ frame[t].fresh = p

Copy == -1

Holders(p) == {s \in Slots \cup {Copy} : IF s = Copy THEN Pending(p) ELSE Holds(s, p)}

Counted == \A p \in PageIds : page[p].reference_count = Cardinality(Holders(p))

\* The page of thread t's storage with index i, and the one a write comes from.
PageAt(t, i) == Pages(frame[t].slot)[i + 1]
Previous(t)  == PageAt(t, (frame[t].at \div PageSize) - 1)

\* Page p may be accessible, for what t is doing.
Exposed(t, p) ==
  \/ frame[t].pc \in {"read_copy", "read_close"} /\ p = Here(t)
  \/ frame[t].pc = "write_enter" /\ frame[t].at > frame[t].offset /\ p = Previous(t)
  \/ frame[t].pc = "write_swap" /\ p = frame[t].fresh
  \/ frame[t].pc \in {"write_open", "write_byte", "write_close"} /\ p = Target(t)

Sealed ==
  \A p \in PageIds : page[p].prot \in {"READ", "WRITE"} => \E t \in Threads : Exposed(t, p)

\* What t works on is open to it, and while t makes a copy of a page others share it,
\* and nobody but t knows of the copy.
AccessOK(t) ==
  /\ frame[t].pc \in {"read_copy", "read_close"} => page[Here(t)].prot = "READ"
  /\ frame[t].pc \in {"write_byte", "write_close"} => page[Target(t)].prot = "WRITE"
  /\ frame[t].pc \in {"write_copy", "write_swap"} => Shared(Target(t))
  /\ frame[t].pc = "write_swap" => Holders(frame[t].fresh) = {Copy}

\* The process ends between calls only.
EndsQuiescent == process = "exited" => Quiescent

TLSInv ==
  /\ Types /\ Serial /\ MutexHeld
  /\ \A s \in Slots : StorageOK(s)
  /\ \A t \in Threads : PlaceOK(t)
  /\ Counted /\ Sealed
  /\ \A t \in Threads : AccessOK(t)
  /\ EndsQuiescent

-----------------------------------------------------------------------------
(* Numbers and frames.                                                      *)

\* A number lies on the page that division tells.
LEMMA Division ==
  ASSUME NEW x \in Nat, NEW k \in Nat \ {0}
  PROVE  /\ x \div k \in Nat /\ x % k \in 0 .. k - 1
         /\ x = (x \div k) * k + (x % k)
         /\ (x \div k) * k \in Nat /\ (x \div k) * k <= x
         /\ \A p \in Int : p * k <= x <=> p <= x \div k
<1>1. x \div k \in Nat /\ x % k \in 0 .. k - 1 /\ x = (x \div k) * k + (x % k)
  BY SMT
<1>2. \A p \in Int : p * k <= x <=> p <= x \div k
  <2> SUFFICES ASSUME NEW p \in Int PROVE p * k <= x <=> p <= x \div k
    OBVIOUS
  <2> DEFINE q == x \div k
             r == x % k
  <2>1. q \in Nat /\ r \in 0 .. k - 1 /\ x = q * k + r BY <1>1
  <2> HIDE DEF q, r
  <2>2. ASSUME p <= q PROVE p * k <= q * k BY <2>1, <2>2, SMT
  <2>3. ASSUME p >= q + 1 PROVE p * k >= (q + 1) * k BY <2>1, <2>3, SMT
  <2>4. p * k \in Int /\ q * k \in Int /\ (q + 1) * k = q * k + k BY <2>1, SMT
  <2>5. p <= q \/ p >= q + 1 BY <2>1
  <2> QED BY <2>1, <2>2, <2>3, <2>4, <2>5 DEF q
<1>3. (x \div k) * k \in Nat /\ (x \div k) * k <= x
  <2> DEFINE q == x \div k
             r == x % k
  <2>1. q \in Nat /\ r \in 0 .. k - 1 /\ x = q * k + r BY <1>1
  <2> HIDE DEF q, r
  <2>2. q * k \in Nat BY <2>1, SMT
  <2>3. q * k <= x BY <2>1, <2>2
  <2> QED BY <2>2, <2>3 DEF q
<1> QED BY <1>1, <1>2, <1>3

\* Pages are in the order of the bytes on them.
LEMMA PagesInOrder ==
  ASSUME NEW x \in Nat, NEW y \in Nat, NEW k \in Nat \ {0}, x <= y
  PROVE  x \div k <= y \div k
<1> DEFINE p == x \div k
<1>1. p \in Nat /\ p * k \in Nat /\ p * k <= x BY Division
<1>2. \A z \in Int : z * k <= y <=> z <= y \div k BY Division
<1> HIDE DEF p
<1>3. p * k <= y BY <1>1
<1>4. p <= y \div k BY <1>1, <1>2, <1>3
<1> QED BY <1>4 DEF p

\* The next number lies on the same page, or begins the next one.
LEMMA NextNumber ==
  ASSUME NEW x \in Nat, NEW k \in Nat \ {0}
  PROVE  /\ (x + 1) % k = 0 => (x + 1) \div k = x \div k + 1
         /\ (x + 1) % k # 0 => (x + 1) \div k = x \div k
<1> DEFINE q == x \div k
           r == x % k
           q2 == (x + 1) \div k
           r2 == (x + 1) % k
<1>1. /\ q \in Nat /\ r \in 0 .. k - 1 /\ x = q * k + r
      /\ q2 \in Nat /\ r2 \in 0 .. k - 1 /\ x + 1 = q2 * k + r2
      /\ \A p \in Int : p * k <= x <=> p <= q
      /\ \A p \in Int : p * k <= x + 1 <=> p <= q2
  <2>1. x + 1 \in Nat OBVIOUS
  <2> QED BY <2>1, Division
<1> HIDE DEF q, r, q2, r2
<1>2. q <= q2
  <2>1. q * k <= x /\ q * k \in Nat BY <1>1
  <2> QED BY <1>1, <2>1
<1>3. ASSUME r2 = 0 PROVE q2 = q + 1
  <2>1. ~(q2 * k <= x)
    <3>1. q2 * k \in Nat BY <1>1
    <3> QED BY <1>1, <1>3, <3>1
  <2>2. q2 > q BY <1>1, <2>1
  <2>3. (q + 2) * k = q * k + k + k BY <1>1, SMT
  <2>4. ~((q + 2) * k <= x + 1)
    <3>1. q * k \in Nat BY <1>1
    <3>2. CASE k = 1
      <4>1. r = 0 BY <1>1, <3>2
      <4> QED BY <1>1, <2>3, <3>1, <4>1, <3>2
    <3>3. CASE k > 1
      BY <1>1, <2>3, <3>1, <3>3
    <3> QED BY <3>2, <3>3
  <2>5. ~(q + 2 <= q2) BY <1>1, <2>4
  <2> QED BY <1>1, <2>2, <2>5
<1>4. ASSUME r2 # 0 PROVE q2 = q
  <2>1. q2 * k <= x
    <3>1. q2 * k \in Nat BY <1>1
    <3> QED BY <1>1, <1>4, <3>1
  <2> QED BY <1>1, <1>2, <2>1
<1> QED BY <1>3, <1>4 DEF q, q2, r2

\* What a frame is, by its operation and by its next step.
LEMMA FrameKinds ==
  ASSUME Types, NEW t \in Threads
  PROVE  /\ frame[t].op = "none" => frame[t] \in IdleFrames
         /\ frame[t].op = "create" => frame[t] \in CreateFrames
         /\ frame[t].op = "destroy" => frame[t] \in DestroyFrames
         /\ frame[t].op = "read" =>
              frame[t].length \in Nat /\ frame[t] \in ReadFrames(frame[t].length)
         /\ frame[t].op = "write" => frame[t] \in WriteFrames
         /\ frame[t].op = "clone" => frame[t] \in SearchFrames \/ frame[t] \in CopyFrames
         /\ frame[t].op \in {"none", "create", "destroy", "read", "write", "clone"}
<1> DEFINE f == frame[t]
<1>1. f \in Frames
  BY DEF Types
<1> HIDE DEF f
<1>2. CASE f \in IdleFrames
  BY <1>2 DEF f, IdleFrames
<1>3. CASE f \in CreateFrames
  BY <1>3 DEF f, CreateFrames
<1>4. CASE f \in DestroyFrames
  BY <1>4 DEF f, DestroyFrames
<1>5. CASE \E n \in Nat : f \in ReadFrames(n)
  <2>1. PICK n \in Nat : f \in ReadFrames(n) BY <1>5
  <2>2. f.length = n /\ f.op = "read" BY <2>1 DEF ReadFrames
  <2> QED BY <2>1, <2>2 DEF f
<1>6. CASE f \in WriteFrames
  BY <1>6 DEF f, WriteFrames
<1>7. CASE f \in SearchFrames
  BY <1>7 DEF f, SearchFrames
<1>8. CASE f \in CopyFrames
  BY <1>8 DEF f, CopyFrames
<1> QED BY <1>1, <1>2, <1>3, <1>4, <1>5, <1>6, <1>7, <1>8 DEF Frames

\* The operation a next step is of.
LEMMA StepKinds ==
  ASSUME Types, NEW t \in Threads
  PROVE  /\ frame[t].pc \in {"idle", "killed"} <=> frame[t].op = "none"
         /\ frame[t].pc \in {"create_claim", "create_fill"} <=> frame[t].op = "create"
         /\ frame[t].pc \in {"destroy_page", "destroy_release"} <=> frame[t].op = "destroy"
         /\ frame[t].pc \in {"read_open", "read_copy", "read_close", "read_return"}
              <=> frame[t].op = "read"
         /\ frame[t].pc \in {"write_enter", "write_copy", "write_swap",
                             "write_open", "write_byte", "write_close"}
              <=> frame[t].op = "write"
         /\ frame[t].pc \in {"clone_lock", "clone_find"} <=> frame[t] \in SearchFrames
         /\ frame[t].pc \in {"clone_claim", "clone_fill", "clone_unlock"} <=> frame[t] \in CopyFrames
         /\ frame[t] \in SearchFrames \cup CopyFrames => frame[t].op = "clone"
<1>1. CASE frame[t].op = "none" BY <1>1, FrameKinds DEF IdleFrames, SearchFrames, CopyFrames
<1>2. CASE frame[t].op = "create" BY <1>2, FrameKinds DEF CreateFrames, SearchFrames, CopyFrames
<1>3. CASE frame[t].op = "destroy" BY <1>3, FrameKinds DEF DestroyFrames, SearchFrames, CopyFrames
<1>4. CASE frame[t].op = "read" BY <1>4, FrameKinds DEF ReadFrames, SearchFrames, CopyFrames
<1>5. CASE frame[t].op = "write" BY <1>5, FrameKinds DEF WriteFrames, SearchFrames, CopyFrames
<1>6. CASE frame[t].op = "clone" BY <1>6, FrameKinds DEF SearchFrames, CopyFrames
<1> QED BY <1>1, <1>2, <1>3, <1>4, <1>5, <1>6, FrameKinds

\* Frames of each kind are frames.
LEMMA KindsAreFrames ==
  /\ IdleFrames \subseteq Frames /\ CreateFrames \subseteq Frames /\ DestroyFrames \subseteq Frames
  /\ \A n \in Nat : ReadFrames(n) \subseteq Frames
  /\ WriteFrames \subseteq Frames /\ SearchFrames \subseteq Frames /\ CopyFrames \subseteq Frames
BY DEF Frames

\* Who else is in a call while a thread is.
LEMMA Company ==
  ASSUME Types, Serial, NEW t \in Threads, NEW u \in Threads, t # u
  PROVE  /\ frame[t].op \in {"create", "write"} => frame[u].op = "none"
         /\ frame[t].op = "read" => frame[u].op \in {"none", "destroy"}
         /\ frame[t].op = "destroy" => frame[u].op \in {"none", "read"}
         /\ frame[t].op = "clone" => frame[u].op \in {"none", "clone"}
BY FrameKinds DEF Serial, MayOverlap

\* A call begins when those that are in progress let it.
LEMMA CallSerial ==
  ASSUME Orderly, Types, Serial, NEW t \in Threads, NEW op \in Operations, NEW g,
         Call(t, op, g), g.op = op
  PROVE  /\ Serial' /\ frame[t] \in IdleFrames
         /\ \A u \in Threads \ {t} : frame[u].op # "none" => MayOverlap(g, frame[u])
<1>1. frame[t].pc = "idle" /\ frame' = [frame EXCEPT ![t] = g]
  BY DEF Call, At
<1>2. \A u \in Threads \ {t} : frame[u].op # "none" => MayOverlap(g, frame[u])
  <2> SUFFICES ASSUME NEW u \in Threads \ {t}, frame[u].op # "none"
               PROVE  MayOverlap(g, frame[u])
    OBVIOUS
  <2>1. {op, frame[u].op} \in {{"clone"}, {"read", "destroy"}}
    BY DEF Call, Orderly
  <2>2. CASE {op, frame[u].op} = {"clone"}
    BY <2>2 DEF MayOverlap
  <2>3. CASE {op, frame[u].op} = {"read", "destroy"}
    BY <2>3 DEF MayOverlap
  <2> QED BY <2>1, <2>2, <2>3
<1>3. Serial'
  BY <1>1, <1>2 DEF Serial, Types, MayOverlap
<1> QED BY <1>1, <1>2, <1>3, StepKinds, FrameKinds

\* A step inside a call, or out of it, keeps to what overlaps.
LEMMA StepSerial ==
  ASSUME Types, Serial, NEW t \in Threads, NEW g, frame' = [frame EXCEPT ![t] = g],
         g.op = "none" \/ g.op = frame[t].op
  PROVE  Serial'
BY DEF Serial, Types, MayOverlap

\* The slots, and the token of a copy, can be counted.
LEMMA HoldersCount ==
  ASSUME NEW p
  PROVE  /\ IsFiniteSet(Holders(p)) /\ Cardinality(Holders(p)) \in Nat
         /\ Holders(p) = {} <=> Cardinality(Holders(p)) = 0
         /\ Copy \notin Slots
<1>1. IsFiniteSet(Slots \cup {Copy})
  <2>1. 0 \in Int /\ MaxSlots - 1 \in Int BY MaxSlotsAssumption
  <2>2. IsFiniteSet(Slots) BY <2>1, FS_Interval DEF Slots
  <2> QED BY <2>2, FS_AddElement
<1>2. Holders(p) \subseteq Slots \cup {Copy}
  BY DEF Holders
<1>3. IsFiniteSet(Holders(p))
  BY <1>1, <1>2, FS_Subset
<1>4. Copy \notin Slots
  BY MaxSlotsAssumption DEF Copy, Slots
<1> QED BY <1>3, <1>4, FS_CardinalityType, FS_EmptySet

\* One holder more, and one less.
LEMMA OneMore ==
  ASSUME NEW S, NEW x, IsFiniteSet(S), x \notin S
  PROVE  Cardinality(S \cup {x}) = Cardinality(S) + 1
<1>1. Cardinality(S \cup {x}) = IF x \in S THEN Cardinality(S) ELSE Cardinality(S) + 1
  BY FS_AddElement
<1> QED BY <1>1

\* The count without one of the holders.
LEMMA OneLess ==
  ASSUME NEW S, NEW x, IsFiniteSet(S), x \in S
  PROVE  Cardinality(S \ {x}) = Cardinality(S) - 1
<1>1. Cardinality(S \ {x}) = IF x \in S THEN Cardinality(S) - 1 ELSE Cardinality(S)
  BY FS_RemoveElement
<1> QED BY <1>1

\* A page that somebody is counted for is mapped.
LEMMA HeldMapped ==
  ASSUME Types, Counted, NEW p \in PageIds
  PROVE  /\ page[p] \in Page
         /\ page[p].reference_count \in Nat
         /\ p \in Mapped <=> page[p].reference_count # 0
         /\ p \in Mapped <=> Holders(p) # {}
         /\ p \notin Mapped <=> page[p] = Unmapped
<1>1. page[p] \in Page /\ page[p].reference_count = Cardinality(Holders(p))
  BY DEF Types, Counted
<1>2. /\ page[p].reference_count \in Nat
      /\ page[p].prot = "unmapped" <=> page[p].reference_count = 0
      /\ page[p].prot = "unmapped" <=> page[p] = Unmapped
  <2> DEFINE q == page[p]
  <2>0. q \in Page BY <1>1
  <2> HIDE DEF q
  <2>1. CASE q = Unmapped
    <3>1. Unmapped.reference_count = 0 /\ Unmapped.prot = "unmapped" BY DEF Unmapped
    <3> QED BY <2>1, <3>1 DEF q
  <2>2. CASE q # Unmapped
    <3>1. q.reference_count \in Nat \ {0} /\ q.prot \in {"NONE", "READ", "WRITE"}
      BY <2>0, <2>2 DEF Page
    <3> QED BY <2>2, <3>1 DEF q
  <2> QED BY <2>1, <2>2
<1> QED BY <1>1, <1>2, HoldersCount DEF Mapped

\* The lesser and the greater of two integers.
LEMMA LesserGreater ==
  ASSUME NEW a \in Int, NEW b \in Int
  PROVE  /\ Min({a, b}) \in {a, b} /\ Min({a, b}) <= a /\ Min({a, b}) <= b
         /\ Max({a, b}) \in {a, b} /\ Max({a, b}) >= a /\ Max({a, b}) >= b
<1>1. \E x \in {a, b} : \A y \in {a, b} : x =< y
  BY a <= b \/ b <= a
<1>2. \E x \in {a, b} : \A y \in {a, b} : x >= y
  BY a <= b \/ b <= a
<1>3. Min({a, b}) \in {a, b} /\ \A y \in {a, b} : Min({a, b}) =< y
  BY <1>1 DEF Min
<1>4. Max({a, b}) \in {a, b} /\ \A y \in {a, b} : Max({a, b}) >= y
  BY <1>2 DEF Max
<1> QED BY <1>3, <1>4

\* The pages a read goes over: the last one holds the last byte, and is one of those
\* that End bytes take.
LEMMA ReadPages ==
  ASSUME NEW n \in Nat, NEW f \in ReadFrames(n)
  PROVE  /\ FirstPage(f) \in Nat /\ LastWhole(f) \in Nat /\ LastRead(f) \in Nat
         /\ FirstPage(f) <= LastWhole(f) /\ LastWhole(f) <= LastRead(f)
         /\ LastRead(f) <= End(f) \div PageSize
         /\ End(f) - 1 < (LastRead(f) + 1) * PageSize
         /\ \A i \in Nat : i <= LastWhole(f) \/ i = LastWhole(f) + 1 \/ i > LastRead(f)
<1> DEFINE k == PageSize
           off == f.offset
           e == End(f)
           first == FirstPage(f)
           over == (e + 1) \div k
           whole == LastWhole(f)
           last == LastRead(f)
<1>1. k \in Nat \ {0} /\ off \in Nat /\ e = off + n /\ e \in Nat
  BY PageSizeAssumption DEF ReadFrames, End
<1>2. whole = Max({first, over - 1})
      /\ last = IF (whole + 1) * k < e THEN whole + 1 ELSE whole
  BY DEF LastWhole, LastRead
<1> HIDE DEF k, off, e
<1>3. first \in Nat /\ first <= e \div k /\ e \div k \in Nat
  <2>1. first = off \div k BY DEF FirstPage, off, k
  <2>2. off \div k \in Nat /\ e \div k \in Nat BY <1>1, Division
  <2>3. off <= e BY <1>1
  <2>4. off \div k <= e \div k BY <1>1, <2>3, PagesInOrder
  <2> QED BY <2>1, <2>2, <2>4
<1>4. over \in Nat /\ over - 1 <= e \div k
  <2>1. e + 1 \in Nat BY <1>1
  <2>2. over \in Nat /\ over * k \in Nat /\ over * k <= e + 1 BY <1>1, <2>1, Division
  <2> HIDE DEF over
  <2>3. (over - 1) * k = over * k - k BY <1>1, <2>2, SMT
  <2>4. (over - 1) * k <= e BY <1>1, <2>2, <2>3
  <2>5. over - 1 \in Int BY <2>2
  <2> QED BY <1>1, <2>2, <2>4, <2>5, Division
<1>5. e + 1 < (over + 1) * k
  <2>1. e + 1 \in Nat /\ over + 1 \in Int BY <1>1, <1>4
  <2>2. ~((over + 1) * k <= e + 1)
    <3>1. \A p \in Int : p * k <= e + 1 <=> p <= over BY <1>1, <2>1, Division
    <3> HIDE DEF over
    <3> QED BY <1>4, <2>1, <3>1
  <2> HIDE DEF over
  <2>3. (over + 1) * k \in Nat BY <1>1, <1>4
  <2> QED BY <1>1, <2>2, <2>3
<1> HIDE DEF first, over, whole, last
<1>6. whole \in Nat /\ first <= whole /\ over - 1 <= whole /\ whole <= e \div k
  <2>1. first \in Int /\ over - 1 \in Int BY <1>3, <1>4
  <2>2. whole \in {first, over - 1} /\ whole >= first /\ whole >= over - 1
    BY <1>2, <2>1, LesserGreater
  <2> QED BY <1>3, <1>4, <2>2
<1>7. last \in Nat /\ whole <= last /\ last <= whole + 1 /\ last <= e \div k
  <2>1. CASE (whole + 1) * k < e
    <3>1. last = whole + 1 /\ whole + 1 \in Int BY <1>2, <1>6, <2>1
    <3>2. (whole + 1) * k \in Nat BY <1>1, <1>6
    <3>3. (whole + 1) * k <= e BY <1>1, <2>1, <3>2
    <3>4. whole + 1 <= e \div k
      <4>1. \A p \in Int : p * k <= e <=> p <= e \div k BY <1>1, Division
      <4> QED BY <3>1, <3>3, <4>1
    <3> QED BY <1>6, <3>1, <3>4
  <2>2. CASE ~((whole + 1) * k < e)
    BY <1>2, <1>6, <2>2
  <2> QED BY <2>1, <2>2
<1>8. e - 1 < (last + 1) * k
  <2>1. CASE (whole + 1) * k < e
    <3>1. last = whole + 1 BY <1>2, <2>1
    <3>2. (over + 1) * k <= (whole + 2) * k BY <1>1, <1>4, <1>6, SMT
    <3>3. (over + 1) * k \in Nat /\ (whole + 2) * k \in Nat BY <1>1, <1>4, <1>6
    <3>4. last + 1 = whole + 2 BY <1>6, <3>1
    <3> QED BY <1>1, <1>5, <3>2, <3>3, <3>4
  <2>2. CASE ~((whole + 1) * k < e)
    <3>1. last = whole /\ (whole + 1) * k \in Nat BY <1>1, <1>2, <1>6, <2>2
    <3> QED BY <1>1, <2>2, <3>1
  <2> QED BY <2>1, <2>2
<1>9. \A i \in Nat : i <= whole \/ i = whole + 1 \/ i > last
  BY <1>6, <1>7
<1> QED BY <1>3, <1>6, <1>7, <1>8, <1>9 DEF first, whole, last, e, k

\* The pages a call has come to are pages of its storage.
LEMMA PagesReached ==
  ASSUME Types, \A s \in Slots : StorageOK(s), NEW t \in Threads, PlaceOK(t)
  PROVE  /\ frame[t].op = "read" =>
              frame[t].at \in Nat /\ frame[t].at + 1 \in 1 .. Len(Pages(frame[t].slot))
         /\ frame[t].op = "write" =>
              /\ frame[t].at \in Nat /\ frame[t].at \div PageSize \in Nat
              /\ (frame[t].at \div PageSize) + 1 \in 1 .. Len(Pages(frame[t].slot))
         /\ frame[t].pc = "write_enter" /\ frame[t].at > frame[t].offset =>
              (frame[t].at \div PageSize) - 1 \in Nat
<1> DEFINE f == frame[t]
           k == PageSize
           bc == tls_array[f.slot].byte_count
<1>0. k \in Nat \ {0}
  BY PageSizeAssumption
<1>1. ASSUME f.op \in {"read", "write"}
      PROVE  /\ bc \in Nat /\ Len(Pages(f.slot)) = (bc \div k) + 1
             /\ End(f) <= bc
  <2>1. f.slot \in Slots BY <1>1, FrameKinds DEF ReadFrames, WriteFrames
  <2>2. bc \in Nat BY <2>1 DEF Types, Storage
  <2>3. Mine(t) /\ End(f) <= bc BY <1>1 DEF PlaceOK
  <2> QED BY <2>1, <2>2, <2>3 DEF StorageOK, Mine, PagesFor
<1>2. ASSUME f.op = "read" PROVE f.at \in Nat /\ f.at + 1 \in 1 .. Len(Pages(f.slot))
  <2>1. f.length \in Nat /\ f \in ReadFrames(f.length) BY <1>2, FrameKinds
  <2>2. f.at \in Nat /\ End(f) \in Nat BY <2>1 DEF ReadFrames, End
  <2>3. f.at <= LastRead(f) BY <1>2 DEF PlaceOK
  <2> HIDE DEF f, bc, k
  <2>4. LastRead(f) \in Nat /\ LastRead(f) <= End(f) \div k
    BY <2>1, ReadPages DEF k
  <2>5. End(f) \div k \in Nat /\ bc \div k \in Nat
    BY <1>0, <1>1, <1>2, <2>2, Division
  <2>6. End(f) \div k <= bc \div k
    BY <1>0, <1>1, <1>2, <2>2, PagesInOrder
  <2> QED BY <1>1, <1>2, <2>2, <2>3, <2>4, <2>5, <2>6
<1>3. ASSUME f.op = "write"
      PROVE  /\ f.at \in Nat /\ f.at \div k \in Nat
             /\ (f.at \div k) + 1 \in 1 .. Len(Pages(f.slot))
             /\ f.offset \in Nat
  <2>1. f.at \in Nat /\ End(f) \in Nat /\ f.offset \in Nat
    BY <1>3, FrameKinds DEF WriteFrames, End
  <2>2. f.at < End(f) BY <1>3 DEF PlaceOK
  <2> HIDE DEF f, bc, k
  <2>3. f.at \div k \in Nat /\ bc \div k \in Nat
    BY <1>0, <1>1, <1>3, <2>1, Division
  <2>4. f.at \div k <= bc \div k
    <3>1. f.at <= bc BY <1>1, <1>3, <2>1, <2>2
    <3> QED BY <1>0, <1>1, <1>3, <2>1, <3>1, PagesInOrder
  <2> QED BY <1>1, <1>3, <2>1, <2>3, <2>4
<1>4. ASSUME f.pc = "write_enter", f.at > f.offset PROVE (f.at \div k) - 1 \in Nat
  <2>1. f.op = "write" BY <1>4, StepKinds
  <2>2. f.at \in Nat /\ f.offset \in Nat /\ f.at % k = 0
    BY <1>3, <1>4, <2>1 DEF PlaceOK
  <2> HIDE DEF f, bc, k
  <2>3. f.at \div k \in Nat /\ f.at = (f.at \div k) * k + (f.at % k)
    BY <1>0, <2>2, Division
  <2>4. f.at \div k # 0
    <3>1. ASSUME f.at \div k = 0 PROVE FALSE
      <4>1. f.at = 0 * k + (f.at % k) BY <2>3, <3>1
      <4>2. 0 * k = 0 BY <1>0
      <4>3. f.at = 0 BY <2>2, <4>1, <4>2
      <4> QED BY <1>4, <2>2, <4>3
    <3> QED BY <3>1
  <2> QED BY <2>3, <2>4
<1> QED BY <1>2, <1>3, <1>4

\* A thread that reads or writes is counted for every page of its storage, and the
\* pages are mapped.
LEMMA OwnPages ==
  ASSUME TLSInv, NEW t \in Threads, frame[t].op \in {"read", "write"},
         NEW i \in Nat, i + 1 \in 1 .. Len(Pages(frame[t].slot))
  PROVE  /\ PageAt(t, i) \in PageIds
         /\ frame[t].slot \in Slots
         /\ Holds(frame[t].slot, PageAt(t, i))
         /\ PageAt(t, i) \in Mapped
         /\ \A u \in Threads : frame[u].op = "destroy" => frame[u].slot # frame[t].slot
<1> DEFINE s == frame[t].slot
<1>1. Types /\ Serial /\ Counted /\ PlaceOK(t)
  BY DEF TLSInv
<1>2. s \in Slots
  BY <1>1, FrameKinds DEF ReadFrames, WriteFrames
<1>3. PageAt(t, i) \in PageIds
  BY <1>1, <1>2 DEF PageAt, Pages, Types, Storage
<1>4. \A u \in Threads : frame[u].op = "destroy" => frame[u].slot # s
  <2> SUFFICES ASSUME NEW u \in Threads, frame[u].op = "destroy", frame[u].slot = s
               PROVE  FALSE
    OBVIOUS
  <2>1. PlaceOK(u) BY DEF TLSInv
  <2>2. Mine(u) /\ Mine(t) BY <1>1, <2>1 DEF PlaceOK
  <2>3. u = t BY <2>2 DEF Mine
  <2> QED BY <2>3
<1>5. Holds(s, PageAt(t, i))
  BY <1>4 DEF Holds, PageAt
<1>6. PageAt(t, i) \in Mapped
  <2>1. Holders(PageAt(t, i)) # {}
    BY <1>2, <1>5, HoldersCount DEF Holders
  <2> QED BY <1>1, <1>3, <2>1, HeldMapped
<1> QED BY <1>2, <1>3, <1>4, <1>5, <1>6

\* The pages tls_read and tls_write work on.
LEMMA WorkPages ==
  ASSUME TLSInv, NEW t \in Threads
  PROVE  /\ frame[t].op = "read" =>
              /\ Here(t) = PageAt(t, frame[t].at) /\ Here(t) \in PageIds /\ Here(t) \in Mapped
              /\ Holds(frame[t].slot, Here(t)) /\ frame[t].slot \in Slots
         /\ frame[t].op = "write" =>
              /\ Target(t) = PageAt(t, frame[t].at \div PageSize)
              /\ Target(t) \in PageIds /\ Target(t) \in Mapped
              /\ Holds(frame[t].slot, Target(t)) /\ frame[t].slot \in Slots
         /\ frame[t].pc = "write_enter" /\ frame[t].at > frame[t].offset =>
              /\ Previous(t) \in PageIds /\ Previous(t) \in Mapped
              /\ Previous(t) = PageOf(frame[t].slot, (frame[t].at \div PageSize) - 1)
<1>1. Types /\ PlaceOK(t) /\ \A s \in Slots : StorageOK(s)
  BY DEF TLSInv
<1>2. ASSUME frame[t].op = "read"
      PROVE  /\ Here(t) = PageAt(t, frame[t].at) /\ Here(t) \in PageIds /\ Here(t) \in Mapped
             /\ Holds(frame[t].slot, Here(t)) /\ frame[t].slot \in Slots
  <2>1. frame[t].at \in Nat /\ frame[t].at + 1 \in 1 .. Len(Pages(frame[t].slot))
    BY <1>1, <1>2, PagesReached
  <2>2. Here(t) = PageAt(t, frame[t].at) BY DEF Here, PageOf, PageAt, Pages
  <2> QED BY <1>2, <2>1, <2>2, OwnPages
<1>3. ASSUME frame[t].op = "write"
      PROVE  /\ Target(t) = PageAt(t, frame[t].at \div PageSize)
             /\ Target(t) \in PageIds /\ Target(t) \in Mapped
             /\ Holds(frame[t].slot, Target(t)) /\ frame[t].slot \in Slots
  <2> DEFINE i == frame[t].at \div PageSize
  <2>1. i \in Nat /\ i + 1 \in 1 .. Len(Pages(frame[t].slot))
    BY <1>1, <1>3, PagesReached
  <2>2. Target(t) = PageAt(t, i) BY DEF Target, PageOf, PageAt, Pages
  <2> HIDE DEF i
  <2>3. /\ PageAt(t, i) \in PageIds /\ PageAt(t, i) \in Mapped
        /\ Holds(frame[t].slot, PageAt(t, i)) /\ frame[t].slot \in Slots
    BY <1>3, <2>1, OwnPages
  <2> QED BY <2>2, <2>3 DEF i
<1>4. ASSUME frame[t].pc = "write_enter", frame[t].at > frame[t].offset
      PROVE  /\ Previous(t) \in PageIds /\ Previous(t) \in Mapped
             /\ Previous(t) = PageOf(frame[t].slot, (frame[t].at \div PageSize) - 1)
  <2> DEFINE i == (frame[t].at \div PageSize) - 1
  <2>1. frame[t].op = "write" BY <1>1, <1>4, StepKinds
  <2>2. i \in Nat /\ i + 1 \in 1 .. Len(Pages(frame[t].slot))
    <3> DEFINE q == frame[t].at \div PageSize
    <3>1. i \in Nat BY <1>1, <1>4, PagesReached
    <3>2. q \in Nat /\ q + 1 \in 1 .. Len(Pages(frame[t].slot))
      BY <1>1, <2>1, PagesReached
    <3>3. q = i + 1
      <4>1. i = q - 1 OBVIOUS
      <4> HIDE DEF i, q
      <4> QED BY <3>2, <4>1
    <3> HIDE DEF i, q
    <3>4. Len(Pages(frame[t].slot)) \in Nat
      <4>1. frame[t].slot \in Slots BY <1>1, <2>1, FrameKinds DEF WriteFrames
      <4> QED BY <1>1, <4>1 DEF Pages, Types, Storage
    <3> QED BY <3>1, <3>2, <3>3, <3>4
  <2>3. Previous(t) = PageAt(t, i) /\ Previous(t) = PageOf(frame[t].slot, i)
    BY DEF Previous, PageOf, PageAt, Pages
  <2> HIDE DEF i
  <2>4. PageAt(t, i) \in PageIds /\ PageAt(t, i) \in Mapped
    BY <2>1, <2>2, OwnPages
  <2> QED BY <2>3, <2>4 DEF i
<1> QED BY <1>2, <1>3, <1>4

-----------------------------------------------------------------------------
(* Steps that leave the storages and the reference counts as they are.      *)

\* What a step keeps that moves one thread, claims no slot but for that thread to fill,
\* and changes no more than the protection and the bytes of pages.
LEMMA Kept ==
  ASSUME TLSInv, NEW t \in Threads,
         frame' \in [Threads -> Frames], \A u \in Threads : u # t => frame'[u] = frame[u],
         UNCHANGED tls_array,
         tls_exist_array' \in [Slots -> BOOLEAN],
         \A s \in Slots : tls_exist_array[s] => tls_exist_array'[s],
         \A s \in Slots : tls_exist_array'[s] /\ ~tls_exist_array[s] =>
           /\ frame'[t].pc \in {"create_fill", "clone_fill"} /\ frame'[t].slot = s
           /\ \A u \in Threads : u # t => frame[u].pc \notin {"create_claim", "clone_claim"},
         mutex' \in Threads \cup {NoThread}, process' \in {"running", "exited"},
         page' \in [PageIds -> Page],
         \A p \in PageIds : page'[p].reference_count = page[p].reference_count,
         frame[t].pc \notin {"create_fill", "clone_fill", "write_swap"},
         frame'[t].pc # "write_swap", frame[t].op # "destroy",
         frame'[t].op = "destroy" => frame'[t].at = 0,
         PlaceOK(t)'
  PROVE  /\ Types' /\ Counted'
         /\ \A s \in Slots : StorageOK(s)'
         /\ \A u \in Threads : PlaceOK(u)'
<1>0. Types /\ Counted
  BY DEF TLSInv
<1>1. Types'
  BY <1>0 DEF Types
<1>2. ASSUME NEW s \in Slots PROVE StorageOK(s)'
  <2>1. StorageOK(s) BY DEF TLSInv
  <2>2. tls_exist_array'[s] /\ Pages(s) = << >> =>
           \E u \in Threads : frame'[u].pc \in {"create_fill", "clone_fill"} /\ frame'[u].slot = s
    <3> SUFFICES ASSUME tls_exist_array'[s], Pages(s) = << >>
                 PROVE \E u \in Threads : frame'[u].pc \in {"create_fill", "clone_fill"}
                                          /\ frame'[u].slot = s
      OBVIOUS
    <3>1. CASE tls_exist_array[s]
      <4>1. PICK u \in Threads : frame[u].pc \in {"create_fill", "clone_fill"} /\ frame[u].slot = s
        BY <2>1, <3>1 DEF StorageOK
      <4>2. u # t BY <4>1
      <4> QED BY <4>1, <4>2
    <3>2. CASE ~tls_exist_array[s]
      BY <3>2
    <3> QED BY <3>1, <3>2
  <2> QED BY <2>1, <2>2 DEF StorageOK, Pages
<1>3. ASSUME NEW u \in Threads PROVE PlaceOK(u)'
  <2>1. CASE u = t BY <2>1
  <2>2. CASE u # t
    <3>1. PlaceOK(u) BY DEF TLSInv
    <3>2. frame'[u] = frame[u] BY <2>2
    <3>3. frame[u].pc \in {"create_claim", "clone_claim"} => ~tls_exist_array'[frame[u].slot]
      <4> SUFFICES ASSUME frame[u].pc \in {"create_claim", "clone_claim"}
                   PROVE  ~tls_exist_array'[frame[u].slot]
        OBVIOUS
      <4>1. frame[u].slot \in Slots BY <1>0, StepKinds, FrameKinds DEF CreateFrames, CopyFrames
      <4>2. ~tls_exist_array[frame[u].slot] BY <3>1 DEF PlaceOK
      <4> QED BY <2>2, <4>1, <4>2
    <3>4. frame[u].pc \in {"create_fill", "clone_fill"} => tls_exist_array'[frame[u].slot]
      <4> SUFFICES ASSUME frame[u].pc \in {"create_fill", "clone_fill"}
                   PROVE  tls_exist_array'[frame[u].slot]
        OBVIOUS
      <4>1. frame[u].slot \in Slots BY <1>0, StepKinds, FrameKinds DEF CreateFrames, CopyFrames
      <4> QED BY <3>1, <4>1 DEF PlaceOK
    <3> QED BY <3>1, <3>2, <3>3, <3>4 DEF PlaceOK, Mine, Pages, End, FirstPage, LastRead, LastWhole
  <2> QED BY <2>1, <2>2
<1>4. ASSUME NEW p \in PageIds PROVE Holders(p)' = Holders(p)
  <2>1. Pending(p)' <=> Pending(p)
    BY DEF Pending
  <2>2. ASSUME NEW s \in Slots PROVE Holds(s, p)' <=> Holds(s, p)
    <3> DEFINE Busy(i) == \A u \in Threads : frame[u].op = "destroy" /\ frame[u].slot = s => frame[u].at < i
               Busy2(i) == \A u \in Threads : frame'[u].op = "destroy" /\ frame'[u].slot = s => frame'[u].at < i
    <3>1. ASSUME NEW i \in 1 .. Len(Pages(s)) PROVE Busy2(i) <=> Busy(i)
      <4>0. Len(Pages(s)) \in Nat BY <1>0 DEF Types, Storage, Pages
      <4>1. ASSUME Busy(i) PROVE Busy2(i)
        <5> SUFFICES ASSUME NEW u \in Threads, frame'[u].op = "destroy", frame'[u].slot = s
                     PROVE frame'[u].at < i
          OBVIOUS
        <5>1. CASE u = t BY <5>1, <4>0, <3>1
        <5>2. CASE u # t BY <5>2, <4>1
        <5> QED BY <5>1, <5>2
      <4>2. ASSUME Busy2(i) PROVE Busy(i)
        <5> SUFFICES ASSUME NEW u \in Threads, frame[u].op = "destroy", frame[u].slot = s
                     PROVE frame[u].at < i
          OBVIOUS
        <5>1. u # t OBVIOUS
        <5> QED BY <5>1, <4>2
      <4> QED BY <4>1, <4>2
    <3> QED BY <3>1 DEF Holds, Pages
  <2> QED BY <2>1, <2>2 DEF Holders
<1>5. Counted'
  BY <1>0, <1>4 DEF Counted
<1> QED BY <1>1, <1>2, <1>3, <1>5

\* Only a thread that reads or writes makes pages accessible.
LEMMA ExposedByWorker ==
  ASSUME Types, NEW t \in Threads
  PROVE  /\ \A p : Exposed(t, p) => frame[t].op \in {"read", "write"}
         /\ frame[t].op \notin {"read", "write"} => AccessOK(t)
BY StepKinds DEF Exposed, AccessOK

\* While a thread reads or writes, no other does.
LEMMA OneWorker ==
  ASSUME TLSInv, NEW t \in Threads, frame[t].op \in {"read", "write"}
  PROVE  /\ \A u \in Threads : u # t => frame[u].op \notin {"read", "write"}
         /\ \A p \in PageIds : page[p].prot \in {"READ", "WRITE"} => Exposed(t, p)
<1>1. Types /\ Serial /\ Sealed
  BY DEF TLSInv
<1>2. \A u \in Threads : u # t => frame[u].op \notin {"read", "write"}
  BY <1>1 DEF Serial, MayOverlap
<1>3. ASSUME NEW p \in PageIds, page[p].prot \in {"READ", "WRITE"} PROVE Exposed(t, p)
  <2>1. PICK u \in Threads : Exposed(u, p) BY <1>1, <1>3 DEF Sealed
  <2>2. u = t BY <1>1, <1>2, <2>1, ExposedByWorker
  <2> QED BY <2>1, <2>2
<1> QED BY <1>2, <1>3

\* A step of the thread that reads or writes.
LEMMA WorkerStep ==
  ASSUME TLSInv, NEW t \in Threads, frame[t].op \in {"read", "write"}, Types',
         \A u \in Threads : u # t => frame'[u] = frame[u],
         \A p \in PageIds : page'[p].prot \in {"READ", "WRITE"} => Exposed(t, p)',
         AccessOK(t)'
  PROVE  Sealed' /\ \A u \in Threads : AccessOK(u)'
<1>1. Sealed'
  BY DEF Sealed
<1>2. ASSUME NEW u \in Threads PROVE AccessOK(u)'
  <2>1. CASE u = t BY <2>1
  <2>2. CASE u # t
    <3>1. frame[u].op \notin {"read", "write"} BY <2>2, OneWorker
    <3>2. Types BY DEF TLSInv
    <3>3. frame[u].pc \notin {"read_copy", "read_close", "write_byte", "write_close",
                             "write_copy", "write_swap"}
      BY <3>1, <3>2, StepKinds
    <3> QED BY <2>2, <3>3 DEF AccessOK
  <2> QED BY <2>1, <2>2
<1> QED BY <1>1, <1>2

\* A step of a thread that does not: nobody writes, and the pages another one reads stay in
\* place and as accessible as they are.
LEMMA BystanderStep ==
  ASSUME TLSInv, NEW t \in Threads, frame[t].op \notin {"read", "write"},
         \A u \in Threads : u # t => frame'[u] = frame[u],
         \A u \in Threads : u # t => frame[u].op # "write",
         \A u \in Threads : u # t /\ frame[u].op = "read" =>
           /\ tls_array'[frame[u].slot] = tls_array[frame[u].slot]
           /\ page[Here(u)].prot = "READ" => page'[Here(u)].prot = "READ",
         \A p \in PageIds : page'[p].prot \in {"READ", "WRITE"} => page'[p].prot = page[p].prot,
         AccessOK(t)'
  PROVE  Sealed' /\ \A u \in Threads : AccessOK(u)'
<1>0. Types /\ Sealed
  BY DEF TLSInv
<1>1. Sealed'
  <2> SUFFICES ASSUME NEW p \in PageIds, page'[p].prot \in {"READ", "WRITE"}
               PROVE  \E u \in Threads : Exposed(u, p)'
    BY DEF Sealed
  <2>1. PICK u \in Threads : Exposed(u, p) BY <1>0 DEF Sealed
  <2>2. frame[u].op \in {"read", "write"} BY <1>0, <2>1, ExposedByWorker
  <2>3. u # t /\ frame'[u] = frame[u] /\ tls_array'[frame[u].slot] = tls_array[frame[u].slot]
    BY <2>2
  <2>4. Exposed(u, p)'
    BY <2>1, <2>3 DEF Exposed, Here, Target, Previous, PageAt, PageOf, Pages
  <2> QED BY <2>4
<1>2. ASSUME NEW u \in Threads PROVE AccessOK(u)'
  <2>1. CASE u = t BY <2>1
  <2>2. CASE u # t /\ frame[u].op \notin {"read", "write"}
    <3>1. frame[u].pc \notin {"read_copy", "read_close", "write_byte", "write_close",
                             "write_copy", "write_swap"}
      BY <1>0, <2>2, StepKinds
    <3> QED BY <2>2, <3>1 DEF AccessOK
  <2>3. CASE u # t /\ frame[u].op = "read"
    <3>1. AccessOK(u) BY DEF TLSInv
    <3>2. Here(u)' = Here(u)
      BY <2>3 DEF Here, PageOf
    <3>3. frame'[u].pc \notin {"write_byte", "write_close", "write_copy", "write_swap"}
      BY <1>0, <2>3, StepKinds
    <3> QED BY <2>3, <3>1, <3>2, <3>3 DEF AccessOK
  <2> QED BY <2>1, <2>2, <2>3
<1> QED BY <1>1, <1>2

-----------------------------------------------------------------------------
(* Calls.                                                                   *)

\* A call that begins keeps the invariant, when it begins at a proper place.
LEMMA CallStep ==
  ASSUME Orderly, TLSInv, NEW t \in Threads, NEW op \in Operations, NEW g,
         Call(t, op, g), g.op = op, g \in Frames,
         UNCHANGED <<tls_exist_array, tls_array, page, mutex, process>>,
         g.pc \in {"create_claim", "destroy_page", "read_open", "write_enter", "clone_lock"},
         g.op = "destroy" => g.at = 0,
         PlaceOK(t)'
  PROVE  TLSInv'
<1>0. /\ Types /\ Serial /\ MutexHeld
      /\ frame[t].pc = "idle" /\ process = "running" /\ frame' = [frame EXCEPT ![t] = g]
  BY DEF TLSInv, Call, At
<1>1. /\ frame' \in [Threads -> Frames] /\ frame'[t] = g
      /\ \A u \in Threads : u # t => frame'[u] = frame[u]
  BY <1>0 DEF Types
<1>2. Serial' BY <1>0, CallSerial
<1>3. frame[t].op = "none" BY <1>0, StepKinds
<1>4. Types' /\ Counted' /\ (\A s \in Slots : StorageOK(s)') /\ \A u \in Threads : PlaceOK(u)'
  <2>1. mutex' \in Threads \cup {NoThread} /\ process' \in {"running", "exited"}
        /\ page' \in [PageIds -> Page] /\ tls_exist_array' \in [Slots -> BOOLEAN]
    BY <1>0 DEF Types
  <2> QED BY <1>0, <1>1, <1>3, <2>1, Kept
<1>5. MutexHeld'
  <2> SUFFICES ASSUME NEW u \in Threads,
                      frame'[u].pc \in {"clone_find", "clone_claim", "clone_fill", "clone_unlock"}
               PROVE  mutex' = u
    BY DEF MutexHeld
  <2>1. u # t BY <1>1
  <2> QED BY <1>0, <1>1, <2>1 DEF MutexHeld
<1>6. AccessOK(t)'
  BY <1>1 DEF AccessOK
<1>7. Sealed' /\ \A u \in Threads : AccessOK(u)'
  <2>1. \A u \in Threads : u # t => frame[u].op # "write"
    <3>1. \A u \in Threads \ {t} : frame[u].op # "none" => MayOverlap(g, frame[u])
      BY <1>0, CallSerial
    <3> QED BY <3>1 DEF MayOverlap
  <2> QED BY <1>1, <1>3, <1>6, <2>1, BystanderStep
<1>8. EndsQuiescent'
  BY <1>0 DEF EndsQuiescent
<1> QED BY <1>2, <1>4, <1>5, <1>7, <1>8 DEF TLSInv

\* A set of natural numbers has a least one.
LEMMA LeastNatural ==
  ASSUME NEW S \in SUBSET Nat, S # {}
  PROVE  /\ Min(S) \in S
         /\ \A y \in S : Min(S) <= y
<1> DEFINE Below == {0 .. m : m \in S}
<1>1. Below \subseteq FiniteSubsetsOf(Nat)
  <2>1. ASSUME NEW m \in S PROVE 0 .. m \in FiniteSubsetsOf(Nat)
    <3>1. IsFiniteSet(0 .. m)
      <4>1. m \in Int /\ 0 \in Int OBVIOUS
      <4> QED BY <4>1, FS_Interval
    <3> QED BY <3>1 DEF FiniteSubsetsOf
  <2> QED BY <2>1
<1>2. PICK B \in Below : \A C \in Below : ~ (<<C, B>> \in StrictSubsetOrdering(Nat))
  <2>1. Below # {} OBVIOUS
  <2> HIDE DEF Below
  <2> QED BY <1>1, <2>1, FS_StrictSubsetOrderingWellFounded, WFMin
<1>3. PICK m \in S : B = 0 .. m
  OBVIOUS
<1>4. ASSUME NEW y \in S, y < m PROVE FALSE
  <2>1. 0 .. y \in Below OBVIOUS
  <2>2. 0 .. y \subseteq 0 .. m /\ m \notin 0 .. y /\ m \in 0 .. m
    BY <1>4
  <2>3. <<0 .. y, 0 .. m>> \in StrictSubsetOrdering(Nat)
    BY <2>2 DEF StrictSubsetOrdering
  <2> QED BY <1>2, <1>3, <2>1, <2>3
<1>5. \A y \in S : m <= y
  BY <1>4
<1> QED BY <1>5 DEF Min

\* The slot a search finds.
LEMMA FoundSlots ==
  ASSUME Types, NEW t
  PROVE  /\ Own(t) # {} => OwnSlot(t) \in Slots /\ OwnSlot(t) \in Own(t)
         /\ FreeSlots # {} => Min(FreeSlots) \in Slots /\ ~tls_exist_array[Min(FreeSlots)]
<1>1. ASSUME NEW S, S \subseteq Slots, S # {} PROVE Min(S) \in S
  BY <1>1, LeastNatural DEF Slots
<1>2. Own(t) \subseteq Slots /\ FreeSlots \subseteq Slots
  BY DEF Own, FreeSlots
<1> QED BY <1>1, <1>2 DEF OwnSlot, FreeSlots

\* tls_create, tls_destroy, tls_read, tls_write and tls_clone begin properly.
LEMMA CreateFindKeeps ==
  ASSUME Orderly, TLSInv, NEW t \in Threads, CreateFind(t)
  PROVE  TLSInv'
<1>1. PICK n \in Sizes :
         Call(t, "create", [op |-> "create", pc |-> "create_claim",
                            slot |-> Min(FreeSlots), length |-> n])
  BY DEF CreateFind
<1> DEFINE g == [op |-> "create", pc |-> "create_claim", slot |-> Min(FreeSlots), length |-> n]
<1>2. /\ FreeSlots # {} /\ UNCHANGED <<tls_exist_array, tls_array, page, mutex, process>>
      /\ Types
  BY DEF CreateFind, TLSInv
<1>3. Min(FreeSlots) \in Slots /\ ~tls_exist_array[Min(FreeSlots)]
  BY <1>2, FoundSlots
<1>4. g \in Frames
  BY <1>3, KindsAreFrames DEF CreateFrames
<1>5. frame'[t] = g
  BY <1>1, <1>2 DEF Call, Types
<1>6. PlaceOK(t)'
  BY <1>2, <1>3, <1>5 DEF PlaceOK
<1>7. /\ g.op = "create" /\ g.pc = "create_claim" /\ "create" \in Operations
  BY DEF Operations
<1> HIDE DEF g
<1>8. Call(t, "create", g) BY <1>1 DEF g
<1> QED BY <1>2, <1>4, <1>6, <1>7, <1>8, CallStep

\* A storage in use has its pages when nobody is filling it.
LEMMA FoundStorage ==
  ASSUME TLSInv, NEW t \in Threads, Own(t) # {},
         \A u \in Threads : frame[u].pc \notin {"create_fill", "clone_fill"}
  PROVE  /\ OwnSlot(t) \in Slots /\ Pages(OwnSlot(t)) # << >>
         /\ tls_array[OwnSlot(t)].threadID = t
<1>1. Types BY DEF TLSInv
<1>2. OwnSlot(t) \in Slots /\ tls_exist_array[OwnSlot(t)] /\ tls_array[OwnSlot(t)].threadID = t
  BY <1>1, FoundSlots DEF Own
<1>3. StorageOK(OwnSlot(t)) BY <1>2 DEF TLSInv
<1> QED BY <1>2, <1>3 DEF StorageOK

\* While a thread starts to destroy, read or write nobody fills a storage.
LEMMA NobodyFills ==
  ASSUME Orderly, TLSInv, NEW t \in Threads, NEW op \in {"destroy", "read", "write"}, NEW g,
         Call(t, op, g), g.op = op
  PROVE  \A u \in Threads : frame[u].pc \notin {"create_fill", "clone_fill"}
<1> SUFFICES ASSUME NEW u \in Threads, frame[u].pc \in {"create_fill", "clone_fill"}
             PROVE  FALSE
  OBVIOUS
<1>1. Types /\ Serial BY DEF TLSInv
<1>2. frame[u].op \in {"create", "clone"} BY <1>1, StepKinds
<1>3. u # t
  BY <1>1, <1>2 DEF Call, At
<1>4. op \in Operations BY DEF Operations
<1>5. MayOverlap(g, frame[u]) BY <1>1, <1>2, <1>3, <1>4, CallSerial
<1> QED BY <1>2, <1>5 DEF MayOverlap

\* tls_destroy begins with the first page of a storage that has pages.
LEMMA DestroyFindKeeps ==
  ASSUME Orderly, TLSInv, NEW t \in Threads, DestroyFind(t)
  PROVE  TLSInv'
<1> DEFINE g == [op |-> "destroy", pc |-> "destroy_page", slot |-> OwnSlot(t), at |-> 0]
<1>1. /\ Call(t, "destroy", g) /\ Own(t) # {} /\ Types
      /\ UNCHANGED <<tls_exist_array, tls_array, page, mutex, process>>
  BY DEF DestroyFind, TLSInv
<1>2. /\ g.op = "destroy" /\ g.pc = "destroy_page" /\ g.at = 0 /\ g.slot = OwnSlot(t)
      /\ "destroy" \in Operations
  BY DEF Operations
<1>3. frame'[t] = g
  BY <1>1 DEF Call, Types
<1>4. ASSUME OwnSlot(t) \in Slots PROVE g \in Frames
  BY <1>4, KindsAreFrames DEF DestroyFrames
<1> HIDE DEF g
<1>5. /\ OwnSlot(t) \in Slots /\ Pages(OwnSlot(t)) # << >>
      /\ tls_array[OwnSlot(t)].threadID = t
  BY <1>1, <1>2, NobodyFills, FoundStorage
<1>6. Len(Pages(OwnSlot(t))) \in Nat \ {0}
  BY <1>1, <1>5 DEF Types, Storage, Pages
<1>7. PlaceOK(t)'
  BY <1>1, <1>2, <1>3, <1>5, <1>6 DEF PlaceOK, Mine, Pages
<1> QED BY <1>1, <1>2, <1>4, <1>5, <1>7, CallStep

\* tls_read begins with the page of the first byte.
LEMMA ReadCallKeeps ==
  ASSUME Orderly, TLSInv, NEW t \in Threads, ReadCall(t)
  PROVE  TLSInv'
<1>0. /\ Own(t) # {} /\ Types
      /\ UNCHANGED <<tls_exist_array, tls_array, page, mutex, process>>
  BY DEF ReadCall, TLSInv
<1>1. PICK r \in Requests :
        /\ InRange(OwnSlot(t), r)
        /\ Call(t, "read", [op |-> "read", pc |-> "read_open", slot |-> OwnSlot(t),
                            offset |-> r[1], length |-> r[2],
                            at |-> r[1] \div PageSize,
                            buffer |-> [k \in 0 .. r[2] |-> NoByte]])
  BY DEF ReadCall
<1> DEFINE g == [op |-> "read", pc |-> "read_open", slot |-> OwnSlot(t),
                 offset |-> r[1], length |-> r[2], at |-> r[1] \div PageSize,
                 buffer |-> [k \in 0 .. r[2] |-> NoByte]]
<1>2. /\ g.op = "read" /\ g.pc = "read_open" /\ g.slot = OwnSlot(t) /\ g.offset = r[1]
      /\ g.length = r[2] /\ g.at = r[1] \div PageSize
      /\ "read" \in Operations
  BY DEF Operations
<1>3. r[1] \in Nat /\ r[2] \in Nat /\ r[1] \div PageSize \in Nat
  <2>1. r[1] \in Nat /\ r[2] \in Nat BY RequestsAssumption
  <2> QED BY <2>1, PageSizeAssumption, Division
<1>4. ASSUME OwnSlot(t) \in Slots PROVE g \in ReadFrames(r[2])
  BY <1>3, <1>4 DEF ReadFrames
<1>5. Call(t, "read", g) BY <1>1
<1> HIDE DEF g
<1>6. /\ OwnSlot(t) \in Slots /\ Pages(OwnSlot(t)) # << >>
      /\ tls_array[OwnSlot(t)].threadID = t
  BY <1>0, <1>2, <1>5, NobodyFills, FoundStorage
<1>7. frame'[t] = g
  BY <1>0, <1>5 DEF Call, Types
<1>8. g \in ReadFrames(r[2]) /\ g \in Frames
  BY <1>3, <1>4, <1>6, KindsAreFrames
<1>9. FirstPage(g) <= g.at /\ g.at <= LastRead(g)
  <2>1. /\ FirstPage(g) \in Nat /\ LastWhole(g) \in Nat /\ LastRead(g) \in Nat
        /\ FirstPage(g) <= LastWhole(g) /\ LastWhole(g) <= LastRead(g)
    BY <1>3, <1>8, ReadPages
  <2>2. g.at = FirstPage(g) BY <1>2 DEF FirstPage
  <2> QED BY <2>1, <2>2
<1>10. End(g) <= tls_array[OwnSlot(t)].byte_count
  BY <1>1, <1>2 DEF End, InRange
<1>11. PlaceOK(t)'
  BY <1>0, <1>2, <1>6, <1>7, <1>9, <1>10 DEF PlaceOK, Mine, Pages, FirstPage, LastRead, LastWhole, End
<1> QED BY <1>0, <1>2, <1>5, <1>8, <1>11, CallStep

\* tls_write begins with the first byte.
LEMMA WriteCallKeeps ==
  ASSUME Orderly, TLSInv, NEW t \in Threads, WriteCall(t)
  PROVE  TLSInv'
<1>0. /\ Own(t) # {} /\ Types
      /\ UNCHANGED <<tls_exist_array, tls_array, page, mutex, process>>
  BY DEF WriteCall, TLSInv
<1>1. PICK r \in Requests, v \in Values :
        /\ InRange(OwnSlot(t), r)
        /\ r[2] > 0
        /\ Call(t, "write", [op |-> "write", pc |-> "write_enter",
                             slot |-> OwnSlot(t), offset |-> r[1],
                             length |-> r[2], at |-> r[1], value |-> v, fresh |-> 0])
  BY DEF WriteCall, Orderly
<1> DEFINE g == [op |-> "write", pc |-> "write_enter", slot |-> OwnSlot(t), offset |-> r[1],
                 length |-> r[2], at |-> r[1], value |-> v, fresh |-> 0]
<1>2. /\ g.op = "write" /\ g.pc = "write_enter" /\ g.slot = OwnSlot(t) /\ g.offset = r[1]
      /\ g.length = r[2] /\ g.at = r[1]
      /\ "write" \in Operations
  BY DEF Operations
<1>3. r[1] \in Nat /\ r[2] \in Nat \ {0}
  <2>1. r[1] \in Nat /\ r[2] \in Nat BY RequestsAssumption
  <2> QED BY <1>1, <2>1
<1>4. ASSUME OwnSlot(t) \in Slots PROVE g \in WriteFrames
  <2>1. 0 \in PageIds BY MaxPagesAssumption DEF PageIds
  <2> QED BY <1>3, <1>4, <2>1 DEF WriteFrames
<1>5. Call(t, "write", g) BY <1>1
<1> HIDE DEF g
<1>6. /\ OwnSlot(t) \in Slots /\ Pages(OwnSlot(t)) # << >>
      /\ tls_array[OwnSlot(t)].threadID = t
  BY <1>0, <1>2, <1>5, NobodyFills, FoundStorage
<1>7. frame'[t] = g
  BY <1>0, <1>5 DEF Call, Types
<1>8. g \in Frames
  BY <1>4, <1>6, KindsAreFrames
<1>9. End(g) <= tls_array[OwnSlot(t)].byte_count /\ g.offset <= g.at /\ g.at < End(g)
      /\ ~(g.at > g.offset)
  BY <1>1, <1>2, <1>3 DEF End, InRange
<1>10. PlaceOK(t)'
  BY <1>0, <1>2, <1>6, <1>7, <1>9 DEF PlaceOK, Mine, Pages, End
<1> QED BY <1>0, <1>2, <1>5, <1>8, <1>10, CallStep

\* tls_clone begins with nothing but whom to clone.
LEMMA CloneCallKeeps ==
  ASSUME Orderly, TLSInv, NEW t \in Threads, CloneCall(t)
  PROVE  TLSInv'
<1>1. PICK u \in Threads : Call(t, "clone", [op |-> "clone", pc |-> "clone_lock", target |-> u])
  BY DEF CloneCall
<1> DEFINE g == [op |-> "clone", pc |-> "clone_lock", target |-> u]
<1>2. UNCHANGED <<tls_exist_array, tls_array, page, mutex, process>> /\ Types
  BY DEF CloneCall, TLSInv
<1>3. g \in Frames /\ g.op = "clone" /\ g.pc = "clone_lock" /\ "clone" \in Operations
  BY KindsAreFrames DEF SearchFrames, Operations
<1>4. Call(t, "clone", g) BY <1>1
<1> HIDE DEF g
<1>5. frame'[t] = g BY <1>2, <1>4 DEF Call, Types
<1>6. PlaceOK(t)' BY <1>3, <1>5 DEF PlaceOK
<1> QED BY <1>2, <1>3, <1>4, <1>6, CallStep

-----------------------------------------------------------------------------
(* Steps of tls_read.                                                       *)

\* mprotect of a mapped page changes its protection only.
LEMMA ProtectedPage ==
  ASSUME Types, Counted, NEW p \in Mapped, NEW x \in {"NONE", "READ", "WRITE"},
         page' = [page EXCEPT ![p].prot = x]
  PROVE  /\ page' \in [PageIds -> Page]
         /\ \A q \in PageIds : page'[q].reference_count = page[q].reference_count
                               /\ page'[q].data = page[q].data
         /\ page'[p].prot = x /\ p \in PageIds
         /\ \A q \in PageIds : q # p => page'[q].prot = page[q].prot
<1>1. p \in PageIds /\ page \in [PageIds -> Page] /\ page[p] # Unmapped
  BY DEF Mapped, Types, Unmapped
<1>2. page[p] \in [reference_count : Nat \ {0}, data : [0 .. PageSize - 1 -> Values],
                   prot : {"NONE", "READ", "WRITE"}]
  BY <1>1 DEF Page
<1>3. [page[p] EXCEPT !.prot = x] \in Page
  BY <1>2 DEF Page
<1>4. page' = [page EXCEPT ![p] = [page[p] EXCEPT !.prot = x]]
  BY <1>1
<1>5. /\ [page[p] EXCEPT !.prot = x].reference_count = page[p].reference_count
      /\ [page[p] EXCEPT !.prot = x].data = page[p].data
      /\ [page[p] EXCEPT !.prot = x].prot = x
  BY <1>2
<1> DEFINE new == [page[p] EXCEPT !.prot = x]
<1> HIDE DEF new
<1>6. page' = [page EXCEPT ![p] = new] /\ new \in Page
      /\ new.reference_count = page[p].reference_count /\ new.data = page[p].data /\ new.prot = x
  BY <1>3, <1>4, <1>5 DEF new
<1> QED BY <1>1, <1>6

\* A step of a thread that reads or writes, which no storage and no count notices.
LEMMA WorkerKeeps ==
  ASSUME TLSInv, NEW t \in Threads, frame[t].op \in {"read", "write"},
         frame[t].pc # "write_swap", process = "running",
         UNCHANGED <<tls_exist_array, tls_array, mutex, process>>,
         \A u \in Threads : u # t => frame'[u] = frame[u],
         frame' \in [Threads -> Frames],
         frame'[t].op \in {frame[t].op, "none"},
         frame'[t].pc \in {"idle", "read_open", "read_copy", "read_close", "read_return",
                           "write_enter", "write_copy", "write_open", "write_byte",
                           "write_close"},
         page' \in [PageIds -> Page],
         \A p \in PageIds : page'[p].reference_count = page[p].reference_count,
         PlaceOK(t)', AccessOK(t)',
         \A p \in PageIds : page'[p].prot \in {"READ", "WRITE"} => Exposed(t, p)'
  PROVE  TLSInv'
<1>0. Types /\ Serial /\ MutexHeld
  BY DEF TLSInv
<1>1. frame' = [frame EXCEPT ![t] = frame'[t]]
  BY <1>0 DEF Types
<1>2. Serial'
  <2> DEFINE g == frame'[t]
  <2>1. frame' = [frame EXCEPT ![t] = g] BY <1>1
  <2>2. g.op = "none" \/ g.op = frame[t].op OBVIOUS
  <2> HIDE DEF g
  <2> QED BY <1>0, <2>1, <2>2, StepSerial
<1>3. frame[t].pc \notin {"create_fill", "clone_fill", "write_swap"} /\ frame[t].op # "destroy"
      /\ frame'[t].pc # "write_swap" /\ frame'[t].op # "destroy"
  BY <1>0, StepKinds
<1>4. Types' /\ Counted' /\ (\A s \in Slots : StorageOK(s)') /\ \A u \in Threads : PlaceOK(u)'
  <2>1. mutex' \in Threads \cup {NoThread} /\ process' \in {"running", "exited"}
        /\ tls_exist_array' \in [Slots -> BOOLEAN]
    BY <1>0 DEF Types
  <2> QED BY <1>3, <2>1, Kept
<1>5. MutexHeld'
  <2> SUFFICES ASSUME NEW u \in Threads,
                      frame'[u].pc \in {"clone_find", "clone_claim", "clone_fill", "clone_unlock"}
               PROVE  mutex' = u
    BY DEF MutexHeld
  <2>1. u # t OBVIOUS
  <2> QED BY <1>0, <2>1 DEF MutexHeld
<1>6. Sealed' /\ \A u \in Threads : AccessOK(u)'
  BY <1>4, WorkerStep
<1>7. EndsQuiescent'
  BY DEF EndsQuiescent
<1> QED BY <1>2, <1>4, <1>5, <1>6, <1>7 DEF TLSInv

\* A frame of tls_read.
LEMMA ReadFrame ==
  ASSUME TLSInv, NEW t \in Threads, frame[t].op = "read"
  PROVE  /\ frame[t].length \in Nat /\ frame[t] \in ReadFrames(frame[t].length)
         /\ Types /\ Counted /\ PlaceOK(t)
         /\ Here(t) \in Mapped /\ Here(t) \in PageIds
         /\ \A p \in PageIds : page[p].prot \in {"READ", "WRITE"} =>
              frame[t].pc \in {"read_copy", "read_close"} /\ p = Here(t)
<1>1. Types /\ Counted /\ PlaceOK(t)
  BY DEF TLSInv
<1>2. frame[t].pc \in {"read_open", "read_copy", "read_close", "read_return"}
  BY <1>1, StepKinds
<1>3. \A p \in PageIds : page[p].prot \in {"READ", "WRITE"} => Exposed(t, p)
  BY OneWorker
<1> QED BY <1>1, <1>2, <1>3, FrameKinds, WorkPages DEF Exposed

\* tls_read makes the page it has come to readable.
LEMMA ReadOpenKeeps ==
  ASSUME TLSInv, NEW t \in Threads, ReadOpen(t)
  PROVE  TLSInv'
<1>0. /\ frame[t].pc = "read_open" /\ process = "running" /\ Types
      /\ UNCHANGED <<tls_exist_array, tls_array, mutex, process>>
  BY DEF ReadOpen, At, TLSInv
<1>1. frame[t].op = "read"
  BY <1>0, StepKinds
<1> DEFINE g == [frame[t] EXCEPT !.pc = "read_copy"]
<1>2. /\ page' = [page EXCEPT ![Here(t)].prot = "READ"]
      /\ frame' = [frame EXCEPT ![t] = g]
  BY <1>1, ReadFrame DEF ReadOpen, MProtect
<1>3. /\ g \in ReadFrames(frame[t].length) /\ g.pc = "read_copy" /\ g.op = "read"
      /\ g.slot = frame[t].slot /\ g.at = frame[t].at /\ g.offset = frame[t].offset
      /\ g.length = frame[t].length
  BY <1>1, ReadFrame DEF ReadFrames
<1> HIDE DEF g
<1>4. g \in Frames
  BY <1>1, <1>3, ReadFrame, KindsAreFrames
<1>5. /\ frame' \in [Threads -> Frames] /\ frame'[t] = g
      /\ \A u \in Threads : u # t => frame'[u] = frame[u]
  BY <1>0, <1>2, <1>4 DEF Types
<1>6. /\ page' \in [PageIds -> Page]
      /\ \A q \in PageIds : page'[q].reference_count = page[q].reference_count
      /\ page'[Here(t)].prot = "READ"
      /\ \A q \in PageIds : q # Here(t) => page'[q].prot = page[q].prot
  <2>1. Types /\ Counted /\ Here(t) \in Mapped BY <1>1, ReadFrame
  <2> QED BY <1>2, <2>1, ProtectedPage
<1>7. Here(t)' = Here(t)
  BY <1>0, <1>3, <1>5 DEF Here, PageOf
<1>8. PlaceOK(t)'
  BY ZenonT(30), <1>0, <1>1, <1>3, <1>5, ReadFrame DEF PlaceOK, Mine, Pages, End, FirstPage, LastRead, LastWhole
<1>9. AccessOK(t)'
  BY <1>3, <1>5, <1>6, <1>7 DEF AccessOK
<1>10. \A p \in PageIds : page'[p].prot \in {"READ", "WRITE"} => Exposed(t, p)'
  BY <1>0, <1>1, <1>3, <1>5, <1>6, <1>7, ReadFrame DEF Exposed
<1> QED BY <1>0, <1>1, <1>3, <1>5, <1>6, <1>8, <1>9, <1>10, WorkerKeeps

\* tls_read copies from the page; it is never ended by a fault.
LEMMA ReadCopyRuns ==
  ASSUME TLSInv, NEW t \in Threads, ReadCopy(t)
  PROVE  /\ frame[t].pc = "read_copy" /\ frame[t].op = "read" /\ process = "running"
         /\ frame' = [frame EXCEPT ![t].pc = "read_close",
                 ![t].buffer = Copied(frame[t], frame[t].at, page[Here(t)].data)]
         /\ UNCHANGED <<tls_exist_array, tls_array, page, mutex, process>>
<1>0. /\ frame[t].pc = "read_copy" /\ process = "running" /\ Types /\ AccessOK(t)
  BY DEF ReadCopy, At, TLSInv
<1>1. frame[t].op = "read"
  BY <1>0, StepKinds
<1>2. page[Here(t)].prot = "READ"
  BY <1>0 DEF AccessOK
<1> QED BY <1>0, <1>1, <1>2 DEF ReadCopy

\* The piece of a request that lies on a page: where it starts on the page and in the
\* buffer, and which bytes of the buffer it fills.
LEMMA Piece ==
  ASSUME NEW n \in Nat, NEW f \in ReadFrames(n),
         NEW i \in Nat, FirstPage(f) <= i, i <= LastRead(f)
  PROVE  /\ From(f, i) \in 0 .. PageSize - 1 /\ To(f, i) \in Nat /\ Count(f, i) \in Int
         /\ From(f, i) + Count(f, i) <= PageSize
         /\ \A j \in 0 .. n - 1 :
              j \in To(f, i) .. To(f, i) + Count(f, i) - 1
                <=> i * PageSize <= f.offset + j /\ f.offset + j < (i + 1) * PageSize
         /\ \A j \in Int : (j - To(f, i)) + From(f, i) = (f.offset + j) - i * PageSize
<1> DEFINE k == PageSize
           off == f.offset
           e == End(f)
           first == FirstPage(f)
           whole == LastWhole(f)
           last == LastRead(f)
           from == From(f, i)
           to == To(f, i)
           count == Count(f, i)
<1>1. k \in Nat \ {0} /\ off \in Nat /\ e = off + n /\ e \in Nat /\ f.length = n
  BY PageSizeAssumption DEF ReadFrames, End
<1>2. /\ first \in Nat /\ whole \in Nat /\ last \in Nat /\ first <= whole
      /\ e - 1 < (last + 1) * k
      /\ last <= whole + 1
  <2>1. /\ first \in Nat /\ whole \in Nat /\ last \in Nat /\ first <= whole
        /\ e - 1 < (last + 1) * k
        /\ \A j \in Nat : j <= whole \/ j = whole + 1 \/ j > last
    BY ReadPages
  <2> HIDE DEF first, whole, last, e, k
  <2>2. whole + 2 \in Nat BY <2>1
  <2>3. whole + 2 > last BY <2>1, <2>2
  <2> QED BY <2>1, <2>3
<1>3. /\ from = (IF i = first THEN off % k ELSE 0)
      /\ to = (i * k + from) - off
      /\ count = IF i = first THEN Min({k - from, n})
                 ELSE IF i <= whole THEN k ELSE e - i * k
  BY <1>1 DEF From, To, Count
<1>4. first \in Nat /\ off % k \in 0 .. k - 1 /\ off = first * k + (off % k)
      /\ first * k \in Nat
  <2>1. first = off \div k BY DEF FirstPage
  <2> HIDE DEF k, off, first
  <2> QED BY <1>1, <2>1, Division
<1> DEFINE r == off % k
<1>5. first <= i /\ i <= last OBVIOUS
<1>6. from = (IF i = first THEN r ELSE 0) /\ r \in 0 .. k - 1 /\ off = first * k + r
  BY <1>3, <1>4
<1> HIDE DEF k, off, e, first, whole, last, from, to, count, r
<1>7. i * k \in Nat /\ (i + 1) * k = i * k + k
  BY <1>1, SMT
<1>8. CASE i = first
  <2>1. from = r /\ to = 0 BY <1>1, <1>3, <1>4, <1>6, <1>7, <1>8
  <2>2. k - from \in Int /\ n \in Int BY <1>1, <1>6, <2>1
  <2>3. count = Min({k - from, n}) BY <1>3, <1>8
  <2>4. count \in {k - from, n} /\ count <= k - from /\ count <= n
    BY <2>2, <2>3, LesserGreater
  <2>5. off = i * k + r BY <1>6, <1>8
  <2>6. \A j \in 0 .. n - 1 : j \in to .. to + count - 1
          <=> i * k <= off + j /\ off + j < (i + 1) * k
    BY <1>1, <1>6, <1>7, <2>1, <2>2, <2>4, <2>5
  <2>7. \A j \in Int : (j - to) + from = (off + j) - i * k
    BY <1>1, <1>6, <1>7, <2>1, <2>5
  <2>8. from \in 0 .. k - 1 /\ to \in Nat /\ count \in Int /\ from + count <= k
    BY <1>1, <1>6, <2>1, <2>2, <2>4
  <2> QED BY <2>6, <2>7, <2>8 DEF k, off, from, to, count
<1>9. CASE i > first
  <2>1. (first + 1) * k <= i * k /\ (first + 1) * k = first * k + k
    BY <1>1, <1>2, <1>9, SMT
  <2>2. from = 0 /\ to = i * k - off /\ to \in Nat
    BY <1>1, <1>3, <1>4, <1>6, <1>7, <1>9, <2>1
  <2>3. \A j \in Int : (j - to) + from = (off + j) - i * k
    BY <1>1, <1>7, <2>2
  <2>4. CASE i <= whole
    <3>1. count = k BY <1>2, <1>3, <1>9, <2>4
    <3>2. \A j \in 0 .. n - 1 : j \in to .. to + count - 1
            <=> i * k <= off + j /\ off + j < (i + 1) * k
      BY <1>1, <1>7, <2>2, <3>1
    <3> QED BY <1>1, <2>2, <2>3, <3>1, <3>2 DEF k, off, from, to, count
  <2>5. CASE i > whole
    <3>1. count = e - i * k /\ i = last BY <1>2, <1>3, <1>5, <1>9, <2>5
    <3>2. e - 1 < (i + 1) * k BY <1>2, <3>1
    <3>3. \A j \in 0 .. n - 1 : j \in to .. to + count - 1
            <=> i * k <= off + j /\ off + j < (i + 1) * k
      BY <1>1, <1>7, <2>2, <3>1, <3>2
    <3>4. from + count <= k /\ count \in Int BY <1>1, <1>7, <2>2, <3>1, <3>2
    <3> QED BY <1>1, <2>2, <2>3, <3>3, <3>4 DEF k, off, from, to, count
  <2> QED BY <1>2, <2>4, <2>5
<1> QED BY <1>2, <1>5, <1>8, <1>9

\* What memcpy leaves in the buffer are bytes.
LEMMA CopiedBytes ==
  ASSUME NEW n \in Nat, NEW f \in ReadFrames(n), NEW i \in Nat,
         FirstPage(f) <= i, i <= LastRead(f), NEW d \in [0 .. PageSize - 1 -> Values]
  PROVE  Copied(f, i, d) \in [0 .. n -> Values \cup {NoByte}]
<1>1. f.buffer \in [0 .. n -> Values \cup {NoByte}]
  BY DEF ReadFrames
<1>2. ASSUME NEW k \in 0 .. n, k \in To(f, i) .. To(f, i) + Count(f, i) - 1
      PROVE  d[(k - To(f, i)) + From(f, i)] \in Values
  <2> DEFINE from == From(f, i)
             to == To(f, i)
             count == Count(f, i)
  <2>1. /\ from \in 0 .. PageSize - 1 /\ to \in Nat /\ count \in Int
        /\ from + count <= PageSize
    BY Piece
  <2>2. k \in to .. to + count - 1 BY <1>2
  <2> HIDE DEF from, to, count
  <2>3. (k - to) + from \in 0 .. PageSize - 1 BY <2>1, <2>2, PageSizeAssumption
  <2>4. d[(k - to) + from] \in Values BY <2>3
  <2> QED BY <2>4 DEF from, to
<1> QED BY <1>1, <1>2 DEF Copied

\* tls_read copies a piece.
LEMMA ReadCopyKeeps ==
  ASSUME TLSInv, NEW t \in Threads, ReadCopy(t)
  PROVE  TLSInv'
<1> DEFINE b == Copied(frame[t], frame[t].at, page[Here(t)].data)
           g == [frame[t] EXCEPT !.pc = "read_close", !.buffer = b]
<1>0. /\ frame[t].pc = "read_copy" /\ frame[t].op = "read" /\ process = "running"
      /\ frame' = [frame EXCEPT ![t] = g]
      /\ UNCHANGED <<tls_exist_array, tls_array, page, mutex, process>>
  BY ReadCopyRuns
<1>1. /\ frame[t].length \in Nat /\ frame[t] \in ReadFrames(frame[t].length)
      /\ Types /\ Counted /\ PlaceOK(t) /\ AccessOK(t)
      /\ Here(t) \in Mapped /\ Here(t) \in PageIds
  BY <1>0, ReadFrame DEF TLSInv
<1>2. frame[t].at \in Nat /\ FirstPage(frame[t]) <= frame[t].at /\ frame[t].at <= LastRead(frame[t])
  BY <1>0, <1>1 DEF PlaceOK, ReadFrames
<1>3. page[Here(t)].data \in [0 .. PageSize - 1 -> Values]
  BY <1>1, HeldMapped DEF Page, Mapped, Unmapped
<1>4. b \in [0 .. frame[t].length -> Values \cup {NoByte}]
  BY <1>1, <1>2, <1>3, CopiedBytes
<1> HIDE DEF b
<1>5. /\ g \in ReadFrames(frame[t].length) /\ g.pc = "read_close" /\ g.op = "read"
      /\ g.slot = frame[t].slot /\ g.at = frame[t].at /\ g.offset = frame[t].offset
      /\ g.length = frame[t].length
  BY <1>1, <1>4 DEF ReadFrames
<1> HIDE DEF g
<1>6. g \in Frames
  BY <1>1, <1>5, KindsAreFrames
<1>7. /\ frame' \in [Threads -> Frames] /\ frame'[t] = g
      /\ \A u \in Threads : u # t => frame'[u] = frame[u]
  BY <1>0, <1>1, <1>6 DEF Types
<1>8. Here(t)' = Here(t)
  BY <1>0, <1>5, <1>7 DEF Here, PageOf
<1>9. PlaceOK(t)'
  BY <1>0, <1>1, <1>5, <1>7 DEF PlaceOK, Mine, Pages, End, FirstPage, LastRead, LastWhole
<1>10. AccessOK(t)'
  BY <1>0, <1>1, <1>5, <1>7, <1>8 DEF AccessOK
<1>11. \A p \in PageIds : page'[p].prot \in {"READ", "WRITE"} => Exposed(t, p)'
  BY <1>0, <1>5, <1>7, <1>8, ReadFrame DEF Exposed
<1>12. page' \in [PageIds -> Page]
  BY <1>0, <1>1 DEF Types
<1> QED BY <1>0, <1>5, <1>7, <1>9, <1>10, <1>11, <1>12, WorkerKeeps

\* tls_read seals the page and goes on to the next one, or to its end.
LEMMA ReadCloseKeeps ==
  ASSUME TLSInv, NEW t \in Threads, ReadClose(t)
  PROVE  TLSInv'
<1>0. /\ frame[t].pc = "read_close" /\ process = "running" /\ Types
      /\ UNCHANGED <<tls_exist_array, tls_array, mutex, process>>
  BY DEF ReadClose, At, TLSInv
<1>1. frame[t].op = "read"
  BY <1>0, StepKinds
<1> DEFINE g == AfterPiece(t)
           last == LastRead(frame[t])
<1>2. /\ page' = [page EXCEPT ![Here(t)].prot = "NONE"]
      /\ frame' = [frame EXCEPT ![t] = g]
  BY <1>1, ReadFrame DEF ReadClose, MProtect
<1>3. /\ frame[t].length \in Nat /\ frame[t] \in ReadFrames(frame[t].length)
      /\ Counted /\ PlaceOK(t) /\ Here(t) \in Mapped
      /\ frame[t].at \in Nat
      /\ FirstPage(frame[t]) <= frame[t].at /\ frame[t].at <= last
  BY <1>1, ReadFrame DEF PlaceOK, ReadFrames
<1>4. last \in Nat /\ FirstPage(frame[t]) \in Nat
  BY <1>3, ReadPages
<1>5. /\ g \in ReadFrames(frame[t].length)
      /\ g.pc \in {"read_open", "read_return"} /\ g.op = "read"
      /\ g.slot = frame[t].slot /\ g.offset = frame[t].offset /\ g.length = frame[t].length
      /\ g.at = (IF frame[t].at < last THEN frame[t].at + 1 ELSE frame[t].at)
  <2> DEFINE f == frame[t]
  <2>1. g = NextPage(f, "read_open", "read_return", last) BY DEF AfterPiece
  <2>2. f \in ReadFrames(f.length) /\ f.at \in Nat BY <1>3
  <2> HIDE DEF g, f, last
  <2>3. CASE f.at < last
    <3> DEFINE next == f.at + 1
    <3>1. g = [f EXCEPT !.at = next, !.pc = "read_open"] BY <2>1, <2>3 DEF NextPage
    <3>2. next \in Nat BY <2>2
    <3> HIDE DEF next
    <3>3. /\ g \in ReadFrames(f.length) /\ g.pc = "read_open" /\ g.op = "read"
          /\ g.slot = f.slot /\ g.offset = f.offset /\ g.length = f.length /\ g.at = next
      BY <2>2, <3>1, <3>2 DEF ReadFrames
    <3> QED BY <2>3, <3>3 DEF f, next
  <2>4. CASE ~(f.at < last)
    <3>1. g = [f EXCEPT !.at = @, !.pc = "read_return"] BY <2>1, <2>4 DEF NextPage
    <3> QED BY <2>2, <2>4, <3>1 DEF f, ReadFrames
  <2> QED BY <2>3, <2>4
<1> HIDE DEF g, last
<1>6. g \in Frames
  BY <1>3, <1>5, KindsAreFrames
<1>7. /\ frame' \in [Threads -> Frames] /\ frame'[t] = g
      /\ \A u \in Threads : u # t => frame'[u] = frame[u]
  BY <1>0, <1>2, <1>6 DEF Types
<1>8. /\ page' \in [PageIds -> Page]
      /\ \A q \in PageIds : page'[q].reference_count = page[q].reference_count
      /\ page'[Here(t)].prot = "NONE"
      /\ \A q \in PageIds : q # Here(t) => page'[q].prot = page[q].prot
  BY <1>0, <1>2, <1>3, ProtectedPage
<1>9. FirstPage(frame[t]) <= g.at /\ g.at <= last
  BY <1>3, <1>4, <1>5
<1>10. FirstPage(g) = FirstPage(frame[t]) /\ LastRead(g) = last /\ End(g) = End(frame[t])
  BY <1>5 DEF FirstPage, LastRead, LastWhole, End, last
<1>11. PlaceOK(t)'
  <2>1. End(g) <= tls_array[g.slot].byte_count /\ Mine(t)
        /\ FirstPage(g) <= g.at /\ g.at <= LastRead(g)
    BY <1>1, <1>3, <1>5, <1>9, <1>10 DEF PlaceOK
  <2> QED BY <1>0, <1>5, <1>7, <2>1 DEF PlaceOK, Mine, Pages, End, FirstPage, LastRead, LastWhole
<1>12. AccessOK(t)'
  BY <1>5, <1>7 DEF AccessOK
<1>13. \A p \in PageIds : page'[p].prot \in {"READ", "WRITE"} => Exposed(t, p)'
  BY <1>1, <1>8, ReadFrame
<1>14. frame[t].pc # "write_swap" /\ frame'[t].op \in {frame[t].op, "none"}
  BY <1>0, <1>1, <1>5, <1>7
<1>15. frame'[t].pc \in {"read_open", "read_return"}
  BY <1>5, <1>7
<1> QED BY <1>0, <1>1, <1>7, <1>8, <1>11, <1>12, <1>13, <1>14, <1>15, WorkerKeeps

\* tls_read returns, with all its pages sealed.
LEMMA ReadReturnKeeps ==
  ASSUME TLSInv, NEW t \in Threads, ReadReturn(t)
  PROVE  TLSInv'
<1>0. /\ frame[t].pc = "read_return" /\ process = "running" /\ Types
      /\ UNCHANGED <<tls_exist_array, tls_array, page, mutex, process>>
      /\ frame' = [frame EXCEPT ![t] = Idle]
  BY DEF ReadReturn, At, Return, TLSInv
<1>1. frame[t].op = "read"
  BY <1>0, StepKinds
<1>2. Idle \in Frames /\ Idle.op = "none" /\ Idle.pc = "idle"
  BY KindsAreFrames DEF IdleFrames, Idle
<1>3. /\ frame' \in [Threads -> Frames] /\ frame'[t] = Idle
      /\ \A u \in Threads : u # t => frame'[u] = frame[u]
      /\ page' \in [PageIds -> Page]
  BY <1>0, <1>2 DEF Types
<1>4. PlaceOK(t)' /\ AccessOK(t)'
  BY <1>2, <1>3 DEF PlaceOK, AccessOK
<1>5. \A p \in PageIds : page'[p].prot \in {"READ", "WRITE"} => Exposed(t, p)'
  BY <1>0, <1>1, ReadFrame
<1> QED BY <1>0, <1>1, <1>2, <1>3, <1>4, <1>5, WorkerKeeps

-----------------------------------------------------------------------------
(* Steps of tls_write that leave the storages as they are.                  *)

\* A frame of tls_write.
LEMMA WriteFrame ==
  ASSUME TLSInv, NEW t \in Threads, frame[t].op = "write"
  PROVE  /\ frame[t] \in WriteFrames
         /\ Types /\ Counted /\ PlaceOK(t)
         /\ frame[t].slot \in Slots /\ frame[t].offset \in Nat /\ frame[t].length \in Nat \ {0}
         /\ frame[t].at \in Nat /\ End(frame[t]) \in Nat
         /\ Target(t) \in Mapped /\ Target(t) \in PageIds
         /\ \A p \in PageIds : page[p].prot \in {"READ", "WRITE"} => Exposed(t, p)
<1>1. Types /\ Counted /\ PlaceOK(t)
  BY DEF TLSInv
<1>2. frame[t] \in WriteFrames
  BY <1>1, FrameKinds
<1>3. /\ frame[t].slot \in Slots /\ frame[t].offset \in Nat /\ frame[t].length \in Nat \ {0}
      /\ frame[t].at \in Nat /\ End(frame[t]) \in Nat
  BY <1>2 DEF WriteFrames, End
<1> QED BY <1>1, <1>2, <1>3, WorkPages, OneWorker

\* A step of tls_write that goes on with frame g.
LEMMA WriterKeeps ==
  ASSUME TLSInv, NEW t \in Threads, frame[t].op = "write", frame[t].pc # "write_swap",
         process = "running", UNCHANGED <<tls_exist_array, tls_array, mutex, process>>,
         NEW g \in WriteFrames, frame' = [frame EXCEPT ![t] = g],
         g.pc \in {"write_enter", "write_copy", "write_open", "write_byte", "write_close"},
         g.slot = frame[t].slot, g.offset = frame[t].offset, g.length = frame[t].length,
         g.offset <= g.at, g.at < End(g),
         g.pc = "write_enter" /\ g.at > g.offset => g.at % PageSize = 0,
         page' \in [PageIds -> Page],
         \A p \in PageIds : page'[p].reference_count = page[p].reference_count,
         AccessOK(t)',
         \A p \in PageIds : page'[p].prot \in {"READ", "WRITE"} => Exposed(t, p)'
  PROVE  TLSInv'
<1>1. g.op = "write" /\ g \in Frames
  BY KindsAreFrames DEF WriteFrames
<1>2. Types /\ PlaceOK(t) /\ End(g) = End(frame[t])
  BY DEF TLSInv, End
<1>3. /\ frame' \in [Threads -> Frames] /\ frame'[t] = g
      /\ \A u \in Threads : u # t => frame'[u] = frame[u]
  BY <1>1, <1>2 DEF Types
<1>4. PlaceOK(t)'
  <2>1. End(g) <= tls_array[g.slot].byte_count /\ Mine(t) BY <1>2 DEF PlaceOK
  <2> QED BY <1>1, <1>3, <2>1 DEF PlaceOK, Mine, Pages, End
<1> QED BY <1>1, <1>3, <1>4, WorkerKeeps

\* tls_write comes to a page, and seals the one it comes from.
LEMMA WriteEnterKeeps ==
  ASSUME TLSInv, NEW t \in Threads, WriteEnter(t)
  PROVE  TLSInv'
<1> DEFINE g == [frame[t] EXCEPT !.pc = IF Shared(Target(t)) THEN "write_copy" ELSE "write_open"]
<1>0. /\ frame[t].pc = "write_enter" /\ process = "running" /\ Types
      /\ UNCHANGED <<tls_exist_array, tls_array, mutex, process>>
  BY DEF WriteEnter, At, TLSInv
<1>1. frame[t].op = "write"
  BY <1>0, StepKinds
<1>2. /\ frame[t] \in WriteFrames /\ Counted /\ PlaceOK(t) /\ frame[t].at \in Nat
      /\ frame[t].offset \in Nat
      /\ \A p \in PageIds : page[p].prot \in {"READ", "WRITE"} => Exposed(t, p)
  BY <1>1, WriteFrame
<1>3. /\ g \in WriteFrames /\ g.pc \in {"write_copy", "write_open"} /\ g.slot = frame[t].slot
      /\ g.offset = frame[t].offset /\ g.length = frame[t].length /\ g.at = frame[t].at
  BY <1>2 DEF WriteFrames
<1>4. \/ /\ frame[t].at > frame[t].offset
         /\ MProtect(t, PageOf(g.slot, (g.at \div PageSize) - 1), "NONE", g)
      \/ /\ frame[t].at = frame[t].offset
         /\ frame' = [frame EXCEPT ![t] = g]
         /\ UNCHANGED page
  BY <1>3 DEF WriteEnter
<1>5. g.pc = "write_copy" => Shared(Target(t))
  BY <1>2 DEF WriteFrames
<1> HIDE DEF g
<1>6. g.offset <= g.at /\ g.at < End(g)
  <2>1. End(g) = End(frame[t]) BY <1>3 DEF End
  <2> QED BY <1>1, <1>2, <1>3, <2>1 DEF PlaceOK
<1>7. /\ frame' = [frame EXCEPT ![t] = g]
      /\ page' \in [PageIds -> Page]
      /\ \A p \in PageIds : page'[p].reference_count = page[p].reference_count
      /\ \A p \in PageIds : page'[p].prot \notin {"READ", "WRITE"}
  <2>1. CASE frame[t].at > frame[t].offset
    <3> DEFINE q == Previous(t)
    <3>1. /\ q \in Mapped /\ q = PageOf(frame[t].slot, (frame[t].at \div PageSize) - 1)
      BY <1>0, <2>1, WorkPages
    <3>2. ~(frame[t].at = frame[t].offset) BY <1>2, <2>1
    <3>3. MProtect(t, q, "NONE", g) BY <1>3, <1>4, <3>1, <3>2
    <3> HIDE DEF q
    <3>4. page' = [page EXCEPT ![q].prot = "NONE"] /\ frame' = [frame EXCEPT ![t] = g]
      BY <3>1, <3>3 DEF MProtect
    <3>5. /\ page' \in [PageIds -> Page]
          /\ \A p \in PageIds : page'[p].reference_count = page[p].reference_count
          /\ page'[q].prot = "NONE"
          /\ \A p \in PageIds : p # q => page'[p].prot = page[p].prot
      BY <1>0, <1>2, <3>1, <3>4, ProtectedPage
    <3>6. \A p \in PageIds : page[p].prot \in {"READ", "WRITE"} => p = q
      BY <1>0, <1>2 DEF Exposed, q
    <3> QED BY <3>4, <3>5, <3>6
  <2>2. CASE ~(frame[t].at > frame[t].offset)
    <3>1. frame' = [frame EXCEPT ![t] = g] /\ UNCHANGED page BY <1>4, <2>2
    <3>2. \A p \in PageIds : page[p].prot \notin {"READ", "WRITE"}
      BY <1>0, <1>2, <2>2 DEF Exposed
    <3> QED BY <1>0, <3>1, <3>2 DEF Types
  <2> QED BY <2>1, <2>2
<1>8. AccessOK(t)'
  <2>1. frame'[t] = g BY <1>0, <1>7 DEF Types
  <2>2. g.pc = "write_copy" => Shared(Target(t)) BY <1>5
  <2>3. Target(t)' = Target(t) BY <1>0, <1>3, <2>1 DEF Target, PageOf
  <2>4. Target(t) \in PageIds BY <1>1, WriteFrame
  <2> QED BY <1>3, <1>7, <2>1, <2>2, <2>3, <2>4 DEF AccessOK, Shared
<1> QED BY <1>0, <1>1, <1>3, <1>6, <1>7, <1>8, WriterKeeps

\* tls_write makes the page it has come to writable.
LEMMA WriteOpenKeeps ==
  ASSUME TLSInv, NEW t \in Threads, WriteOpen(t)
  PROVE  TLSInv'
<1> DEFINE g == [frame[t] EXCEPT !.pc = "write_byte"]
<1>0. /\ frame[t].pc = "write_open" /\ process = "running" /\ Types
      /\ UNCHANGED <<tls_exist_array, tls_array, mutex, process>>
  BY DEF WriteOpen, At, TLSInv
<1>1. frame[t].op = "write"
  BY <1>0, StepKinds
<1>2. /\ frame[t] \in WriteFrames /\ Counted /\ PlaceOK(t) /\ frame[t].at \in Nat
      /\ Target(t) \in Mapped /\ Target(t) \in PageIds
      /\ \A p \in PageIds : page[p].prot \in {"READ", "WRITE"} => Exposed(t, p)
  BY <1>1, WriteFrame
<1>3. /\ page' = [page EXCEPT ![Target(t)].prot = "WRITE"]
      /\ frame' = [frame EXCEPT ![t] = g]
  BY <1>2 DEF WriteOpen, MProtect
<1>4. /\ g \in WriteFrames /\ g.pc = "write_byte" /\ g.slot = frame[t].slot
      /\ g.offset = frame[t].offset /\ g.length = frame[t].length /\ g.at = frame[t].at
  BY <1>2 DEF WriteFrames
<1> HIDE DEF g
<1>5. g.offset <= g.at /\ g.at < End(g)
  <2>1. End(g) = End(frame[t]) BY <1>4 DEF End
  <2> QED BY <1>1, <1>2, <1>4, <2>1 DEF PlaceOK
<1>6. /\ page' \in [PageIds -> Page]
      /\ \A p \in PageIds : page'[p].reference_count = page[p].reference_count
      /\ page'[Target(t)].prot = "WRITE"
      /\ \A p \in PageIds : p # Target(t) => page'[p].prot = page[p].prot
  BY <1>0, <1>2, <1>3, ProtectedPage
<1>7. frame'[t] = g BY <1>0, <1>3 DEF Types
<1>8. Target(t)' = Target(t)
  BY <1>0, <1>4, <1>7 DEF Target, PageOf
<1>9. AccessOK(t)'
  BY <1>4, <1>6, <1>7, <1>8 DEF AccessOK
<1>10. \A p \in PageIds : page'[p].prot \in {"READ", "WRITE"} => Exposed(t, p)'
  BY <1>0, <1>2, <1>4, <1>6, <1>7, <1>8 DEF Exposed
<1> QED BY <1>0, <1>1, <1>3, <1>4, <1>5, <1>6, <1>9, <1>10, WriterKeeps

\* tls_write stores a byte; it is never ended by a fault.
LEMMA WriteByteRuns ==
  ASSUME TLSInv, NEW t \in Threads, WriteByte(t)
  PROVE  /\ frame[t].pc = "write_byte" /\ frame[t].op = "write" /\ process = "running"
         /\ page[Target(t)].prot = "WRITE"
         /\ page' = [page EXCEPT ![Target(t)].data[frame[t].at % PageSize] = frame[t].value]
         /\ frame' = [frame EXCEPT ![t] = AfterByte(frame[t])]
         /\ UNCHANGED <<tls_exist_array, tls_array, mutex, process>>
<1>0. /\ frame[t].pc = "write_byte" /\ process = "running" /\ Types /\ AccessOK(t)
  BY DEF WriteByte, At, TLSInv
<1>1. frame[t].op = "write"
  BY <1>0, StepKinds
<1>2. page[Target(t)].prot = "WRITE"
  BY <1>0 DEF AccessOK
<1>3. [frame EXCEPT ![t] = AfterByte(@)] = [frame EXCEPT ![t] = AfterByte(frame[t])]
  BY <1>0 DEF Types
<1> QED BY <1>0, <1>1, <1>2, <1>3 DEF WriteByte

\* A byte stored changes nothing but that byte.
LEMMA StoredByte ==
  ASSUME Types, NEW p \in Mapped, NEW i \in 0 .. PageSize - 1, NEW v \in Values,
         page' = [page EXCEPT ![p].data[i] = v]
  PROVE  /\ page' \in [PageIds -> Page]
         /\ \A q \in PageIds : page'[q].reference_count = page[q].reference_count
                               /\ page'[q].prot = page[q].prot
         /\ \A q \in PageIds : q # p => page'[q] = page[q]
<1>1. p \in PageIds /\ page \in [PageIds -> Page] /\ page[p] # Unmapped
  BY DEF Mapped, Types, Unmapped
<1>2. page[p] \in [reference_count : Nat \ {0}, data : [0 .. PageSize - 1 -> Values],
                   prot : {"NONE", "READ", "WRITE"}]
  BY <1>1 DEF Page
<1> DEFINE d == [page[p].data EXCEPT ![i] = v]
           new == [page[p] EXCEPT !.data = d]
<1>3. d \in [0 .. PageSize - 1 -> Values]
  BY <1>2
<1>4. page' = [page EXCEPT ![p] = new]
  BY <1>1
<1> HIDE DEF d
<1>5. new \in Page /\ new.reference_count = page[p].reference_count /\ new.prot = page[p].prot
  BY <1>2, <1>3 DEF Page
<1> HIDE DEF new
<1> QED BY <1>1, <1>4, <1>5

\* tls_write stores a byte and goes on to the next one.
LEMMA WriteByteKeeps ==
  ASSUME TLSInv, NEW t \in Threads, WriteByte(t)
  PROVE  TLSInv'
<1> DEFINE g == AfterByte(frame[t])
           next == frame[t].at + 1
<1>0. /\ frame[t].pc = "write_byte" /\ frame[t].op = "write" /\ process = "running"
      /\ page[Target(t)].prot = "WRITE"
      /\ page' = [page EXCEPT ![Target(t)].data[frame[t].at % PageSize] = frame[t].value]
      /\ frame' = [frame EXCEPT ![t] = g]
      /\ UNCHANGED <<tls_exist_array, tls_array, mutex, process>>
  BY WriteByteRuns
<1>2. /\ frame[t] \in WriteFrames /\ Types /\ Counted /\ PlaceOK(t) /\ frame[t].at \in Nat
      /\ frame[t].offset \in Nat /\ End(frame[t]) \in Nat
      /\ Target(t) \in Mapped /\ Target(t) \in PageIds
      /\ \A p \in PageIds : page[p].prot \in {"READ", "WRITE"} => Exposed(t, p)
  BY <1>0, WriteFrame
<1>3. \A p \in PageIds : page[p].prot \in {"READ", "WRITE"} => p = Target(t)
  BY <1>0, <1>2 DEF Exposed
<1>4. /\ page' \in [PageIds -> Page]
      /\ \A q \in PageIds : page'[q].reference_count = page[q].reference_count
                            /\ page'[q].prot = page[q].prot
  <2>1. frame[t].at % PageSize \in 0 .. PageSize - 1 BY <1>2, PageSizeAssumption, Division
  <2>2. frame[t].value \in Values BY <1>2 DEF WriteFrames
  <2> QED BY <1>0, <1>2, <2>1, <2>2, StoredByte
<1>5. frame[t].offset <= frame[t].at /\ frame[t].at < End(frame[t])
  BY <1>0, <1>2 DEF PlaceOK
<1>6. next \in Nat BY <1>2
<1>7. CASE next = End(frame[t])
  <2>1. g = [frame[t] EXCEPT !.pc = "write_close"] BY <1>7 DEF AfterByte
  <2>2. /\ g \in WriteFrames /\ g.pc = "write_close" /\ g.slot = frame[t].slot
        /\ g.offset = frame[t].offset /\ g.length = frame[t].length /\ g.at = frame[t].at
    BY <1>2, <2>1 DEF WriteFrames
  <2> HIDE DEF g
  <2>3. g.offset <= g.at /\ g.at < End(g)
    <3>1. End(g) = End(frame[t]) BY <2>2 DEF End
    <3> QED BY <1>5, <2>2, <3>1
  <2>4. frame'[t] = g BY <1>0, <1>2 DEF Types
  <2>5. Target(t)' = Target(t) BY <1>0, <2>2, <2>4 DEF Target, PageOf
  <2>6. AccessOK(t)' BY <1>0, <1>2, <1>4, <2>2, <2>4, <2>5 DEF AccessOK
  <2>7. \A p \in PageIds : page'[p].prot \in {"READ", "WRITE"} => Exposed(t, p)'
    BY <1>3, <1>4, <2>2, <2>4, <2>5 DEF Exposed
  <2> QED BY <1>0, <1>4, <2>2, <2>3, <2>6, <2>7, WriterKeeps
<1>8. CASE next # End(frame[t])
  <2> DEFINE k == PageSize
  <2>0. k \in Nat \ {0} BY PageSizeAssumption
  <2>1. /\ g = [frame[t] EXCEPT !.at = next,
                                !.pc = IF next % k = 0 THEN "write_enter" ELSE "write_byte"]
    BY <1>8 DEF AfterByte
  <2> HIDE DEF next
  <2>2. /\ g \in WriteFrames /\ g.slot = frame[t].slot
        /\ g.pc = (IF next % k = 0 THEN "write_enter" ELSE "write_byte")
        /\ g.offset = frame[t].offset /\ g.length = frame[t].length /\ g.at = next
    BY <1>2, <1>6, <2>1 DEF WriteFrames
  <2> HIDE DEF g
  <2>3. g.offset <= g.at /\ g.at < End(g) /\ g.at > g.offset
    <3>1. End(g) = End(frame[t]) BY <2>2 DEF End
    <3> QED BY <1>2, <1>5, <1>8, <2>2, <3>1 DEF next
  <2>4. frame'[t] = g BY <1>0, <1>2 DEF Types
  <2>5. /\ next % k = 0 => next \div k = (frame[t].at \div k) + 1
        /\ next % k # 0 => next \div k = frame[t].at \div k
        /\ frame[t].at \div k \in Nat
    BY <1>2, <2>0, NextNumber, Division DEF next
  <2>6. g.pc = "write_enter" => Previous(t)' = Target(t)
    <3> SUFFICES ASSUME g.pc = "write_enter" PROVE Previous(t)' = Target(t)
      OBVIOUS
    <3> DEFINE q == frame[t].at \div k
               q2 == next \div k
    <3>1. q2 = q + 1 /\ q \in Nat BY <2>2, <2>5
    <3>2. Previous(t)' = Pages(frame[t].slot)[(q2 - 1) + 1]
      BY <1>0, <2>2, <2>4 DEF Previous, PageAt, Pages
    <3>3. Target(t) = Pages(frame[t].slot)[q + 1]
      BY DEF Target, PageOf, Pages
    <3> HIDE DEF q, q2
    <3>4. (q2 - 1) + 1 = q + 1 BY <3>1
    <3> QED BY <3>2, <3>3, <3>4
  <2>7. g.pc = "write_byte" => Target(t)' = Target(t)
    <3> SUFFICES ASSUME g.pc = "write_byte" PROVE Target(t)' = Target(t)
      OBVIOUS
    <3>1. next \div k = frame[t].at \div k BY <2>2, <2>5
    <3> QED BY <1>0, <2>2, <2>4, <3>1 DEF Target, PageOf
  <2>8. AccessOK(t)' BY <1>0, <1>2, <1>4, <2>2, <2>4, <2>7 DEF AccessOK
  <2>9. \A p \in PageIds : page'[p].prot \in {"READ", "WRITE"} => Exposed(t, p)'
    <3> SUFFICES ASSUME NEW p \in PageIds, page'[p].prot \in {"READ", "WRITE"}
                 PROVE  Exposed(t, p)'
      OBVIOUS
    <3>1. p = Target(t) BY <1>3, <1>4
    <3>2. CASE g.pc = "write_enter"
      BY <2>3, <2>4, <2>6, <3>1, <3>2 DEF Exposed
    <3>3. CASE g.pc = "write_byte"
      BY <2>4, <2>7, <3>1, <3>3 DEF Exposed
    <3> QED BY <2>2, <3>2, <3>3
  <2>10. g.pc \in {"write_enter", "write_byte"} /\ (g.pc = "write_enter" => g.at % PageSize = 0)
    BY <2>2
  <2> QED BY <1>0, <1>4, <2>2, <2>3, <2>8, <2>9, <2>10, WriterKeeps
<1> QED BY <1>7, <1>8

\* tls_write seals the last page and returns.
LEMMA WriteCloseKeeps ==
  ASSUME TLSInv, NEW t \in Threads, WriteClose(t)
  PROVE  TLSInv'
<1>0. /\ frame[t].pc = "write_close" /\ process = "running" /\ Types
      /\ UNCHANGED <<tls_exist_array, tls_array, mutex, process>>
  BY DEF WriteClose, At, TLSInv
<1>1. frame[t].op = "write"
  BY <1>0, StepKinds
<1>2. /\ Counted /\ Target(t) \in Mapped /\ Target(t) \in PageIds
      /\ \A p \in PageIds : page[p].prot \in {"READ", "WRITE"} => Exposed(t, p)
  BY <1>1, WriteFrame
<1>3. /\ page' = [page EXCEPT ![Target(t)].prot = "NONE"]
      /\ frame' = [frame EXCEPT ![t] = Idle]
  BY <1>2 DEF WriteClose, MProtect
<1>4. /\ page' \in [PageIds -> Page]
      /\ \A p \in PageIds : page'[p].reference_count = page[p].reference_count
      /\ page'[Target(t)].prot = "NONE"
      /\ \A p \in PageIds : p # Target(t) => page'[p].prot = page[p].prot
  BY <1>0, <1>2, <1>3, ProtectedPage
<1>5. Idle \in Frames /\ Idle.op = "none" /\ Idle.pc = "idle"
  BY KindsAreFrames DEF IdleFrames, Idle
<1>6. /\ frame' \in [Threads -> Frames] /\ frame'[t] = Idle
      /\ \A u \in Threads : u # t => frame'[u] = frame[u]
  BY <1>0, <1>3, <1>5 DEF Types
<1>7. PlaceOK(t)' /\ AccessOK(t)'
  BY <1>5, <1>6 DEF PlaceOK, AccessOK
<1>8. \A p \in PageIds : page'[p].prot \in {"READ", "WRITE"} => Exposed(t, p)'
  BY <1>0, <1>2, <1>4 DEF Exposed
<1> QED BY <1>0, <1>1, <1>4, <1>5, <1>6, <1>7, <1>8, WorkerKeeps

-----------------------------------------------------------------------------
(* Steps of tls_clone and tls_create up to the filling of the storage.      *)

\* A step of a thread that neither reads, writes nor destroys, keeps every page as it is
\* and claims no slot but for itself to fill.
LEMMA CloneKeeps ==
  ASSUME TLSInv, NEW t \in Threads, frame[t].op \in {"create", "clone"},
         frame[t].pc \notin {"create_fill", "clone_fill"}, process = "running",
         UNCHANGED <<tls_array, page, process>>,
         tls_exist_array' \in [Slots -> BOOLEAN],
         \A s \in Slots : tls_exist_array[s] => tls_exist_array'[s],
         \A s \in Slots : tls_exist_array'[s] /\ ~tls_exist_array[s] =>
           /\ frame'[t].pc \in {"create_fill", "clone_fill"} /\ frame'[t].slot = s
           /\ \A u \in Threads : u # t => frame[u].pc \notin {"create_claim", "clone_claim"},
         frame' \in [Threads -> Frames], \A u \in Threads : u # t => frame'[u] = frame[u],
         frame'[t].op \in {frame[t].op, "none"},
         frame'[t].pc \in {"idle", "create_fill", "clone_find", "clone_claim", "clone_fill"},
         mutex' \in Threads \cup {NoThread}, MutexHeld', PlaceOK(t)'
  PROVE  TLSInv'
<1>0. Types /\ Serial
  BY DEF TLSInv
<1>1. frame' = [frame EXCEPT ![t] = frame'[t]]
  BY <1>0 DEF Types
<1>2. Serial'
  <2> DEFINE g == frame'[t]
  <2>1. frame' = [frame EXCEPT ![t] = g] BY <1>1
  <2>2. g.op = "none" \/ g.op = frame[t].op OBVIOUS
  <2> HIDE DEF g
  <2> QED BY <1>0, <2>1, <2>2, StepSerial
<1>3. frame[t].pc \notin {"create_fill", "clone_fill", "write_swap"} /\ frame[t].op # "destroy"
      /\ frame'[t].pc # "write_swap" /\ frame'[t].op # "destroy"
  BY <1>0, StepKinds
<1>4. Types' /\ Counted' /\ (\A s \in Slots : StorageOK(s)') /\ \A u \in Threads : PlaceOK(u)'
  <2>1. process' \in {"running", "exited"} /\ page' \in [PageIds -> Page]
    BY <1>0 DEF Types
  <2> QED BY <1>3, <2>1, Kept
<1>5. AccessOK(t)'
  BY DEF AccessOK
<1>6. Sealed' /\ \A u \in Threads : AccessOK(u)'
  <2>1. frame[t].op \notin {"read", "write"} OBVIOUS
  <2>2. \A u \in Threads : u # t => frame[u].op # "write" BY <1>0, Company
  <2> QED BY <1>5, <2>1, <2>2, BystanderStep
<1>7. EndsQuiescent'
  BY DEF EndsQuiescent
<1> QED BY <1>2, <1>4, <1>6, <1>7 DEF TLSInv

\* tls_create takes the slot it has found.
LEMMA CreateClaimKeeps ==
  ASSUME TLSInv, NEW t \in Threads, CreateClaim(t)
  PROVE  TLSInv'
<1> DEFINE g == [frame[t] EXCEPT !.pc = "create_fill"]
<1>0. /\ frame[t].pc = "create_claim" /\ process = "running" /\ Types /\ Serial /\ PlaceOK(t)
      /\ MutexHeld
      /\ tls_exist_array' = [tls_exist_array EXCEPT ![frame[t].slot] = TRUE]
      /\ frame' = [frame EXCEPT ![t] = g]
      /\ UNCHANGED <<tls_array, page, mutex, process>>
  BY DEF CreateClaim, At, Goto, TLSInv
<1>1. frame[t].op = "create" /\ frame[t] \in CreateFrames
  BY <1>0, StepKinds, FrameKinds
<1>2. g \in CreateFrames /\ g.op = "create" /\ g.pc = "create_fill" /\ g.slot = frame[t].slot
  BY <1>1 DEF CreateFrames
<1> HIDE DEF g
<1>3. g \in Frames /\ frame[t].slot \in Slots
  BY <1>1, <1>2, KindsAreFrames DEF CreateFrames
<1>4. /\ frame' \in [Threads -> Frames] /\ frame'[t] = g
      /\ \A u \in Threads : u # t => frame'[u] = frame[u]
  BY <1>0, <1>3 DEF Types
<1>5. /\ tls_exist_array' \in [Slots -> BOOLEAN]
      /\ \A s \in Slots : tls_exist_array[s] => tls_exist_array'[s]
      /\ \A s \in Slots : tls_exist_array'[s] /\ ~tls_exist_array[s] => s = frame[t].slot
      /\ tls_exist_array'[frame[t].slot]
  BY <1>0, <1>3 DEF Types
<1>6. \A u \in Threads : u # t => frame[u].pc \notin {"create_claim", "clone_claim"}
  BY <1>0, <1>1, Company, StepKinds
<1>7. ~tls_exist_array[frame[t].slot] /\ Pages(frame[t].slot) = << >>
  <2>1. ~tls_exist_array[frame[t].slot] BY <1>0 DEF PlaceOK
  <2>2. StorageOK(frame[t].slot) BY <1>3 DEF TLSInv
  <2> QED BY <2>1, <2>2 DEF StorageOK
<1>8. PlaceOK(t)'
  BY <1>0, <1>2, <1>4, <1>5, <1>7 DEF PlaceOK, Pages
<1>9. MutexHeld' /\ mutex' \in Threads \cup {NoThread}
  BY <1>0, <1>2, <1>4 DEF MutexHeld, Types
<1> QED BY <1>0, <1>1, <1>2, <1>4, <1>5, <1>6, <1>8, <1>9, CloneKeeps

\* What is known of a thread that is cloning behind the lock.
LEMMA InsideClone ==
  ASSUME TLSInv, NEW t \in Threads,
         frame[t].pc \in {"clone_find", "clone_claim", "clone_fill", "clone_unlock"}
  PROVE  /\ mutex = t /\ frame[t].op = "clone"
         /\ \A u \in Threads : u # t =>
              /\ frame[u].pc \notin {"clone_find", "clone_claim", "clone_fill", "clone_unlock",
                                     "create_claim", "create_fill"}
              /\ frame[u].op \in {"none", "clone"}
<1>1. Types /\ Serial /\ MutexHeld
  BY DEF TLSInv
<1>2. mutex = t /\ frame[t].op = "clone"
  BY <1>1, StepKinds DEF MutexHeld
<1> QED BY <1>1, <1>2, Company, StepKinds DEF MutexHeld

\* tls_clone takes the slot it has found.
LEMMA CloneClaimKeeps ==
  ASSUME TLSInv, NEW t \in Threads, CloneClaim(t)
  PROVE  TLSInv'
<1> DEFINE g == [frame[t] EXCEPT !.pc = "clone_fill"]
<1>0. /\ frame[t].pc = "clone_claim" /\ process = "running" /\ Types /\ PlaceOK(t)
      /\ MutexHeld
      /\ tls_exist_array' = [tls_exist_array EXCEPT ![frame[t].slot] = TRUE]
      /\ frame' = [frame EXCEPT ![t] = g]
      /\ UNCHANGED <<tls_array, page, mutex, process>>
  BY DEF CloneClaim, At, Goto, TLSInv
<1>1. frame[t].op = "clone" /\ frame[t] \in CopyFrames
  BY <1>0, StepKinds
<1>2. /\ g \in CopyFrames /\ g.op = "clone" /\ g.pc = "clone_fill" /\ g.slot = frame[t].slot
      /\ g.target = frame[t].target
  BY <1>1 DEF CopyFrames
<1> HIDE DEF g
<1>3. g \in Frames /\ frame[t].slot \in Slots
  BY <1>1, <1>2, KindsAreFrames DEF CopyFrames
<1>4. /\ frame' \in [Threads -> Frames] /\ frame'[t] = g
      /\ \A u \in Threads : u # t => frame'[u] = frame[u]
  BY <1>0, <1>3 DEF Types
<1>5. /\ tls_exist_array' \in [Slots -> BOOLEAN]
      /\ \A s \in Slots : tls_exist_array[s] => tls_exist_array'[s]
      /\ \A s \in Slots : tls_exist_array'[s] /\ ~tls_exist_array[s] => s = frame[t].slot
      /\ tls_exist_array'[frame[t].slot]
  BY <1>0, <1>3 DEF Types
<1>6. mutex = t /\ \A u \in Threads : u # t => frame[u].pc \notin {"create_claim", "clone_claim"}
  BY <1>0, InsideClone
<1>7. ~tls_exist_array[frame[t].slot] /\ Pages(frame[t].slot) = << >>
  <2>1. ~tls_exist_array[frame[t].slot] BY <1>0 DEF PlaceOK
  <2>2. StorageOK(frame[t].slot) BY <1>3 DEF TLSInv
  <2> QED BY <2>1, <2>2 DEF StorageOK
<1>8. PlaceOK(t)'
  <2>1. Pages(frame[t].target) # << >> BY <1>0 DEF PlaceOK
  <2> QED BY <1>0, <1>2, <1>4, <1>5, <1>7, <2>1 DEF PlaceOK, Pages
<1>9. MutexHeld' /\ mutex' \in Threads \cup {NoThread}
  BY <1>0, <1>2, <1>4, <1>6 DEF MutexHeld, Types
<1> QED BY <1>0, <1>1, <1>2, <1>4, <1>5, <1>6, <1>8, <1>9, CloneKeeps

\* tls_clone takes the mutex when nobody has it.
LEMMA CloneLockKeeps ==
  ASSUME TLSInv, NEW t \in Threads, CloneLock(t)
  PROVE  TLSInv'
<1> DEFINE g == [frame[t] EXCEPT !.pc = "clone_find"]
<1>0. /\ frame[t].pc = "clone_lock" /\ process = "running" /\ Types /\ MutexHeld
      /\ mutex = NoThread /\ mutex' = t
      /\ frame' = [frame EXCEPT ![t] = g]
      /\ UNCHANGED <<tls_exist_array, tls_array, page, process>>
  BY DEF CloneLock, At, Goto, TLSInv
<1>1. frame[t].op = "clone" /\ frame[t] \in SearchFrames
  BY <1>0, StepKinds
<1>2. g \in SearchFrames /\ g.op = "clone" /\ g.pc = "clone_find"
  BY <1>1 DEF SearchFrames
<1> HIDE DEF g
<1>3. /\ frame' \in [Threads -> Frames] /\ frame'[t] = g
      /\ \A u \in Threads : u # t => frame'[u] = frame[u]
  BY <1>0, <1>2, KindsAreFrames DEF Types
<1>4. PlaceOK(t)'
  BY <1>2, <1>3 DEF PlaceOK
<1>5. MutexHeld'
  BY <1>0, <1>3, NoThreadAssumption DEF MutexHeld
<1>6. tls_exist_array' \in [Slots -> BOOLEAN]
  BY <1>0 DEF Types
<1> QED BY <1>0, <1>1, <1>2, <1>3, <1>4, <1>5, <1>6, CloneKeeps

\* tls_clone finds a storage to clone that has its pages, and a free slot; or it gives
\* up with the mutex in its hands.
LEMMA CloneFindKeeps ==
  ASSUME TLSInv, NEW t \in Threads, CloneFind(t)
  PROVE  TLSInv'
<1>0. /\ frame[t].pc = "clone_find" /\ process = "running" /\ Types /\ MutexHeld
      /\ UNCHANGED <<tls_exist_array, tls_array, page, mutex, process>>
      /\ tls_exist_array' \in [Slots -> BOOLEAN] /\ mutex' \in Threads \cup {NoThread}
  BY DEF CloneFind, At, TLSInv, Types
<1>1. frame[t].op = "clone" /\ frame[t] \in SearchFrames /\ mutex = t
  BY <1>0, StepKinds, InsideClone
<1> DEFINE v == frame[t].target
           g == [op |-> "clone", pc |-> "clone_claim", slot |-> Min(FreeSlots),
                 target |-> OwnSlot(v)]
<1>2. v \in Threads
  BY <1>1 DEF SearchFrames
<1>3. CASE ~Cloneable(t, v)
  <2>1. frame' = [frame EXCEPT ![t] = Idle] BY <1>3 DEF CloneFind, Return
  <2>2. Idle \in Frames /\ Idle.op = "none" /\ Idle.pc = "idle"
    BY KindsAreFrames DEF IdleFrames, Idle
  <2>3. /\ frame' \in [Threads -> Frames] /\ frame'[t] = Idle
        /\ \A u \in Threads : u # t => frame'[u] = frame[u]
    BY <1>0, <2>1, <2>2 DEF Types
  <2>4. PlaceOK(t)' BY <2>2, <2>3 DEF PlaceOK
  <2>5. MutexHeld' BY <1>0, <2>2, <2>3 DEF MutexHeld
  <2> QED BY <1>0, <1>1, <2>2, <2>3, <2>4, <2>5, CloneKeeps
<1>4. CASE Cloneable(t, v)
  <2>1. frame' = [frame EXCEPT ![t] = g] /\ Own(v) # {} /\ FreeSlots # {}
    BY <1>4 DEF CloneFind, Cloneable
  <2>2. \A u \in Threads : frame[u].pc \notin {"create_fill", "clone_fill"}
    BY <1>0, InsideClone
  <2>3. OwnSlot(v) \in Slots /\ Pages(OwnSlot(v)) # << >>
    BY <1>2, <2>1, <2>2, FoundStorage
  <2>4. Min(FreeSlots) \in Slots /\ ~tls_exist_array[Min(FreeSlots)]
    BY <1>0, <2>1, FoundSlots
  <2>5. g \in CopyFrames /\ g \in Frames
    BY <2>3, <2>4, KindsAreFrames DEF CopyFrames
  <2>6. g.op = "clone" /\ g.pc = "clone_claim" /\ g.slot = Min(FreeSlots) /\ g.target = OwnSlot(v)
    OBVIOUS
  <2> HIDE DEF g
  <2>7. /\ frame' \in [Threads -> Frames] /\ frame'[t] = g
        /\ \A u \in Threads : u # t => frame'[u] = frame[u]
    BY <1>0, <2>1, <2>5 DEF Types
  <2>8. PlaceOK(t)' BY <1>0, <2>3, <2>4, <2>6, <2>7 DEF PlaceOK, Pages
  <2>9. MutexHeld' BY <1>0, <1>1, <2>6, <2>7 DEF MutexHeld
  <2> QED BY <1>0, <1>1, <2>6, <2>7, <2>8, <2>9, CloneKeeps
<1> QED BY <1>3, <1>4

\* tls_clone gives the mutex back.
LEMMA CloneUnlockKeeps ==
  ASSUME TLSInv, NEW t \in Threads, CloneUnlock(t)
  PROVE  TLSInv'
<1>0. /\ frame[t].pc = "clone_unlock" /\ process = "running" /\ Types /\ MutexHeld
      /\ mutex' = NoThread
      /\ frame' = [frame EXCEPT ![t] = Idle]
      /\ UNCHANGED <<tls_exist_array, tls_array, page, process>>
  BY DEF CloneUnlock, At, Return, TLSInv
<1>1. frame[t].op = "clone" /\ mutex = t
  BY <1>0, InsideClone
<1>2. Idle \in Frames /\ Idle.op = "none" /\ Idle.pc = "idle"
  BY KindsAreFrames DEF IdleFrames, Idle
<1>3. /\ frame' \in [Threads -> Frames] /\ frame'[t] = Idle
      /\ \A u \in Threads : u # t => frame'[u] = frame[u]
  BY <1>0, <1>2 DEF Types
<1>4. PlaceOK(t)' BY <1>2, <1>3 DEF PlaceOK
<1>5. MutexHeld'
  <2>1. \A u \in Threads : u # t =>
          frame[u].pc \notin {"clone_find", "clone_claim", "clone_fill", "clone_unlock"}
    BY <1>0, InsideClone
  <2> QED BY <1>2, <1>3, <2>1 DEF MutexHeld
<1>6. tls_exist_array' \in [Slots -> BOOLEAN]
  BY <1>0 DEF Types
<1> QED BY <1>0, <1>1, <1>2, <1>3, <1>4, <1>5, <1>6, CloneKeeps

-----------------------------------------------------------------------------
(* The filling of a storage.                                                *)

\* Fresh pages are free ones, each given out once.
LEMMA NewPages ==
  ASSUME NEW s \in Nat, NEW i \in Nat, NEW n \in Nat, Mappable(n)
  PROVE  /\ FreshPages(s, i, n) \in [1 .. n -> PageIds \ Mapped]
         /\ \A j, k \in 1 .. n : FreshPages(s, i, n)[j] = FreshPages(s, i, n)[k] => j = k
<1> DEFINE free == PageIds \ Mapped
           base == s * (MaxPages \div MaxSlots) + i
           own  == [k \in 1 .. n |-> s * (MaxPages \div MaxSlots) + i + k - 1]
<1>1. CASE \A k \in 1 .. n : own[k] \in free
  <2>1. FreshPages(s, i, n) = own BY <1>1 DEF FreshPages
  <2>2. base \in Nat
    <3>1. MaxPages \in Nat /\ MaxSlots \in Nat \ {0} BY MaxPagesAssumption, MaxSlotsAssumption
    <3>2. MaxPages \div MaxSlots \in Nat BY <3>1, Division
    <3> DEFINE c == MaxPages \div MaxSlots
    <3> HIDE DEF c
    <3>3. s * c \in Nat BY <3>2, SMT DEF c
    <3>4. s * c + i \in Nat BY <3>3
    <3> QED BY <3>4 DEF c
  <2>3. \A k \in 1 .. n : own[k] = (base + k) - 1
    BY <2>2
  <2> HIDE DEF base
  <2>4. \A j, k \in 1 .. n : own[j] = own[k] => j = k
    <3> HIDE DEF own
    <3> QED BY <2>2, <2>3
  <2>5. own \in [1 .. n -> free] BY <1>1
  <2> HIDE DEF own, free
  <2> QED BY <2>1, <2>4, <2>5 DEF free
<1>2. CASE ~(\A k \in 1 .. n : own[k] \in free)
  <2> DEFINE Good(new) == \A j, k \in 1 .. n : new[j] = new[k] => j = k
  <2>1. FreshPages(s, i, n) = CHOOSE new \in [1 .. n -> free] : Good(new)
    BY <1>2 DEF FreshPages
  <2>2. IsFiniteSet(free)
    <3>1. 0 \in Int /\ MaxPages - 1 \in Int BY MaxPagesAssumption
    <3>2. IsFiniteSet(PageIds) BY <3>1, FS_Interval DEF PageIds
    <3> QED BY <3>2, FS_Subset
  <2>3. PICK m \in Nat : ExistsBijection(1 .. m, free)
    BY <2>2, FS_NatBijection
  <2>4. n <= m
    BY <2>3, FS_CountingElements DEF Mappable
  <2>5. \E b \in [1 .. m -> free] : \A j, k \in 1 .. m : b[j] = b[k] => j = k
    <3> HIDE DEF free
    <3>1. PICK b \in Bijection(1 .. m, free) : TRUE BY <2>3 DEF ExistsBijection
    <3>2. b \in Injection(1 .. m, free) BY <3>1 DEF Bijection
    <3> QED BY <3>2 DEF Injection, IsInjective
  <2>9. PICK b \in [1 .. m -> free] : \A j, k \in 1 .. m : b[j] = b[k] => j = k
    BY <2>5
  <2> DEFINE new0 == [k \in 1 .. n |-> b[k]]
  <2>6. new0 \in [1 .. n -> free] /\ Good(new0)
    BY <2>4, <2>9
  <2> HIDE DEF new0, own
  <2>7. \E new \in [1 .. n -> free] : Good(new)
    BY <2>6
  <2> HIDE DEF free
  <2>8. FreshPages(s, i, n) \in [1 .. n -> free] /\ Good(FreshPages(s, i, n))
    BY <2>1, <2>7
  <2> QED BY <2>8 DEF free
<1> QED BY <1>1, <1>2

\* Nobody works on a storage while one is being filled.
LEMMA FillerAlone ==
  ASSUME TLSInv, NEW t \in Threads, frame[t].pc \in {"create_fill", "clone_fill"}
  PROVE  \A u \in Threads : u # t =>
           frame[u].pc \in {"idle", "killed", "clone_lock"} /\ frame[u].op \in {"none", "clone"}
<1> SUFFICES ASSUME NEW u \in Threads, u # t
             PROVE  frame[u].pc \in {"idle", "killed", "clone_lock"}
                    /\ frame[u].op \in {"none", "clone"}
  OBVIOUS
<1>0. Types /\ Serial BY DEF TLSInv
<1>1. CASE frame[t].pc = "create_fill"
  <2>1. frame[t].op = "create" BY <1>0, <1>1, StepKinds
  <2>2. frame[u].op = "none" BY <1>0, <2>1, Company
  <2> QED BY <1>0, <2>2, StepKinds
<1>2. CASE frame[t].pc = "clone_fill"
  <2>1. /\ frame[u].op \in {"none", "clone"}
        /\ frame[u].pc \notin {"clone_find", "clone_claim", "clone_fill", "clone_unlock"}
    BY <1>2, InsideClone
  <2>2. CASE frame[u].op = "none" BY <1>0, <2>2, StepKinds
  <2>3. CASE frame[u].op = "clone"
    <3>1. frame[u] \in SearchFrames \/ frame[u] \in CopyFrames BY <1>0, <2>3, FrameKinds
    <3> QED BY <2>1, <2>3, <3>1 DEF SearchFrames, CopyFrames
  <2> QED BY <2>1, <2>2, <2>3
<1> QED BY <1>1, <1>2

\* The step that fills a storage with pages, each of which counts one more user.
LEMMA FillKeeps ==
  ASSUME TLSInv, NEW t \in Threads, frame[t].pc \in {"create_fill", "clone_fill"},
         process = "running", UNCHANGED <<tls_exist_array, mutex, process>>,
         tls_array' \in [Slots -> Storage],
         \A s \in Slots : s # frame[t].slot => tls_array'[s] = tls_array[s],
         NEW st, tls_array'[frame[t].slot] = st, st.threadID = t,
         NEW new, st.page_ptr_array = new, new # << >>, Len(new) = PagesFor(st.byte_count),
         \A i, j \in 1 .. Len(new) : new[i] = new[j] => i = j,
         page' \in [PageIds -> Page],
         \A p \in PageIds :
           page'[p].reference_count = IF \E i \in 1 .. Len(new) : new[i] = p
                                      THEN page[p].reference_count + 1
                                      ELSE page[p].reference_count,
         \A p \in PageIds : page'[p].prot \in {"READ", "WRITE"} => page'[p].prot = page[p].prot,
         frame' \in [Threads -> Frames], \A u \in Threads : u # t => frame'[u] = frame[u],
         frame'[t].op \in {frame[t].op, "none"}, frame'[t].pc \in {"idle", "clone_unlock"},
         frame'[t].pc = "clone_unlock" =>
           frame[t].pc = "clone_fill" /\ frame'[t].slot = frame[t].slot
  PROVE  TLSInv'
<1> DEFINE slot == frame[t].slot
<1>0. Types /\ Serial /\ MutexHeld /\ PlaceOK(t) /\ Counted
  BY DEF TLSInv
<1>1. /\ slot \in Slots /\ frame[t].op \in {"create", "clone"}
      /\ tls_exist_array[slot] /\ Pages(slot) = << >>
  <2>1. frame[t] \in CreateFrames \cup CopyFrames /\ frame[t].op \in {"create", "clone"}
    BY <1>0, StepKinds, FrameKinds
  <2> QED BY <1>0, <2>1 DEF CreateFrames, CopyFrames, PlaceOK
<1>2. \A u \in Threads : u # t =>
        frame[u].pc \in {"idle", "killed", "clone_lock"} /\ frame[u].op \in {"none", "clone"}
  BY FillerAlone
<1>3. Types'
  BY <1>0 DEF Types
<1>4. Serial'
  <2> DEFINE g == frame'[t]
  <2>1. frame' = [frame EXCEPT ![t] = g] BY <1>0 DEF Types
  <2>2. g.op = "none" \/ g.op = frame[t].op OBVIOUS
  <2> HIDE DEF g
  <2> QED BY <1>0, <2>1, <2>2, StepSerial
<1>5. MutexHeld'
  BY <1>0, <1>2 DEF MutexHeld
<1>6. ASSUME NEW s \in Slots PROVE StorageOK(s)'
  <2>1. CASE s = slot
    BY <1>1, <2>1 DEF StorageOK, Pages
  <2>2. CASE s # slot
    <3>1. StorageOK(s) /\ tls_array'[s] = tls_array[s] BY <2>2 DEF TLSInv
    <3>2. ~(tls_exist_array[s] /\ Pages(s) = << >>)
      <4> SUFFICES ASSUME tls_exist_array[s], Pages(s) = << >> PROVE FALSE
        OBVIOUS
      <4>1. PICK u \in Threads : frame[u].pc \in {"create_fill", "clone_fill"} /\ frame[u].slot = s
        BY <3>1 DEF StorageOK
      <4> QED BY <1>2, <2>2, <4>1
    <3> QED BY <3>1, <3>2 DEF StorageOK, Pages
  <2> QED BY <2>1, <2>2
<1>7. ASSUME NEW u \in Threads PROVE PlaceOK(u)'
  <2>1. CASE u = t
    <3>1. frame'[t].pc = "clone_unlock" => Mine(t)'
      BY DEF Mine, Pages
    <3>2. frame'[t].op \in {"none", "create", "clone"} BY <1>1
    <3> QED BY <2>1, <3>1, <3>2 DEF PlaceOK
  <2>2. CASE u # t
    <3>1. frame'[u].pc \in {"idle", "killed", "clone_lock"} /\ frame'[u].op \in {"none", "clone"}
      BY <1>2, <2>2
    <3> QED BY <3>1 DEF PlaceOK
  <2> QED BY <2>1, <2>2
<1>8. ASSUME NEW p \in PageIds
      PROVE  /\ Holders(p)' = IF \E i \in 1 .. Len(new) : new[i] = p
                              THEN Holders(p) \cup {slot} ELSE Holders(p)
             /\ slot \notin Holders(p)
  <2>1. ~Pending(p) /\ ~Pending(p)'
    BY <1>2 DEF Pending
  <2>2. \A u \in Threads : frame[u].op # "destroy" /\ frame'[u].op # "destroy"
    BY <1>1, <1>2
  <2>3. ASSUME NEW s \in Slots, s # slot PROVE Holds(s, p)' <=> Holds(s, p)
    BY <2>2, <2>3 DEF Holds, Pages
  <2>4. ASSUME NEW s \in Slots, s = slot
        PROVE  Holds(s, p)' <=> \E i \in 1 .. Len(new) : new[i] = p
    <3>1. tls_array'[s].page_ptr_array = new BY <2>4
    <3> QED BY <2>2, <3>1 DEF Holds, Pages
  <2>5. ~Holds(slot, p)
    BY <1>1 DEF Holds
  <2>6. Copy \notin Slots BY HoldersCount
  <2> HIDE DEF slot
  <2>7. CASE \E i \in 1 .. Len(new) : new[i] = p
    BY <1>1, <2>1, <2>3, <2>4, <2>5, <2>6, <2>7 DEF Holders
  <2>8. CASE ~\E i \in 1 .. Len(new) : new[i] = p
    BY <1>1, <2>1, <2>3, <2>4, <2>5, <2>6, <2>8 DEF Holders
  <2> QED BY <2>5, <2>6, <2>7, <2>8, <1>1 DEF Holders
<1>9. Counted'
  <2> SUFFICES ASSUME NEW p \in PageIds PROVE page'[p].reference_count = Cardinality(Holders(p)')
    BY DEF Counted
  <2> DEFINE H == Holders(p)
  <2>1. page[p].reference_count = Cardinality(H) /\ IsFiniteSet(H) /\ slot \notin H
    BY <1>0, <1>8, HoldersCount DEF Counted
  <2>2. Holders(p)' = IF \E i \in 1 .. Len(new) : new[i] = p THEN H \cup {slot} ELSE H
    BY <1>8
  <2> HIDE DEF H, slot
  <2>3. Cardinality(H \cup {slot}) = Cardinality(H) + 1
    BY <2>1, OneMore
  <2> QED BY <2>1, <2>2, <2>3
<1>10. Sealed' /\ \A u \in Threads : AccessOK(u)'
  <2>1. AccessOK(t)' BY DEF AccessOK
  <2>2. frame[t].op \notin {"read", "write"} BY <1>1
  <2>3. \A u \in Threads : u # t => frame[u].op \notin {"read", "write"} BY <1>2
  <2> QED BY <2>1, <2>2, <2>3, BystanderStep
<1>11. EndsQuiescent'
  BY DEF EndsQuiescent
<1> QED BY <1>3, <1>4, <1>5, <1>6, <1>7, <1>9, <1>10, <1>11 DEF TLSInv

\* A page that mmap gives out, with its first user.
LEMMA MappedPage ==
  ASSUME NEW D, NEW u \in [reference_count : Nat, data : D, prot : {"unmapped"}],
         NEW one \in Nat \ {0}, NEW prot \in {"NONE", "READ", "WRITE"}
  PROVE  [u EXCEPT !.reference_count = one, !.prot = prot]
           \in [reference_count : Nat \ {0}, data : D, prot : {"NONE", "READ", "WRITE"}]
OBVIOUS

\* tls_create fills its storage with fresh pages.
LEMMA CreateFillKeeps ==
  ASSUME TLSInv, NEW t \in Threads, CreateFill(t)
  PROVE  TLSInv'
<1> DEFINE n   == PagesFor(frame[t].length)
           new == FreshPages(frame[t].slot, 0, n)
           st  == [threadID |-> t, byte_count |-> frame[t].length, page_ptr_array |-> new]
           blank == [Unmapped EXCEPT !.reference_count = 1, !.prot = "NONE"]
<1>0. /\ frame[t].pc = "create_fill" /\ process = "running" /\ Types /\ Counted /\ Mappable(n)
      /\ tls_array' = [tls_array EXCEPT ![frame[t].slot] = st]
      /\ page' = [p \in PageIds |-> IF \E i \in 1 .. Len(new) : new[i] = p THEN blank ELSE page[p]]
      /\ frame' = [frame EXCEPT ![t] = Idle]
      /\ UNCHANGED <<tls_exist_array, mutex, process>>
  BY DEF CreateFill, At, Return, TLSInv
<1>1. frame[t] \in CreateFrames /\ frame[t].op = "create"
  BY <1>0, StepKinds, FrameKinds
<1>2. frame[t].slot \in Slots /\ frame[t].slot \in Nat /\ frame[t].length \in Nat
  <2>1. frame[t].slot \in Slots /\ frame[t].length \in Sizes BY <1>1 DEF CreateFrames
  <2>2. Slots \subseteq Nat BY MaxSlotsAssumption DEF Slots
  <2> QED BY <2>1, <2>2, SizesAssumption
<1>3. n \in Nat \ {0}
  <2>1. frame[t].length \div PageSize \in Nat BY <1>2, PageSizeAssumption, Division
  <2> QED BY <2>1 DEF PagesFor
<1>4. /\ new \in [1 .. n -> PageIds \ Mapped]
      /\ \A j, k \in 1 .. n : new[j] = new[k] => j = k
  <2> HIDE DEF n
  <2> QED BY <1>0, <1>2, <1>3, NewPages
<1> HIDE DEF new
<1>5. new \in Seq(PageIds) /\ Len(new) = n /\ new # << >>
  BY <1>3, <1>4
<1>6. /\ blank \in Page /\ blank.reference_count = 1 /\ blank.prot = "NONE"
  <2> DEFINE zeros == [i \in 0 .. PageSize - 1 |-> 0]
  <2>1. zeros \in [0 .. PageSize - 1 -> Values] BY ValuesAssumption
  <2>2. Unmapped = [reference_count |-> 0, data |-> zeros, prot |-> "unmapped"] BY DEF Unmapped
  <2> HIDE DEF zeros
  <2>3. Unmapped \in [reference_count : Nat, data : [0 .. PageSize - 1 -> Values],
                      prot : {"unmapped"}]
    BY <2>1, <2>2
  <2>4. blank \in [reference_count : Nat \ {0}, data : [0 .. PageSize - 1 -> Values],
                   prot : {"NONE", "READ", "WRITE"}]
    <3> DEFINE D == [0 .. PageSize - 1 -> Values]
               one == 1
               u == Unmapped
    <3>1. one \in Nat \ {0} /\ "NONE" \in {"NONE", "READ", "WRITE"} OBVIOUS
    <3>2. u \in [reference_count : Nat, data : D, prot : {"unmapped"}] BY <2>3
    <3>3. blank = [u EXCEPT !.reference_count = one, !.prot = "NONE"] OBVIOUS
    <3> HIDE DEF D, one, u, blank
    <3>4. blank \in [reference_count : Nat \ {0}, data : D, prot : {"NONE", "READ", "WRITE"}]
      BY <3>1, <3>2, <3>3, MappedPage
    <3> QED BY <3>4 DEF D
  <2>5. blank.reference_count = 1 /\ blank.prot = "NONE" BY <2>3
  <2> HIDE DEF blank
  <2> QED BY <2>4, <2>5 DEF Page
<1>7. /\ st \in Storage /\ st.threadID = t /\ st.page_ptr_array = new
      /\ st.byte_count = frame[t].length
  BY <1>2, <1>5 DEF Storage
<1>8. Len(new) = PagesFor(st.byte_count)
  BY <1>5, <1>7
<1> HIDE DEF st, blank, n
<1>9. /\ tls_array' \in [Slots -> Storage] /\ tls_array'[frame[t].slot] = st
      /\ \A s \in Slots : s # frame[t].slot => tls_array'[s] = tls_array[s]
  BY <1>0, <1>2, <1>7 DEF Types
<1>10. page' \in [PageIds -> Page]
  BY <1>0, <1>6 DEF Types
<1>11. ASSUME NEW p \in PageIds
       PROVE  /\ page'[p].reference_count = IF \E i \in 1 .. Len(new) : new[i] = p
                                            THEN page[p].reference_count + 1
                                            ELSE page[p].reference_count
              /\ page'[p].prot \in {"READ", "WRITE"} => page'[p].prot = page[p].prot
  <2>1. CASE \E i \in 1 .. Len(new) : new[i] = p
    <3>1. p \notin Mapped BY <1>4, <1>5, <2>1
    <3>2. page[p].reference_count = 0 BY <1>0, <3>1, HeldMapped
    <3>3. page'[p] = blank BY <1>0, <2>1
    <3> QED BY <1>6, <2>1, <3>2, <3>3
  <2>2. CASE ~\E i \in 1 .. Len(new) : new[i] = p
    <3>1. page'[p] = page[p] BY <1>0, <2>2
    <3> QED BY <2>2, <3>1
  <2> QED BY <2>1, <2>2
<1>12. Idle \in Frames /\ Idle.op = "none" /\ Idle.pc = "idle"
  BY KindsAreFrames DEF IdleFrames, Idle
<1>13. /\ frame' \in [Threads -> Frames] /\ frame'[t] = Idle
       /\ \A u \in Threads : u # t => frame'[u] = frame[u]
  BY <1>0, <1>12 DEF Types
<1>14. \A i, j \in 1 .. Len(new) : new[i] = new[j] => i = j
  BY <1>4, <1>5
<1>15. /\ \A p \in PageIds :
            page'[p].reference_count = IF \E i \in 1 .. Len(new) : new[i] = p
                                       THEN page[p].reference_count + 1
                                       ELSE page[p].reference_count
       /\ \A p \in PageIds : page'[p].prot \in {"READ", "WRITE"} => page'[p].prot = page[p].prot
  BY <1>11
<1> QED BY SMTT(30), <1>0, <1>5, <1>7, <1>8, <1>9, <1>10, <1>12, <1>13, <1>14, <1>15, FillKeeps

\* tls_clone fills its storage with the pages of the target.
LEMMA CloneFillKeeps ==
  ASSUME TLSInv, NEW t \in Threads, CloneFill(t)
  PROVE  TLSInv'
<1> DEFINE target == frame[t].target
           new == Pages(target)
           st  == [tls_array[target] EXCEPT !.threadID = t]
           g   == [frame[t] EXCEPT !.pc = "clone_unlock"]
<1>0. /\ frame[t].pc = "clone_fill" /\ process = "running" /\ Types /\ Counted /\ PlaceOK(t)
      /\ tls_array' = [tls_array EXCEPT ![frame[t].slot] = st]
      /\ page' = [p \in PageIds |-> IF \E i \in 1 .. Len(new) : new[i] = p
                                    THEN [page[p] EXCEPT !.reference_count = @ + 1] ELSE page[p]]
      /\ frame' = [frame EXCEPT ![t] = g]
      /\ UNCHANGED <<tls_exist_array, mutex, process>>
  BY DEF CloneFill, At, Goto, TLSInv, Share, Pages
<1>1. frame[t] \in CopyFrames /\ frame[t].op = "clone"
  BY <1>0, StepKinds
<1>2. frame[t].slot \in Slots /\ target \in Slots
  BY <1>1 DEF CopyFrames
<1>3. /\ g \in Frames /\ g.pc = "clone_unlock" /\ g.op = "clone" /\ g.slot = frame[t].slot
  BY <1>1, KindsAreFrames DEF CopyFrames
<1>4. /\ new # << >> /\ Len(new) = PagesFor(tls_array[target].byte_count)
      /\ \A i, j \in 1 .. Len(new) : new[i] = new[j] => i = j
  <2>1. new # << >> BY <1>0 DEF PlaceOK
  <2>2. StorageOK(target) BY <1>2 DEF TLSInv
  <2> QED BY <2>1, <2>2 DEF StorageOK
<1>5. tls_array[target] \in Storage /\ new = tls_array[target].page_ptr_array
      /\ new \in Seq(PageIds)
  BY <1>0, <1>2 DEF Types, Storage, Pages
<1>6. /\ st \in Storage /\ st.threadID = t /\ st.page_ptr_array = new
      /\ st.byte_count = tls_array[target].byte_count
  BY <1>5 DEF Storage
<1>7. \A s \in Slots : Pages(s) \in Seq(PageIds)
  BY <1>0 DEF Types, Storage, Pages
<1>8. ASSUME NEW p \in PageIds, \E i \in 1 .. Len(new) : new[i] = p PROVE p \in Mapped
  <2>1. \A u \in Threads : frame[u].op # "destroy"
    BY <1>0, <1>1, FillerAlone
  <2>2. Holds(target, p) BY <1>8, <2>1 DEF Holds
  <2>3. Holders(p) # {} BY <1>2, <2>2, HoldersCount DEF Holders
  <2> QED BY <1>0, <2>3, HeldMapped
<1> HIDE DEF st, g, new, target
<1>9. /\ tls_array' \in [Slots -> Storage] /\ tls_array'[frame[t].slot] = st
      /\ \A s \in Slots : s # frame[t].slot => tls_array'[s] = tls_array[s]
  BY <1>0, <1>2, <1>6 DEF Types
<1>10. ASSUME NEW p \in PageIds
       PROVE  /\ page'[p] \in Page
              /\ page'[p].reference_count = IF \E i \in 1 .. Len(new) : new[i] = p
                                            THEN page[p].reference_count + 1
                                            ELSE page[p].reference_count
              /\ page'[p].prot = page[p].prot
  <2>0. page[p] \in Page BY <1>0 DEF Types
  <2>1. CASE \E i \in 1 .. Len(new) : new[i] = p
    <3>1. page'[p] = [page[p] EXCEPT !.reference_count = @ + 1] BY <1>0, <2>1
    <3>2. p \in Mapped BY <1>8, <2>1
    <3>3. page[p] \in [reference_count : Nat \ {0}, data : [0 .. PageSize - 1 -> Values],
                       prot : {"NONE", "READ", "WRITE"}]
      BY <2>0, <3>2 DEF Page, Mapped, Unmapped
    <3> QED BY <2>1, <3>1, <3>3 DEF Page
  <2>2. CASE ~\E i \in 1 .. Len(new) : new[i] = p
    <3>1. page'[p] = page[p] BY <1>0, <2>2
    <3> QED BY <2>0, <2>2, <3>1
  <2> QED BY <2>1, <2>2
<1>11. page' \in [PageIds -> Page]
  BY <1>0, <1>10
<1>12. /\ frame' \in [Threads -> Frames] /\ frame'[t] = g
       /\ \A u \in Threads : u # t => frame'[u] = frame[u]
  BY <1>0, <1>3 DEF Types
<1>13. /\ \A p \in PageIds :
            page'[p].reference_count = IF \E i \in 1 .. Len(new) : new[i] = p
                                       THEN page[p].reference_count + 1
                                       ELSE page[p].reference_count
       /\ \A p \in PageIds : page'[p].prot \in {"READ", "WRITE"} => page'[p].prot = page[p].prot
  BY <1>10
<1>14. Len(new) = PagesFor(st.byte_count)
  BY <1>4, <1>6
<1> QED BY <1>0, <1>1, <1>3, <1>4, <1>6, <1>9, <1>11, <1>12, <1>13, <1>14, FillKeeps

-----------------------------------------------------------------------------
(* Steps of tls_destroy.                                                    *)

\* What is known of a thread that destroys its storage.
LEMMA DestroyFrame ==
  ASSUME TLSInv, NEW t \in Threads, frame[t].op = "destroy"
  PROVE  /\ frame[t] \in DestroyFrames /\ frame[t].slot \in Slots /\ frame[t].at \in Nat
         /\ Types /\ Counted /\ PlaceOK(t)
         /\ Pages(frame[t].slot) \in Seq(PageIds)
         /\ \A u \in Threads : u # t =>
              /\ frame[u].op \in {"none", "read"}
              /\ frame[u].pc \in {"idle", "killed", "read_open", "read_copy", "read_close",
                                  "read_return"}
              /\ frame[u].op = "read" => frame[u].slot # frame[t].slot /\ frame[u].slot \in Slots
<1>1. Types /\ Serial /\ Counted /\ PlaceOK(t)
  BY DEF TLSInv
<1>2. frame[t] \in DestroyFrames /\ frame[t].slot \in Slots /\ frame[t].at \in Nat
  BY <1>1, FrameKinds DEF DestroyFrames
<1>3. ASSUME NEW u \in Threads, u # t
      PROVE  /\ frame[u].op \in {"none", "read"}
             /\ frame[u].pc \in {"idle", "killed", "read_open", "read_copy", "read_close",
                                 "read_return"}
             /\ frame[u].op = "read" => frame[u].slot # frame[t].slot /\ frame[u].slot \in Slots
  <2>1. frame[u].op \in {"none", "read"} BY <1>1, <1>3, Company
  <2>2. PlaceOK(u) BY DEF TLSInv
  <2>3. frame[u].op = "read" => frame[u].slot # frame[t].slot
    BY <1>1, <1>3, <2>2 DEF PlaceOK, Mine
  <2>4. frame[u].op = "read" => frame[u].slot \in Slots
    BY <1>1, FrameKinds DEF ReadFrames
  <2> QED BY <1>1, <2>1, <2>3, <2>4, StepKinds
<1>4. Pages(frame[t].slot) \in Seq(PageIds)
  BY <1>1, <1>2 DEF Types, Storage, Pages
<1> QED BY <1>1, <1>2, <1>3, <1>4

\* A page that two hold counts more than one.
LEMMA TwoHolders ==
  ASSUME Counted, NEW p \in PageIds, NEW a \in Holders(p), NEW b \in Holders(p), a # b
  PROVE  page[p].reference_count > 1
<1> DEFINE H == Holders(p)
<1>1. IsFiniteSet(H) /\ page[p].reference_count = Cardinality(H)
  BY HoldersCount DEF Counted
<1> HIDE DEF H
<1>2. a \in H /\ b \in H
  BY DEF H
<1>3. Cardinality(H \ {a}) = Cardinality(H) - 1 /\ IsFiniteSet(H \ {a})
  BY <1>1, <1>2, OneLess, FS_RemoveElement
<1>4. Cardinality(H \ {a}) # 0
  BY <1>2, <1>3, FS_EmptySet
<1>5. Cardinality(H) \in Nat /\ Cardinality(H \ {a}) \in Nat
  BY <1>1, <1>3, FS_CardinalityType
<1> QED BY <1>1, <1>3, <1>4, <1>5

\* A page that loses one of its users stays as it is but for the count, or is unmapped
\* with the last of them.
LEMMA ReleasedPage ==
  ASSUME Types, Counted, NEW p \in Mapped, page' = Release(p)
  PROVE  /\ page' \in [PageIds -> Page]
         /\ page'[p].reference_count = page[p].reference_count - 1
         /\ page[p].reference_count > 1 =>
              page'[p].prot = page[p].prot /\ page'[p].data = page[p].data
         /\ page'[p].prot \in {page[p].prot, "unmapped"}
         /\ \A q \in PageIds : q # p => page'[q] = page[q]
<1>1. p \in PageIds /\ page \in [PageIds -> Page] /\ page[p] # Unmapped
  BY DEF Mapped, Types, Unmapped
<1>2. page[p] \in [reference_count : Nat \ {0}, data : [0 .. PageSize - 1 -> Values],
                   prot : {"NONE", "READ", "WRITE"}]
  BY <1>1 DEF Page
<1>3. CASE page[p].reference_count <= 1
  <2>1. page' = [page EXCEPT ![p] = Unmapped] BY <1>3 DEF Release
  <2>2. Unmapped \in Page /\ Unmapped.reference_count = 0 /\ Unmapped.prot = "unmapped"
    BY DEF Page, Unmapped
  <2>3. page[p].reference_count = 1 BY <1>2, <1>3
  <2> QED BY <1>1, <1>2, <1>3, <2>1, <2>2, <2>3
<1>4. CASE page[p].reference_count > 1
  <2> DEFINE less == page[p].reference_count - 1
             new == [page[p] EXCEPT !.reference_count = less]
  <2>1. page' = [page EXCEPT ![p] = new] BY <1>1, <1>2, <1>4 DEF Release
  <2>2. less \in Nat \ {0} BY <1>2, <1>4
  <2>3. less = page[p].reference_count - 1 OBVIOUS
  <2> HIDE DEF less
  <2>4. new \in Page /\ new.reference_count = less /\ new.data = page[p].data
        /\ new.prot = page[p].prot
    BY <1>2, <2>2 DEF Page
  <2> HIDE DEF new
  <2> QED BY <1>1, <2>1, <2>3, <2>4
<1> QED BY <1>2, <1>3, <1>4

\* A thread that destroys its storage lets go of one page.
LEMMA DestroyPageKeeps ==
  ASSUME TLSInv, NEW t \in Threads, DestroyPage(t)
  PROVE  TLSInv'
<1> DEFINE slot == frame[t].slot
           at   == frame[t].at
           p    == Pages(slot)[at + 1]
           next == at + 1
           g    == [frame[t] EXCEPT !.at = next,
                      !.pc = IF next < Len(Pages(slot)) THEN "destroy_page" ELSE "destroy_release"]
<1>0. /\ frame[t].pc = "destroy_page" /\ process = "running" /\ Types /\ Serial /\ MutexHeld
      /\ page' = Release(p)
      /\ frame' = [frame EXCEPT ![t] = g]
      /\ UNCHANGED <<tls_exist_array, tls_array, mutex, process>>
  <2>1. frame' = [frame EXCEPT ![t].at = @ + 1,
                               ![t].pc = IF frame[t].at + 1 < PageCount(frame[t].slot)
                                         THEN "destroy_page" ELSE "destroy_release"]
    BY DEF DestroyPage
  <2>2. frame' = [frame EXCEPT ![t] = g]
    BY <2>1 DEF PageCount, Pages, TLSInv, Types
  <2> QED BY <2>2 DEF DestroyPage, At, TLSInv, PageOf, Pages
<1>1. frame[t].op = "destroy"
  BY <1>0, StepKinds
<1>2. /\ frame[t] \in DestroyFrames /\ slot \in Slots /\ at \in Nat /\ Counted /\ PlaceOK(t)
      /\ Pages(slot) \in Seq(PageIds)
      /\ \A u \in Threads : u # t =>
           /\ frame[u].op \in {"none", "read"}
           /\ frame[u].pc \in {"idle", "killed", "read_open", "read_copy", "read_close",
                               "read_return"}
           /\ frame[u].op = "read" => frame[u].slot # slot /\ frame[u].slot \in Slots
  BY <1>1, DestroyFrame
<1>3. at < Len(Pages(slot)) /\ Len(Pages(slot)) \in Nat /\ at + 1 \in 1 .. Len(Pages(slot))
      /\ p \in PageIds
  <2>1. at < Len(Pages(slot)) BY <1>0, <1>2 DEF PlaceOK
  <2> QED BY <1>2, <2>1
<1>4. /\ next \in Nat /\ next = at + 1
  BY <1>2
<1> HIDE DEF next
<1>5. /\ g \in DestroyFrames /\ g.op = "destroy" /\ g.slot = slot /\ g.at = next
      /\ g.pc = IF next < Len(Pages(slot)) THEN "destroy_page" ELSE "destroy_release"
  BY <1>2, <1>4 DEF DestroyFrames
<1> HIDE DEF g
<1>6. /\ g \in Frames /\ frame' \in [Threads -> Frames] /\ frame'[t] = g
      /\ \A u \in Threads : u # t => frame'[u] = frame[u]
  BY <1>0, <1>5, KindsAreFrames DEF Types
<1>7. \A i, j \in 1 .. Len(Pages(slot)) : Pages(slot)[i] = Pages(slot)[j] => i = j
  <2>1. StorageOK(slot) BY <1>2 DEF TLSInv
  <2> QED BY <2>1 DEF StorageOK
<1>8. ASSUME NEW s \in Slots, NEW q
      PROVE  /\ s # slot => (Holds(s, q)' <=> Holds(s, q))
             /\ s = slot => (Holds(s, q) <=> \E i \in 1 .. Len(Pages(s)) : Pages(s)[i] = q /\ at < i)
             /\ s = slot => (Holds(s, q)' <=> \E i \in 1 .. Len(Pages(s)) : Pages(s)[i] = q /\ next < i)
  <2>0. \A u \in Threads : u # t => frame[u].op # "destroy" /\ frame'[u].op # "destroy"
    BY <1>2, <1>6
  <2>1. s # slot => (Holds(s, q)' <=> Holds(s, q))
    BY <1>0, <1>1, <1>5, <1>6, <2>0 DEF Holds, Pages
  <2>2. s = slot => (Holds(s, q) <=> \E i \in 1 .. Len(Pages(s)) : Pages(s)[i] = q /\ at < i)
    BY <1>1, <2>0 DEF Holds
  <2>3. s = slot => (Holds(s, q)' <=> \E i \in 1 .. Len(Pages(s)) : Pages(s)[i] = q /\ next < i)
    <3>1. \A i : (\A u \in Threads : frame'[u].op = "destroy" /\ frame'[u].slot = slot => frame'[u].at < i)
                 <=> next < i
      BY <1>5, <1>6, <2>0
    <3> QED BY <1>0, <3>1 DEF Holds, Pages
  <2> QED BY <2>1, <2>2, <2>3
<1>9. \A q : ~Pending(q) /\ ~Pending(q)'
  <2>1. \A u \in Threads : frame[u].pc # "write_swap" /\ frame'[u].pc # "write_swap"
    BY <1>0, <1>2, <1>5, <1>6
  <2> QED BY <2>1 DEF Pending
<1>10. Copy \notin Slots BY HoldersCount
<1>11. ASSUME NEW q \in PageIds
       PROVE  /\ Holders(q)' = (IF q = p THEN Holders(q) \ {slot} ELSE Holders(q))
              /\ q = p => slot \in Holders(q)
  <2>1. CASE q = p
    <3>1. ASSUME NEW s \in Slots, s = slot PROVE Holds(s, q) /\ ~Holds(s, q)'
      <4>1. Holds(s, q)
        <5>1. Pages(slot)[at + 1] = q /\ at < at + 1 /\ at + 1 \in 1 .. Len(Pages(slot))
          BY <1>2, <1>3, <2>1
        <5>2. \E i \in 1 .. Len(Pages(slot)) : Pages(slot)[i] = q /\ at < i BY <5>1
        <5> HIDE DEF slot, at, p
        <5> QED BY <1>8, <3>1, <5>2
      <4>2. ~Holds(s, q)'
        <5> SUFFICES ASSUME NEW i \in 1 .. Len(Pages(slot)), Pages(slot)[i] = p, next < i
                     PROVE  FALSE
          BY <1>8, <2>1, <3>1
        <5>1. i = at + 1 BY <1>3, <1>7
        <5> QED BY <1>2, <1>4, <5>1
      <4> QED BY <4>1, <4>2
    <3> HIDE DEF slot, p
    <3> QED BY <1>2, <1>8, <1>9, <1>10, <2>1, <3>1 DEF Holders
  <2>2. CASE q # p
    <3>1. ASSUME NEW s \in Slots, s = slot PROVE Holds(s, q)' <=> Holds(s, q)
      <4>1. \A i \in 1 .. Len(Pages(slot)) : Pages(slot)[i] = q => (next < i <=> at < i)
        BY <1>2, <1>3, <1>4, <2>2
      <4> QED BY <1>8, <3>1, <4>1
    <3> HIDE DEF slot, p
    <3> QED BY <1>2, <1>8, <1>9, <1>10, <2>2, <3>1 DEF Holders
  <2> QED BY <2>1, <2>2
<1>12. p \in Mapped
  BY <1>0, <1>2, <1>3, <1>11, HeldMapped
<1> HIDE DEF p
<1>13. /\ page' \in [PageIds -> Page]
       /\ page'[p].reference_count = page[p].reference_count - 1
       /\ page[p].reference_count > 1 => page'[p].prot = page[p].prot
       /\ page'[p].prot \in {page[p].prot, "unmapped"}
       /\ \A q \in PageIds : q # p => page'[q] = page[q]
  BY <1>0, <1>2, <1>12, ReleasedPage
<1>14. Types'
  BY <1>0, <1>6, <1>13 DEF Types
<1>15. Serial'
  BY <1>0, <1>1, <1>5, StepSerial
<1>16. MutexHeld'
  BY <1>0, <1>5, <1>6 DEF MutexHeld
<1>17. ASSUME NEW s \in Slots PROVE StorageOK(s)'
  <2>1. StorageOK(s) BY DEF TLSInv
  <2>2. \A u \in Threads : frame[u].pc \notin {"create_fill", "clone_fill"} BY <1>0, <1>2
  <2> QED BY <1>0, <2>1, <2>2 DEF StorageOK, Pages
<1>18. ASSUME NEW u \in Threads PROVE PlaceOK(u)'
  <2>1. CASE u = t
    <3>1. Mine(t) BY <1>1, <1>2 DEF PlaceOK
    <3>2. ~(next < Len(Pages(slot))) => next = Len(Pages(slot)) BY <1>2, <1>3, <1>4
    <3> QED BY <1>0, <1>5, <1>6, <2>1, <3>1, <3>2 DEF PlaceOK, Mine, Pages
  <2>2. CASE u # t
    <3>1. PlaceOK(u) BY DEF TLSInv
    <3>2. frame'[u] = frame[u] BY <1>6, <2>2
    <3> QED BY <1>0, <3>1, <3>2 DEF PlaceOK, Mine, Pages, End, FirstPage, LastRead, LastWhole
  <2> QED BY <2>1, <2>2
<1>19. Counted'
  <2> SUFFICES ASSUME NEW q \in PageIds PROVE page'[q].reference_count = Cardinality(Holders(q)')
    BY DEF Counted
  <2> DEFINE H == Holders(q)
  <2>1. page[q].reference_count = Cardinality(H) /\ IsFiniteSet(H) /\ (q = p => slot \in H)
    BY <1>2, <1>11, HoldersCount DEF Counted
  <2>2. Holders(q)' = IF q = p THEN H \ {slot} ELSE H
    BY <1>11
  <2> HIDE DEF H, slot
  <2>3. q = p => Cardinality(H \ {slot}) = Cardinality(H) - 1
    BY <2>1, OneLess
  <2> QED BY <1>13, <2>1, <2>2, <2>3
<1>20. Sealed' /\ \A u \in Threads : AccessOK(u)'
  <2>1. AccessOK(t)' BY <1>5, <1>6 DEF AccessOK
  <2>2. \A q \in PageIds : page'[q].prot \in {"READ", "WRITE"} => page'[q].prot = page[q].prot
    BY <1>13
  <2>3. ASSUME NEW u \in Threads, u # t, frame[u].op = "read", page[Here(u)].prot = "READ"
        PROVE  page'[Here(u)].prot = "READ"
    <3>1. Here(u) \in PageIds /\ Holds(frame[u].slot, Here(u)) BY <2>3, WorkPages
    <3>2. CASE Here(u) # p BY <1>13, <2>3, <3>1, <3>2
    <3>3. CASE Here(u) = p
      <4>1. frame[u].slot \in Holders(p) /\ slot \in Holders(p) /\ frame[u].slot # slot
        BY <1>2, <1>10, <1>11, <2>3, <3>1, <3>3 DEF Holders
      <4>2. page[p].reference_count > 1 BY <1>2, <1>3, <4>1, TwoHolders DEF p
      <4> QED BY <1>13, <2>3, <3>3, <4>2
    <3> QED BY <3>2, <3>3
  <2>4. frame[t].op \notin {"read", "write"} BY <1>1
  <2>5. \A u \in Threads : u # t => frame[u].op # "write" BY <1>2
  <2> QED BY <1>0, <1>6, <2>1, <2>2, <2>3, <2>4, <2>5, BystanderStep
<1>21. EndsQuiescent'
  BY <1>0 DEF EndsQuiescent
<1> QED BY <1>14, <1>15, <1>16, <1>17, <1>18, <1>19, <1>20, <1>21 DEF TLSInv

\* A thread that has let go of all pages gives its slot back.
LEMMA DestroyReleaseKeeps ==
  ASSUME TLSInv, NEW t \in Threads, DestroyRelease(t)
  PROVE  TLSInv'
<1> DEFINE slot == frame[t].slot
           st == [tls_array[slot] EXCEPT !.byte_count = 0, !.page_ptr_array = << >>]
<1>0. /\ frame[t].pc = "destroy_release" /\ process = "running" /\ Types /\ Serial /\ MutexHeld
      /\ tls_exist_array' = [tls_exist_array EXCEPT ![slot] = FALSE]
      /\ tls_array' = [tls_array EXCEPT ![slot].byte_count = 0,
                                        ![slot].page_ptr_array = << >>]
      /\ frame' = [frame EXCEPT ![t] = Idle]
      /\ UNCHANGED <<page, mutex, process>>
  BY DEF DestroyRelease, At, Return, TLSInv
<1>1. frame[t].op = "destroy"
  BY <1>0, StepKinds
<1>2. /\ slot \in Slots /\ frame[t].at \in Nat /\ Counted /\ PlaceOK(t)
      /\ Pages(slot) \in Seq(PageIds)
      /\ \A u \in Threads : u # t =>
           /\ frame[u].op \in {"none", "read"}
           /\ frame[u].pc \in {"idle", "killed", "read_open", "read_copy", "read_close",
                               "read_return"}
           /\ frame[u].op = "read" => frame[u].slot # slot /\ frame[u].slot \in Slots
  BY <1>1, DestroyFrame
<1>3. frame[t].at = Len(Pages(slot))
  BY <1>0, <1>2 DEF PlaceOK
<1>4. tls_array[slot] \in Storage
  BY <1>0, <1>2 DEF Types
<1>5. st \in Storage /\ st.page_ptr_array = << >>
  <2>1. << >> \in Seq(PageIds) OBVIOUS
  <2> DEFINE none == << >>
  <2>2. none \in Seq(PageIds) /\ none = << >> OBVIOUS
  <2> HIDE DEF none
  <2>3. [tls_array[slot] EXCEPT !.byte_count = 0, !.page_ptr_array = none] \in Storage
        /\ [tls_array[slot] EXCEPT !.byte_count = 0, !.page_ptr_array = none].page_ptr_array = none
    BY <1>4, <2>2 DEF Storage
  <2> QED BY <2>2, <2>3
<1>6. tls_array' = [tls_array EXCEPT ![slot] = st]
  BY <1>0, <1>2 DEF Types
<1> HIDE DEF st
<1>7. /\ tls_array' \in [Slots -> Storage]
      /\ \A s \in Slots : s = slot => tls_array'[s].page_ptr_array = << >>
      /\ \A s \in Slots : s # slot => tls_array'[s] = tls_array[s]
      /\ tls_exist_array' \in [Slots -> BOOLEAN]
      /\ \A s \in Slots : s = slot => ~tls_exist_array'[s]
      /\ \A s \in Slots : s # slot => tls_exist_array'[s] = tls_exist_array[s]
  BY <1>0, <1>2, <1>5, <1>6 DEF Types
<1>8. Idle \in Frames /\ Idle.op = "none" /\ Idle.pc = "idle"
  BY KindsAreFrames DEF IdleFrames, Idle
<1>9. /\ frame' \in [Threads -> Frames] /\ frame'[t] = Idle
      /\ \A u \in Threads : u # t => frame'[u] = frame[u]
  BY <1>0, <1>8 DEF Types
<1>10. Types'
  BY <1>0, <1>7, <1>9 DEF Types
<1>11. Serial'
  BY <1>0, <1>1, <1>8, StepSerial
<1>12. MutexHeld'
  BY <1>0, <1>8, <1>9 DEF MutexHeld
<1>13. ASSUME NEW s \in Slots PROVE StorageOK(s)'
  <2>1. CASE s = slot BY <1>7, <2>1 DEF StorageOK, Pages
  <2>2. CASE s # slot
    <3>1. StorageOK(s) BY DEF TLSInv
    <3>2. \A u \in Threads : frame[u].pc \notin {"create_fill", "clone_fill"} BY <1>0, <1>2
    <3> QED BY <1>7, <2>2, <3>1, <3>2 DEF StorageOK, Pages
  <2> QED BY <2>1, <2>2
<1>14. ASSUME NEW u \in Threads PROVE PlaceOK(u)'
  <2>1. CASE u = t BY <1>8, <1>9, <2>1 DEF PlaceOK
  <2>2. CASE u # t /\ frame[u].op # "read"
    <3>1. frame'[u].op = "none" /\ frame'[u].pc \in {"idle", "killed"}
      BY <1>0, <1>2, <1>9, <2>2, StepKinds
    <3> QED BY <3>1 DEF PlaceOK
  <2>3. CASE u # t /\ frame[u].op = "read"
    <3>1. PlaceOK(u) BY DEF TLSInv
    <3>2. frame'[u] = frame[u] BY <1>9, <2>3
    <3>3. tls_array'[frame[u].slot] = tls_array[frame[u].slot] BY <1>2, <1>7, <2>3
    <3>4. frame[u].pc \in {"read_open", "read_copy", "read_close", "read_return"}
      BY <1>0, <2>3, StepKinds
    <3> QED BY <2>3, <3>1, <3>2, <3>3, <3>4
          DEF PlaceOK, Mine, Pages, End, FirstPage, LastRead, LastWhole
  <2> QED BY <2>1, <2>2, <2>3
<1>15. ASSUME NEW p \in PageIds PROVE Holders(p)' = Holders(p)
  <2>1. ~Pending(p) /\ ~Pending(p)'
    <3>1. \A u \in Threads : frame[u].pc # "write_swap" /\ frame'[u].pc # "write_swap"
      BY <1>0, <1>2, <1>8, <1>9
    <3> QED BY <3>1 DEF Pending
  <2>2. ASSUME NEW s \in Slots, s = slot PROVE ~Holds(s, p) /\ ~Holds(s, p)'
    <3>1. ~Holds(s, p) BY <1>1, <1>2, <1>3, <2>2 DEF Holds
    <3>2. ~Holds(s, p)' BY <1>7, <2>2 DEF Holds, Pages
    <3> QED BY <3>1, <3>2
  <2>3. ASSUME NEW s \in Slots, s # slot PROVE Holds(s, p)' <=> Holds(s, p)
    <3>1. /\ \A u \in Threads : ~(frame[u].op = "destroy" /\ frame[u].slot = s)
          /\ \A u \in Threads : ~(frame'[u].op = "destroy" /\ frame'[u].slot = s)
      BY <1>2, <1>8, <1>9, <2>3
    <3>2. Pages(s)' = Pages(s) BY <1>7, <2>3 DEF Pages
    <3> QED BY <3>1, <3>2 DEF Holds
  <2> HIDE DEF slot
  <2> QED BY <2>1, <2>2, <2>3 DEF Holders
<1>16. Counted'
  BY <1>0, <1>2, <1>15 DEF Counted
<1>17. Sealed' /\ \A u \in Threads : AccessOK(u)'
  <2>1. AccessOK(t)' BY <1>8, <1>9 DEF AccessOK
  <2>2. \A u \in Threads : u # t /\ frame[u].op = "read" =>
          tls_array'[frame[u].slot] = tls_array[frame[u].slot]
    BY <1>2, <1>7
  <2>3. frame[t].op \notin {"read", "write"} BY <1>1
  <2>4. \A u \in Threads : u # t => frame[u].op # "write" BY <1>2
  <2> QED BY <1>0, <1>9, <2>1, <2>2, <2>3, <2>4, BystanderStep
<1>18. EndsQuiescent'
  BY <1>0 DEF EndsQuiescent
<1> QED BY <1>10, <1>11, <1>12, <1>13, <1>14, <1>16, <1>17, <1>18 DEF TLSInv

-----------------------------------------------------------------------------
(* The copy a write makes of a shared page.                                 *)

\* Nobody else is in a call while a thread writes.
LEMMA WriterAlone ==
  ASSUME TLSInv, NEW t \in Threads, frame[t].op = "write"
  PROVE  \A u \in Threads : u # t =>
           frame[u].op = "none" /\ frame[u].pc \in {"idle", "killed"} /\ PlaceOK(u)
<1>1. Types /\ Serial /\ \A u \in Threads : PlaceOK(u)
  BY DEF TLSInv
<1> QED BY <1>1, Company, StepKinds

\* The page of a write is copied to a fresh one, which nobody holds.
LEMMA WriteCopyKeeps ==
  ASSUME TLSInv, NEW t \in Threads, WriteCopy(t)
  PROVE  TLSInv'
<1> DEFINE slot == frame[t].slot
           i == frame[t].at \div PageSize
           q == FreshPages(slot, i, 1)[1]
           old == Target(t)
           blank == [Unmapped EXCEPT !.reference_count = 1, !.prot = "WRITE"]
           new == [blank EXCEPT !.data = page[old].data]
           g == [frame[t] EXCEPT !.pc = "write_swap", !.fresh = q]
<1>0. /\ frame[t].pc = "write_copy" /\ process = "running" /\ Types /\ Serial /\ MutexHeld
      /\ UNCHANGED <<tls_exist_array, tls_array, mutex, process>> /\ Mappable(1)
  BY DEF WriteCopy, At, TLSInv
<1>1. frame[t].op = "write"
  BY <1>0, StepKinds
<1>2. /\ frame[t] \in WriteFrames /\ Counted /\ PlaceOK(t) /\ slot \in Slots /\ frame[t].at \in Nat
      /\ old \in Mapped /\ old \in PageIds
      /\ \A p \in PageIds : page[p].prot \in {"READ", "WRITE"} => Exposed(t, p)
  BY <1>1, WriteFrame
<1>3. /\ page' = [page EXCEPT ![q] = new, ![old].prot = "NONE"]
      /\ frame' = [frame EXCEPT ![t] = g]
  BY <1>0, <1>2 DEF WriteCopy, Types
<1>4. q \in PageIds \ Mapped
  <2>1. slot \in Nat /\ i \in Nat
    <3>1. Slots \subseteq Nat BY MaxSlotsAssumption DEF Slots
    <3>2. i \in Nat BY <1>2, PageSizeAssumption, Division
    <3> QED BY <1>2, <3>1, <3>2
  <2> DEFINE one == 1
  <2>2. one \in Nat /\ 1 \in 1 .. one /\ Mappable(one) BY <1>0
  <2> HIDE DEF slot, i, one
  <2>3. FreshPages(slot, i, one) \in [1 .. one -> PageIds \ Mapped] BY <2>1, <2>2, NewPages
  <2>4. FreshPages(slot, i, one)[1] \in PageIds \ Mapped BY <2>2, <2>3
  <2> QED BY <2>4 DEF one
<1>5. q # old
  BY <1>2, <1>4
<1>6. /\ page[old] \in [reference_count : Nat \ {0}, data : [0 .. PageSize - 1 -> Values],
                        prot : {"NONE", "READ", "WRITE"}]
  BY <1>0, <1>2 DEF Types, Page, Mapped, Unmapped
<1>7. /\ new \in Page /\ new.reference_count = 1 /\ new.prot = "WRITE"
  <2> DEFINE zeros == [k \in 0 .. PageSize - 1 |-> 0]
             D == [0 .. PageSize - 1 -> Values]
             one == 1
             u == Unmapped
             d == page[old].data
  <2>1. zeros \in D BY ValuesAssumption
  <2>2. u = [reference_count |-> 0, data |-> zeros, prot |-> "unmapped"] BY DEF Unmapped
  <2>3. d \in D BY <1>6
  <2>4. one \in Nat \ {0} /\ one = 1 /\ "WRITE" \in {"NONE", "READ", "WRITE"} OBVIOUS
  <2>5. blank = [u EXCEPT !.reference_count = one, !.prot = "WRITE"]
        /\ new = [blank EXCEPT !.data = d]
    OBVIOUS
  <2> HIDE DEF zeros, D, one, u, d, blank, new
  <2>6. u \in [reference_count : Nat, data : D, prot : {"unmapped"}] BY <2>1, <2>2
  <2>7. blank \in [reference_count : Nat \ {0}, data : D, prot : {"NONE", "READ", "WRITE"}]
    BY <2>4, <2>5, <2>6, MappedPage
  <2>8. blank.reference_count = one /\ blank.prot = "WRITE" BY <2>5, <2>6
  <2>9. /\ new \in [reference_count : Nat \ {0}, data : D, prot : {"NONE", "READ", "WRITE"}]
        /\ new.reference_count = one /\ new.prot = "WRITE"
    BY <2>3, <2>5, <2>7, <2>8
  <2> QED BY <2>4, <2>9 DEF Page, D
<1> DEFINE sealed == [page[old] EXCEPT !.prot = "NONE"]
<1>8. /\ sealed \in Page /\ sealed.reference_count = page[old].reference_count
      /\ sealed.prot = "NONE"
  BY <1>6 DEF Page
<1>9. page' = [page EXCEPT ![q] = new, ![old] = sealed]
  <2> HIDE DEF q, old, new
  <2> QED BY <1>0, <1>2, <1>3, <1>5 DEF Types
<1>10. /\ g \in WriteFrames /\ g.pc = "write_swap" /\ g.op = "write" /\ g.slot = slot
       /\ g.fresh = q /\ g.at = frame[t].at /\ g.offset = frame[t].offset
       /\ g.length = frame[t].length
  <2> HIDE DEF q
  <2> QED BY <1>2, <1>4 DEF WriteFrames
<1> HIDE DEF q, new, sealed, g
<1>11. /\ page' \in [PageIds -> Page]
       /\ page'[q] = new /\ page'[old] = sealed
       /\ \A p \in PageIds : p # q /\ p # old => page'[p] = page[p]
  BY <1>0, <1>2, <1>4, <1>5, <1>7, <1>8, <1>9 DEF Types
<1>12. /\ g \in Frames /\ frame' \in [Threads -> Frames] /\ frame'[t] = g
       /\ \A u \in Threads : u # t => frame'[u] = frame[u]
  BY <1>0, <1>3, <1>10, KindsAreFrames DEF Types
<1>13. Types'
  BY <1>0, <1>11, <1>12 DEF Types
<1>14. Serial'
  BY <1>0, <1>1, <1>3, <1>10, StepSerial
<1>15. MutexHeld'
  BY <1>0, <1>10, <1>12 DEF MutexHeld
<1>16. \A u \in Threads : u # t => frame[u].op = "none" /\ frame[u].pc \in {"idle", "killed"}
  BY <1>1, WriterAlone
<1>17. ASSUME NEW s \in Slots PROVE StorageOK(s)'
  <2>1. StorageOK(s) BY DEF TLSInv
  <2>2. \A u \in Threads : frame[u].pc \notin {"create_fill", "clone_fill"} BY <1>0, <1>16
  <2> QED BY <1>0, <2>1, <2>2 DEF StorageOK, Pages
<1>18. ASSUME NEW u \in Threads PROVE PlaceOK(u)'
  <2>1. CASE u = t
    <3>1. frame[t].offset <= g.at /\ g.at < End(g) /\ End(g) <= tls_array[slot].byte_count /\ Mine(t)
      <4>1. End(g) = End(frame[t]) BY <1>10 DEF End
      <4> QED BY <1>1, <1>2, <1>10, <4>1 DEF PlaceOK
    <3> QED BY <1>0, <1>10, <1>12, <2>1, <3>1 DEF PlaceOK, Mine, Pages, End
  <2>2. CASE u # t
    <3>1. frame'[u].op = "none" /\ frame'[u].pc \in {"idle", "killed"} BY <1>12, <1>16, <2>2
    <3> QED BY <3>1 DEF PlaceOK
  <2> QED BY <2>1, <2>2
<1>19. Copy \notin Slots BY HoldersCount
<1>20. ASSUME NEW p \in PageIds
       PROVE  Holders(p)' = IF p = q THEN {Copy} ELSE Holders(p)
  <2>1. ~Pending(p) BY <1>0, <1>16 DEF Pending
  <2>2. Pending(p)' <=> p = q
    <3>1. \A u \in Threads : frame'[u].pc = "write_swap" => u = t BY <1>12, <1>16
    <3> QED BY <1>10, <1>12, <3>1 DEF Pending
  <2>3. ASSUME NEW s \in Slots PROVE Holds(s, p)' <=> Holds(s, p)
    <3>1. \A u \in Threads : frame[u].op # "destroy" /\ frame'[u].op # "destroy"
      BY <1>1, <1>10, <1>12, <1>16
    <3> QED BY <1>0, <3>1 DEF Holds, Pages
  <2>4. p = q => Holders(p) = {} BY <1>0, <1>2, <1>4, HeldMapped
  <2>5. CASE p = q
    <3>1. \A s \in Slots : ~Holds(s, p)' BY <2>3, <2>4, <2>5, <1>19 DEF Holders
    <3> QED BY <1>19, <2>2, <2>5, <3>1 DEF Holders
  <2>6. CASE p # q
    BY <1>19, <2>1, <2>2, <2>3, <2>6 DEF Holders
  <2> QED BY <2>5, <2>6
<1>21. Counted'
  <2> SUFFICES ASSUME NEW p \in PageIds PROVE page'[p].reference_count = Cardinality(Holders(p)')
    BY DEF Counted
  <2>1. Cardinality({Copy}) = 1 BY FS_Singleton
  <2>2. page[p].reference_count = Cardinality(Holders(p)) BY <1>2 DEF Counted
  <2>3. CASE p = q BY <1>7, <1>11, <1>20, <2>1, <2>3
  <2>4. CASE p = old /\ p # q
    <3>1. page'[p].reference_count = page[p].reference_count BY <1>8, <1>11, <2>4
    <3> QED BY <1>20, <2>2, <2>4, <3>1
  <2>5. CASE p # old /\ p # q
    <3>1. page'[p] = page[p] BY <1>11, <2>5
    <3> QED BY <1>20, <2>2, <2>5, <3>1
  <2> QED BY <2>3, <2>4, <2>5
<1>22. Sealed' /\ \A u \in Threads : AccessOK(u)'
  <2>1. \A p \in PageIds : page'[p].prot \in {"READ", "WRITE"} => p = q
    <3>1. \A p \in PageIds : page[p].prot \notin {"READ", "WRITE"}
      BY <1>0, <1>2 DEF Exposed
    <3> QED BY <1>8, <1>11, <3>1
  <2>2. \A p \in PageIds : page'[p].prot \in {"READ", "WRITE"} => Exposed(t, p)'
    BY <1>10, <1>12, <2>1 DEF Exposed
  <2>3. AccessOK(t)'
    <3>1. Shared(old) /\ Target(t)' = old
      <4>1. AccessOK(t) BY DEF TLSInv
      <4> QED BY <1>0, <1>10, <1>12, <4>1 DEF AccessOK, Target, PageOf
    <3>2. page'[old].reference_count > 1 BY <1>8, <1>11, <3>1 DEF Shared
    <3>3. Shared(Target(t))' BY <3>1, <3>2 DEF Shared
    <3>4. ASSUME NEW p \in PageIds, p = q PROVE Holders(p)' = {Copy} BY <1>20, <3>4
    <3>5. Holders(frame[t].fresh)' = {Copy}
      <4>1. frame'[t].fresh = q BY <1>10, <1>12
      <4> QED BY <1>4, <3>4, <4>1 DEF Holders, Holds, Pending
    <3> QED BY <1>10, <1>12, <3>3, <3>5 DEF AccessOK
  <2> QED BY <1>1, <1>12, <1>13, <2>2, <2>3, WorkerStep
<1>23. EndsQuiescent'
  BY <1>0 DEF EndsQuiescent
<1> QED BY <1>13, <1>14, <1>15, <1>17, <1>18, <1>21, <1>22, <1>23 DEF TLSInv

\* The copy takes the place of the shared page, which counts one user less.
LEMMA WriteSwapKeeps ==
  ASSUME TLSInv, NEW t \in Threads, WriteSwap(t)
  PROVE  TLSInv'
<1> DEFINE slot == frame[t].slot
           idx == (frame[t].at \div PageSize) + 1
           q == frame[t].fresh
           old == Target(t)
           seq == Pages(slot)
           new == [seq EXCEPT ![idx] = q]
           st == [tls_array[slot] EXCEPT !.page_ptr_array = new]
           g == [frame[t] EXCEPT !.pc = "write_open"]
<1>0. /\ frame[t].pc = "write_swap" /\ process = "running" /\ Types /\ Serial /\ MutexHeld
      /\ page' = [page EXCEPT ![old].reference_count = @ - 1]
      /\ tls_array' = [tls_array EXCEPT ![slot].page_ptr_array[idx] = q]
      /\ frame' = [frame EXCEPT ![t] = g]
      /\ UNCHANGED <<tls_exist_array, mutex, process>>
  BY DEF WriteSwap, At, TLSInv, Replaced, Goto
<1>1. frame[t].op = "write"
  BY <1>0, StepKinds
<1>2. /\ frame[t] \in WriteFrames /\ Counted /\ PlaceOK(t) /\ slot \in Slots /\ frame[t].at \in Nat
      /\ old \in Mapped /\ old \in PageIds
      /\ \A p \in PageIds : page[p].prot \in {"READ", "WRITE"} => Exposed(t, p)
  BY <1>1, WriteFrame
<1>3. /\ q \in PageIds /\ idx \in 1 .. Len(seq) /\ Holders(q) = {Copy} /\ Shared(old)
      /\ old = seq[idx]
  <2>1. AccessOK(t) /\ \A s \in Slots : StorageOK(s) BY DEF TLSInv
  <2>2. q \in PageIds BY <1>2 DEF WriteFrames
  <2>3. idx \in 1 .. Len(seq) BY <1>0, <1>1, <1>2, <2>1, PagesReached
  <2> QED BY <1>0, <2>1, <2>2, <2>3 DEF AccessOK, Target, PageOf, Pages
<1>4. \A u \in Threads : u # t => frame[u].op = "none" /\ frame[u].pc \in {"idle", "killed"}
  BY <1>1, WriterAlone
<1>5. /\ seq \in Seq(PageIds) /\ tls_array[slot] \in Storage /\ tls_array[slot].page_ptr_array = seq
      /\ \A i, j \in 1 .. Len(seq) : seq[i] = seq[j] => i = j
      /\ seq # << >> /\ Len(seq) = PagesFor(tls_array[slot].byte_count) /\ tls_exist_array[slot]
  <2>1. StorageOK(slot) /\ Mine(t) BY <1>1, <1>2 DEF TLSInv, PlaceOK
  <2> QED BY <1>0, <1>2, <2>1 DEF Types, Storage, Pages, StorageOK, Mine
<1>6. \A u \in Threads : frame[u].op # "destroy"
  BY <1>1, <1>4
<1>7. Copy \notin Slots BY HoldersCount
<1>8. /\ \A i \in 1 .. Len(seq) : seq[i] # q
      /\ q # old
  <2>1. ASSUME NEW i \in 1 .. Len(seq), seq[i] = q PROVE FALSE
    <3>1. Holds(slot, q) BY <1>6, <2>1 DEF Holds
    <3>2. slot \in Holders(q) BY <1>2, <1>7, <3>1 DEF Holders
    <3> QED BY <1>2, <1>3, <1>7, <3>2
  <2> QED BY <1>3, <2>1
<1> HIDE DEF idx, q, old, seq
<1>9. /\ new \in Seq(PageIds) /\ Len(new) = Len(seq) /\ new # << >>
      /\ new[idx] = q /\ \A i \in 1 .. Len(seq) : i # idx => new[i] = seq[i]
  BY <1>3, <1>5
<1> HIDE DEF new
<1>10. /\ st \in Storage /\ st.page_ptr_array = new /\ st.threadID = tls_array[slot].threadID
       /\ st.byte_count = tls_array[slot].byte_count
  BY <1>5, <1>9 DEF Storage
<1>11. tls_array' = [tls_array EXCEPT ![slot] = st]
  BY <1>0, <1>2, <1>5 DEF Types, new
<1> HIDE DEF st
<1>12. /\ tls_array' \in [Slots -> Storage]
       /\ \A s \in Slots : s = slot => tls_array'[s] = st
       /\ \A s \in Slots : s # slot => tls_array'[s] = tls_array[s]
  BY <1>0, <1>2, <1>10, <1>11 DEF Types
<1>13. /\ page' \in [PageIds -> Page]
       /\ page'[old].reference_count = page[old].reference_count - 1
       /\ page'[old].prot = page[old].prot
       /\ \A p \in PageIds : p # old => page'[p] = page[p]
  <2>1. page[old].reference_count > 1 BY <1>3 DEF Shared
  <2>2. page' = Release(old)
    <3>1. page[old].reference_count \in Nat BY <1>0, <1>2, HeldMapped
    <3> QED BY <1>0, <2>1, <3>1 DEF Release
  <2> QED BY <1>0, <1>2, <2>1, <2>2, ReleasedPage
<1>14. /\ g \in WriteFrames /\ g.pc = "write_open" /\ g.op = "write" /\ g.slot = slot
       /\ g.at = frame[t].at /\ g.offset = frame[t].offset /\ g.length = frame[t].length
  BY <1>2 DEF WriteFrames
<1> HIDE DEF g
<1>15. /\ g \in Frames /\ frame' \in [Threads -> Frames] /\ frame'[t] = g
       /\ \A u \in Threads : u # t => frame'[u] = frame[u]
  BY <1>0, <1>14, KindsAreFrames DEF Types
<1>16. Types'
  BY <1>0, <1>12, <1>13, <1>15 DEF Types
<1>17. Serial'
  BY <1>0, <1>1, <1>14, StepSerial
<1>18. MutexHeld'
  BY <1>0, <1>14, <1>15 DEF MutexHeld
<1>19. ASSUME NEW s \in Slots PROVE StorageOK(s)'
  <2>0. StorageOK(s) BY DEF TLSInv
  <2>1. CASE s = slot
    <3>1. Pages(s)' = new BY <1>10, <1>12, <2>1 DEF Pages
    <3>2. \A i, j \in 1 .. Len(new) : new[i] = new[j] => i = j
      BY SMTT(30), <1>3, <1>5, <1>8, <1>9
    <3>3. tls_array'[s].byte_count = tls_array[slot].byte_count BY <1>10, <1>12, <2>1
    <3>4. tls_exist_array'[s] BY <1>0, <1>5, <2>1
    <3> QED BY <1>5, <1>9, <3>1, <3>2, <3>3, <3>4 DEF StorageOK
  <2>2. CASE s # slot
    <3>1. \A u \in Threads : frame[u].pc \notin {"create_fill", "clone_fill"} BY <1>0, <1>4
    <3> QED BY <1>0, <1>12, <2>0, <2>2, <3>1 DEF StorageOK, Pages
  <2> QED BY <2>1, <2>2
<1>20. ASSUME NEW u \in Threads PROVE PlaceOK(u)'
  <2>1. CASE u = t
    <3>1. g.offset <= g.at /\ g.at < End(g) /\ End(g) <= st.byte_count
      <4>1. End(g) = End(frame[t]) BY <1>14 DEF End
      <4> QED BY <1>1, <1>2, <1>10, <1>14, <4>1 DEF PlaceOK
    <3>2. Mine(t)'
      <4>1. Mine(t) BY <1>1, <1>2 DEF PlaceOK
      <4>2. tls_array'[slot] = st /\ frame'[t].slot = slot BY <1>2, <1>12, <1>14, <1>15
      <4> QED BY <1>9, <1>10, <4>1, <4>2 DEF Mine, Pages
    <3>3. tls_array'[g.slot] = st BY <1>2, <1>12, <1>14
    <3> QED BY <1>14, <1>15, <2>1, <3>1, <3>2, <3>3 DEF PlaceOK, End
  <2>2. CASE u # t
    <3>1. frame'[u].op = "none" /\ frame'[u].pc \in {"idle", "killed"} BY <1>4, <1>15, <2>2
    <3> QED BY <3>1 DEF PlaceOK
  <2> QED BY <2>1, <2>2
<1>21. ASSUME NEW p \in PageIds
       PROVE  /\ p = q => Holders(p)' = {slot}
              /\ p = old => Holders(p)' = Holders(p) \ {slot} /\ slot \in Holders(p)
              /\ p # q /\ p # old => Holders(p)' = Holders(p)
  <2>1. ~Pending(p)' BY <1>4, <1>14, <1>15 DEF Pending
  <2>2. Pending(p) <=> p = q BY <1>0, <1>4 DEF Pending, q
  <2>3. \A u \in Threads : frame'[u].op # "destroy" BY <1>4, <1>14, <1>15
  <2>4. ASSUME NEW s \in Slots, s # slot PROVE Holds(s, p)' <=> Holds(s, p)
    BY <1>6, <1>12, <2>3, <2>4 DEF Holds, Pages
  <2>5. ASSUME NEW s \in Slots, s = slot
        PROVE  /\ Holds(s, p) <=> \E i \in 1 .. Len(seq) : seq[i] = p
               /\ Holds(s, p)' <=> \E i \in 1 .. Len(seq) : new[i] = p
    <3>1. Pages(s)' = new BY <1>10, <1>12, <2>5 DEF Pages
    <3>2. Holds(s, p)' <=> \E i \in 1 .. Len(seq) : new[i] = p
      BY <1>9, <2>3, <3>1 DEF Holds
    <3>3. Holds(s, p) <=> \E i \in 1 .. Len(seq) : seq[i] = p
      BY <1>6, <2>5 DEF Holds, seq
    <3> QED BY <3>2, <3>3
  <2> HIDE DEF slot
  <2>6. CASE p = q
    <3>1. ~\E i \in 1 .. Len(seq) : seq[i] = p BY <1>8, <2>6
    <3>2. \E i \in 1 .. Len(seq) : new[i] = p BY <1>3, <1>9, <2>6
    <3>3. \A s \in Slots : ~Holds(s, p) BY <1>3, <1>7, <2>6 DEF Holders
    <3>4. Holders(p)' = {slot} BY <1>2, <1>7, <2>1, <2>4, <2>5, <3>2, <3>3 DEF Holders
    <3> QED BY <1>8, <2>6, <3>4
  <2>7. CASE p = old
    <3>1. \E i \in 1 .. Len(seq) : seq[i] = p BY <1>3, <2>7
    <3>2. ~\E i \in 1 .. Len(seq) : new[i] = p BY <1>3, <1>5, <1>8, <1>9, <2>7
    <3>3. p # q BY <1>8, <2>7
    <3>4. Holders(p)' = Holders(p) \ {slot} /\ slot \in Holders(p)
      BY <1>2, <1>7, <2>1, <2>2, <2>4, <2>5, <3>1, <3>2, <3>3 DEF Holders
    <3> QED BY <2>7, <3>3, <3>4
  <2>8. CASE p # q /\ p # old
    <3>1. (\E i \in 1 .. Len(seq) : new[i] = p) <=> \E i \in 1 .. Len(seq) : seq[i] = p
      BY <1>3, <1>9, <2>8
    <3>2. Holders(p)' = Holders(p)
      BY <1>2, <1>7, <2>1, <2>2, <2>4, <2>5, <2>8, <3>1 DEF Holders
    <3> QED BY <2>8, <3>2
  <2> QED BY <2>6, <2>7, <2>8
<1>22. Counted'
  <2> SUFFICES ASSUME NEW p \in PageIds PROVE page'[p].reference_count = Cardinality(Holders(p)')
    BY DEF Counted
  <2> DEFINE H == Holders(p)
  <2>1. page[p].reference_count = Cardinality(H) /\ IsFiniteSet(H)
    BY <1>2, HoldersCount DEF Counted
  <2>2. p = old => slot \in H BY <1>21
  <2>3. CASE p = q
    <3>1. Holders(p)' = {slot} /\ H = {Copy} BY <1>3, <1>21, <2>3
    <3>2. page'[p] = page[p] BY <1>8, <1>13, <2>3
    <3> QED BY <2>1, <3>1, <3>2, FS_Singleton
  <2>4. CASE p = old
    <3>1. Holders(p)' = H \ {slot} BY <1>21, <2>4
    <3> HIDE DEF H, slot
    <3>2. Cardinality(H \ {slot}) = Cardinality(H) - 1 BY <2>1, <2>2, <2>4, OneLess
    <3> QED BY <1>13, <2>1, <2>4, <3>1, <3>2
  <2>5. CASE p # q /\ p # old
    <3>1. Holders(p)' = H BY <1>21, <2>5
    <3>2. page'[p] = page[p] BY <1>13, <2>5
    <3> QED BY <2>1, <3>1, <3>2
  <2> QED BY <2>3, <2>4, <2>5
<1>23. Sealed' /\ \A u \in Threads : AccessOK(u)'
  <2>1. \A p \in PageIds : page'[p].prot \in {"READ", "WRITE"} => p = q
    <3>1. \A p \in PageIds : page[p].prot \in {"READ", "WRITE"} => p = q
      BY <1>0, <1>2 DEF Exposed, q
    <3> QED BY <1>13, <3>1
  <2>2. Target(t)' = q
    <3>1. Target(t)' = new[(frame[t].at \div PageSize) + 1]
      <4>1. frame'[t].slot = slot /\ frame'[t].at = frame[t].at BY <1>14, <1>15
      <4>2. tls_array'[slot].page_ptr_array = new BY <1>2, <1>10, <1>12
      <4> QED BY <4>1, <4>2 DEF Target, PageOf
    <3> QED BY <1>9, <3>1 DEF idx
  <2>3. \A p \in PageIds : page'[p].prot \in {"READ", "WRITE"} => Exposed(t, p)'
    BY <1>14, <1>15, <2>1, <2>2 DEF Exposed
  <2>4. AccessOK(t)' BY <1>14, <1>15 DEF AccessOK
  <2> QED BY <1>1, <1>15, <1>16, <2>3, <2>4, WorkerStep
<1>24. EndsQuiescent'
  BY <1>0 DEF EndsQuiescent
<1> QED BY <1>16, <1>17, <1>18, <1>19, <1>20, <1>22, <1>23, <1>24 DEF TLSInv

-----------------------------------------------------------------------------
(* The invariant.                                                           *)

\* A stray access of the client ends its thread or the process, and changes nothing else.
LEMMA TouchKeeps ==
  ASSUME TLSInv, NEW t \in Threads, Touch(t)
  PROVE  TLSInv'
<1>0. /\ frame[t].pc = "idle" /\ process = "running" /\ Quiescent
      /\ Types /\ Serial /\ MutexHeld /\ PlaceOK(t)
      /\ UNCHANGED <<tls_exist_array, tls_array, page, mutex>>
  BY DEF Touch, At, TLSInv
<1>1. \/ /\ frame' = [frame EXCEPT ![t] = [op |-> "none", pc |-> "killed"]]
         /\ UNCHANGED process
      \/ process' = "exited" /\ UNCHANGED frame
  BY DEF Touch, Fault
<1>2. [op |-> "none", pc |-> "killed"] \in Frames
  BY KindsAreFrames DEF IdleFrames
<1>3. \A u \in Threads : frame[u].op = "none" /\ frame[u].pc \in {"idle", "killed"}
  BY <1>0, StepKinds DEF Quiescent
<1>4. /\ frame' \in [Threads -> Frames]
      /\ \A u \in Threads : u # t => frame'[u] = frame[u]
      /\ \A u \in Threads : frame'[u].op = "none" /\ frame'[u].pc \in {"idle", "killed"}
  BY <1>0, <1>1, <1>2, <1>3 DEF Types
<1>5. \A u \in Threads : PlaceOK(u)' /\ AccessOK(u)'
  BY <1>4 DEF PlaceOK, AccessOK
<1>6. Types' /\ Counted' /\ (\A s \in Slots : StorageOK(s)') /\ \A u \in Threads : PlaceOK(u)'
  <2>1. /\ tls_exist_array' \in [Slots -> BOOLEAN] /\ mutex' \in Threads \cup {NoThread}
        /\ page' \in [PageIds -> Page] /\ process' \in {"running", "exited"}
    BY <1>0, <1>1 DEF Types
  <2>2. /\ frame[t].pc \notin {"create_fill", "clone_fill", "write_swap"} /\ frame[t].op # "destroy"
        /\ frame'[t].pc # "write_swap" /\ frame'[t].op # "destroy"
    BY <1>3, <1>4
  <2> QED BY <1>0, <1>4, <1>5, <2>1, <2>2, Kept
<1>7. Serial' /\ MutexHeld'
  BY <1>4 DEF Serial, MutexHeld
<1>8. Sealed'
  <2>1. frame[t].op \notin {"read", "write"} /\ \A u \in Threads : frame[u].op \notin {"read", "write"}
    BY <1>3
  <2> QED BY <1>0, <1>4, <1>5, <2>1, BystanderStep
<1>9. EndsQuiescent'
  BY <1>4 DEF EndsQuiescent, Quiescent
<1> QED BY <1>5, <1>6, <1>7, <1>8, <1>9 DEF TLSInv

\* The library starts with no storage, and no page mapped.
LEMMA TLSInvInit ==
  TLSInit => TLSInv
<1> SUFFICES ASSUME TLSInit PROVE TLSInv
  OBVIOUS
<1>1. \A t \in Threads : frame[t] = Idle
  BY DEF TLSInit
<1>2. Idle \in Frames /\ Idle.op = "none" /\ Idle.pc = "idle"
  BY KindsAreFrames DEF IdleFrames, Idle
<1>3. \A s \in Slots : ~tls_exist_array[s] /\ Pages(s) = << >>
  BY DEF TLSInit, Pages
<1>4. Types
  <2>1. Unmapped \in Page BY DEF Page
  <2>2. [threadID |-> NoThread, byte_count |-> 0, page_ptr_array |-> << >>] \in Storage
    BY DEF Storage
  <2>3. frame \in [Threads -> Frames] BY <1>2 DEF TLSInit
  <2> QED BY <2>1, <2>2, <2>3 DEF TLSInit, Types
<1>5. Counted
  <2> SUFFICES ASSUME NEW p \in PageIds PROVE page[p].reference_count = Cardinality(Holders(p))
    BY DEF Counted
  <2>1. page[p].reference_count = 0 BY DEF TLSInit, Unmapped
  <2>2. Holders(p) = {}
    <3>1. ~Pending(p) BY <1>1, <1>2 DEF Pending
    <3>2. \A s \in Slots : ~Holds(s, p) BY <1>3 DEF Holds
    <3> QED BY <3>1, <3>2 DEF Holders
  <2> QED BY <2>1, <2>2, HoldersCount
<1>6. Sealed
  BY DEF Sealed, TLSInit, Unmapped
<1>7. Serial /\ MutexHeld /\ \A t \in Threads : PlaceOK(t) /\ AccessOK(t)
  BY <1>1, <1>2 DEF Serial, MutexHeld, PlaceOK, AccessOK
<1>8. \A s \in Slots : StorageOK(s)
  BY <1>3 DEF StorageOK
<1>9. EndsQuiescent
  BY DEF EndsQuiescent, TLSInit
<1> QED BY <1>4, <1>5, <1>6, <1>7, <1>8, <1>9 DEF TLSInv

\* No call is in a write of length 0.
LEMMA NoStray ==
  ASSUME Types, NEW t \in Threads
  PROVE  ~WriteStray(t)
<1>1. frame[t].pc # "write_stray"
  BY FrameKinds DEF IdleFrames, CreateFrames, DestroyFrames, ReadFrames, WriteFrames,
                    SearchFrames, CopyFrames
<1> QED BY <1>1 DEF WriteStray, At

\* Every step keeps the invariant.
LEMMA TLSInvStep ==
  ASSUME Orderly
  PROVE  TLSInv /\ [TLSNext]_tlsVars => TLSInv'
<1> SUFFICES ASSUME TLSInv, [TLSNext]_tlsVars PROVE TLSInv'
  OBVIOUS
<1>1. ASSUME NEW t \in Threads, Step(t) PROVE TLSInv'
  BY <1>1, CreateClaimKeeps, CreateFillKeeps, DestroyPageKeeps, DestroyReleaseKeeps,
     ReadOpenKeeps, ReadCopyKeeps, ReadCloseKeeps, ReadReturnKeeps, WriteEnterKeeps,
     WriteCopyKeeps, WriteSwapKeeps, WriteOpenKeeps, WriteByteKeeps, WriteCloseKeeps,
     CloneLockKeeps, CloneFindKeeps, CloneClaimKeeps, CloneFillKeeps, CloneUnlockKeeps
     DEF Step
<1>2. CASE TLSNext
  BY <1>1, <1>2, CreateFindKeeps, DestroyFindKeeps, ReadCallKeeps, WriteCallKeeps,
     CloneCallKeeps, TouchKeeps, NoStray DEF TLSNext, TLSInv
<1>3. CASE UNCHANGED tlsVars
  <2>1. UNCHANGED <<tls_exist_array, tls_array, page, mutex, frame, process>>
    BY <1>3 DEF tlsVars
  <2>2. Types' /\ Serial' /\ MutexHeld' /\ Sealed' /\ EndsQuiescent'
    BY <2>1 DEF TLSInv, Types, Serial, MutexHeld, Sealed, EndsQuiescent, Quiescent,
                Exposed, Here, Target, Previous, PageAt, PageOf, Pages
  <2>3. ASSUME NEW t \in Threads PROVE PlaceOK(t)'
    <3>1. PlaceOK(t) BY DEF TLSInv
    <3> QED BY <2>1, <3>1 DEF PlaceOK, Mine, Pages, End, FirstPage, LastRead, LastWhole
  <2>4. ASSUME NEW s \in Slots PROVE StorageOK(s)'
    <3>1. StorageOK(s) BY DEF TLSInv
    <3> QED BY <2>1, <3>1 DEF StorageOK, Pages
  <2>5. \A p : Holders(p)' = Holders(p)
    BY <2>1 DEF Holders, Holds, Pending, Pages
  <2>6. Counted' BY <2>1, <2>5 DEF TLSInv, Counted
  <2>7. ASSUME NEW t \in Threads PROVE AccessOK(t)'
    <3>1. AccessOK(t) BY DEF TLSInv
    <3>2. Holders(frame[t].fresh)' = Holders(frame[t].fresh)
      BY <2>1 DEF Holders, Holds, Pending, Pages
    <3> QED BY <2>1, <3>1, <3>2 DEF AccessOK, Here, Target, PageOf, Shared
  <2> QED BY <2>2, <2>3, <2>4, <2>6, <2>7 DEF TLSInv
<1> QED BY <1>2, <1>3

\* The invariant holds throughout, for clients that serialise their calls.
THEOREM TLSInvariant ==
  ASSUME Orderly
  PROVE  TLSSpec => []TLSInv
<1>1. TLSInit => TLSInv
  BY TLSInvInit
<1>2. TLSInv /\ [TLSNext]_tlsVars => TLSInv'
  BY TLSInvStep
<1> QED BY <1>1, <1>2, PTL DEF TLSSpec

\* Every slot, page and call is well formed: in particular a page is mapped as long as it
\* counts somebody (24-44).
THEOREM TLSTypeCorrect ==
  ASSUME Orderly
  PROVE  TLSSpec => []TLSTypeOK
<1>1. TLSInv => TLSTypeOK
  <2> SUFFICES ASSUME TLSInv PROVE TLSTypeOK
    OBVIOUS
  <2>1. Types BY DEF TLSInv
  <2>2. \A t \in Threads : frame[t].op \in Operations \cup {"none"}
    BY <2>1, FrameKinds DEF Operations
  <2> QED BY <2>1, <2>2 DEF Types, TLSTypeOK
<1> QED BY <1>1, TLSInvariant, PTL

\* Between calls the holders of a page are the storages that use it.
LEMMA QuietHolders ==
  ASSUME TLSInv, Quiescent, NEW p \in PageIds
  PROVE  Holders(p) = Users(p)
<1>1. Types /\ \A t \in Threads : frame[t].op = "none" /\ frame[t].pc \in {"idle", "killed"}
  BY StepKinds DEF TLSInv, Quiescent
<1>2. ~Pending(p)
  BY <1>1 DEF Pending
<1>3. ASSUME NEW s \in Slots PROVE Holds(s, p) <=> s \in Users(p)
  <2>1. Pages(s) \in Seq(PageIds) /\ Len(Pages(s)) \in Nat
    BY <1>1 DEF Types, Storage, Pages
  <2>2. Holds(s, p) <=> \E i \in 1 .. Len(Pages(s)) : Pages(s)[i] = p
    BY <1>1 DEF Holds
  <2>3. (\E i \in 1 .. Len(Pages(s)) : Pages(s)[i] = p) => tls_exist_array[s]
    <3>1. StorageOK(s) BY DEF TLSInv
    <3> QED BY <2>1, <3>1 DEF StorageOK
  <2>4. (\E i \in 1 .. Len(Pages(s)) : Pages(s)[i] = p)
          <=> \E i \in 0 .. Len(Pages(s)) - 1 : Pages(s)[i + 1] = p
    <3>1. ASSUME NEW i \in 1 .. Len(Pages(s)), Pages(s)[i] = p
          PROVE  \E k \in 0 .. Len(Pages(s)) - 1 : Pages(s)[k + 1] = p
      <4>1. i - 1 \in 0 .. Len(Pages(s)) - 1 /\ (i - 1) + 1 = i BY <2>1, <3>1
      <4>2. Pages(s)[(i - 1) + 1] = p BY <3>1, <4>1
      <4> QED BY <4>1, <4>2
    <3>2. ASSUME NEW i \in 0 .. Len(Pages(s)) - 1, Pages(s)[i + 1] = p
          PROVE  \E k \in 1 .. Len(Pages(s)) : Pages(s)[k] = p
      <4>1. i + 1 \in 1 .. Len(Pages(s)) BY <2>1, <3>2
      <4> QED BY <3>2, <4>1
    <3> QED BY <3>1, <3>2
  <2> QED BY <2>2, <2>3, <2>4 DEF Users, PageCount, PageOf, Pages
<1>4. Copy \notin Slots
  BY HoldersCount
<1> QED BY <1>2, <1>3, <1>4 DEF Holders, Users

\* Between calls the reference count of a page is the number of storages that use it, and
\* exactly the pages in use are mapped (194-205, 392-414, 490-496).
THEOREM ReferenceCountsExactHolds ==
  ASSUME Orderly
  PROVE  TLSSpec => []ReferenceCountsExact
<1>1. TLSInv => ReferenceCountsExact
  <2> SUFFICES ASSUME TLSInv, Quiescent, NEW p \in PageIds
               PROVE  /\ page[p].reference_count = Cardinality(Users(p))
                      /\ p \in Mapped <=> Users(p) # {}
    BY DEF ReferenceCountsExact
  <2>1. Types /\ Counted BY DEF TLSInv
  <2>2. Holders(p) = Users(p) BY QuietHolders
  <2> QED BY <2>1, <2>2, HeldMapped DEF Counted
<1> QED BY <1>1, TLSInvariant, PTL

\* Between calls no page of any storage can be touched directly
\* (159, 300, 314, 328, 387, 423).
THEOREM PagesSealedHolds ==
  ASSUME Orderly
  PROVE  TLSSpec => []PagesSealed
<1>1. TLSInv => PagesSealed
  <2> SUFFICES ASSUME TLSInv, Quiescent, NEW p \in Mapped PROVE page[p].prot = "NONE"
    BY DEF PagesSealed
  <2>1. Types /\ Sealed BY DEF TLSInv
  <2>2. \A t \in Threads : ~Exposed(t, p)
    BY <2>1, ExposedByWorker DEF Quiescent
  <2>3. p \in PageIds /\ page[p].prot # "unmapped" BY DEF Mapped
  <2>4. page[p] \in Page BY <2>1, <2>3 DEF Types
  <2>5. page[p].prot \in {"NONE", "READ", "WRITE"} BY <2>3, <2>4 DEF Page, Unmapped
  <2> QED BY <2>1, <2>2, <2>3, <2>5 DEF Sealed
<1> QED BY <1>1, TLSInvariant, PTL

\* A thread is not ended for a read or write of its own storage.
LEMMA CallSurvivesStep ==
  ASSUME TLSInv, NEW t \in Threads, frame[t].op \in {"read", "write"}, TLSNext
  PROVE  frame'[t].pc # "killed" /\ process' = "running"
<1>0. /\ Types /\ process = "running" /\ ~Quiescent
      /\ frame[t].pc \notin {"idle", "killed"}
  BY StepKinds DEF TLSInv, EndsQuiescent, Quiescent, Types
<1>1. PICK u \in Threads :
        \/ CreateFind(u) \/ DestroyFind(u) \/ ReadCall(u) \/ WriteCall(u)
        \/ CloneCall(u) \/ Touch(u)
        \/ Step(u)
  BY <1>0, NoStray DEF TLSNext
<1>2. ~Touch(u)
  BY <1>0 DEF Touch
<1>3. ASSUME u # t, NEW f, frame' = [frame EXCEPT ![u] = f], UNCHANGED process
      PROVE  frame'[t].pc # "killed" /\ process' = "running"
  BY <1>0, <1>3 DEF Types
<1>4. ASSUME NEW f, frame' = [frame EXCEPT ![u] = f], f.pc # "killed", UNCHANGED process
      PROVE  frame'[t].pc # "killed" /\ process' = "running"
  BY <1>0, <1>4 DEF Types
<1>5. CASE CreateFind(u) \/ DestroyFind(u) \/ ReadCall(u) \/ WriteCall(u) \/ CloneCall(u)
  <2>1. frame[u].pc = "idle" /\ UNCHANGED process
    BY <1>5 DEF CreateFind, DestroyFind, ReadCall, WriteCall, CloneCall, Call, At
  <2>2. \E f : frame' = [frame EXCEPT ![u] = f]
    BY <1>5 DEF CreateFind, DestroyFind, ReadCall, WriteCall, CloneCall, Call
  <2>3. u # t BY <1>0, <2>1
  <2> QED BY <1>3, <2>1, <2>2, <2>3
<1>6. CASE Step(u)
  <2>1. CASE ReadCopy(u)
    <3> DEFINE b == Copied(frame[u], frame[u].at, page[Here(u)].data)
               f == [frame[u] EXCEPT !.pc = "read_close", !.buffer = b]
    <3>1. /\ frame' = [frame EXCEPT ![u].pc = "read_close", ![u].buffer = b]
          /\ UNCHANGED process /\ frame[u].op = "read"
      BY <2>1, ReadCopyRuns
    <3>2. frame[u] \in ReadFrames(frame[u].length)
      BY <1>0, <3>1, FrameKinds
    <3> HIDE DEF b
    <3>3. frame' = [frame EXCEPT ![u] = f]
      BY <1>0, <3>1 DEF Types
    <3>4. f.pc # "killed"
      BY <3>2 DEF ReadFrames
    <3> HIDE DEF f
    <3> QED BY <1>4, <3>1, <3>3, <3>4
  <2>2. CASE WriteByte(u)
    <3>1. /\ frame' = [frame EXCEPT ![u] = AfterByte(frame[u])] /\ UNCHANGED process
          /\ frame[u].op = "write"
      BY <2>2, WriteByteRuns
    <3>2. AfterByte(frame[u]).pc # "killed"
      <4> DEFINE f == frame[u]
                 pc == IF (f.at + 1) % PageSize = 0 THEN "write_enter" ELSE "write_byte"
                 next == f.at + 1
      <4>1. f \in WriteFrames BY <1>0, <3>1, FrameKinds
      <4>2. AfterByte(f) = [f EXCEPT !.pc = "write_close"]
            \/ AfterByte(f) = [f EXCEPT !.at = next, !.pc = pc]
        BY DEF AfterByte
      <4>3. pc # "killed" OBVIOUS
      <4> HIDE DEF f, pc, next
      <4>4. AfterByte(f).pc \in {"write_close", pc} BY <4>1, <4>2 DEF WriteFrames
      <4> QED BY <4>3, <4>4 DEF f
    <3> QED BY <1>4, <3>1, <3>2
  <2>3. CASE ~ReadCopy(u) /\ ~WriteByte(u)
    <3>1. UNCHANGED process
      BY <1>6, <2>3 DEF Step, CreateClaim, CreateFill, DestroyPage, DestroyRelease, ReadOpen,
         ReadClose, ReadReturn, WriteEnter, WriteCopy, WriteSwap, WriteOpen, WriteClose,
         CloneLock, CloneFind, CloneClaim, CloneFill, CloneUnlock
    <3>2. CASE u # t
      <4>1. frame'[t] = frame[t]
        BY <1>6, <2>3, <3>2, <1>0 DEF Types, Step, CreateClaim, CreateFill, DestroyPage,
           DestroyRelease, ReadOpen, ReadClose, ReadReturn, WriteEnter, WriteCopy, WriteSwap,
           WriteOpen, WriteClose, CloneLock, CloneFind, CloneClaim, CloneFill, CloneUnlock,
           MProtect, Goto, Return
      <4> QED BY <1>0, <3>1, <4>1
    <3>3. CASE u = t
      <4>1. /\ frame[t].pc \in {"read_open", "read_copy", "read_close", "read_return",
                                "write_enter", "write_copy", "write_swap", "write_open",
                                "write_byte", "write_close"}
        BY <1>0, StepKinds
      <4>2. \/ ReadOpen(t) \/ ReadClose(t) \/ ReadReturn(t) \/ WriteEnter(t) \/ WriteCopy(t)
            \/ WriteSwap(t) \/ WriteOpen(t) \/ WriteClose(t)
        BY <1>6, <2>3, <3>3, <4>1 DEF Step, CreateClaim, CreateFill, DestroyPage,
           DestroyRelease, CloneLock, CloneFind, CloneClaim, CloneFill, CloneUnlock, At
      <4>3. Idle.pc = "idle"
        BY DEF Idle
      <4>4. DOMAIN frame = Threads /\ "pc" \in DOMAIN frame[t]
        BY <1>0, StepKinds, FrameKinds DEF Types, ReadFrames, WriteFrames
      <4>5. CASE ReadOpen(t) BY <4>3, <4>4, <3>1, <4>5, <1>0 DEF Types, ReadOpen, MProtect, Return
      <4>6. CASE ReadClose(t)
        <5>1. AfterPiece(t).pc \in {"read_open", "read_return"}
          <6> DEFINE f == frame[t]
                     next == IF f.at < LastRead(f) THEN f.at + 1 ELSE f.at
                     pc == IF f.at < LastRead(f) THEN "read_open" ELSE "read_return"
          <6>1. AfterPiece(t) = [f EXCEPT !.at = next, !.pc = pc] BY DEF AfterPiece, NextPage
          <6>2. pc \in {"read_open", "read_return"} OBVIOUS
          <6>3. "pc" \in DOMAIN f BY <4>4
          <6> HIDE DEF f, next, pc
          <6> QED BY <6>1, <6>2, <6>3
        <5> QED BY <3>1, <4>3, <4>6, <5>1, <1>0 DEF Types, ReadClose, MProtect, Return
      <4>7. CASE ReadReturn(t) BY <3>1, <4>3, <4>7, <1>0 DEF Types, ReadReturn, Return
      <4>8. CASE WriteEnter(t)
        BY <4>3, <4>4, <3>1, <4>8, <1>0 DEF Types, WriteEnter, MProtect, Return
      <4>9. CASE WriteCopy(t) BY SMTT(30), <4>3, <4>4, <3>1, <4>9, <1>0 DEF Types, WriteCopy, Return
      <4>10. CASE WriteSwap(t) BY <4>4, <3>1, <4>10, <1>0 DEF Types, WriteSwap, Goto
      <4>11. CASE WriteOpen(t) BY <4>3, <4>4, <3>1, <4>11, <1>0 DEF Types, WriteOpen, MProtect, Return
      <4>12. CASE WriteClose(t) BY <3>1, <4>3, <4>12, <1>0 DEF Types, WriteClose, MProtect, Return
      <4> QED BY <4>2, <4>5, <4>6, <4>7, <4>8, <4>9, <4>10, <4>11, <4>12
    <3> QED BY <3>2, <3>3
  <2> QED BY <2>1, <2>2, <2>3
<1> QED BY <1>1, <1>2, <1>5, <1>6

\* A thread that reads or writes its own storage is not ended for it by the library's handler
\* (read 300-328, write 387-423, handler 62-88).
THEOREM CallsSurviveHolds ==
  ASSUME Orderly
  PROVE  TLSSpec => CallsSurvive
<1>1. TLSInv /\ [TLSNext]_tlsVars =>
        [\A t \in Threads :
           frame[t].op \in {"read", "write"} /\ frame[t].pc # "write_stray" =>
             frame'[t].pc # "killed" /\ process' = "running"]_tlsVars
  <2> SUFFICES ASSUME TLSInv, TLSNext, NEW t \in Threads, frame[t].op \in {"read", "write"}
               PROVE  frame'[t].pc # "killed" /\ process' = "running"
    BY DEF tlsVars
  <2> QED BY CallSurvivesStep
<1> QED BY <1>1, TLSInvariant, PTL DEF TLSSpec, CallsSurvive

-----------------------------------------------------------------------------
(* What tls_read hands back.                                                *)

\* Byte x of the storage in slot s.
ByteAt(s, x) == page[PageOf(s, x \div PageSize)].data[x % PageSize]

\* The first page a read has not copied from yet.
Ahead(f) == IF f.pc \in {"read_open", "read_copy"} THEN f.at ELSE f.at + 1

\* The buffer of a read is filled up to there, and at the end that is everywhere.
ReadSoFar(t) ==
  frame[t].op = "read" =>
    /\ frame[t].pc = "read_return" => frame[t].at = LastRead(frame[t])
    /\ \A j \in 0 .. frame[t].length - 1 :
         frame[t].offset + j < Ahead(frame[t]) * PageSize =>
           frame[t].buffer[j] = ByteAt(frame[t].slot, frame[t].offset + j)

ReadInv == \A t \in Threads : ReadSoFar(t)

\* Every byte of a request lies on a page of the storage.
LEMMA RequestedByte ==
  ASSUME TLSInv, NEW t \in Threads, frame[t].op = "read", NEW j \in 0 .. frame[t].length - 1
  PROVE  /\ frame[t].slot \in Slots /\ frame[t].offset + j \in Nat
         /\ (frame[t].offset + j) \div PageSize \in Nat
         /\ (frame[t].offset + j) \div PageSize + 1 \in 1 .. Len(Pages(frame[t].slot))
         /\ frame[t].offset + j \in 0 .. tls_array[frame[t].slot].byte_count - 1
<1> DEFINE s == frame[t].slot
           x == frame[t].offset + j
           k == PageSize
           bc == tls_array[s].byte_count
<1>1. /\ frame[t].length \in Nat /\ frame[t] \in ReadFrames(frame[t].length)
      /\ Types /\ PlaceOK(t)
  BY ReadFrame
<1>2. s \in Slots /\ x \in Nat /\ x < End(frame[t]) /\ End(frame[t]) \in Nat
  BY <1>1 DEF ReadFrames, End
<1>3. bc \in Nat /\ End(frame[t]) <= bc /\ Len(Pages(s)) = (bc \div k) + 1
  <2>1. bc \in Nat BY <1>1, <1>2 DEF Types, Storage
  <2>2. Mine(t) /\ End(frame[t]) <= bc BY <1>1 DEF PlaceOK
  <2>3. StorageOK(s) BY <1>2 DEF TLSInv
  <2> QED BY <2>1, <2>2, <2>3 DEF StorageOK, Mine, PagesFor
<1> HIDE DEF s, x, k, bc
<1>4. k \in Nat \ {0}
  BY PageSizeAssumption DEF k
<1>5. x <= bc /\ x \in 0 .. bc - 1
  BY <1>2, <1>3
<1>6. x \div k \in Nat /\ bc \div k \in Nat /\ x \div k <= bc \div k
  BY <1>2, <1>3, <1>4, <1>5, Division, PagesInOrder
<1>7. (x \div k) + 1 \in 1 .. Len(Pages(s))
  BY <1>3, <1>6
<1> QED BY <1>2, <1>5, <1>6, <1>7 DEF s, x, k, bc

\* A read that is left alone, with its storage and the bytes of its pages, has copied what
\* it had.
LEMMA ReadUndisturbed ==
  ASSUME TLSInv, NEW t \in Threads, ReadSoFar(t), frame[t].op = "read",
         frame'[t] = frame[t], tls_array'[frame[t].slot] = tls_array[frame[t].slot],
         \A i \in 1 .. Len(Pages(frame[t].slot)) :
           page'[Pages(frame[t].slot)[i]].data = page[Pages(frame[t].slot)[i]].data
  PROVE  ReadSoFar(t)'
<1>1. ASSUME NEW j \in 0 .. frame[t].length - 1
      PROVE  ByteAt(frame[t].slot, frame[t].offset + j)' = ByteAt(frame[t].slot, frame[t].offset + j)
  <2> DEFINE x == frame[t].offset + j
             i == (x \div PageSize) + 1
             p == Pages(frame[t].slot)[i]
  <2>1. i \in 1 .. Len(Pages(frame[t].slot)) BY RequestedByte
  <2>2. page'[p].data = page[p].data BY <2>1
  <2>3. ByteAt(frame[t].slot, x) = page[p].data[x % PageSize] BY DEF ByteAt, PageOf, Pages
  <2>4. ByteAt(frame[t].slot, x)' = page'[p].data[x % PageSize] BY DEF ByteAt, PageOf, Pages
  <2> QED BY <2>2, <2>3, <2>4
<1>2. LastRead(frame[t])' = LastRead(frame[t]) /\ Ahead(frame[t])' = Ahead(frame[t])
  BY DEF LastRead, LastWhole, FirstPage, End, Ahead
<1> QED BY <1>1, <1>2 DEF ReadSoFar

\* The storage a read works on keeps its pages and their bytes while another thread moves.
LEMMA ReadLeftAlone ==
  ASSUME TLSInv, NEW t \in Threads, frame[t].op = "read", NEW u \in Threads, u # t,
         \/ CreateFind(u) \/ DestroyFind(u) \/ ReadCall(u) \/ WriteCall(u)
         \/ CloneCall(u) \/ Touch(u) \/ Step(u)
  PROVE  /\ frame'[t] = frame[t]
         /\ tls_array'[frame[t].slot] = tls_array[frame[t].slot]
         /\ \A i \in 1 .. Len(Pages(frame[t].slot)) :
              page'[Pages(frame[t].slot)[i]].data = page[Pages(frame[t].slot)[i]].data
<1>0. Types /\ Serial /\ Counted
  BY DEF TLSInv
<1>1. frame[u].op \in {"none", "destroy"} /\ frame[u].pc \in {"idle", "killed", "destroy_page",
                                                              "destroy_release"}
  BY <1>0, Company, StepKinds
<1>2. \/ CreateFind(u) \/ DestroyFind(u) \/ ReadCall(u) \/ WriteCall(u)
      \/ CloneCall(u) \/ DestroyPage(u) \/ DestroyRelease(u)
  <2>1. ~Touch(u) BY DEF Touch, Quiescent
  <2>2. ~(\/ CreateClaim(u) \/ CreateFill(u) \/ ReadOpen(u) \/ ReadCopy(u) \/ ReadClose(u)
          \/ ReadReturn(u) \/ WriteEnter(u) \/ WriteCopy(u) \/ WriteSwap(u) \/ WriteOpen(u)
          \/ WriteByte(u) \/ WriteClose(u) \/ CloneLock(u) \/ CloneFind(u) \/ CloneClaim(u)
          \/ CloneFill(u) \/ CloneUnlock(u))
    BY <1>1 DEF CreateClaim, CreateFill, ReadOpen, ReadCopy, ReadClose, ReadReturn, WriteEnter,
       WriteCopy, WriteSwap, WriteOpen, WriteByte, WriteClose, CloneLock, CloneFind, CloneClaim,
       CloneFill, CloneUnlock, At
  <2> QED BY <2>1, <2>2 DEF Step
<1>3. frame'[t] = frame[t]
  BY <1>0, <1>2 DEF Types, CreateFind, DestroyFind, ReadCall, WriteCall, CloneCall, Call,
     DestroyPage, DestroyRelease, Return
<1>4. CASE CreateFind(u) \/ DestroyFind(u) \/ ReadCall(u) \/ WriteCall(u) \/ CloneCall(u)
  <2>1. UNCHANGED <<tls_array, page>>
    BY <1>4 DEF CreateFind, DestroyFind, ReadCall, WriteCall, CloneCall
  <2> QED BY <1>3, <2>1
<1>5. CASE DestroyRelease(u)
  <2>1. frame[u].op = "destroy" BY <1>0, <1>5, StepKinds DEF DestroyRelease, At
  <2>2. frame[t].slot # frame[u].slot /\ frame[t].slot \in Slots
    BY <2>1, DestroyFrame
  <2> QED BY <1>0, <1>3, <1>5, <2>2 DEF DestroyRelease, Types
<1>6. CASE DestroyPage(u)
  <2> DEFINE s == frame[t].slot
             r == frame[u].slot
             at == frame[u].at
             p == Pages(r)[at + 1]
  <2>1. frame[u].op = "destroy" /\ frame[u].pc = "destroy_page"
    BY <1>0, <1>6, StepKinds DEF DestroyPage, At
  <2>2. /\ s # r /\ s \in Slots /\ r \in Slots /\ at \in Nat /\ PlaceOK(u)
        /\ Pages(r) \in Seq(PageIds)
    BY <2>1, DestroyFrame
  <2>3. tls_array' = tls_array /\ page' = Release(p)
    BY <1>6 DEF DestroyPage, PageOf, Pages
  <2>4. at < Len(Pages(r)) BY <2>1, <2>2 DEF PlaceOK
  <2>5. at + 1 \in 1 .. Len(Pages(r)) /\ p \in PageIds /\ at < at + 1
    BY <2>2, <2>4
  <2>6. Copy \notin Slots BY HoldersCount
  <2>7. r \in Holders(p)
    <3>1. ASSUME NEW v \in Threads, frame[v].op = "destroy" PROVE v = u
      <4>1. frame[u].op = "destroy" => \A w \in Threads : w # u => frame[w].op \in {"none", "read"}
        BY DestroyFrame
      <4> QED BY <2>1, <3>1, <4>1
    <3>2. Holds(r, p)
      BY <2>5, <3>1 DEF Holds
    <3> QED BY <2>2, <2>6, <3>2 DEF Holders
  <2> HIDE DEF p
  <2>8. p \in Mapped BY <1>0, <2>5, <2>7, HeldMapped
  <2>9. /\ page[p].reference_count > 1 => page'[p].data = page[p].data
        /\ \A q \in PageIds : q # p => page'[q] = page[q]
    BY <1>0, <2>3, <2>8, ReleasedPage
  <2>10. ASSUME NEW i \in 1 .. Len(Pages(s))
         PROVE  page'[Pages(s)[i]].data = page[Pages(s)[i]].data
    <3> DEFINE q == Pages(s)[i]
    <3>1. q \in PageIds BY <1>0, <2>2 DEF Types, Storage, Pages
    <3>2. Holds(s, q)
      <4>1. \A v \in Threads : ~(frame[v].op = "destroy" /\ frame[v].slot = s)
        <5>1. \A w \in Threads : w # u => frame[w].op \in {"none", "read"}
          BY <2>1, DestroyFrame
        <5> QED BY <2>2, <5>1
      <4> QED BY <4>1 DEF Holds
    <3>3. s \in Holders(q) BY <2>2, <2>6, <3>2 DEF Holders
    <3> HIDE DEF q
    <3>4. CASE q # p BY <2>9, <3>1, <3>4 DEF q
    <3>5. CASE q = p
      <4>1. page[p].reference_count > 1 BY <1>0, <2>2, <2>5, <2>7, <3>3, <3>5, TwoHolders
      <4> QED BY <2>9, <3>5, <4>1 DEF q
    <3> QED BY <3>4, <3>5
  <2> QED BY <1>3, <2>3, <2>10
<1> QED BY <1>2, <1>4, <1>5, <1>6

\* The page of a byte, and its place there.
LEMMA PageOfByte ==
  ASSUME NEW x \in Nat, NEW p \in Nat, NEW k \in Nat \ {0}, p * k <= x, x < (p + 1) * k
  PROVE  x \div k = p /\ x % k = x - p * k
<1> DEFINE q == x \div k
           r == x % k
<1>1. /\ q \in Nat /\ r \in 0 .. k - 1 /\ x = q * k + r
      /\ \A i \in Int : i * k <= x <=> i <= q
  BY Division
<1> HIDE DEF q, r
<1>2. p <= q
  BY <1>1
<1>3. ~(p + 1 <= q)
  <2>1. p + 1 \in Int /\ (p + 1) * k \in Nat BY SMT
  <2>2. ~((p + 1) * k <= x) BY <2>1
  <2> QED BY <1>1, <2>1, <2>2
<1>4. q = p
  BY <1>1, <1>2, <1>3
<1>5. p * k \in Nat
  BY SMT
<1> QED BY <1>1, <1>4, <1>5 DEF q, r

\* A byte of the request, while the bytes of all pages stay.
LEMMA SameByte ==
  ASSUME TLSInv, NEW t \in Threads, frame[t].op = "read", NEW j \in 0 .. frame[t].length - 1,
         UNCHANGED tls_array, \A q \in PageIds : page'[q].data = page[q].data,
         NEW g, g.slot = frame[t].slot, g.offset = frame[t].offset, frame'[t] = g
  PROVE  ByteAt(frame[t].slot, frame[t].offset + j)' = ByteAt(g.slot, g.offset + j)
<1> DEFINE x == frame[t].offset + j
           i == (x \div PageSize) + 1
           s == frame[t].slot
<1>1. s \in Slots /\ i \in 1 .. Len(Pages(s))
  BY RequestedByte
<1>2. PageOf(s, x \div PageSize) \in PageIds
  <2>1. Pages(s) \in Seq(PageIds) BY <1>1 DEF TLSInv, Types, Storage, Pages
  <2> QED BY <1>1, <2>1 DEF PageOf, Pages
<1>3. ByteAt(frame[t].slot, frame[t].offset + j)'
        = page'[PageOf(s, x \div PageSize)].data[x % PageSize]
  BY DEF ByteAt, PageOf
<1> QED BY <1>2, <1>3 DEF ByteAt

\* A read begins with nothing copied.
LEMMA ReadBegins ==
  ASSUME Orderly, TLSInv, NEW t \in Threads, ReadCall(t)
  PROVE  ReadSoFar(t)'
<1>1. PICK r \in Requests :
        Call(t, "read", [op |-> "read", pc |-> "read_open", slot |-> OwnSlot(t),
                         offset |-> r[1], length |-> r[2], at |-> r[1] \div PageSize,
                         buffer |-> [k \in 0 .. r[2] |-> NoByte]])
  BY DEF ReadCall
<1> DEFINE g == [op |-> "read", pc |-> "read_open", slot |-> OwnSlot(t),
                 offset |-> r[1], length |-> r[2], at |-> r[1] \div PageSize,
                 buffer |-> [k \in 0 .. r[2] |-> NoByte]]
           off == r[1]
           k == PageSize
<1>2. g.pc = "read_open" /\ g.offset = off /\ g.length = r[2] /\ g.at = off \div k
  OBVIOUS
<1>3. frame'[t] = g
  BY <1>1 DEF Call, TLSInv, Types
<1>4. off \in Nat /\ r[2] \in Nat /\ k \in Nat \ {0}
  BY RequestsAssumption, PageSizeAssumption
<1> HIDE DEF g, off, k
<1>5. (off \div k) * k \in Nat /\ (off \div k) * k <= off
  BY <1>4, Division
<1>6. ASSUME NEW j \in 0 .. r[2] - 1 PROVE ~(off + j < (off \div k) * k)
  BY <1>4, <1>5
<1>7. Ahead(g) = off \div k
  BY <1>2 DEF Ahead
<1> QED BY <1>2, <1>3, <1>6, <1>7 DEF ReadSoFar, k

\* Making the page readable copies nothing.
LEMMA ReadOpens ==
  ASSUME TLSInv, NEW t \in Threads, ReadSoFar(t), ReadOpen(t)
  PROVE  ReadSoFar(t)'
<1>0. /\ frame[t].pc = "read_open" /\ Types /\ UNCHANGED tls_array
  BY DEF ReadOpen, At, TLSInv
<1>1. frame[t].op = "read"
  BY <1>0, StepKinds
<1> DEFINE g == [frame[t] EXCEPT !.pc = "read_copy"]
<1>2. /\ page' = [page EXCEPT ![Here(t)].prot = "READ"]
      /\ frame' = [frame EXCEPT ![t] = g]
  BY <1>1, ReadFrame DEF ReadOpen, MProtect
<1>3. /\ g.pc = "read_copy" /\ g.op = "read" /\ g.slot = frame[t].slot /\ g.at = frame[t].at
      /\ g.offset = frame[t].offset /\ g.length = frame[t].length /\ g.buffer = frame[t].buffer
  BY <1>1, ReadFrame DEF ReadFrames
<1> HIDE DEF g
<1>4. frame'[t] = g
  BY <1>0, <1>2 DEF Types
<1>5. \A q \in PageIds : page'[q].data = page[q].data
  <2>1. Types /\ Counted /\ Here(t) \in Mapped BY <1>1, ReadFrame
  <2> QED BY <1>2, <2>1, ProtectedPage
<1>6. ASSUME NEW j \in 0 .. frame[t].length - 1
      PROVE  ByteAt(frame[t].slot, frame[t].offset + j)' = ByteAt(g.slot, g.offset + j)
  BY <1>0, <1>1, <1>3, <1>4, <1>5, SameByte
<1>7. Ahead(g) = Ahead(frame[t])
  BY <1>0, <1>3 DEF Ahead
<1> QED BY <1>0, <1>1, <1>3, <1>4, <1>6, <1>7 DEF ReadSoFar

\* A piece of the request is copied to its place.
LEMMA ReadCopies ==
  ASSUME TLSInv, NEW t \in Threads, ReadSoFar(t), ReadCopy(t)
  PROVE  ReadSoFar(t)'
<1> DEFINE f == frame[t]
           b == Copied(f, f.at, page[Here(t)].data)
           g == [f EXCEPT !.pc = "read_close", !.buffer = b]
           k == PageSize
           off == f.offset
           at == f.at
           n == f.length
<1>0. /\ f.pc = "read_copy" /\ f.op = "read"
      /\ frame' = [frame EXCEPT ![t] = g]
      /\ UNCHANGED <<tls_array, page>>
  BY ReadCopyRuns
<1>1. /\ n \in Nat /\ f \in ReadFrames(n) /\ Types /\ PlaceOK(t)
  BY <1>0, ReadFrame
<1>2. at \in Nat /\ off \in Nat /\ FirstPage(f) <= at /\ at <= LastRead(f)
  BY <1>0, <1>1 DEF PlaceOK, ReadFrames
<1>3. \A j \in 0 .. n : b[j] =
        IF j \in To(f, at) .. To(f, at) + Count(f, at) - 1
        THEN page[Here(t)].data[(j - To(f, at)) + From(f, at)] ELSE f.buffer[j]
  BY <1>1 DEF Copied, ReadFrames
<1> HIDE DEF b
<1>4. /\ g.pc = "read_close" /\ g.op = "read" /\ g.slot = f.slot /\ g.at = at
      /\ g.offset = off /\ g.length = n /\ g.buffer = b
  BY <1>1 DEF ReadFrames
<1> HIDE DEF g
<1>5. frame'[t] = g
  BY <1>0, <1>1 DEF Types
<1>6. /\ \A j \in 0 .. n - 1 : j \in To(f, at) .. To(f, at) + Count(f, at) - 1
           <=> at * k <= off + j /\ off + j < (at + 1) * k
      /\ \A j \in Int : (j - To(f, at)) + From(f, at) = (off + j) - at * k
  BY <1>1, <1>2, Piece
<1>7. k \in Nat \ {0} /\ at * k \in Nat /\ (at + 1) * k = at * k + k
  BY <1>2, PageSizeAssumption
<1>8. ASSUME NEW j \in 0 .. n - 1, off + j < (at + 1) * k
      PROVE  b[j] = ByteAt(f.slot, off + j)
  <2> DEFINE x == off + j
  <2>1. j \in 0 .. n /\ j \in Int /\ x \in Nat BY <1>1, <1>2
  <2>2. CASE x < at * k
    <3>1. b[j] = f.buffer[j] BY <1>2, <1>3, <1>6, <1>7, <2>1, <2>2
    <3>2. Ahead(f) = at BY <1>0 DEF Ahead
    <3> QED BY <1>0, <2>2, <3>1, <3>2 DEF ReadSoFar
  <2>3. CASE at * k <= x
    <3> DEFINE d == page[Here(t)].data
    <3>1. b[j] = d[x - at * k]
      <4>1. j \in To(f, at) .. To(f, at) + Count(f, at) - 1 BY <1>6, <1>8, <2>3
      <4>2. b[j] = d[(j - To(f, at)) + From(f, at)] BY <1>3, <2>1, <4>1
      <4>3. (j - To(f, at)) + From(f, at) = x - at * k BY <1>6, <2>1
      <4> QED BY <4>2, <4>3
    <3>2. x \div k = at /\ x % k = x - at * k
      <4> HIDE DEF x, k, at
      <4>1. x \in Nat /\ at \in Nat /\ k \in Nat \ {0} /\ at * k \in Nat /\ (at + 1) * k = at * k + k
            /\ at * k <= x /\ x < (at + 1) * k
        BY <1>2, <1>7, <1>8, <2>1, <2>3 DEF x
      <4> QED BY <4>1, PageOfByte
    <3>3. ByteAt(f.slot, x) = d[x % k] BY <3>2 DEF ByteAt, Here
    <3> QED BY <3>1, <3>2, <3>3
  <2>4. x < at * k \/ at * k <= x BY <1>7, <2>1
  <2> QED BY <2>2, <2>3, <2>4
<1>9. Ahead(g) = at + 1
  BY <1>4 DEF Ahead
<1> HIDE DEF f, k, off, at, n
<1>10. ByteAt(g.slot, 0) = ByteAt(g.slot, 0) OBVIOUS
<1>11. \A s, x : ByteAt(s, x)' = ByteAt(s, x)
  BY <1>0 DEF ByteAt, PageOf
<1> QED BY <1>4, <1>5, <1>8, <1>9, <1>11 DEF ReadSoFar, k

\* A page is sealed when it has been copied from; after the last one the buffer is full.
LEMMA ReadCloses ==
  ASSUME TLSInv, NEW t \in Threads, ReadSoFar(t), ReadClose(t)
  PROVE  ReadSoFar(t)'
<1>0. /\ frame[t].pc = "read_close" /\ Types /\ UNCHANGED tls_array
  BY DEF ReadClose, At, TLSInv
<1>1. frame[t].op = "read"
  BY <1>0, StepKinds
<1> DEFINE f == frame[t]
           g == AfterPiece(t)
           last == LastRead(f)
<1>2. /\ page' = [page EXCEPT ![Here(t)].prot = "NONE"]
      /\ frame' = [frame EXCEPT ![t] = g]
  BY <1>1, ReadFrame DEF ReadClose, MProtect
<1>3. /\ f.length \in Nat /\ f \in ReadFrames(f.length) /\ f.at \in Nat /\ f.at <= last
  BY <1>1, ReadFrame DEF PlaceOK, ReadFrames
<1>4. last \in Nat
  BY <1>3, ReadPages
<1>5. /\ g.op = "read" /\ g.slot = f.slot /\ g.offset = f.offset /\ g.length = f.length
      /\ g.buffer = f.buffer
      /\ g.pc = "read_return" => g.at = last
      /\ Ahead(g) = f.at + 1
  <2>1. g = NextPage(f, "read_open", "read_return", last) BY DEF AfterPiece
  <2>2. f \in ReadFrames(f.length) /\ f.at \in Nat /\ f.at <= last /\ last \in Nat BY <1>3, <1>4
  <2> HIDE DEF g, f, last
  <2>3. CASE f.at < last
    <3> DEFINE next == f.at + 1
    <3>1. g = [f EXCEPT !.at = next, !.pc = "read_open"] BY <2>1, <2>3 DEF NextPage
    <3>2. next \in Nat /\ next = f.at + 1 BY <2>2
    <3> HIDE DEF next
    <3>3. /\ g.pc = "read_open" /\ g.op = "read" /\ g.slot = f.slot /\ g.offset = f.offset
          /\ g.length = f.length /\ g.at = next /\ g.buffer = f.buffer
      BY <2>2, <3>1, <3>2 DEF ReadFrames
    <3> QED BY <3>2, <3>3 DEF Ahead
  <2>4. CASE ~(f.at < last)
    <3>1. g = [f EXCEPT !.at = @, !.pc = "read_return"] BY <2>1, <2>4 DEF NextPage
    <3>2. /\ g.pc = "read_return" /\ g.op = "read" /\ g.slot = f.slot /\ g.offset = f.offset
          /\ g.length = f.length /\ g.at = f.at /\ g.buffer = f.buffer
      BY <2>2, <3>1 DEF ReadFrames
    <3>3. f.at = last BY <2>2, <2>4
    <3> QED BY <3>2, <3>3 DEF Ahead
  <2> QED BY <2>3, <2>4
<1>6. Ahead(f) = f.at + 1
  BY <1>0 DEF Ahead
<1> HIDE DEF g
<1>7. frame'[t] = g
  BY <1>0, <1>2 DEF Types
<1>8. \A q \in PageIds : page'[q].data = page[q].data
  <2>1. Types /\ Counted /\ Here(t) \in Mapped BY <1>1, ReadFrame
  <2> QED BY <1>2, <2>1, ProtectedPage
<1>9. ASSUME NEW j \in 0 .. f.length - 1
      PROVE  ByteAt(f.slot, f.offset + j)' = ByteAt(g.slot, g.offset + j)
  BY <1>0, <1>1, <1>5, <1>7, <1>8, SameByte
<1>10. LastRead(g) = last
  BY <1>5 DEF LastRead, LastWhole, FirstPage, End
<1> QED BY <1>1, <1>5, <1>6, <1>7, <1>9, <1>10 DEF ReadSoFar

\* A step moves nobody but the thread that takes it.
LEMMA OthersStay ==
  ASSUME Types, NEW u \in Threads, NEW t \in Threads, t # u,
         \/ CreateFind(u) \/ DestroyFind(u) \/ ReadCall(u) \/ WriteCall(u)
         \/ CloneCall(u) \/ Touch(u) \/ Step(u)
  PROVE  frame'[t] = frame[t]
<1>1. CASE CreateFind(u) \/ DestroyFind(u) \/ ReadCall(u) \/ WriteCall(u) \/ CloneCall(u)
  BY <1>1 DEF Types, CreateFind, DestroyFind, ReadCall, WriteCall, CloneCall, Call
<1>2. CASE Touch(u)
  BY <1>2 DEF Types, Touch, Fault
<1>3. CASE Step(u)
  BY <1>3 DEF Types, Step, CreateClaim, CreateFill, DestroyPage, DestroyRelease, ReadOpen,
     ReadCopy, ReadClose, ReadReturn, WriteEnter, WriteCopy, WriteSwap, WriteOpen, WriteByte,
     WriteClose, CloneLock, CloneFind, CloneClaim, CloneFill, CloneUnlock, MProtect, Fault,
     Goto, Return
<1> QED BY <1>1, <1>2, <1>3

\* A thread comes into tls_read only by calling it.
LEMMA ReadBeginsHere ==
  ASSUME TLSInv, NEW t \in Threads, frame[t].op # "read", frame'[t].op = "read",
         \/ CreateFind(t) \/ DestroyFind(t) \/ ReadCall(t) \/ WriteCall(t)
         \/ CloneCall(t) \/ Touch(t) \/ Step(t)
  PROVE  ReadCall(t)
<1>0. Types /\ frame \in [Threads -> Frames]
  BY DEF TLSInv, Types
<1>1. ~(CreateFind(t) \/ DestroyFind(t) \/ WriteCall(t) \/ CloneCall(t))
  BY <1>0 DEF CreateFind, DestroyFind, WriteCall, CloneCall, Call
<1>2. ~Touch(t)
  BY <1>0 DEF Touch, Fault
<1>3. ~(ReadOpen(t) \/ ReadCopy(t) \/ ReadClose(t) \/ ReadReturn(t))
  BY <1>0, StepKinds DEF ReadOpen, ReadCopy, ReadClose, ReadReturn, At
<1>4. Idle.op # "read"
  BY DEF Idle
<1>5. frame[t].op # "none" => "op" \in DOMAIN frame[t] /\ "pc" \in DOMAIN frame[t]
  BY <1>0, FrameKinds DEF CreateFrames, DestroyFrames, ReadFrames, WriteFrames, SearchFrames,
     CopyFrames
<1>6. ~(CreateClaim(t) \/ CreateFill(t) \/ DestroyRelease(t))
  BY <1>0, <1>4, <1>5, StepKinds DEF CreateClaim, CreateFill, DestroyRelease, At, Goto, Return
<1>7. ~DestroyPage(t)
  <2> SUFFICES ASSUME DestroyPage(t) PROVE FALSE
    OBVIOUS
  <2> DEFINE next == frame[t].at + 1
             pc == IF next < PageCount(frame[t].slot) THEN "destroy_page" ELSE "destroy_release"
             g == [frame[t] EXCEPT !.at = next, !.pc = pc]
  <2>1. frame' = [frame EXCEPT ![t] = g]
    BY <1>0 DEF DestroyPage
  <2>2. frame[t] \in DestroyFrames
    BY <1>0, StepKinds, FrameKinds DEF DestroyPage, At
  <2> HIDE DEF next, pc
  <2>3. g.op = "destroy" BY <2>2 DEF DestroyFrames
  <2> HIDE DEF g
  <2> QED BY <1>0, <2>1, <2>3
<1>8. ~(CloneLock(t) \/ CloneClaim(t) \/ CloneFill(t) \/ CloneUnlock(t))
  BY <1>0, <1>4, <1>5, StepKinds DEF CloneLock, CloneClaim, CloneFill, CloneUnlock, At, Goto, Return
<1>9. ~CloneFind(t)
  BY <1>0, <1>4 DEF CloneFind, Return
<1>10. ~(WriteEnter(t) \/ WriteOpen(t) \/ WriteClose(t))
  BY <1>0, <1>4, <1>5, StepKinds DEF WriteEnter, WriteOpen, WriteClose, MProtect, At, Return
<1>11. ~(WriteCopy(t) \/ WriteSwap(t))
  BY <1>0, <1>4, <1>5, StepKinds DEF WriteCopy, WriteSwap, At, Goto, Return
<1>12. ~WriteByte(t)
  <2> SUFFICES ASSUME WriteByte(t) PROVE FALSE
    OBVIOUS
  <2> DEFINE f == frame[t]
             pc == IF (f.at + 1) % PageSize = 0 THEN "write_enter" ELSE "write_byte"
             next == f.at + 1
  <2>1. frame' = [frame EXCEPT ![t] = AfterByte(f)] /\ f.op = "write" BY WriteByteRuns
  <2>2. f \in WriteFrames BY <1>0, <2>1, FrameKinds
  <2>3. AfterByte(f) = [f EXCEPT !.pc = "write_close"]
        \/ AfterByte(f) = [f EXCEPT !.at = next, !.pc = pc]
    BY DEF AfterByte
  <2> HIDE DEF f, pc, next
  <2>4. AfterByte(f).op = "write" BY <2>2, <2>3 DEF WriteFrames
  <2> QED BY <1>0, <2>1, <2>4
<1> QED BY <1>1, <1>2, <1>3, <1>6, <1>7, <1>8, <1>9, <1>10, <1>11, <1>12 DEF Step

\* Every step keeps what a read has copied.
LEMMA ReadInvStep ==
  ASSUME Orderly
  PROVE  TLSInv /\ ReadInv /\ [TLSNext]_tlsVars => ReadInv'
<1> SUFFICES ASSUME TLSInv, ReadInv, [TLSNext]_tlsVars, NEW t \in Threads
             PROVE  ReadSoFar(t)'
  BY DEF ReadInv
<1>0. ReadSoFar(t) /\ Types
  BY DEF ReadInv, TLSInv
<1>1. CASE UNCHANGED tlsVars
  <2>1. UNCHANGED <<tls_array, page, frame>> BY <1>1 DEF tlsVars
  <2>2. \A s, x : ByteAt(s, x)' = ByteAt(s, x) BY <2>1 DEF ByteAt, PageOf
  <2>3. LastRead(frame[t])' = LastRead(frame[t]) /\ Ahead(frame[t])' = Ahead(frame[t])
    BY <2>1 DEF LastRead, LastWhole, FirstPage, End, Ahead
  <2> QED BY <1>0, <2>1, <2>2, <2>3 DEF ReadSoFar
<1>2. CASE TLSNext
  <2>1. PICK u \in Threads :
          \/ CreateFind(u) \/ DestroyFind(u) \/ ReadCall(u) \/ WriteCall(u)
          \/ CloneCall(u) \/ Touch(u) \/ Step(u)
    BY <1>2, NoStray DEF TLSNext, TLSInv
  <2>2. CASE frame'[t].op # "read"
    BY <2>2 DEF ReadSoFar
  <2>3. CASE frame[t].op = "read" /\ u # t
    BY <1>0, <2>1, <2>3, ReadLeftAlone, ReadUndisturbed
  <2>4. CASE frame[t].op = "read" /\ u = t
    <3>1. frame[t].pc \in {"read_open", "read_copy", "read_close", "read_return"}
      BY <1>0, <2>4, StepKinds
    <3>2. ReadOpen(t) \/ ReadCopy(t) \/ ReadClose(t) \/ ReadReturn(t)
      BY <2>1, <2>4, <3>1 DEF CreateFind, DestroyFind, ReadCall, WriteCall, CloneCall, Call, Touch,
         Step, CreateClaim, CreateFill, DestroyPage, DestroyRelease, WriteEnter, WriteCopy,
         WriteSwap, WriteOpen, WriteByte, WriteClose, CloneLock, CloneFind, CloneClaim, CloneFill,
         CloneUnlock, At
    <3>3. CASE ReadReturn(t)
      BY <1>0, <3>3 DEF ReadReturn, Return, Idle, Types, ReadSoFar
    <3> QED BY <1>0, <3>2, <3>3, ReadOpens, ReadCopies, ReadCloses
  <2>5. CASE frame[t].op # "read" /\ frame'[t].op = "read"
    <3>1. u = t
      BY <1>0, <2>1, <2>5, OthersStay
    <3>2. ReadCall(t)
      BY <1>0, <2>1, <2>5, <3>1, ReadBeginsHere
    <3> QED BY <3>2, ReadBegins
  <2> QED BY <2>2, <2>3, <2>4, <2>5
<1> QED BY <1>1, <1>2

\* What tls_read hands back is what the thread's storage holds, over all pieces of the request
\* (283-332).
THEOREM ReadReturnsContentsHolds ==
  ASSUME Orderly
  PROVE  TLSSpec => []ReadReturnsContents
<1>1. TLSInit => ReadInv
  BY DEF TLSInit, ReadInv, ReadSoFar, Idle
<1>2. TLSInv /\ ReadInv /\ [TLSNext]_tlsVars => ReadInv'
  BY ReadInvStep
<1>3. TLSInv /\ ReadInv => ReadReturnsContents
  <2> SUFFICES ASSUME TLSInv, ReadInv, NEW t \in Threads, frame[t].pc = "read_return",
                      NEW j \in 0 .. frame[t].length - 1
               PROVE  frame[t].buffer[j] = Bytes(frame[t].slot)[frame[t].offset + j]
    BY DEF ReadReturnsContents
  <2> DEFINE f == frame[t]
             last == LastRead(f)
             k == PageSize
             x == f.offset + j
  <2>1. ReadSoFar(t) /\ Types BY DEF ReadInv, TLSInv
  <2>2. f.op = "read" BY <2>1, StepKinds
  <2>3. f.length \in Nat /\ f \in ReadFrames(f.length) BY <2>2, ReadFrame
  <2>4. last \in Nat /\ End(f) - 1 < (last + 1) * k BY <2>3, ReadPages
  <2>5. x <= End(f) - 1 /\ x \in Nat /\ End(f) \in Nat /\ (last + 1) * k \in Nat
    <3>1. f.offset \in Nat /\ j \in Nat /\ j <= f.length - 1 BY <2>3 DEF ReadFrames
    <3>2. (last + 1) * k \in Nat BY <2>4, PageSizeAssumption
    <3>3. End(f) = f.offset + f.length BY DEF End
    <3> HIDE DEF f, last, k
    <3> QED BY <2>3, <3>1, <3>2, <3>3
  <2>6. x < (last + 1) * k
    <3> HIDE DEF f, last, k, x
    <3> QED BY <2>4, <2>5
  <2>7. Ahead(f) = last + 1 BY <2>1, <2>2 DEF ReadSoFar, Ahead
  <2>8. f.buffer[j] = ByteAt(f.slot, x) BY <2>1, <2>2, <2>6, <2>7 DEF ReadSoFar
  <2>9. x \in 0 .. tls_array[f.slot].byte_count - 1 BY <2>2, RequestedByte
  <2>10. Bytes(f.slot)[x] = ByteAt(f.slot, x) BY <2>9 DEF Bytes, ByteAt
  <2> QED BY <2>8, <2>10
<1> QED BY <1>1, <1>2, <1>3, TLSInvariant, PTL DEF TLSSpec
=============================================================================
