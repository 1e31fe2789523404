---------------------------- MODULE ParserProofs ----------------------------
(***************************************************************************)
(* Proofs about Parser: what both versions of the scan make of a line,     *)
(* whatever its length.                                                    *)
(***************************************************************************)
EXTENDS Parser, FiniteSetTheorems, TLAPS
-----------------------------------------------------------------------------
(* The scan, one character at a time.                                      *)

\* A set of natural numbers that is not empty has a least element.
LEMMA LeastNatural ==
  ASSUME NEW S \in SUBSET Nat, S # {}
  PROVE  /\ Min(S) \in S
         /\ \A y \in S : Min(S) <= y
<1> DEFINE Below == {0 .. m : m \in S}
<1>1. Below \subseteq FiniteSubsetsOf(Nat)
  <2>1. ASSUME NEW m \in S PROVE 0 .. m \in FiniteSubsetsOf(Nat)
    <3>1. IsFiniteSet(0 .. m)
      <4>1. m \in Int /\ 0 \in Int OBVIOUS
      <4> QED BY <4>1, FS_Interval
    <3> QED BY <3>1 DEF FiniteSubsetsOf
  <2> QED BY <2>1
<1>2. PICK B \in Below : \A C \in Below : ~ (<<C, B>> \in StrictSubsetOrdering(Nat))
  <2>1. Below # {} OBVIOUS
  <2> HIDE DEF Below
  <2> QED BY <1>1, <2>1, FS_StrictSubsetOrderingWellFounded, WFMin
<1>3. PICK m \in S : B = 0 .. m
  OBVIOUS
<1>4. ASSUME NEW y \in S, y < m PROVE FALSE
  <2>1. 0 .. y \in Below OBVIOUS
  <2>2. 0 .. y \subseteq 0 .. m /\ m \notin 0 .. y /\ m \in 0 .. m
    BY <1>4
  <2>3. <<0 .. y, 0 .. m>> \in StrictSubsetOrdering(Nat)
    BY <2>2 DEF StrictSubsetOrdering
  <2> QED BY <1>2, <1>3, <2>1, <2>3
<1>5. \A y \in S : m <= y
  BY <1>4
<1> QED BY <1>5 DEF Min

\* An interval from one is without its greatest element the shorter one.
LEMMA Initial ==
  ASSUME NEW k \in Nat, k > 0
  PROVE  1 .. k # {} /\ Max(1 .. k) = k /\ (1 .. k) \ {k} = 1 .. k - 1
<1>1. k \in 1 .. k /\ \A y \in 1 .. k : k >= y
  OBVIOUS
<1>2. \A x \in 1 .. k : (\A y \in 1 .. k : x >= y) => x = k
  OBVIOUS
<1> QED
  BY <1>1, <1>2 DEF Max

\* One turn of the recursion that folds the scan over a line.
Turn(strict, text, g, s) ==
  IF s = {} THEN Start ELSE Scan(strict, g[s \ {Max(s)}], text[Max(s)])

\* The fold is a function that solves its recursive equation.
LEMMA ScannedIsIterated ==
  ASSUME NEW strict, NEW text
  PROVE  Scanned(strict, text) =
           (CHOOSE g : g = [s \in SUBSET DOMAIN text |-> Turn(strict, text, g, s)])[DOMAIN text]
BY DEF Scanned, FoldLeft, MapThenFoldSet, Turn

\* The equation has a solution.
LEMMA TurnsExist ==
  ASSUME NEW strict, NEW text, NEW n \in Nat, DOMAIN text = 1 .. n
  PROVE  \E g : g = [s \in SUBSET (1 .. n) |-> Turn(strict, text, g, s)]
<1> DEFINE Part(m) == {s \in SUBSET (1 .. n) : Cardinality(s) <= m}
           Upto(m) == \E g : g = [s \in Part(m) |-> Turn(strict, text, g, s)]
           Bad == {m \in Nat : ~Upto(m)}
<1>1. IsFiniteSet(1 .. n) /\ Cardinality(1 .. n) = n
  BY FS_Interval
<1>2. \A s \in SUBSET (1 .. n) : /\ IsFiniteSet(s) /\ Cardinality(s) \in Nat
                                 /\ Cardinality(s) <= n
  BY <1>1, FS_Subset, FS_CardinalityType
<1>3. \A s \in SUBSET (1 .. n) : s # {} =>
        /\ Max(s) \in s
        /\ s \ {Max(s)} \in SUBSET (1 .. n)
        /\ Cardinality(s \ {Max(s)}) = Cardinality(s) - 1
  <2> SUFFICES ASSUME NEW s \in SUBSET (1 .. n), s # {}
               PROVE  /\ Max(s) \in s
                      /\ Cardinality(s \ {Max(s)}) = Cardinality(s) - 1
    OBVIOUS
  <2>1. Max(s) \in s
    <3> DEFINE Up == {m \in Nat : \A y \in s : m >= y}
    <3>1. n \in Up /\ Up \subseteq Nat
      OBVIOUS
    <3>2. PICK m \in Up : \A y \in Up : m <= y
      BY <3>1, LeastNatural
    <3>3. m \in s
      <4>1. CASE m = 0
        <5>1. PICK y \in s : TRUE
          OBVIOUS
        <5>2. y \in 1 .. n /\ y <= 0
          BY <4>1, <3>2
        <5> QED
          BY <5>2
      <4>2. CASE m > 0 /\ m \notin s
        <5>1. m - 1 \in Up
          BY <4>2, <3>2
        <5> QED
          BY <5>1, <3>2
      <4> QED
        BY <4>1, <4>2, <3>2
    <3> QED
      BY <3>2, <3>3 DEF Max
  <2> QED
    BY <2>1, <1>2, FS_RemoveElement
<1>4. \A m \in Nat : Upto(m)
  <2> SUFFICES ASSUME Bad # {} PROVE FALSE
    OBVIOUS
  <2>1. PICK m \in Bad : \A y \in Bad : m <= y
    <3>1. Bad \in SUBSET Nat
      OBVIOUS
    <3> HIDE DEF Bad
    <3> QED
      BY <3>1, LeastNatural
  <2>2. CASE m = 0
    <3>1. \A s \in Part(0) : s = {}
      BY <1>2, FS_EmptySet
    <3> DEFINE g == [s \in Part(0) |-> Start]
    <3>2. g = [s \in Part(0) |-> Turn(strict, text, g, s)]
      BY <3>1 DEF Turn
    <3>3. Upto(0)
      BY <3>2
    <3> QED
      BY <2>1, <2>2, <3>3
  <2>3. CASE m > 0
    <3>1. Upto(m - 1)
      <4>1. m - 1 \in Nat /\ ~(m <= m - 1)
        BY <2>1, <2>3
      <4>2. m - 1 \notin Bad
        BY <2>1, <4>1
      <4> QED
        BY <4>1, <4>2
    <3>2. PICK g : g = [s \in Part(m - 1) |-> Turn(strict, text, g, s)]
      BY <3>1
    <3> DEFINE h == [s \in Part(m) |-> Turn(strict, text, g, s)]
    <3>3. \A s \in Part(m - 1) : s \in Part(m)
      BY <1>2
    <3>4. \A s \in Part(m - 1) : h[s] = g[s]
      BY <3>2, <3>3
    <3>5. \A s \in Part(m) : s # {} => s \ {Max(s)} \in Part(m - 1)
      BY <1>2, <1>3
    <3>6. \A s \in Part(m) : Turn(strict, text, g, s) = Turn(strict, text, h, s)
      <4> HIDE DEF h, Part
      <4> QED
        BY <3>4, <3>5 DEF Turn
    <3>7. h = [s \in Part(m) |-> Turn(strict, text, h, s)]
      BY <3>6
    <3>8. Upto(m)
      BY <3>7
    <3> QED
      BY <2>1, <3>8
  <2> QED
    BY <2>1, <2>2, <2>3
<1>5. Part(n) = SUBSET (1 .. n)
  BY <1>2
<1>6. Upto(n)
  BY <1>4
<1> QED
  BY <1>5, <1>6

\* What every turn of the scan carries from one set of states into the next,
\* starting with the first, is true of the end: the induction over a line.
LEMMA ScanCarries ==
  ASSUME NEW strict, NEW text, NEW n \in Nat, DOMAIN text = 1 .. n,
         NEW States, Start \in States[0],
         \A k \in 1 .. n : \A s \in States[k - 1] : Scan(strict, s, text[k]) \in States[k]
  PROVE  Scanned(strict, text) \in States[n]
<1> DEFINE g == CHOOSE f : f = [s \in SUBSET (1 .. n) |-> Turn(strict, text, f, s)]
           Bad == {k \in 0 .. n : g[1 .. k] \notin States[k]}
<1>1. g = [s \in SUBSET (1 .. n) |-> Turn(strict, text, g, s)]
  BY TurnsExist
<1>2. Scanned(strict, text) = g[1 .. n]
  BY ScannedIsIterated
<1> HIDE DEF g
<1>3. g[{}] = Start
  BY <1>1 DEF Turn
<1>4. \A k \in 1 .. n : g[1 .. k] = Scan(strict, g[1 .. k - 1], text[k])
  <2> SUFFICES ASSUME NEW k \in 1 .. n
               PROVE  g[1 .. k] = Scan(strict, g[1 .. k - 1], text[k])
    OBVIOUS
  <2>1. 1 .. k \in SUBSET (1 .. n)
    OBVIOUS
  <2>2. g[1 .. k] = Turn(strict, text, g, 1 .. k)
    BY <1>1, <2>1
  <2>3. 1 .. k # {} /\ Max(1 .. k) = k /\ (1 .. k) \ {k} = 1 .. k - 1
    <3>1. k \in Nat /\ k > 0
      OBVIOUS
    <3> QED
      BY <3>1, Initial
  <2> QED
    BY <2>2, <2>3 DEF Turn
<1>5. Bad = {}
  <2> SUFFICES ASSUME Bad # {} PROVE FALSE
    OBVIOUS
  <2>1. PICK k \in Bad : \A y \in Bad : k <= y
    <3>1. Bad \in SUBSET Nat
      OBVIOUS
    <3> HIDE DEF Bad
    <3> QED
      BY <3>1, LeastNatural
  <2>2. k # 0
    <3>1. 1 .. 0 = {}
      OBVIOUS
    <3> QED
      BY <3>1, <1>3, <2>1
  <2>3. k - 1 \in 0 .. n /\ k - 1 \notin Bad /\ k \in 1 .. n
    BY <2>1, <2>2
  <2>4. g[1 .. k - 1] \in States[k - 1]
    BY <2>3
  <2> QED
    BY <1>4, <2>1, <2>3, <2>4
<1> QED
  BY <1>2, <1>5

-----------------------------------------------------------------------------
(* What the scan makes is a pipeline, and its arguments fit.               *)

Places == Nat \X Nat

Commands == [args : Seq(Places), in : Places, out : Places]

Blocks == {"pipeline", "command", "word"} \X Nat \X Nat

Scans == [current_index : Nat, begin_index : Nat, redirect_mode : AnyMode,
          commands : Seq(Commands), is_background : BOOLEAN, contain_in : BOOLEAN,
          contain_out : BOOLEAN, status : {"scanning", "ended", "refused"},
          heap : SUBSET Blocks]

\* Every argument takes a character of the line and one that ends it.
Fits(s, n) == \A c \in DOMAIN s.commands : 2 * Len(s.commands[c].args) <= n

ScansTo(k) ==
  {s \in Scans :
     /\ Len(s.commands) > 0
     /\ s.begin_index <= s.current_index
     /\ IF s.status = "scanning"
        THEN s.current_index = k /\ Fits(s, s.begin_index)
        ELSE s.current_index <= k /\ Fits(s, k)}

\* The scan starts with one command that has no words.
LEMMA StartTyped == Start \in ScansTo(0)
<1>1. EmptyCommand \in Commands
  BY DEF EmptyCommand, Commands, Places, NoWord
<1>2. Start \in Scans
  BY <1>1 DEF Start, Scans, AnyMode, Blocks
<1>3. /\ Start.commands = <<EmptyCommand>> /\ Start.current_index = 0
      /\ Start.begin_index = 0 /\ Start.status = "scanning"
  BY DEF Start
<1>4. Len(EmptyCommand.args) = 0
  BY DEF EmptyCommand
<1>5. Fits(Start, 0) /\ Len(Start.commands) = 1
  BY <1>3, <1>4 DEF Fits
<1> DEFINE first == Start
<1>6. /\ first \in Scans /\ Len(first.commands) > 0 /\ Fits(first, first.begin_index)
      /\ first.current_index = 0 /\ first.begin_index = 0 /\ first.status = "scanning"
  BY <1>2, <1>3, <1>5
<1> HIDE DEF first
<1>7. first \in ScansTo(0)
  BY <1>6 DEF ScansTo
<1> QED
  BY <1>7 DEF first

\* e is s after a word has ended at k, if there was one.
WordEnded(s, e, k) ==
  /\ e \in Scans
  /\ Len(e.commands) = Len(s.commands)
  /\ e.current_index = k /\ e.begin_index = s.begin_index
  /\ e.status \in {"scanning", "refused"}
  /\ e.is_background = s.is_background
  /\ e.contain_in = s.contain_in /\ e.contain_out = s.contain_out
  /\ Fits(e, k + 1)

\* Ending a word leaves the place of the scan alone, and gives one command at most
\* one word more.
LEMMA EndWordTyped ==
  ASSUME NEW strict, NEW k \in Nat, NEW s \in ScansTo(k), s.status = "scanning",
         NEW modes \in SUBSET AnyMode
  PROVE  WordEnded(s, EndWord(strict, s, modes), k)
<1> DEFINE e == EndWord(strict, s, modes)
           n == Len(s.commands)
<1> SUFFICES WordEnded(s, e, k)
  OBVIOUS
<1>1. s \in Scans /\ n \in Nat /\ n > 0 /\ s.current_index = k /\ Fits(s, s.begin_index)
  BY DEF ScansTo, Scans
<1>2. s.begin_index \in Nat /\ s.begin_index <= k
  BY DEF ScansTo, Scans
<1>3. Fits(s, k + 1)
  <2>1. \A c \in DOMAIN s.commands : Len(s.commands[c].args) \in Nat
    BY <1>1 DEF Scans, Commands
  <2> QED
    BY <1>1, <1>2, <2>1 DEF Fits
<1>4. CASE e = s
  BY <1>1, <1>3, <1>4 DEF WordEnded
<1>5. CASE e = Refuse(s)
  BY <1>1, <1>3, <1>5 DEF Refuse, Scans, Fits, WordEnded
<1>6. CASE s.begin_index < k /\ e \notin {s, Refuse(s)}
  <2>1. Copied(s) \in Places
    BY <1>1, <1>2 DEF Copied, Places
  <2> DEFINE a == Allocate(s)
  <2>2. /\ a \in Scans
        /\ a.commands = s.commands /\ a.current_index = k /\ a.begin_index = s.begin_index
        /\ a.status = "scanning" /\ a.is_background = s.is_background
        /\ a.contain_in = s.contain_in /\ a.contain_out = s.contain_out
    BY <1>1, <2>1 DEF Allocate, Word, Scans, Blocks, Places
  <2> HIDE DEF a
  <2> DEFINE c == s.commands[n]
  <2>3. c \in Commands
    BY <1>1 DEF Scans
  <2> HIDE DEF c
  <2>4. CASE e = AddArgument(s)
    <3> DEFINE d == [c EXCEPT !.args = Append(@, Copied(s))]
    <3>1. e = [a EXCEPT !.commands = [s.commands EXCEPT ![n] = d]]
      BY <1>6, <2>4 DEF AddArgument, LastCommand, c, a, Allocate
    <3>2. d \in Commands /\ Len(d.args) = Len(c.args) + 1
      BY <2>1, <2>3 DEF Commands
    <3>3. 2 * Len(c.args) <= s.begin_index /\ Len(c.args) \in Nat
      BY <1>1, <2>3 DEF Fits, c, Commands
    <3> HIDE DEF d, e
    <3> DEFINE new == [s.commands EXCEPT ![n] = d]
    <3>4. new \in Seq(Commands) /\ Len(new) = n
      BY <1>1, <3>2 DEF Scans
    <3>5. \A i \in DOMAIN new : 2 * Len(new[i].args) <= k + 1
      BY <1>1, <1>2, <1>3, <1>6, <3>2, <3>3 DEF Fits, Scans
    <3> HIDE DEF new
    <3> QED
      BY <2>2, <3>1, <3>4, <3>5 DEF Scans, Fits, WordEnded, new
  <2>5. CASE e # AddArgument(s)
    <3>1. PICK d \in Commands :
            /\ e = [a EXCEPT !.commands = [s.commands EXCEPT ![n] = d],
                                       !.redirect_mode = "arg"]
            /\ d.args = c.args
      <4>1. CASE e = SetRedirectIn(strict, s)
        <5> DEFINE d == [c EXCEPT !.in = Copied(s)]
        <5>1. e = [a EXCEPT !.commands = [s.commands EXCEPT ![n] = d],
                                      !.redirect_mode = "arg"]
          BY <1>6, <4>1 DEF SetRedirectIn, LastCommand, c, a, Allocate
        <5>2. d \in Commands /\ d.args = c.args
          BY <2>1, <2>3 DEF Commands
        <5> HIDE DEF d, e
        <5> QED
          BY <5>1, <5>2
      <4>2. CASE e = SetRedirectOut(s)
        <5> DEFINE d == [c EXCEPT !.out = Copied(s)]
        <5>1. e = [a EXCEPT !.commands = [s.commands EXCEPT ![n] = d],
                                      !.redirect_mode = "arg"]
          BY <4>2 DEF SetRedirectOut, LastCommand, c, a, Allocate
        <5>2. d \in Commands /\ d.args = c.args
          BY <2>1, <2>3 DEF Commands
        <5> HIDE DEF d, e
        <5> QED
          BY <5>1, <5>2
      <4> QED
        BY <1>1, <1>6, <2>5, <4>1, <4>2 DEF EndWord, Scans, AnyMode
    <3> HIDE DEF e
    <3> DEFINE new == [s.commands EXCEPT ![n] = d]
    <3>2. new \in Seq(Commands) /\ Len(new) = n
      BY <1>1, <3>1 DEF Scans
    <3>3. \A i \in DOMAIN new : 2 * Len(new[i].args) <= k + 1
      BY <1>1, <1>3, <3>1 DEF Fits, Scans, c
    <3> HIDE DEF new
    <3> QED
      BY <2>2, <3>1, <3>2, <3>3 DEF Scans, Fits, AnyMode, WordEnded, new
  <2> QED
    BY <2>4, <2>5
<1>7. s.begin_index < k \/ e = s
  BY <1>1, <1>2 DEF EndWord
<1> QED
  BY <1>4, <1>5, <1>6, <1>7

\* r is what a turn has made before the scan moves on from k.
Turned(r, k) ==
  /\ r \in Scans
  /\ Len(r.commands) > 0
  /\ r.current_index = k
  /\ IF r.status = "scanning"
     THEN r.begin_index <= k + 1 /\ Fits(r, r.begin_index)
     ELSE r.begin_index <= k + 1 /\ Fits(r, k + 1)

\* A turn that begins the next word fits.
LEMMA PastTurned ==
  ASSUME NEW k \in Nat, NEW e \in Scans, Len(e.commands) > 0, e.current_index = k,
         Fits(e, k + 1)
  PROVE  Turned(Past(e), k)
<1> DEFINE r == Past(e)
<1>1. /\ r \in Scans /\ r.commands = e.commands /\ r.current_index = k
      /\ r.begin_index = k + 1
  BY DEF Past, Scans
<1>2. Fits(r, k + 1)
  BY <1>1 DEF Fits
<1> HIDE DEF r
<1>3. Turned(r, k)
  BY <1>1, <1>2 DEF Turned
<1> QED
  BY <1>3 DEF r

\* A bar adds a command without words.
LEMMA CommandAdded ==
  ASSUME NEW k \in Nat, NEW e \in Scans, Len(e.commands) > 0, e.current_index = k,
         Fits(e, k + 1)
  PROVE  LET a == AddCommand(e)
         IN  /\ a \in Scans /\ Len(a.commands) > 0 /\ a.current_index = k
             /\ Fits(a, k + 1)
<1>1. CASE e.status = "refused"
  BY <1>1 DEF AddCommand
<1>2. CASE e.status # "refused"
  <2> DEFINE n == Len(e.commands) + 1
             new == Append(e.commands, EmptyCommand)
  <2>1. EmptyCommand \in Commands /\ Len(EmptyCommand.args) = 0
    BY DEF EmptyCommand, Commands, Places, NoWord
  <2>2. e.commands \in Seq(Commands) /\ e.heap \in SUBSET Blocks
    BY DEF Scans
  <2>3. n \in Nat /\ n > 1 /\ new \in Seq(Commands) /\ Len(new) = n
    BY <2>1, <2>2
  <2>4. \A c \in DOMAIN new : 2 * Len(new[c].args) <= k + 1
    <3>1. \A c \in DOMAIN new : c \in DOMAIN e.commands \/ c = n
      BY <2>1, <2>2
    <3>2. \A c \in DOMAIN e.commands : new[c] = e.commands[c]
      BY <2>1, <2>2
    <3>3. new[n] = EmptyCommand
      BY <2>1, <2>2
    <3> HIDE DEF new, n
    <3> QED
      BY <2>1, <3>1, <3>2, <3>3 DEF Fits
  <2>5. AddCommand(e) = [e EXCEPT !.commands = new,
                                  !.heap = @ \cup {<<"command", n, 0>>}]
    BY <1>2 DEF AddCommand, LastCommand
  <2>6. e.heap \cup {<<"command", n, 0>>} \in SUBSET Blocks
    BY <2>2, <2>3 DEF Blocks
  <2> HIDE DEF new, n
  <2> DEFINE a == AddCommand(e)
  <2>7. a \in Scans /\ a.commands = new /\ a.current_index = k
    BY <2>3, <2>5, <2>6 DEF Scans
  <2> HIDE DEF a
  <2>8. Len(a.commands) > 0 /\ Fits(a, k + 1)
    BY <2>3, <2>4, <2>7 DEF Fits
  <2> QED
    BY <2>7, <2>8 DEF a
<1> QED
  BY <1>1, <1>2

\* A turn of the scan, whatever the character, keeps to what can be scanned so far.
LEMMA ScanTyped ==
  ASSUME NEW strict, NEW k \in Nat, NEW s \in ScansTo(k), NEW c \in Characters
  PROVE  Scan(strict, s, c) \in ScansTo(k + 1)
<1>1. s \in Scans /\ Len(s.commands) > 0
  BY DEF ScansTo
<1>2. CASE s.status # "scanning"
  <2>1. Scan(strict, s, c) = s
    BY <1>2 DEF Scan
  <2>2. Fits(s, k + 1) /\ s.current_index <= k + 1
    <3>1. \A i \in DOMAIN s.commands : Len(s.commands[i].args) \in Nat
      BY <1>1 DEF Scans, Commands
    <3>2. Fits(s, k) /\ s.current_index <= k /\ s.current_index \in Nat
      BY <1>2 DEF ScansTo, Scans
    <3> QED
      BY <3>1, <3>2 DEF Fits
  <2> QED
    BY <1>2, <2>1, <2>2 DEF ScansTo
<1>3. CASE s.status = "scanning"
  <2>1. s.current_index = k /\ s.begin_index \in Nat /\ s.begin_index <= k
    BY <1>3 DEF ScansTo, Scans
  <2>2. Fits(s, s.begin_index) /\ Fits(s, k + 1)
    <3>1. \A i \in DOMAIN s.commands : Len(s.commands[i].args) \in Nat
      BY <1>1 DEF Scans, Commands
    <3>2. Fits(s, s.begin_index)
      BY <1>3 DEF ScansTo
    <3> QED
      BY <2>1, <3>1, <3>2 DEF Fits
  <2>3. \A modes \in SUBSET AnyMode :
          LET e == EndWord(strict, s, modes)
          IN  /\ e \in Scans /\ Len(e.commands) > 0 /\ e.current_index = k
              /\ e.begin_index = s.begin_index
              /\ Fits(e, k + 1) /\ e.status \in {"scanning", "refused"}
    BY <1>1, <1>3, EndWordTyped DEF WordEnded
  <2>4. Turned(Refuse(s), k)
    BY <1>1, <2>1, <2>2 DEF Turned, Refuse, Scans, Fits
  <2>5. Turned(s, k)
    BY <1>1, <1>3, <2>1, <2>2 DEF Turned
  <2>6. Turned(Blank(strict, s), k)
    BY <2>3, PastTurned DEF Blank
  <2>7. Turned(Bar(strict, s), k)
    <3>1. Turned(Past(s), k)
      BY <1>1, <2>1, <2>2, PastTurned
    <3> DEFINE e == EndWord(strict, s, AnyMode)
    <3>2. /\ e \in Scans /\ Len(e.commands) > 0 /\ e.current_index = k
          /\ Fits(e, k + 1)
      BY <2>3
    <3> HIDE DEF e
    <3>3. Turned(Past(AddCommand(e)), k)
      BY <3>2, CommandAdded, PastTurned
    <3> QED
      BY <2>4, <3>1, <3>3 DEF Bar, e
  <2>8. ASSUME NEW modes \in SUBSET AnyMode, NEW r,
               LET e == EndWord(strict, s, modes)
               IN  \/ r = [e EXCEPT !.is_background = TRUE]
                   \/ r = [e EXCEPT !.redirect_mode = "in", !.contain_in = TRUE]
                   \/ r = [e EXCEPT !.redirect_mode = "out", !.contain_out = TRUE]
        PROVE  Turned(Past(r), k)
    <3> DEFINE e == EndWord(strict, s, modes)
    <3>1. /\ e \in Scans /\ Len(e.commands) > 0 /\ e.current_index = k
          /\ Fits(e, k + 1)
      BY <2>3
    <3>2. \/ r = [e EXCEPT !.is_background = TRUE]
          \/ r = [e EXCEPT !.redirect_mode = "in", !.contain_in = TRUE]
          \/ r = [e EXCEPT !.redirect_mode = "out", !.contain_out = TRUE]
      BY <2>8
    <3> HIDE DEF e
    <3>3. r \in Scans /\ r.commands = e.commands /\ r.current_index = k
      BY <3>1, <3>2 DEF Scans, AnyMode
    <3>4. Fits(r, k + 1)
      BY <3>1, <3>3 DEF Fits
    <3> QED
      BY <3>1, <3>3, <3>4, PastTurned
  <2>9. Turned(Ampersand(strict, s), k)
    BY <2>8 DEF Ampersand
  <2>10. Turned(Less(strict, s), k) /\ Turned(Greater(strict, s), k)
    BY <2>4, <2>8 DEF Less, Greater, AnyMode
  <2>11. Turned(Newline(strict, s), k)
    <3> DEFINE e == EndWord(strict, s, AnyMode)
               r == [e EXCEPT !.status = "ended"]
    <3>1. /\ e \in Scans /\ Len(e.commands) > 0 /\ e.current_index = k
          /\ e.begin_index = s.begin_index
          /\ Fits(e, k + 1) /\ e.status \in {"scanning", "refused"}
      BY <2>3
    <3> HIDE DEF e
    <3>2. Turned(r, k) /\ (e.status = "refused" => Turned(e, k))
      BY <2>1, <3>1 DEF Turned, Scans, Fits
    <3> QED
      BY <3>2 DEF Newline, e
  <2>12. ASSUME NEW r, Turned(r, k) PROVE Advance(r) \in ScansTo(k + 1)
    <3> DEFINE a == Advance(r)
    <3>1. /\ a \in Scans /\ a.commands = r.commands /\ a.current_index = k + 1
          /\ a.begin_index = r.begin_index /\ a.status = r.status
      BY <2>12 DEF Turned, Advance, Scans
    <3>2. \A m : Fits(r, m) => Fits(a, m)
      BY <3>1 DEF Fits
    <3> HIDE DEF a
    <3>3. a \in ScansTo(k + 1)
      BY <2>12, <3>1, <3>2 DEF Turned, ScansTo
    <3> QED
      BY <3>3 DEF a
  <2> QED
    BY <1>3, <2>5, <2>6, <2>7, <2>9, <2>10, <2>11, <2>12 DEF Scan, Characters
<1> QED
  BY <1>2, <1>3

\* The scan of a line makes a pipeline with a command and no more words than fit.
LEMMA ScannedTyped ==
  ASSUME NEW strict, NEW text \in Seq(Characters)
  PROVE  Scanned(strict, text) \in ScansTo(Len(text))
<1> DEFINE n == Len(text)
           States == [k \in 0 .. n |-> ScansTo(k)]
<1>1. n \in Nat /\ DOMAIN text = 1 .. n /\ \A k \in 1 .. n : text[k] \in Characters
  OBVIOUS
<1>2. Start \in States[0]
  BY <1>1, StartTyped
<1>3. \A k \in 1 .. n : \A s \in States[k - 1] : Scan(strict, s, text[k]) \in States[k]
  <2> SUFFICES ASSUME NEW k \in 1 .. n, NEW s \in ScansTo(k - 1)
               PROVE  Scan(strict, s, text[k]) \in ScansTo(k)
    BY <1>1
  <2>1. k - 1 \in Nat /\ (k - 1) + 1 = k
    OBVIOUS
  <2>2. Scan(strict, s, text[k]) \in ScansTo((k - 1) + 1)
    BY <1>1, <2>1, ScanTyped
  <2> QED
    BY <2>1, <2>2
<1> HIDE DEF n
<1>4. Scanned(strict, text) \in States[n]
  <2> HIDE DEF States
  <2> QED
    BY <1>1, <1>2, <1>3, ScanCarries
<1> QED
  BY <1>1, <1>4 DEF n

-----------------------------------------------------------------------------
(* The scan as the meaning of the characters before it.                     *)

\* fgets stops at the newline.
Whole(text) == \A i \in DOMAIN text : text[i] = "newline" => i = Len(text)

Until(text, c, k) == {i \in At(text, c) : i < k}

BarsUntil(text, k) == {i \in Bars(text) : i < k}

\* The words that have ended before k, and those of a command with a role.
Done(text, k) == {w \in Words(text) : w[2] < k}

DoneAs(text, k, c, role) ==
  {w \in Done(text, k) : CommandOf(text, w) = c /\ Role(text, w) = role}

\* The ordinary characters before k begin at b.
RunAt(text, b, k) ==
  /\ b \in Nat /\ b <= k
  /\ b .. k - 1 \subseteq At(text, "w")
  /\ b - 1 \notin At(text, "w")

\* The redirections that a word at b would be the first after, and its role.
Pending(text, b) ==
  {i \in At(text, "<") \cup At(text, ">") :
     i < b /\ \A v \in Words(text) : ~(i < v[1] /\ v[1] < b)}

ModeAt(text, b) ==
  IF Pending(text, b) = {} THEN "arg"
  ELSE IF Char(text, Max(Pending(text, b))) = "<" THEN "in" ELSE "out"

\* Words are pairs of places.
LEMMA WordPlaces ==
  ASSUME NEW text \in Seq(Characters), NEW w \in Words(text)
  PROVE  /\ w = <<w[1], w[2]>> /\ w[1] \in Nat /\ w[2] \in Nat
         /\ w[1] < w[2] /\ w[2] <= Len(text)
         /\ w[1] .. w[2] - 1 \subseteq At(text, "w")
         /\ w[2] \notin At(text, "w")
         /\ w[1] - 1 \notin At(text, "w")
BY DEF Words

\* Characters stand at one place each.
LEMMA Places1 ==
  ASSUME NEW text \in Seq(Characters), NEW c
  PROVE  /\ At(text, c) \subseteq Nat
         /\ \A i \in Nat : i < Len(text) => (i \in At(text, c) <=> Char(text, i) = c)
BY DEF At

\* The character at k is the only one that can come to those seen.
LEMMA UntilNext ==
  ASSUME NEW text \in Seq(Characters), NEW k \in Nat, k < Len(text), NEW c
  PROVE  /\ Char(text, k) = c => Until(text, c, k + 1) = Until(text, c, k) \cup {k}
         /\ Char(text, k) # c => Until(text, c, k + 1) = Until(text, c, k)
<1>1. At(text, c) \subseteq Nat /\ (k \in At(text, c) <=> Char(text, k) = c)
  BY Places1
<1>2. \A i \in Nat : i < k + 1 <=> i < k \/ i = k
  OBVIOUS
<1> QED
  BY <1>1, <1>2 DEF Until

\* An ordinary character ends no word.
LEMMA NoWordEnds ==
  ASSUME NEW text \in Seq(Characters), NEW k \in Nat, k < Len(text), Char(text, k) = "w"
  PROVE  Done(text, k + 1) = Done(text, k)
<1>1. k \in At(text, "w")
  BY Places1
<1>2. \A w \in Words(text) : w[2] \in Nat /\ w[2] # k
  BY <1>1, WordPlaces
<1> QED
  BY <1>2 DEF Done

\* A delimiter that follows another one ends no word either.
LEMMA NothingEnds ==
  ASSUME NEW text \in Seq(Characters), NEW k \in Nat, k < Len(text), RunAt(text, k, k)
  PROVE  Done(text, k + 1) = Done(text, k)
<1>1. \A w \in Words(text) : w[2] \in Nat /\ w[2] # k
  <2> SUFFICES ASSUME NEW w \in Words(text), w[2] = k
               PROVE  FALSE
    BY WordPlaces
  <2>1. k - 1 \in w[1] .. w[2] - 1
    BY WordPlaces
  <2> QED
    BY <2>1, WordPlaces DEF RunAt
<1> QED
  BY <1>1 DEF Done

\* A delimiter after ordinary characters ends one word, which begins after all others.
LEMMA WordEnds ==
  ASSUME NEW text \in Seq(Characters), NEW k \in Nat, k < Len(text), Char(text, k) # "w",
         NEW b, RunAt(text, b, k), b < k
  PROVE  /\ <<b, k>> \in Words(text)
         /\ Done(text, k + 1) = Done(text, k) \cup {<<b, k>>}
         /\ \A v \in Done(text, k) : v[1] < b
         /\ \A v \in Words(text) : v[1] < k => v[1] <= b
<1>1. b \in Nat /\ b .. k - 1 \subseteq At(text, "w") /\ b - 1 \notin At(text, "w")
  BY DEF RunAt
<1>2. k \notin At(text, "w")
  BY Places1
<1>3. <<b, k>> \in Words(text)
  BY <1>1, <1>2 DEF Words
<1>4. ASSUME NEW v \in Words(text), v[1] < k PROVE v[1] <= b
  <2>1. CASE v[1] > b
    <3>1. v[1] - 1 \in b .. k - 1
      BY <1>1, <1>4, <2>1, WordPlaces
    <3> QED
      BY <1>1, <3>1, WordPlaces
  <2> QED
    BY <1>1, <2>1, WordPlaces
<1>5. ASSUME NEW v \in Words(text), v[2] = k PROVE v = <<b, k>>
  <2>1. v[1] <= b
    BY <1>4, <1>5, WordPlaces
  <2>2. CASE v[1] < b
    <3>1. b - 1 \in v[1] .. v[2] - 1
      BY <1>1, <1>5, <2>2, WordPlaces
    <3> QED
      BY <1>1, <3>1, WordPlaces
  <2> QED
    BY <1>1, <1>5, <2>1, <2>2, WordPlaces
<1>6. ASSUME NEW v \in Done(text, k) PROVE v[1] < b
  <2>1. v \in Words(text) /\ v[2] < k
    BY DEF Done
  <2>2. v[1] <= b
    BY <1>4, <2>1, WordPlaces
  <2>3. CASE v[1] = b
    <3>1. v[2] \in b .. k - 1
      BY <1>1, <2>1, <2>3, WordPlaces
    <3> QED
      BY <1>1, <2>1, <3>1, WordPlaces
  <2> QED
    BY <1>1, <2>1, <2>2, <2>3, WordPlaces
<1>7. Done(text, k + 1) = Done(text, k) \cup {<<b, k>>}
  <2>1. \A v \in Words(text) : v[2] < k + 1 <=> v[2] < k \/ v[2] = k
    BY WordPlaces
  <2> QED
    BY <1>3, <1>5, <2>1 DEF Done
<1> QED
  BY <1>3, <1>4, <1>6, <1>7

\* The redirections are not counted among words, and stand where they stand.
LEMMA PendingPlaces ==
  ASSUME NEW text \in Seq(Characters), NEW b \in Nat
  PROVE  Pending(text, b) \subseteq {i \in Nat : i < b /\ i < Len(text)}
<1>1. \A c : \A i \in At(text, c) : i \in Nat /\ i < Len(text)
  BY DEF At
<1> QED
  BY <1>1 DEF Pending

\* After the delimiter at k a word has the role of the redirection at k, if that is
\* one, and else that of the word or nothing before it.
LEMMA ModeNext ==
  ASSUME NEW text \in Seq(Characters), NEW k \in Nat, k < Len(text), Char(text, k) # "w",
         NEW b, RunAt(text, b, k)
  PROVE  ModeAt(text, k + 1) = IF Char(text, k) = "<" THEN "in"
                               ELSE IF Char(text, k) = ">" THEN "out"
                               ELSE IF b < k THEN "arg" ELSE ModeAt(text, b)
<1> DEFINE here == IF Char(text, k) \in {"<", ">"} THEN {k} ELSE {}
           Redirects == At(text, "<") \cup At(text, ">")
<1>1. b \in Nat /\ b <= k /\ b .. k - 1 \subseteq At(text, "w")
  BY DEF RunAt
<1>2. Redirects \subseteq Nat /\ (k \in Redirects <=> k \in here)
  BY Places1
<1>3. \A i \in b .. k - 1 : i \notin Redirects
  <2> SUFFICES ASSUME NEW i \in b .. k - 1 PROVE i \notin Redirects
    OBVIOUS
  <2>1. i \in Nat /\ i < Len(text) /\ Char(text, i) = "w"
    BY <1>1, Places1
  <2> QED
    BY <2>1, Places1
<1>4. \A v \in Words(text) : v[1] \in Nat /\ v[1] # k
  <2>1. k \notin At(text, "w")
    BY Places1
  <2>2. \A v \in Words(text) : v[1] \in v[1] .. v[2] - 1
    BY WordPlaces
  <2> QED
    BY <2>1, <2>2, WordPlaces
<1>5. Pending(text, k + 1) = IF b < k THEN here ELSE Pending(text, b) \cup here
  <2>1. CASE b < k
    <3>1. <<b, k>> \in Words(text) /\ <<b, k>>[1] = b
      BY <2>1, WordEnds
    <3>2. ASSUME NEW i \in Pending(text, k + 1) PROVE i \in here
      <4>1. i \in Redirects /\ i < k + 1 /\ ~(i < b /\ b < k + 1)
        BY <3>1 DEF Pending
      <4>2. ~(i < b)
        BY <1>1, <2>1, <4>1
      <4> QED
        BY <1>1, <1>2, <1>3, <4>1, <4>2
    <3>3. ASSUME NEW i \in here PROVE i \in Pending(text, k + 1)
      <4>1. i = k /\ i \in Redirects
        BY <1>2
      <4> QED
        BY <1>4, <4>1 DEF Pending
    <3> QED
      BY <2>1, <3>2, <3>3
  <2>2. CASE b = k
    <3>1. \A i \in Nat : i < k + 1 <=> i < k \/ i = k
      OBVIOUS
    <3>2. \A i \in Nat : \A v \in Words(text) :
            ~(i < v[1] /\ v[1] < k + 1) <=> ~(i < v[1] /\ v[1] < k)
      BY <1>4
    <3>3. \A v \in Words(text) : ~(k < v[1] /\ v[1] < k + 1)
      BY <1>4
    <3> HIDE DEF here
    <3>4. \A i \in Redirects : i \in Pending(text, k + 1) <=> i \in Pending(text, b) \/ i \in here
      <4> SUFFICES ASSUME NEW i \in Redirects
                   PROVE  i \in Pending(text, k + 1) <=> i \in Pending(text, b) \/ i \in here
        OBVIOUS
      <4>1. CASE i = k
        BY <1>2, <2>2, <3>3, <4>1 DEF Pending
      <4>2. CASE i # k
        <5>1. i \notin here
          BY <4>2 DEF here
        <5> QED
          BY <1>2, <2>2, <3>1, <3>2, <4>2, <5>1 DEF Pending
      <4> QED
        BY <4>1, <4>2
    <3>5. Pending(text, k + 1) \subseteq Redirects /\ Pending(text, b) \subseteq Redirects
          /\ here \subseteq Redirects
      BY <1>2 DEF Pending, here
    <3> HIDE DEF Redirects
    <3>6. Pending(text, k + 1) = Pending(text, b) \cup here
      BY <3>4, <3>5
    <3>7. ~(b < k)
      BY <1>1, <2>2
    <3> QED
      BY <3>6, <3>7
  <2> QED
    BY <1>1, <2>1, <2>2
<1>6. CASE here = {k}
  <2>1. k \in Pending(text, k + 1) /\ \A i \in Pending(text, k + 1) : i \in Nat /\ i <= k
    BY <1>1, <1>5, <1>6, PendingPlaces
  <2>2. Max(Pending(text, k + 1)) = k
    <3>1. \A x \in Pending(text, k + 1) : x >= k => x = k
      BY <2>1
    <3> QED
      BY <2>1, <3>1 DEF Max
  <2> QED
    BY <1>6, <2>1, <2>2 DEF ModeAt
<1>7. CASE here = {}
  <2>1. Char(text, k) \notin {"<", ">"}
    BY <1>7
  <2> QED
    BY <1>1, <1>5, <1>7, <2>1 DEF ModeAt
<1> QED
  BY <1>6, <1>7

\* The role of a word is that of the place where it begins, its command the number
\* of bars before it.
LEMMA ByPlace ==
  ASSUME NEW text, NEW w
  PROVE  /\ Role(text, w) = ModeAt(text, w[1])
         /\ CommandOf(text, w) = 1 + Cardinality(BarsUntil(text, w[1]))
<1>1. Redirections(text, w) = Pending(text, w[1])
  BY DEF Redirections, Pending
<1> QED
  BY <1>1 DEF Role, ModeAt, CommandOf, BarsUntil

\* Bars before a place are finitely many, and no fewer further on.
LEMMA BarsCounted ==
  ASSUME NEW text \in Seq(Characters), NEW k \in Nat, NEW b \in Nat, b <= k
  PROVE  /\ Cardinality(BarsUntil(text, k)) \in Nat
         /\ Cardinality(BarsUntil(text, b)) \in Nat
         /\ Cardinality(BarsUntil(text, b)) <= Cardinality(BarsUntil(text, k))
<1>1. \A m \in Nat : BarsUntil(text, m) \subseteq 0 .. Len(text)
  BY DEF BarsUntil, Bars, At
<1>2. IsFiniteSet(0 .. Len(text))
  BY FS_Interval
<1>3. BarsUntil(text, b) \subseteq BarsUntil(text, k)
  <2>1. BarsUntil(text, b) \subseteq Nat
    BY <1>1
  <2> QED
    BY <2>1 DEF BarsUntil
<1>4. IsFiniteSet(BarsUntil(text, k))
  BY <1>1, <1>2, FS_Subset
<1> QED
  BY <1>3, <1>4, FS_Subset, FS_CardinalityType

\* A bar after the beginning is one more.
LEMMA BarsNext ==
  ASSUME NEW text \in Seq(Characters), NEW k \in Nat, k < Len(text)
  PROVE  Cardinality(BarsUntil(text, k + 1)) =
           IF Char(text, k) = "|" /\ k > 0 THEN Cardinality(BarsUntil(text, k)) + 1
           ELSE Cardinality(BarsUntil(text, k))
<1>1. BarsUntil(text, k + 1) =
        IF Char(text, k) = "|" /\ k > 0 THEN BarsUntil(text, k) \cup {k} ELSE BarsUntil(text, k)
  <2>1. At(text, "|") \subseteq Nat /\ (k \in At(text, "|") <=> Char(text, k) = "|")
    BY Places1
  <2>2. \A i \in Nat : i < k + 1 <=> i < k \/ i = k
    OBVIOUS
  <2> QED
    BY <2>1, <2>2 DEF BarsUntil, Bars
<1>2. k \notin BarsUntil(text, k)
  BY DEF BarsUntil
<1>3. IsFiniteSet(BarsUntil(text, k))
  <2>1. BarsUntil(text, k) \subseteq 0 .. Len(text)
    BY DEF BarsUntil, Bars, At
  <2>2. IsFiniteSet(0 .. Len(text))
    BY FS_Interval
  <2> QED
    BY <2>1, <2>2, FS_Subset
<1> QED
  BY <1>1, <1>2, <1>3, FS_AddElement

\* Ordinary characters are no bars.
LEMMA BarsInRun ==
  ASSUME NEW text \in Seq(Characters), NEW k \in Nat, k < Len(text), NEW b, RunAt(text, b, k)
  PROVE  BarsUntil(text, b) = BarsUntil(text, k)
<1>1. b \in Nat /\ b <= k /\ b .. k - 1 \subseteq At(text, "w")
  BY DEF RunAt
<1>2. \A i \in At(text, "|") : i \in Nat /\ i \notin At(text, "w")
  BY DEF At
<1>3. \A i \in Nat : i < k <=> i < b \/ i \in b .. k - 1
  BY <1>1
<1> QED
  BY <1>1, <1>2, <1>3 DEF BarsUntil, Bars

\* Where a run of ordinary characters goes on, or a delimiter begins the next.
LEMMA RunNext ==
  ASSUME NEW text \in Seq(Characters), NEW k \in Nat, k < Len(text)
  PROVE  /\ Char(text, k) = "w" => \A b : RunAt(text, b, k) => RunAt(text, b, k + 1)
         /\ Char(text, k) # "w" => RunAt(text, k + 1, k + 1)
<1>1. k \in At(text, "w") <=> Char(text, k) = "w"
  BY Places1
<1>2. CASE Char(text, k) = "w"
  <2> SUFFICES ASSUME NEW b, RunAt(text, b, k) PROVE RunAt(text, b, k + 1)
    BY <1>2
  <2>1. b \in Nat /\ b <= k /\ b .. k - 1 \subseteq At(text, "w") /\ b - 1 \notin At(text, "w")
    BY DEF RunAt
  <2>2. \A i \in b .. k + 1 - 1 : i \in b .. k - 1 \/ i = k
    BY <2>1
  <2> QED
    BY <1>1, <1>2, <2>1, <2>2 DEF RunAt
<1>3. CASE Char(text, k) # "w"
  <2>1. k + 1 .. k + 1 - 1 = {} /\ k + 1 - 1 = k
    OBVIOUS
  <2> QED
    BY <1>1, <1>3, <2>1 DEF RunAt
<1> QED
  BY <1>2, <1>3

\* A set of numbers below b that is not empty has a greatest.
LEMMA Greatest ==
  ASSUME NEW b \in Nat, NEW S, S # {}, S \subseteq 0 .. b - 1
  PROVE  Max(S) \in S
<1> DEFINE Rest == {b - i : i \in S}
<1>1. Rest \in SUBSET Nat /\ Rest # {}
  <2>1. \A i \in S : b - i \in Nat
    <3>1. \A i \in 0 .. b - 1 : b - i \in Nat
      OBVIOUS
    <3> QED
      BY <3>1
  <2> QED
    BY <2>1
<1>2. Min(Rest) \in Rest /\ \A y \in Rest : Min(Rest) <= y
  <2> HIDE DEF Rest
  <2> QED BY <1>1, LeastNatural
<1>3. PICK m \in S : Min(Rest) = b - m
  BY <1>2
<1>4. \A y \in S : m >= y
  <2>1. \A y \in S : b - y \in Rest
    OBVIOUS
  <2> HIDE DEF Rest
  <2>2. \A y \in S : b - m <= b - y
    BY <1>2, <1>3, <2>1
  <2>3. \A y \in S : y \in Int /\ m \in Int
    OBVIOUS
  <2> QED
    BY <2>2, <2>3
<1> QED
  BY <1>4 DEF Max

\* The character that gives words a role.
Sign(role) == IF role = "in" THEN "<" ELSE ">"

\* What is redirected at b is so by the character of that role, with no word between.
LEMMA RoleFrom ==
  ASSUME NEW text \in Seq(Characters), NEW b \in Nat, ModeAt(text, b) # "arg"
  PROVE  \E i \in Until(text, Sign(ModeAt(text, b)), b) :
            \A v \in Words(text) : ~(i < v[1] /\ v[1] < b)
<1> DEFINE i == Max(Pending(text, b))
<1>1. Pending(text, b) # {}
  BY DEF ModeAt
<1>2. Pending(text, b) \subseteq 0 .. b - 1
  BY PendingPlaces
<1>3. i \in Pending(text, b)
  BY <1>1, <1>2, Greatest
<1> HIDE DEF i
<1>4. /\ i \in At(text, "<") \cup At(text, ">") /\ i < b
      /\ \A v \in Words(text) : ~(i < v[1] /\ v[1] < b)
  BY <1>3 DEF Pending
<1>5. \A c : i \in At(text, c) => i \in Nat /\ i < Len(text) /\ Char(text, i) = c
  BY DEF At
<1>6. i \in At(text, Sign(ModeAt(text, b)))
  <2>1. CASE i \in At(text, "<")
    BY <1>1, <1>5, <2>1 DEF ModeAt, Sign, i
  <2>2. CASE i \in At(text, ">")
    BY <1>1, <1>5, <2>2 DEF ModeAt, Sign, i
  <2> QED
    BY <1>4, <2>1, <2>2
<1> QED
  BY <1>4, <1>6 DEF Until

\* Words that begin at the same place are the same.
LEMMA SameBeginning ==
  ASSUME NEW text \in Seq(Characters), NEW v \in Words(text), NEW w \in Words(text), v[1] = w[1]
  PROVE  v = w
<1>1. ASSUME NEW x \in Words(text), NEW y \in Words(text), x[1] = y[1] PROVE ~(x[2] < y[2])
  <2> SUFFICES ASSUME x[2] < y[2] PROVE FALSE
    OBVIOUS
  <2>1. x[2] \in y[1] .. y[2] - 1
    BY <1>1, WordPlaces
  <2> QED
    BY <2>1, WordPlaces
<1>2. ~(v[2] < w[2]) /\ ~(w[2] < v[2])
  BY <1>1
<1> QED
  BY <1>2, WordPlaces

\* So far there is at most one redirection each way, and no bar after the output's.
Single(text, k) ==
  /\ \A i, j \in Until(text, "<", k) : i = j
  /\ \A i, j \in Until(text, ">", k) : i = j
  /\ \A i \in Until(text, ">", k), j \in Until(text, "|", k) : ~(i < j)

\* As far as there is one redirection each way, there is one word for each.
LEMMA OneWord ==
  ASSUME NEW text \in Seq(Characters), NEW k \in Nat, Single(text, k),
         NEW v \in Words(text), NEW w \in Words(text), v[1] < k, w[1] < k,
         Role(text, v) = Role(text, w), Role(text, v) # "arg"
  PROVE  v = w
<1> DEFINE c == Sign(Role(text, v))
<1>1. ASSUME NEW x \in Words(text), x[1] < k, Role(text, x) = Role(text, v)
      PROVE  \E i \in Until(text, c, k) : i < x[1] /\ \A y \in Words(text) : ~(i < y[1] /\ y[1] < x[1])
  <2>1. x[1] \in Nat /\ ModeAt(text, x[1]) = Role(text, v)
    BY <1>1, ByPlace, WordPlaces
  <2>2. PICK i \in Until(text, c, x[1]) : \A y \in Words(text) : ~(i < y[1] /\ y[1] < x[1])
    BY <2>1, RoleFrom
  <2>3. i < x[1] /\ i \in At(text, c) /\ i \in Nat
    BY <2>2, Places1 DEF Until
  <2>4. i \in Until(text, c, k)
    BY <1>1, <2>1, <2>3 DEF Until
  <2> QED
    BY <2>2, <2>3, <2>4
<1>2. PICK i \in Until(text, c, k) : i < v[1] /\ \A y \in Words(text) : ~(i < y[1] /\ y[1] < v[1])
  BY <1>1
<1>3. PICK j \in Until(text, c, k) : j < w[1] /\ \A y \in Words(text) : ~(j < y[1] /\ y[1] < w[1])
  BY <1>1
<1>4. i = j
  BY DEF Single, Sign
<1>5. ~(v[1] < w[1]) /\ ~(w[1] < v[1])
  BY <1>2, <1>3, <1>4
<1>6. v[1] = w[1]
  BY <1>5, WordPlaces
<1> QED
  BY <1>6, SameBeginning

\* A word that is done begins before what is done.
LEMMA DoneWords ==
  ASSUME NEW text \in Seq(Characters), NEW k \in Nat, NEW w \in Done(text, k)
  PROVE  w \in Words(text) /\ w[1] \in Nat /\ w[1] < k /\ w # NoWord /\ w \in Nat \X Nat
<1>1. w \in Words(text) /\ w[2] < k
  BY DEF Done
<1>2. w = <<w[1], w[2]>> /\ w[1] \in Nat /\ w[2] \in Nat /\ w[1] < w[2]
  BY <1>1, WordPlaces
<1>3. w # NoWord
  BY <1>2 DEF NoWord
<1> QED
  BY <1>1, <1>2, <1>3

\* a holds the words of S, each before those that begin later.
InPlace(a, S) ==
  /\ {a[i] : i \in DOMAIN a} = S
  /\ \A i, j \in DOMAIN a : i < j => a[i][1] < a[j][1]

\* An increasing function of an interval into itself moves nothing.
LEMMA Unmoved ==
  ASSUME NEW n \in Nat, NEW f \in [1 .. n -> 1 .. n],
         \A i, j \in 1 .. n : i < j => f[i] < f[j]
  PROVE  \A i \in 1 .. n : f[i] = i
<1> DEFINE Low == {i \in 1 .. n : f[i] < i}
           High == {m \in Nat : m < n /\ f[n - m] > n - m}
<1>1. Low = {}
  <2> SUFFICES ASSUME Low # {} PROVE FALSE
    OBVIOUS
  <2> DEFINE i == Min(Low)
  <2>1. i \in Low /\ \A y \in Low : i <= y
    <3>1. Low \in SUBSET Nat
      OBVIOUS
    <3> HIDE DEF Low
    <3> QED BY <3>1, LeastNatural
  <2> HIDE DEF i
  <2>2. i \in 1 .. n /\ f[i] < i /\ f[i] \in 1 .. n
    BY <2>1
  <2>3. i - 1 \in 1 .. n
    BY <2>2
  <2>4. i - 1 \notin Low /\ f[i - 1] < f[i]
    BY <2>1, <2>2, <2>3
  <2>5. f[i - 1] \in 1 .. n /\ ~(f[i - 1] < i - 1)
    BY <2>3, <2>4
  <2> QED
    BY <2>2, <2>4, <2>5
<1>2. High = {}
  <2> SUFFICES ASSUME High # {} PROVE FALSE
    OBVIOUS
  <2> DEFINE m == Min(High)
  <2>1. m \in High /\ \A y \in High : m <= y
    <3>1. High \in SUBSET Nat
      OBVIOUS
    <3> HIDE DEF High
    <3> QED BY <3>1, LeastNatural
  <2> HIDE DEF m
  <2>2. m \in Nat /\ m < n /\ f[n - m] > n - m /\ n - m \in 1 .. n /\ f[n - m] \in 1 .. n
    BY <2>1
  <2>3. m - 1 \in Nat /\ m - 1 < n /\ n - (m - 1) = n - m + 1 /\ n - m + 1 \in 1 .. n
    BY <2>2
  <2>4. m - 1 \notin High /\ f[n - m] < f[n - m + 1]
    <3>1. m - 1 \notin High
      <4> HIDE DEF High
      <4> QED BY <2>1, <2>2
    <3>2. n - m < n - m + 1
      BY <2>2
    <3> QED
      BY <2>2, <2>3, <3>1, <3>2
  <2>5. f[n - m + 1] \in 1 .. n /\ ~(f[n - m + 1] > n - m + 1)
    BY <2>3, <2>4
  <2> QED
    BY <2>2, <2>4, <2>5
<1>3. ASSUME NEW i \in 1 .. n PROVE f[i] = i
  <2>1. f[i] \in 1 .. n /\ ~(f[i] < i)
    BY <1>1
  <2>2. ~(f[i] > i)
    <3>1. n - i \in Nat /\ n - i < n /\ n - (n - i) = i
      OBVIOUS
    <3>2. n - i \notin High
      BY <1>2
    <3> QED
      BY <3>1, <3>2
  <2> QED
    BY <2>1, <2>2
<1> QED
  BY <1>3

\* There is one way to put words in their order.
LEMMA Ordered ==
  ASSUME NEW S, \A w \in S : w[1] \in Nat, NEW n \in Nat, NEW a, a \in [1 .. n -> S], InPlace(a, S)
  PROVE  a = InOrder(S)
<1> DEFINE InLine(f) == \A i, j \in DOMAIN f : i < j => f[i][1] < f[j][1]
           o == CHOOSE f \in [1 .. Cardinality(S) -> S] : InLine(f)
<1>1. \A i, j \in 1 .. n : a[i][1] < a[j][1] => i < j
  <2> SUFFICES ASSUME NEW i \in 1 .. n, NEW j \in 1 .. n, a[i][1] < a[j][1], ~(i < j)
               PROVE  FALSE
    OBVIOUS
  <2>1. i = j \/ j < i
    OBVIOUS
  <2>2. a[i][1] \in Nat /\ a[j][1] \in Nat
    OBVIOUS
  <2> QED
    BY <2>1, <2>2 DEF InPlace
<1>2. Cardinality(S) = n
  <2>1. \A i, j \in 1 .. n : a[i] = a[j] => i = j
    <3> SUFFICES ASSUME NEW i \in 1 .. n, NEW j \in 1 .. n, a[i] = a[j], i # j PROVE FALSE
      OBVIOUS
    <3>1. i < j \/ j < i
      OBVIOUS
    <3>2. a[i][1] \in Nat /\ a[j][1] \in Nat
      OBVIOUS
    <3> QED
      BY <3>1, <3>2 DEF InPlace
  <2>2. a \in Injection(1 .. n, S) /\ a \in Surjection(1 .. n, S)
    BY <2>1 DEF Injection, IsInjective, Surjection, InPlace
  <2>3. ExistsBijection(1 .. n, S)
    BY <2>2 DEF ExistsBijection, Bijection
  <2> QED
    BY <2>3, FS_CountingElements
<1>3. o \in [1 .. n -> S] /\ InLine(o)
  <2>1. InLine(a)
    BY DEF InPlace
  <2> HIDE DEF InLine
  <2> QED
    BY <1>2, <2>1
<1>4. o = InOrder(S)
  BY DEF InOrder
<1> HIDE DEF o
<1> DEFINE at == [i \in 1 .. n |-> CHOOSE j \in 1 .. n : a[j] = o[i]]
<1>5. \A i \in 1 .. n : at[i] \in 1 .. n /\ a[at[i]] = o[i]
  <2> SUFFICES ASSUME NEW i \in 1 .. n PROVE \E j \in 1 .. n : a[j] = o[i]
    OBVIOUS
  <2>1. o[i] \in S
    BY <1>3
  <2> QED
    BY <2>1 DEF InPlace
<1>6. at \in [1 .. n -> 1 .. n]
  BY <1>5
<1> HIDE DEF at
<1>7. \A i, j \in 1 .. n : i < j => at[i] < at[j]
  BY <1>1, <1>3, <1>5
<1>8. \A i \in 1 .. n : at[i] = i
  BY <1>6, <1>7, Unmoved
<1>9. \A i \in 1 .. n : a[i] = o[i]
  BY <1>5, <1>8
<1>10. a = o
  BY <1>3, <1>9
<1> QED
  BY <1>4, <1>10

\* The commands hold the words done, by the command they belong to and their roles.
Contents(text, k, commands) ==
  \A c \in DOMAIN commands :
    /\ InPlace(commands[c].args, DoneAs(text, k, c, "arg"))
    /\ commands[c].in = Only(DoneAs(text, k, c, "in"))
    /\ commands[c].out = Only(DoneAs(text, k, c, "out"))

\* Allocated are the pipeline, its commands and the words done.
Heaped(text, k, s) ==
  s.heap = {<<"pipeline", 0, 0>>} \cup CommandBlocks(s) \cup {Word(w) : w \in Done(text, k)}

Counted(text, k, s) == Len(s.commands) = 1 + Cardinality(BarsUntil(text, k))

Flagged(text, k, s) ==
  /\ s.is_background = (Until(text, "&", k) # {})
  /\ s.contain_in = (Until(text, "<", k) # {})
  /\ s.contain_out = (Until(text, ">", k) # {})

FirstIn(text, k) == \A w \in Done(text, k) : Role(text, w) = "in" => CommandOf(text, w) = 1

\* Nothing before k is refused.
Allowed(text, k) == Single(text, k) /\ FirstIn(text, k)

Under(text, k, s) ==
  /\ s.current_index = k
  /\ RunAt(text, s.begin_index, k)
  /\ s.redirect_mode = ModeAt(text, s.begin_index)
  /\ Flagged(text, k, s) /\ Counted(text, k, s) /\ Contents(text, k, s.commands)
  /\ Heaped(text, k, s) /\ Allowed(text, k)

\* e is s after the word before the delimiter at k has been put where it belongs.
Taken(text, k, s, e) ==
  /\ e.status = "scanning" /\ Len(e.commands) = Len(s.commands)
  /\ Contents(text, k + 1, e.commands) /\ Heaped(text, k + 1, e) /\ FirstIn(text, k + 1)
  /\ e.redirect_mode = IF s.begin_index < k THEN "arg" ELSE s.redirect_mode

\* A word that has ended is added to what its command has for its role.
LEMMA DoneAsNext ==
  ASSUME NEW text \in Seq(Characters), NEW k \in Nat, k < Len(text), Char(text, k) # "w",
         NEW b, RunAt(text, b, k), b < k,
         NEW n, n = 1 + Cardinality(BarsUntil(text, k)), NEW m, m = ModeAt(text, b),
         NEW w, w = <<b, k>>
  PROVE  /\ Role(text, w) = m /\ CommandOf(text, w) = n /\ w \notin Done(text, k)
         /\ DoneAs(text, k + 1, n, m) = DoneAs(text, k, n, m) \cup {w}
         /\ \A r : r # m => DoneAs(text, k + 1, n, r) = DoneAs(text, k, n, r)
         /\ \A c, r : c # n => DoneAs(text, k + 1, c, r) = DoneAs(text, k, c, r)
<1>1. w[1] = b
  OBVIOUS
<1>2. Role(text, w) = m
  BY <1>1, ByPlace
<1>3. CommandOf(text, w) = n
  BY <1>1, ByPlace, BarsInRun
<1>4. w \notin Done(text, k)
  BY DEF Done
<1>5. Done(text, k + 1) = Done(text, k) \cup {w}
  BY WordEnds
<1> QED
  BY <1>2, <1>3, <1>4, <1>5 DEF DoneAs

\* One word more at the end keeps the order.
LEMMA Appended ==
  ASSUME NEW a \in Seq(Nat \X Nat), NEW S, InPlace(a, S), NEW w \in Nat \X Nat,
         \A v \in S : v[1] < w[1]
  PROVE  InPlace(Append(a, w), S \cup {w})
<1> DEFINE n == Len(a)
           new == Append(a, w)
<1>1. /\ n \in Nat /\ DOMAIN a = 1 .. n /\ DOMAIN new = 1 .. n + 1
      /\ \A i \in 1 .. n : new[i] = a[i]
      /\ new[n + 1] = w
  OBVIOUS
<1> HIDE DEF new, n
<1>2. {new[i] : i \in 1 .. n + 1} = S \cup {w}
  <2>1. {a[i] : i \in 1 .. n} = S
    BY <1>1 DEF InPlace
  <2>2. \A i \in 1 .. n + 1 : i \in 1 .. n \/ i = n + 1
    BY <1>1
  <2>3. \A i \in 1 .. n : i \in 1 .. n + 1
    BY <1>1
  <2>4. n + 1 \in 1 .. n + 1
    BY <1>1
  <2> QED
    BY <1>1, <2>1, <2>2, <2>3, <2>4
<1>3. \A i, j \in 1 .. n + 1 : i < j => new[i][1] < new[j][1]
  <2> SUFFICES ASSUME NEW i \in 1 .. n + 1, NEW j \in 1 .. n + 1, i < j
               PROVE  new[i][1] < new[j][1]
    OBVIOUS
  <2>1. i \in 1 .. n /\ (j \in 1 .. n \/ j = n + 1)
    BY <1>1
  <2>2. a[i] \in S
    BY <1>1, <2>1 DEF InPlace
  <2> QED
    BY <1>1, <2>1, <2>2 DEF InPlace
<1> QED
  BY <1>1, <1>2, <1>3 DEF InPlace, new

\* What a set of one has.
LEMMA OnlyOne ==
  ASSUME NEW w
  PROVE  Only({w}) = w /\ Only({}) = NoWord
BY DEF Only

\* Ending a word puts it where the meaning of the line has it, or refuses the line.
LEMMA WordTaken ==
  ASSUME NEW text \in Seq(Characters), Len(text) < MaxLine,
         NEW k \in Nat, k < Len(text), Char(text, k) # "w",
         NEW s \in ScansTo(k), s.status = "scanning", Under(text, k, s),
         NEW strict \in BOOLEAN, strict \/ ~Refused(text),
         NEW modes \in SUBSET AnyMode, s.redirect_mode \in modes
  PROVE  LET e == EndWord(strict, s, modes)
         IN  \/ e = Refuse(s) /\ Refused(text)
             \/ Taken(text, k, s, e)
<1> DEFINE e == EndWord(strict, s, modes)
           b == s.begin_index
           n == Len(s.commands)
           w == <<b, k>>
           m == s.redirect_mode
<1> SUFFICES (e = Refuse(s) /\ Refused(text)) \/ Taken(text, k, s, e)
  OBVIOUS
<1>1. /\ s \in Scans /\ n \in Nat /\ n > 0 /\ DOMAIN s.commands = 1 .. n /\ s.current_index = k
      /\ b \in Nat /\ m \in AnyMode /\ s.commands[n] \in Commands
      /\ s.commands \in Seq(Commands)
  BY DEF ScansTo, Scans
<1>2. RunAt(text, b, k) /\ b <= k /\ m = ModeAt(text, b)
  BY DEF Under, RunAt
<1>3. CASE b = k
  <2>1. e = s
    BY <1>1, <1>3 DEF EndWord
  <2>2. Done(text, k + 1) = Done(text, k)
    BY <1>2, <1>3, NothingEnds
  <2>3. \A c, r : DoneAs(text, k + 1, c, r) = DoneAs(text, k, c, r)
    BY <2>2 DEF DoneAs
  <2>4. Contents(text, k + 1, s.commands) /\ Heaped(text, k + 1, s) /\ FirstIn(text, k + 1)
    BY <2>2, <2>3 DEF Under, Allowed, Contents, Heaped, FirstIn
  <2> QED
    BY <1>1, <1>3, <2>1, <2>4 DEF Taken
<1>4. CASE b < k
  <2>1. /\ Role(text, w) = m /\ CommandOf(text, w) = n /\ w \notin Done(text, k)
        /\ w \in Words(text) /\ w[1] = b /\ w[1] < k /\ w \in Nat \X Nat
    BY <1>1, <1>2, <1>4, DoneAsNext, WordEnds DEF Under, Counted
  <2>2. /\ Done(text, k + 1) = Done(text, k) \cup {w}
        /\ \A v \in Done(text, k) : v[1] < b
    BY <1>2, <1>4, WordEnds
  <2>3. /\ DoneAs(text, k + 1, n, m) = DoneAs(text, k, n, m) \cup {w}
        /\ \A r : r # m => DoneAs(text, k + 1, n, r) = DoneAs(text, k, n, r)
        /\ \A c, r : c # n => DoneAs(text, k + 1, c, r) = DoneAs(text, k, c, r)
    <3>1. n = 1 + Cardinality(BarsUntil(text, k)) /\ w = <<b, k>>
      BY DEF Under, Counted
    <3> HIDE DEF n, w, b, m
    <3> QED
      BY <1>2, <1>4, <3>1, DoneAsNext
  <2>4. Copied(s) = w /\ s.current_index # s.begin_index
    BY <1>1, <1>4 DEF Copied
  <2>5. m # "arg" => \A c : DoneAs(text, k, c, m) = {}
    <3> SUFFICES ASSUME m # "arg", NEW c, NEW v \in DoneAs(text, k, c, m) PROVE FALSE
      OBVIOUS
    <3>1. v \in Done(text, k) /\ Role(text, v) = m
      BY DEF DoneAs
    <3>2. v \in Words(text) /\ v[1] < k
      BY <3>1, DoneWords
    <3>3. v = w
      BY <2>1, <3>1, <3>2, OneWord DEF Under, Allowed
    <3> QED
      BY <2>1, <3>1, <3>3
  <2>6. FirstIn(text, k)
    BY DEF Under, Allowed
  <2>7. ASSUME NEW d \in Commands, NEW r, r.commands = [s.commands EXCEPT ![n] = d],
               r.heap = s.heap \cup {Word(w)}, r.status = "scanning", r.redirect_mode = "arg",
               m = "in" => n = 1,
               InPlace(d.args, DoneAs(text, k + 1, n, "arg")),
               d.in = Only(DoneAs(text, k + 1, n, "in")),
               d.out = Only(DoneAs(text, k + 1, n, "out"))
        PROVE  Taken(text, k, s, r)
    <3>1. /\ r.commands \in Seq(Commands) /\ Len(r.commands) = n /\ DOMAIN r.commands = 1 .. n
          /\ r.commands[n] = d /\ \A c \in 1 .. n : c # n => r.commands[c] = s.commands[c]
      BY <1>1, <2>7
    <3>2. \A c, x : c # n => DoneAs(text, k + 1, c, x) = DoneAs(text, k, c, x)
      BY <2>3
    <3>3. Contents(text, k + 1, r.commands)
      <4> SUFFICES ASSUME NEW c \in 1 .. n
                   PROVE  /\ InPlace(r.commands[c].args, DoneAs(text, k + 1, c, "arg"))
                          /\ r.commands[c].in = Only(DoneAs(text, k + 1, c, "in"))
                          /\ r.commands[c].out = Only(DoneAs(text, k + 1, c, "out"))
        BY <3>1 DEF Contents
      <4>1. CASE c = n
        BY <2>7, <3>1, <4>1
      <4>2. CASE c # n
        BY <1>1, <3>1, <3>2, <4>2 DEF Under, Contents
      <4> QED
        BY <4>1, <4>2
    <3>4. Heaped(text, k + 1, r)
      <4>1. s.heap = {<<"pipeline", 0, 0>>} \cup CommandBlocks(s) \cup {Word(x) : x \in Done(text, k)}
        BY DEF Under, Heaped
      <4>2. CommandBlocks(r) = CommandBlocks(s)
        BY <3>1 DEF CommandBlocks, LastCommand
      <4>3. {Word(x) : x \in Done(text, k + 1)} = {Word(x) : x \in Done(text, k)} \cup {Word(w)}
        BY <2>2
      <4> QED
        BY <2>7, <4>1, <4>2, <4>3 DEF Heaped
    <3>5. FirstIn(text, k + 1)
      BY <2>1, <2>2, <2>6, <2>7 DEF FirstIn
    <3> QED
      BY <1>4, <2>7, <3>1, <3>3, <3>4, <3>5 DEF Taken
  <2> DEFINE old == s.commands[n]
  <2>8. /\ InPlace(old.args, DoneAs(text, k, n, "arg"))
        /\ old.in = Only(DoneAs(text, k, n, "in"))
        /\ old.out = Only(DoneAs(text, k, n, "out"))
        /\ old \in Commands
    BY <1>1 DEF Under, Contents
  <2>9. CASE m = "arg"
    <3>1. e = AddArgument(s)
      BY <2>4, <2>9 DEF EndWord
    <3>2. Len(old.args) < MaxArgv
      <4>1. 2 * Len(old.args) <= b /\ Len(old.args) \in Nat
        BY <1>1, <2>8 DEF ScansTo, Fits, Commands
      <4> QED
        BY <1>1, <1>4, <4>1, MaxLineAssumption DEF MaxArgv
    <3> DEFINE d == [old EXCEPT !.args = Append(@, w)]
    <3>3. d \in Commands /\ d.args = Append(old.args, w) /\ d.in = old.in /\ d.out = old.out
      <4>1. w \in Places
        BY <2>1 DEF Places
      <4>2. old \in Commands
        BY <2>8
      <4> HIDE DEF w, old
      <4>3. old.args \in Seq(Places) /\ Append(old.args, w) \in Seq(Places)
        BY <4>1, <4>2 DEF Commands
      <4> QED
        BY <4>2, <4>3 DEF Commands
    <3>4. /\ e.commands = [s.commands EXCEPT ![n] = d] /\ e.heap = s.heap \cup {Word(w)}
          /\ e.status = "scanning" /\ e.redirect_mode = "arg"
      <4>1. e = [Allocate(s) EXCEPT !.commands = [s.commands EXCEPT ![n] = d]]
        <5>1. ~(Len(s.commands[LastCommand(s)].args) >= MaxArgv)
          <6>1. Len(old.args) \in Nat /\ MaxArgv \in Nat
            BY <2>8, MaxLineAssumption DEF Commands, MaxArgv
          <6> QED
            BY <3>2, <6>1 DEF LastCommand
        <5> QED
          BY <2>4, <3>1, <5>1 DEF AddArgument, LastCommand, Allocate
      <4> HIDE DEF e, d
      <4> QED
        BY <1>1, <2>4, <2>9, <4>1 DEF Allocate, Scans
    <3>5. InPlace(d.args, DoneAs(text, k + 1, n, "arg"))
      <4>1. DoneAs(text, k + 1, n, "arg") = DoneAs(text, k, n, "arg") \cup {w}
        BY <2>3, <2>9
      <4>2. \A v \in DoneAs(text, k, n, "arg") : v[1] < w[1]
        BY <2>1, <2>2 DEF DoneAs
      <4>3. old.args \in Seq(Nat \X Nat)
        BY <2>8 DEF Commands, Places
      <4> HIDE DEF d, w, n, old
      <4>4. InPlace(Append(old.args, w), DoneAs(text, k, n, "arg") \cup {w})
        BY <2>1, <2>8, <4>2, <4>3, Appended
      <4> QED
        BY <3>3, <4>1, <4>4
    <3>6. DoneAs(text, k + 1, n, "in") = DoneAs(text, k, n, "in")
          /\ DoneAs(text, k + 1, n, "out") = DoneAs(text, k, n, "out")
      BY <2>3, <2>9
    <3> HIDE DEF d, w, n, old, e, b
    <3> QED
      BY <2>7, <2>8, <2>9, <3>3, <3>4, <3>5, <3>6
  <2>10. CASE m = "in"
    <3>1. e = SetRedirectIn(strict, s)
      BY <2>4, <2>10 DEF EndWord
    <3>2. CASE n > 1
      <4>1. Refused(text)
        BY <2>1, <2>10, <3>2 DEF Refused
      <4>2. e = Refuse(s)
        BY <3>1, <3>2, <4>1 DEF SetRedirectIn, LastCommand
      <4> QED
        BY <4>1, <4>2
    <3>3. CASE n = 1
      <4> DEFINE d == [old EXCEPT !.in = w]
      <4>1. d \in Commands /\ d.args = old.args /\ d.in = w /\ d.out = old.out
        BY <2>1, <2>8 DEF Commands, Places
      <4>2. /\ e.commands = [s.commands EXCEPT ![n] = d] /\ e.heap = s.heap \cup {Word(w)}
            /\ e.status = "scanning" /\ e.redirect_mode = "arg"
        <5>1. e = [Allocate(s) EXCEPT !.commands[n].in = w, !.redirect_mode = "arg"]
          BY <1>1, <2>4, <3>1, <3>3 DEF SetRedirectIn, LastCommand
        <5> HIDE DEF e
        <5> QED
          BY <1>1, <2>4, <5>1 DEF Allocate, Scans
      <4>3. DoneAs(text, k + 1, n, "in") = {w}
        BY <2>3, <2>5, <2>10
      <4>4. DoneAs(text, k + 1, n, "arg") = DoneAs(text, k, n, "arg")
            /\ DoneAs(text, k + 1, n, "out") = DoneAs(text, k, n, "out")
        BY <2>3, <2>10
      <4> HIDE DEF d, w, n, old, e, b
      <4>5. d.in = Only(DoneAs(text, k + 1, n, "in"))
        BY <4>1, <4>3, OnlyOne
      <4>6. /\ InPlace(d.args, DoneAs(text, k + 1, n, "arg"))
            /\ d.out = Only(DoneAs(text, k + 1, n, "out"))
        BY <2>8, <4>1, <4>4
      <4>7. Taken(text, k, s, e)
        BY <2>7, <3>3, <4>1, <4>2, <4>5, <4>6
      <4> QED
        BY <4>7
    <3>4. n > 1 \/ n = 1
      <4>1. n \in Nat /\ n > 0
        BY <1>1
      <4> HIDE DEF n
      <4> QED
        BY <4>1
    <3> QED
      BY <3>2, <3>3, <3>4
  <2>11. CASE m = "out"
    <3>1. e = SetRedirectOut(s)
      BY <2>4, <2>11 DEF EndWord
    <3> DEFINE d == [old EXCEPT !.out = w]
    <3>2. d \in Commands /\ d.args = old.args /\ d.in = old.in /\ d.out = w
      BY <2>1, <2>8 DEF Commands, Places
    <3>3. /\ e.commands = [s.commands EXCEPT ![n] = d] /\ e.heap = s.heap \cup {Word(w)}
          /\ e.status = "scanning" /\ e.redirect_mode = "arg"
      <4>1. e = [Allocate(s) EXCEPT !.commands[n].out = w, !.redirect_mode = "arg"]
        BY <2>4, <3>1 DEF SetRedirectOut, LastCommand
      <4> HIDE DEF e
      <4> QED
        BY <1>1, <2>4, <4>1 DEF Allocate, Scans
    <3>4. DoneAs(text, k + 1, n, "out") = {w}
      BY <2>3, <2>5, <2>11
    <3>5. DoneAs(text, k + 1, n, "arg") = DoneAs(text, k, n, "arg")
          /\ DoneAs(text, k + 1, n, "in") = DoneAs(text, k, n, "in")
      BY <2>3, <2>11
    <3> HIDE DEF d, w, n, old, e, b, m
    <3>6. d.out = Only(DoneAs(text, k + 1, n, "out"))
      BY <3>2, <3>4, OnlyOne
    <3>7. /\ InPlace(d.args, DoneAs(text, k + 1, n, "arg"))
          /\ d.in = Only(DoneAs(text, k + 1, n, "in"))
      BY <2>8, <3>2, <3>5
    <3>8. Taken(text, k, s, e)
      BY <2>7, <2>11, <3>2, <3>3, <3>6, <3>7
    <3> QED
      BY <3>8
  <2> QED
    BY <1>1, <2>9, <2>10, <2>11 DEF AnyMode
<1> QED
  BY <1>1, <1>2, <1>3, <1>4

\* What is built of a line before k is given back by pipeline_free: each block is the
\* argument of a command, the input of the first or the output of the last.
LEMMA Balanced ==
  ASSUME NEW text \in Seq(Characters), NEW k \in Nat, NEW s \in Scans,
         Counted(text, k, s), Contents(text, k, s.commands), Heaped(text, k, s), Allowed(text, k)
  PROVE  s.heap = PipelineFree(s)
<1> DEFINE n == Len(s.commands)
           As(c, r) == DoneAs(text, k, c, r)
<1>1. /\ n \in Nat /\ n > 0 /\ DOMAIN s.commands = 1 .. n /\ 1 \in 1 .. n /\ n \in 1 .. n
      /\ n = 1 + Cardinality(BarsUntil(text, k)) /\ n = LastCommand(s)
  <2>1. Cardinality(BarsUntil(text, k)) \in Nat /\ n = 1 + Cardinality(BarsUntil(text, k))
    BY BarsCounted DEF Counted
  <2>2. s.commands \in Seq(Commands)
    BY DEF Scans
  <2> QED
    BY <2>1, <2>2 DEF LastCommand
<1>2. ArgumentBlocks(s) = UNION {{Word(w) : w \in As(c, "arg")} : c \in 1 .. n}
  <2>1. \A c \in 1 .. n : ToSet(s.commands[c].args) = As(c, "arg")
    BY <1>1 DEF Contents, InPlace, ToSet
  <2> HIDE DEF As, n
  <2> QED
    BY <1>1, <2>1 DEF ArgumentBlocks
<1>3. /\ s.commands[1].in = Only(As(1, "in"))
      /\ s.commands[n].out = Only(As(n, "out"))
  BY <1>1 DEF Contents
<1>4. ASSUME NEW c, NEW r \in {"in", "out"}, NEW w \in As(c, r) PROVE Only(As(c, r)) = w
  <2>1. \A v \in As(c, r) : v = w
    <3> SUFFICES ASSUME NEW v \in As(c, r) PROVE v = w
      OBVIOUS
    <3>1. v \in Done(text, k) /\ w \in Done(text, k) /\ Role(text, v) = r /\ Role(text, w) = r
      BY DEF DoneAs
    <3> QED
      BY <3>1, DoneWords, OneWord DEF Allowed
  <2>2. As(c, r) = {w}
    BY <2>1
  <2> HIDE DEF As
  <2> QED
    BY <2>2, OnlyOne
<1>5. ASSUME NEW w \in Done(text, k)
      PROVE  \/ \E c \in 1 .. n : w \in As(c, "arg")
             \/ w \in As(1, "in")
             \/ w \in As(n, "out")
  <2>1. w \in Words(text) /\ w[1] \in Nat /\ w[1] < k
    BY DoneWords
  <2>2. CommandOf(text, w) = 1 + Cardinality(BarsUntil(text, w[1]))
    BY ByPlace
  <2>3. CommandOf(text, w) \in 1 .. n
    <3>1. /\ Cardinality(BarsUntil(text, k)) \in Nat
          /\ Cardinality(BarsUntil(text, w[1])) \in Nat
          /\ Cardinality(BarsUntil(text, w[1])) <= Cardinality(BarsUntil(text, k))
      BY <2>1, BarsCounted
    <3> HIDE DEF n
    <3> QED
      BY <1>1, <2>2, <3>1
  <2>4. CASE Role(text, w) = "arg"
    BY <2>3, <2>4 DEF DoneAs
  <2>5. CASE Role(text, w) = "in"
    BY <2>5 DEF DoneAs, Allowed, FirstIn
  <2>6. CASE Role(text, w) = "out"
    <3>1. ModeAt(text, w[1]) = "out"
      BY <2>6, ByPlace
    <3>2. PICK i \in Until(text, Sign(ModeAt(text, w[1])), w[1]) : TRUE
      BY <2>1, <3>1, RoleFrom
    <3>3. i \in At(text, ">") /\ i \in Nat /\ i < w[1]
      BY <3>1, <3>2, Places1 DEF Sign, Until
    <3>4. i \in Until(text, ">", k)
      BY <2>1, <3>3 DEF Until
    <3>5. ASSUME NEW j \in BarsUntil(text, k) PROVE j \in BarsUntil(text, w[1])
      <4>1. j \in Until(text, "|", k) /\ j \in Nat
        BY Places1 DEF BarsUntil, Bars, Until
      <4>2. ~(i < j)
        BY <3>4, <4>1 DEF Allowed, Single
      <4> QED
        BY <2>1, <3>3, <4>1, <4>2 DEF BarsUntil
    <3>6. BarsUntil(text, w[1]) \subseteq BarsUntil(text, k)
      <4>1. BarsUntil(text, w[1]) \subseteq Nat
        BY Places1 DEF BarsUntil, Bars
      <4> QED
        BY <2>1, <4>1 DEF BarsUntil
    <3>7. BarsUntil(text, w[1]) = BarsUntil(text, k)
      BY <3>5, <3>6
    <3>8. CommandOf(text, w) = n
      BY <1>1, <2>2, <3>7
    <3> QED
      BY <2>6, <3>8 DEF DoneAs
  <2> QED
    BY <2>4, <2>5, <2>6, ByPlace DEF ModeAt
<1>6. \A c, r : As(c, r) \subseteq Done(text, k)
  BY DEF DoneAs
<1>7. /\ \A w \in Done(text, k) : w # NoWord
      /\ \A r \in {"in", "out"} : \A c : Only(As(c, r)) = NoWord \/ Only(As(c, r)) \in As(c, r)
  <2>1. \A w \in Done(text, k) : w # NoWord
    BY DoneWords
  <2>2. \A S : Only(S) = NoWord \/ Only(S) \in S
    BY DEF Only
  <2> QED
    BY <2>1, <2>2
<1>8. PathBlocks(s) = {Word(w) : w \in As(1, "in") \cup As(n, "out")}
  <2>1. PathBlocks(s) = {Word(w) : w \in {Only(As(1, "in")), Only(As(n, "out"))} \ {NoWord}}
    BY <1>1, <1>3 DEF PathBlocks
  <2>2. \A w \in As(1, "in") : w = Only(As(1, "in")) /\ w # NoWord
    BY <1>4, <1>6, <1>7
  <2>3. \A w \in As(n, "out") : w = Only(As(n, "out")) /\ w # NoWord
    BY <1>4, <1>6, <1>7
  <2> HIDE DEF As, n
  <2>4. {Only(As(1, "in")), Only(As(n, "out"))} \ {NoWord} = As(1, "in") \cup As(n, "out")
    BY <1>7, <2>2, <2>3
  <2> QED
    BY <2>1, <2>4
<1> HIDE DEF As, n
<1>9. {Word(w) : w \in Done(text, k)} = ArgumentBlocks(s) \cup PathBlocks(s)
  <2>1. \A w \in Done(text, k) : Word(w) \in ArgumentBlocks(s) \cup PathBlocks(s)
    BY <1>2, <1>5, <1>8
  <2>2. \A x \in ArgumentBlocks(s) \cup PathBlocks(s) : \E w \in Done(text, k) : x = Word(w)
    BY <1>2, <1>6, <1>8
  <2> QED
    BY <2>1, <2>2
<1> QED
  BY <1>9 DEF Heaped, PipelineFree

\* What is built of the whole line.
Built(text, s) ==
  /\ Counted(text, Len(text), s) /\ Contents(text, Len(text), s.commands)
  /\ Heaped(text, Len(text), s) /\ Allowed(text, Len(text))
  /\ s.is_background = (At(text, "&") # {})

Outcomes(text, k) ==
  {s \in ScansTo(k) :
     /\ s.status = "scanning" => Under(text, k, s) /\ Until(text, "newline", k) = {}
     /\ s.status = "ended" => k = Len(text) /\ Built(text, s) /\ At(text, "newline") # {}
     /\ s.status = "refused" => Refused(text)
     /\ s.heap = PipelineFree(s)}

\* A line that is refused is so with what has been built of it.
LEMMA TurnRefused ==
  ASSUME NEW text, NEW k \in Nat, NEW s \in Outcomes(text, k), NEW x \in ScansTo(k + 1),
         x.status = "refused", x.commands = s.commands, x.heap = s.heap, Refused(text)
  PROVE  x \in Outcomes(text, k + 1)
<1>1. PipelineFree(x) = PipelineFree(s)
  BY DEF PipelineFree, CommandBlocks, ArgumentBlocks, PathBlocks, LastCommand
<1> QED
  BY <1>1 DEF Outcomes

\* Redirections and bars that may stand at k.
Admitted(text, k) ==
  /\ Char(text, k) = "<" => Until(text, "<", k) = {}
  /\ Char(text, k) \in {">", "|"} => Until(text, ">", k) = {}

\* What may stand there leaves the redirections single, and only that does.
LEMMA SingleNext ==
  ASSUME NEW text \in Seq(Characters), NEW k \in Nat, k < Len(text), Single(text, k)
  PROVE  IF Admitted(text, k) THEN Single(text, k + 1) ELSE Refused(text)
<1> DEFINE Of(c) == Until(text, c, k)
           To(c) == Until(text, c, k + 1)
<1>1. \A c : /\ Char(text, k) = c => To(c) = Of(c) \cup {k}
             /\ Char(text, k) # c => To(c) = Of(c)
  BY UntilNext
<1>2. \A c : \A i \in Of(c) : i \in Nat /\ i < k /\ i \in At(text, c)
  BY Places1 DEF Until
<1>3. \A c : Char(text, k) = c => k \in At(text, c)
  BY Places1
<1>4. \A c : IsFiniteSet(At(text, c))
  <2>1. \A c : At(text, c) \subseteq 0 .. Len(text)
    BY DEF At
  <2>2. IsFiniteSet(0 .. Len(text))
    BY FS_Interval
  <2> QED
    BY <2>1, <2>2, FS_Subset
<1>5. ASSUME NEW c, Char(text, k) = c, Of(c) # {} PROVE Cardinality(At(text, c)) > 1
  <2>1. PICK i \in Of(c) : TRUE
    BY <1>5
  <2>2. {i, k} \subseteq At(text, c) /\ i # k
    BY <1>2, <1>3, <1>5
  <2>3. Cardinality({i, k}) = 2
    <3>1. IsFiniteSet({i}) /\ Cardinality({i}) = 1
      BY FS_Singleton
    <3>2. {i, k} = {i} \cup {k} /\ k \notin {i}
      BY <2>2
    <3>3. Cardinality({i} \cup {k}) = Cardinality({i}) + 1
      BY <3>1, <3>2, FS_AddElement
    <3> QED
      BY <3>1, <3>2, <3>3
  <2>4. Cardinality({i, k}) <= Cardinality(At(text, c)) /\ Cardinality(At(text, c)) \in Nat
    BY <1>4, <2>2, FS_Subset, FS_CardinalityType
  <2> QED
    BY <2>3, <2>4
<1> HIDE DEF Of, To
<1>6. CASE Admitted(text, k)
  <2>1. \A i, j \in To("<") : i = j
    BY <1>1, <1>6 DEF Admitted, Single, Of
  <2>2. \A i, j \in To(">") : i = j
    BY <1>1, <1>6 DEF Admitted, Single, Of
  <2>3. \A i \in To(">"), j \in To("|") : ~(i < j)
    <3>1. CASE Char(text, k) = ">"
      <4>1. To("|") = Of("|") /\ Of(">") = {} /\ To(">") = Of(">") \cup {k}
        BY <1>1, <1>6, <3>1 DEF Admitted, Of
      <4> QED
        BY <1>2, <4>1
    <3>2. CASE Char(text, k) = "|"
      BY <1>1, <1>6, <3>2 DEF Admitted, Of
    <3>3. CASE Char(text, k) \notin {">", "|"}
      <4>1. To("|") = Of("|") /\ To(">") = Of(">")
        BY <1>1, <3>3
      <4> QED
        BY <4>1 DEF Single, Of
    <3> QED
      BY <3>1, <3>2, <3>3
  <2> QED
    BY <1>6, <2>1, <2>2, <2>3 DEF Single, To
<1>7. CASE ~Admitted(text, k)
  <2>1. CASE Char(text, k) = "<" /\ Of("<") # {}
    BY <1>5, <1>7, <2>1 DEF Refused
  <2>2. CASE Char(text, k) = ">" /\ Of(">") # {}
    BY <1>5, <1>7, <2>2 DEF Refused
  <2>3. CASE Char(text, k) = "|" /\ Of(">") # {}
    <3>1. PICK i \in Of(">") : TRUE
      BY <2>3
    <3>2. i \in At(text, ">") /\ k \in At(text, "|") /\ i < k
      BY <1>2, <1>3, <2>3, <3>1
    <3> QED
      BY <1>7, <3>2 DEF Refused
  <2> QED
    BY <1>7, <2>1, <2>2, <2>3 DEF Admitted, Of
<1> QED
  BY <1>6, <1>7

\* What the character at k makes of e, in which the word before it has ended.
Moved(text, k, s, e, x) ==
  LET c == Char(text, k)
  IN  /\ x.status = "scanning"
      /\ x.current_index = k + 1 /\ x.begin_index = k + 1
      /\ x.redirect_mode = IF c = "<" THEN "in" ELSE IF c = ">" THEN "out" ELSE e.redirect_mode
      /\ x.is_background = (s.is_background \/ c = "&")
      /\ x.contain_in = (s.contain_in \/ c = "<")
      /\ x.contain_out = (s.contain_out \/ c = ">")
      /\ IF c = "|" /\ k > 0
         THEN /\ x.commands = Append(e.commands, EmptyCommand)
              /\ x.heap = e.heap \cup {<<"command", Len(e.commands) + 1, 0>>}
         ELSE x.commands = e.commands /\ x.heap = e.heap

\* A turn that refuses nothing means what the line means one character further.
LEMMA TurnTaken ==
  ASSUME NEW text \in Seq(Characters), NEW k \in Nat, k < Len(text),
         Char(text, k) \notin {"w", "newline"}, Admitted(text, k),
         NEW s \in Outcomes(text, k), s.status = "scanning", NEW e \in Scans, Taken(text, k, s, e),
         NEW x \in ScansTo(k + 1), Moved(text, k, s, e, x)
  PROVE  x \in Outcomes(text, k + 1)
<1>1. Under(text, k, s) /\ Until(text, "newline", k) = {}
  BY DEF Outcomes
<1>2. RunAt(text, s.begin_index, k) /\ s.redirect_mode = ModeAt(text, s.begin_index)
  BY <1>1 DEF Under
<1>3. x.redirect_mode = ModeAt(text, x.begin_index)
  BY <1>2, ModeNext DEF Moved, Taken
<1>4. RunAt(text, x.begin_index, k + 1)
  BY RunNext DEF Moved
<1>5. Flagged(text, k + 1, x)
  <2>1. \A c : (Until(text, c, k + 1) # {}) <=> (Until(text, c, k) # {} \/ Char(text, k) = c)
    BY UntilNext
  <2>2. Flagged(text, k, s)
    BY <1>1 DEF Under
  <2>3. /\ s.is_background \in BOOLEAN /\ s.contain_in \in BOOLEAN /\ s.contain_out \in BOOLEAN
        /\ x.is_background \in BOOLEAN /\ x.contain_in \in BOOLEAN /\ x.contain_out \in BOOLEAN
    BY DEF Outcomes, ScansTo, Scans
  <2> QED
    BY <2>1, <2>2, <2>3 DEF Flagged, Moved
<1>6. Allowed(text, k + 1)
  BY <1>1, SingleNext DEF Under, Allowed, Taken
<1> DEFINE n == Len(e.commands)
<1>7. e.commands \in Seq(Commands) /\ n \in Nat /\ DOMAIN e.commands = 1 .. n
  BY DEF Scans
<1>8. n = 1 + Cardinality(BarsUntil(text, k)) /\ Cardinality(BarsUntil(text, k)) \in Nat
  BY <1>1, BarsCounted DEF Under, Counted, Taken
<1>9. Counted(text, k + 1, x) /\ Contents(text, k + 1, x.commands) /\ Heaped(text, k + 1, x)
  <2>1. CASE Char(text, k) = "|" /\ k > 0
    <3>1. /\ x.commands = Append(e.commands, EmptyCommand)
          /\ x.heap = e.heap \cup {<<"command", n + 1, 0>>}
      BY <2>1 DEF Moved
    <3>2. /\ Len(x.commands) = n + 1 /\ DOMAIN x.commands = 1 .. n + 1
          /\ x.commands[n + 1] = EmptyCommand
          /\ \A c \in 1 .. n : x.commands[c] = e.commands[c]
      BY <1>7, <3>1
    <3> HIDE DEF n
    <3>3. Counted(text, k + 1, x)
      BY <1>8, <2>1, <3>2, BarsNext DEF Counted
    <3>4. \A r : DoneAs(text, k + 1, n + 1, r) = {}
      <4> SUFFICES ASSUME NEW r, NEW w \in DoneAs(text, k + 1, n + 1, r) PROVE FALSE
        OBVIOUS
      <4>1. w \in Done(text, k + 1) /\ CommandOf(text, w) = n + 1
        BY DEF DoneAs
      <4>2. w \in Words(text) /\ w[1] \in Nat /\ w[1] < k + 1
        BY <4>1, DoneWords
      <4>3. /\ Cardinality(BarsUntil(text, w[1])) \in Nat
            /\ Cardinality(BarsUntil(text, w[1])) <= Cardinality(BarsUntil(text, k))
        <5>1. w[1] <= k
          BY <4>2
        <5> QED
          BY <4>2, <5>1, BarsCounted
      <4> QED
        BY <1>7, <1>8, <4>1, <4>3, ByPlace
    <3>5. Contents(text, k + 1, x.commands)
      <4>1. /\ EmptyCommand.in = Only({}) /\ EmptyCommand.out = Only({})
            /\ InPlace(EmptyCommand.args, {})
        <5>1. /\ EmptyCommand.args = <<>> /\ EmptyCommand.in = NoWord
              /\ EmptyCommand.out = NoWord
          BY DEF EmptyCommand
        <5>2. DOMAIN EmptyCommand.args = {}
          BY <5>1
        <5>3. InPlace(EmptyCommand.args, {})
          BY <5>2 DEF InPlace
        <5> QED
          BY <5>1, <5>3, OnlyOne
      <4>2. \A c \in 1 .. n + 1 : c \in 1 .. n \/ c = n + 1
        BY <1>7
      <4> QED
        BY <1>7, <3>2, <3>4, <4>1, <4>2 DEF Contents, Taken
    <3>6. Heaped(text, k + 1, x)
      <4>1. CommandBlocks(x) = CommandBlocks(e) \cup {<<"command", n + 1, 0>>}
        <5>1. LastCommand(x) = n + 1 /\ LastCommand(e) = n
          BY <3>2 DEF LastCommand, n
        <5>2. 1 .. n + 1 = (1 .. n) \cup {n + 1}
          BY <1>7
        <5> QED
          BY <5>1, <5>2 DEF CommandBlocks
      <4> QED
        BY <3>1, <4>1 DEF Taken, Heaped
    <3> QED
      BY <3>3, <3>5, <3>6
  <2>2. CASE ~(Char(text, k) = "|" /\ k > 0)
    <3>1. x.commands = e.commands /\ x.heap = e.heap
      BY <2>2 DEF Moved
    <3>2. Counted(text, k + 1, x)
      BY <1>8, <2>2, <3>1, BarsNext DEF Counted
    <3> QED
      BY <3>1, <3>2 DEF Taken, Contents, Heaped, CommandBlocks, LastCommand
  <2> QED
    BY <2>1, <2>2
<1>10. Under(text, k + 1, x)
  BY <1>3, <1>4, <1>5, <1>6, <1>9 DEF Under, Moved
<1>11. Until(text, "newline", k + 1) = {}
  BY <1>1, UntilNext
<1>12. x.heap = PipelineFree(x)
  <2>1. x \in Scans
    BY DEF ScansTo
  <2> QED
    BY <1>6, <1>9, <2>1, Balanced
<1> QED
  BY <1>10, <1>11, <1>12 DEF Outcomes, Moved

\* An ordinary character changes nothing.
LEMMA TurnPassed ==
  ASSUME NEW text \in Seq(Characters), NEW k \in Nat, k < Len(text), Char(text, k) = "w",
         NEW s \in Outcomes(text, k), s.status = "scanning",
         NEW x \in ScansTo(k + 1), x = Advance(s)
  PROVE  x \in Outcomes(text, k + 1)
<1>1. Under(text, k, s) /\ Until(text, "newline", k) = {} /\ s \in Scans
  BY DEF Outcomes, ScansTo
<1>2. /\ x.current_index = k + 1 /\ x.begin_index = s.begin_index /\ x.status = s.status
      /\ x.redirect_mode = s.redirect_mode /\ x.commands = s.commands /\ x.heap = s.heap
      /\ x.is_background = s.is_background /\ x.contain_in = s.contain_in
      /\ x.contain_out = s.contain_out
  BY <1>1 DEF Advance, Scans, Under
<1>3. Done(text, k + 1) = Done(text, k)
  BY NoWordEnds
<1>4. \A c : c # "w" => Until(text, c, k + 1) = Until(text, c, k)
  BY UntilNext
<1>5. Cardinality(BarsUntil(text, k + 1)) = Cardinality(BarsUntil(text, k))
  BY BarsNext
<1>6. Flagged(text, k + 1, x)
  BY <1>1, <1>2, <1>4 DEF Under, Flagged
<1>7. Counted(text, k + 1, x)
  BY <1>1, <1>2, <1>5 DEF Under, Counted
<1>8. Contents(text, k + 1, x.commands)
  <2>1. \A c, r : DoneAs(text, k + 1, c, r) = DoneAs(text, k, c, r)
    BY <1>3 DEF DoneAs
  <2> QED
    BY <1>1, <1>2, <2>1 DEF Under, Contents
<1>9. Heaped(text, k + 1, x)
  BY <1>1, <1>2, <1>3 DEF Under, Heaped, CommandBlocks, LastCommand
<1>10. Allowed(text, k + 1)
  BY <1>1, <1>3, <1>4 DEF Under, Allowed, Single, FirstIn
<1>11. RunAt(text, x.begin_index, k + 1)
  BY <1>1, <1>2, RunNext DEF Under
<1>12. Under(text, k + 1, x)
  BY <1>1, <1>2, <1>6, <1>7, <1>8, <1>9, <1>10, <1>11 DEF Under
<1>13. x.heap = PipelineFree(x)
  <2>1. x \in Scans
    BY DEF ScansTo
  <2> QED
    BY <1>7, <1>8, <1>9, <1>10, <2>1, Balanced
<1> QED
  BY <1>1, <1>2, <1>4, <1>12, <1>13 DEF Outcomes

\* A turn of the scan keeps to the meaning of the line, whatever the character.
LEMMA ScanMeans ==
  ASSUME NEW text \in Seq(Characters), Len(text) < MaxLine, Whole(text),
         NEW strict \in BOOLEAN, strict \/ ~Refused(text),
         NEW k \in Nat, k < Len(text), NEW s \in Outcomes(text, k)
  PROVE  Scan(strict, s, Char(text, k)) \in Outcomes(text, k + 1)
<1> DEFINE c == Char(text, k)
           x == Scan(strict, s, c)
<1> SUFFICES x \in Outcomes(text, k + 1)
  OBVIOUS
<1>1. s \in ScansTo(k) /\ s \in Scans /\ c \in Characters
  <2>1. k + 1 \in 1 .. Len(text)
    OBVIOUS
  <2> QED
    BY <2>1 DEF Outcomes, ScansTo, Char
<1>2. x \in ScansTo(k + 1)
  BY <1>1, ScanTyped
<1>3. CASE s.status # "scanning"
  <2>1. x = s /\ s.status = "refused"
    BY <1>1, <1>3 DEF Scan, Outcomes, Scans
  <2> QED
    BY <1>2, <2>1, TurnRefused DEF Outcomes
<1>4. CASE s.status = "scanning"
  <2>1. /\ Under(text, k, s) /\ s.current_index = k /\ Flagged(text, k, s)
        /\ RunAt(text, s.begin_index, k) /\ Single(text, k)
        /\ s.redirect_mode = ModeAt(text, s.begin_index) /\ s.begin_index \in Nat
        /\ s.begin_index <= k /\ s.redirect_mode \in AnyMode
    BY <1>1, <1>4 DEF Outcomes, Under, Allowed, RunAt, Scans
  <2>2. ASSUME c \notin {"w"}, NEW modes \in SUBSET AnyMode, s.redirect_mode \in modes
        PROVE  LET e == EndWord(strict, s, modes)
               IN  e \in Scans /\ ((e = Refuse(s) /\ Refused(text)) \/ Taken(text, k, s, e))
                   /\ e.is_background = s.is_background /\ e.contain_in = s.contain_in
                   /\ e.contain_out = s.contain_out /\ e.current_index = k
    <3> DEFINE e == EndWord(strict, s, modes)
    <3>1. (e = Refuse(s) /\ Refused(text)) \/ Taken(text, k, s, e)
      BY <1>1, <1>4, <2>1, <2>2, WordTaken
    <3>2. WordEnded(s, e, k)
      BY <1>1, <1>4, EndWordTyped
    <3> HIDE DEF e
    <3>3. /\ e \in Scans /\ e.is_background = s.is_background /\ e.contain_in = s.contain_in
          /\ e.contain_out = s.contain_out /\ e.current_index = k
      BY <3>2 DEF WordEnded
    <3> QED
      BY <3>1, <3>3 DEF e
  <2>3. ASSUME NEW r \in Scans, r.status = "refused", r.commands = s.commands, r.heap = s.heap,
               Refused(text), x = Advance(r)
        PROVE  x \in Outcomes(text, k + 1)
    <3>1. x.status = "refused" /\ x.commands = s.commands /\ x.heap = s.heap
      BY <2>3 DEF Advance, Scans
    <3> HIDE DEF x
    <3> QED
      BY <1>2, <2>3, <3>1, TurnRefused
  <2>4. /\ Refuse(s) \in Scans /\ Refuse(s).status = "refused"
        /\ Refuse(s).commands = s.commands /\ Refuse(s).heap = s.heap
    BY <1>1 DEF Refuse, Scans
  <2>5. ASSUME NEW r \in Scans, r.status = "refused", r.commands = s.commands, r.heap = s.heap
        PROVE  /\ Past(r) \in Scans /\ Past(r).status = "refused"
               /\ Past(r).commands = s.commands /\ Past(r).heap = s.heap
    BY <1>1, <2>5 DEF Past, Scans
  <2>6. Admitted(text, k) \/ Refused(text)
    BY <2>1, SingleNext
  <2>7. /\ s.redirect_mode = "in" => s.contain_in
        /\ s.redirect_mode = "out" => s.contain_out
    <3>1. s.redirect_mode # "arg" =>
            \E i \in Until(text, Sign(s.redirect_mode), s.begin_index) : TRUE
      BY <2>1, RoleFrom
    <3>2. \A d : Until(text, d, s.begin_index) \subseteq Until(text, d, k)
      BY <2>1, Places1 DEF Until
    <3> QED
      BY <2>1, <3>1, <3>2 DEF Sign, Flagged
  <2>8. CASE c = "w"
    <3>1. x = Advance(s)
      BY <1>4, <2>8 DEF Scan
    <3> QED
      BY <1>2, <1>4, <2>8, <3>1, TurnPassed
  <2>9. CASE c = " "
    <3> DEFINE e == EndWord(strict, s, AnyMode)
    <3>1. x = Advance(Past(e))
      BY <1>4, <2>9 DEF Scan, Blank
    <3>2. CASE e = Refuse(s) /\ Refused(text)
      BY <2>3, <2>4, <2>5, <3>1, <3>2
    <3>3. CASE Taken(text, k, s, e)
      <4>1. e \in Scans /\ e.is_background = s.is_background /\ e.contain_in = s.contain_in
            /\ e.contain_out = s.contain_out /\ e.current_index = k
        BY <2>1, <2>2, <2>9
      <4> HIDE DEF e
      <4>2. Moved(text, k, s, e, x)
        <5>1. x.is_background \in BOOLEAN /\ s.is_background \in BOOLEAN
              /\ s.contain_in \in BOOLEAN /\ s.contain_out \in BOOLEAN
          BY <1>1, <1>2 DEF ScansTo, Scans
        <5>2. /\ x.status = "scanning" /\ x.current_index = k + 1 /\ x.begin_index = k + 1
              /\ x.redirect_mode = e.redirect_mode /\ x.is_background = e.is_background
              /\ x.contain_in = e.contain_in /\ x.contain_out = e.contain_out
              /\ x.commands = e.commands /\ x.heap = e.heap
          BY <3>1, <3>3, <4>1 DEF Advance, Past, Scans, Taken
        <5> HIDE DEF x
        <5> QED
          BY <2>9, <4>1, <5>1, <5>2 DEF Moved
      <4>3. Admitted(text, k)
        BY <2>9 DEF Admitted
      <4> HIDE DEF x
      <4> QED
        BY <1>2, <1>4, <2>9, <3>3, <4>1, <4>2, <4>3, TurnTaken
    <3> QED
      BY <2>1, <2>2, <2>9, <3>2, <3>3
  <2>10. CASE c = "|"
    <3> DEFINE e == EndWord(strict, s, AnyMode)
    <3>1. CASE s.contain_out
      <4>1. Refused(text)
        BY <2>1, <2>6, <2>10, <3>1 DEF Admitted, Flagged
      <4>2. x = Advance(Refuse(s))
        BY <1>4, <2>10, <3>1, <4>1 DEF Scan, Bar
      <4> QED
        BY <2>3, <2>4, <4>1, <4>2
    <3>2. CASE ~s.contain_out
      <4>1. Admitted(text, k)
        BY <2>1, <2>10, <3>2 DEF Admitted, Flagged
      <4>2. /\ e \in Scans /\ ((e = Refuse(s) /\ Refused(text)) \/ Taken(text, k, s, e))
            /\ e.is_background = s.is_background /\ e.contain_in = s.contain_in
            /\ e.contain_out = s.contain_out /\ e.current_index = k
        BY <2>1, <2>2, <2>10
      <4>3. x = Advance(IF k = 0 THEN Past(s) ELSE Past(AddCommand(e)))
        BY <1>4, <2>1, <2>10, <3>2 DEF Scan, Bar
      <4>4. k = 0 => e = s
        BY <2>1 DEF EndWord
      <4> HIDE DEF e
      <4>5. CASE e = Refuse(s) /\ Refused(text)
        <5>1. k # 0 /\ AddCommand(e) = e
          BY <1>4, <2>4, <4>4, <4>5 DEF AddCommand
        <5> QED
          BY <2>3, <2>4, <2>5, <4>3, <4>5, <5>1
      <4>6. CASE Taken(text, k, s, e)
        <5> DEFINE a == IF k = 0 THEN e ELSE AddCommand(e)
        <5>1. /\ a.status = "scanning" /\ a.redirect_mode = e.redirect_mode
              /\ a.is_background = e.is_background /\ a.contain_in = e.contain_in
              /\ a.contain_out = e.contain_out /\ a.current_index = k
              /\ IF k > 0
                 THEN /\ a.commands = Append(e.commands, EmptyCommand)
                      /\ a.heap = e.heap \cup {<<"command", Len(e.commands) + 1, 0>>}
                 ELSE a.commands = e.commands /\ a.heap = e.heap
          BY <4>2, <4>6 DEF AddCommand, Taken, Scans, LastCommand
        <5>2. x = Advance(Past(a)) /\ a \in Scans
          <6>1. e.status = "scanning" /\ Len(e.commands) > 0
            BY <1>1, <4>6 DEF Taken, ScansTo
          <6>2. Fits(e, k + 1)
            <7>1. WordEnded(s, EndWord(strict, s, AnyMode), k)
              BY <1>1, <1>4, EndWordTyped
            <7> QED
              BY <7>1 DEF WordEnded, e
          <6>3. AddCommand(e) \in Scans
            BY <4>2, <6>1, <6>2, CommandAdded
          <6> QED
            BY <4>2, <4>3, <4>4, <6>3
        <5> HIDE DEF a
        <5>3. /\ x.status = "scanning" /\ x.current_index = k + 1 /\ x.begin_index = k + 1
              /\ x.redirect_mode = a.redirect_mode /\ x.is_background = a.is_background
              /\ x.contain_in = a.contain_in /\ x.contain_out = a.contain_out
              /\ x.commands = a.commands /\ x.heap = a.heap
          BY <5>1, <5>2 DEF Advance, Past, Scans
        <5>4. x.is_background \in BOOLEAN /\ s.is_background \in BOOLEAN
              /\ s.contain_in \in BOOLEAN /\ s.contain_out \in BOOLEAN
          BY <1>1, <1>2 DEF ScansTo, Scans
        <5> HIDE DEF x
        <5>5. Moved(text, k, s, e, x)
          BY <2>10, <4>2, <5>1, <5>3, <5>4 DEF Moved
        <5> QED
          BY <1>2, <1>4, <2>10, <4>1, <4>2, <4>6, <5>5, TurnTaken
      <4> QED
        BY <4>2, <4>5, <4>6
    <3> QED
      BY <3>1, <3>2
  <2>11. CASE c = "&"
    <3> DEFINE e == EndWord(strict, s, AnyMode)
               r == [e EXCEPT !.is_background = TRUE]
    <3>1. x = Advance(Past(r))
      BY <1>4, <2>11 DEF Scan, Ampersand
    <3>2. /\ e \in Scans /\ ((e = Refuse(s) /\ Refused(text)) \/ Taken(text, k, s, e))
          /\ e.is_background = s.is_background /\ e.contain_in = s.contain_in
          /\ e.contain_out = s.contain_out /\ e.current_index = k
      BY <2>1, <2>2, <2>11
    <3> HIDE DEF e
    <3>3. /\ r \in Scans /\ r.status = e.status /\ r.commands = e.commands /\ r.heap = e.heap
          /\ r.current_index = k /\ r.redirect_mode = e.redirect_mode /\ r.is_background = TRUE
          /\ r.contain_in = e.contain_in /\ r.contain_out = e.contain_out
      BY <3>2 DEF Scans
    <3> HIDE DEF r
    <3>4. CASE e = Refuse(s) /\ Refused(text)
      BY <2>3, <2>4, <2>5, <3>1, <3>3, <3>4
    <3>5. CASE Taken(text, k, s, e)
      <4>1. /\ x.status = "scanning" /\ x.current_index = k + 1 /\ x.begin_index = k + 1
            /\ x.redirect_mode = e.redirect_mode /\ x.is_background = TRUE
            /\ x.contain_in = e.contain_in /\ x.contain_out = e.contain_out
            /\ x.commands = e.commands /\ x.heap = e.heap
        BY <3>1, <3>3, <3>5 DEF Advance, Past, Scans, Taken
      <4>2. s.contain_in \in BOOLEAN /\ s.contain_out \in BOOLEAN
        BY <1>1 DEF ScansTo, Scans
      <4>3. Admitted(text, k)
        BY <2>11 DEF Admitted
      <4> HIDE DEF x
      <4>4. Moved(text, k, s, e, x)
        BY <2>11, <3>2, <4>1, <4>2 DEF Moved
      <4> QED
        BY <1>2, <1>4, <2>11, <3>2, <3>5, <4>3, <4>4, TurnTaken
    <3> QED
      BY <3>2, <3>4, <3>5
  <2>12. CASE c = "<"
    <3> DEFINE e == EndWord(strict, s, {"arg", "out"})
               r == [e EXCEPT !.redirect_mode = "in", !.contain_in = TRUE]
    <3>1. CASE s.contain_in
      <4>1. Refused(text)
        BY <2>1, <2>6, <2>12, <3>1 DEF Admitted, Flagged
      <4>2. x = Advance(Refuse(s))
        BY <1>4, <2>12, <3>1, <4>1 DEF Scan, Less
      <4> QED
        BY <2>3, <2>4, <4>1, <4>2
    <3>2. CASE ~s.contain_in
      <4>1. Admitted(text, k)
        BY <2>1, <2>12, <3>2 DEF Admitted, Flagged
      <4>2. /\ e \in Scans /\ ((e = Refuse(s) /\ Refused(text)) \/ Taken(text, k, s, e))
            /\ e.is_background = s.is_background /\ e.contain_in = s.contain_in
            /\ e.contain_out = s.contain_out /\ e.current_index = k
        <5>1. s.redirect_mode \in {"arg", "out"} /\ {"arg", "out"} \in SUBSET AnyMode
          BY <2>1, <2>7, <3>2 DEF AnyMode
        <5> QED
          BY <2>2, <2>12, <5>1
      <4>3. x = Advance(Past(r))
        BY <1>4, <2>12, <3>2 DEF Scan, Less
      <4> HIDE DEF e
      <4>4. /\ r \in Scans /\ r.status = e.status /\ r.commands = e.commands /\ r.heap = e.heap
            /\ r.current_index = k /\ r.redirect_mode = "in"
            /\ r.is_background = e.is_background /\ r.contain_in = TRUE
            /\ r.contain_out = e.contain_out
        BY <4>2 DEF Scans, AnyMode
      <4> HIDE DEF r
      <4>5. CASE e = Refuse(s) /\ Refused(text)
        BY <2>3, <2>4, <2>5, <4>3, <4>4, <4>5
      <4>6. CASE Taken(text, k, s, e)
        <5>1. /\ x.status = "scanning" /\ x.current_index = k + 1 /\ x.begin_index = k + 1
              /\ x.redirect_mode = "in" /\ x.is_background = e.is_background
              /\ x.contain_in = TRUE /\ x.contain_out = e.contain_out
              /\ x.commands = e.commands /\ x.heap = e.heap
          BY <4>3, <4>4, <4>6 DEF Advance, Past, Scans, Taken
        <5>2. s.is_background \in BOOLEAN /\ s.contain_out \in BOOLEAN
          BY <1>1 DEF ScansTo, Scans
        <5> HIDE DEF x
        <5>3. Moved(text, k, s, e, x)
          BY <2>12, <4>2, <5>1, <5>2 DEF Moved
        <5> QED
          BY <1>2, <1>4, <2>12, <4>1, <4>2, <4>6, <5>3, TurnTaken
      <4> QED
        BY <4>2, <4>5, <4>6
    <3> QED
      BY <3>1, <3>2
  <2>13. CASE c = ">"
    <3> DEFINE e == EndWord(strict, s, {"arg", "in"})
               r == [e EXCEPT !.redirect_mode = "out", !.contain_out = TRUE]
    <3>1. CASE s.contain_out
      <4>1. Refused(text)
        BY <2>1, <2>6, <2>13, <3>1 DEF Admitted, Flagged
      <4>2. x = Advance(Refuse(s))
        BY <1>4, <2>13, <3>1, <4>1 DEF Scan, Greater
      <4> QED
        BY <2>3, <2>4, <4>1, <4>2
    <3>2. CASE ~s.contain_out
      <4>1. Admitted(text, k)
        BY <2>1, <2>13, <3>2 DEF Admitted, Flagged
      <4>2. /\ e \in Scans /\ ((e = Refuse(s) /\ Refused(text)) \/ Taken(text, k, s, e))
            /\ e.is_background = s.is_background /\ e.contain_in = s.contain_in
            /\ e.contain_out = s.contain_out /\ e.current_index = k
        <5>1. s.redirect_mode \in {"arg", "in"} /\ {"arg", "in"} \in SUBSET AnyMode
          BY <2>1, <2>7, <3>2 DEF AnyMode
        <5> QED
          BY <2>2, <2>13, <5>1
      <4>3. x = Advance(Past(r))
        BY <1>4, <2>13, <3>2 DEF Scan, Greater
      <4> HIDE DEF e
      <4>4. /\ r \in Scans /\ r.status = e.status /\ r.commands = e.commands /\ r.heap = e.heap
            /\ r.current_index = k /\ r.redirect_mode = "out"
            /\ r.is_background = e.is_background /\ r.contain_in = e.contain_in
            /\ r.contain_out = TRUE
        BY <4>2 DEF Scans, AnyMode
      <4> HIDE DEF r
      <4>5. CASE e = Refuse(s) /\ Refused(text)
        BY <2>3, <2>4, <2>5, <4>3, <4>4, <4>5
      <4>6. CASE Taken(text, k, s, e)
        <5>1. /\ x.status = "scanning" /\ x.current_index = k + 1 /\ x.begin_index = k + 1
              /\ x.redirect_mode = "out" /\ x.is_background = e.is_background
              /\ x.contain_in = e.contain_in /\ x.contain_out = TRUE
              /\ x.commands = e.commands /\ x.heap = e.heap
          BY <4>3, <4>4, <4>6 DEF Advance, Past, Scans, Taken
        <5>2. s.is_background \in BOOLEAN /\ s.contain_in \in BOOLEAN
          BY <1>1 DEF ScansTo, Scans
        <5> HIDE DEF x
        <5>3. Moved(text, k, s, e, x)
          BY <2>13, <4>2, <5>1, <5>2 DEF Moved
        <5> QED
          BY <1>2, <1>4, <2>13, <4>1, <4>2, <4>6, <5>3, TurnTaken
      <4> QED
        BY <4>2, <4>5, <4>6
    <3> QED
      BY <3>1, <3>2
  <2>14. CASE c = "newline"
    <3> DEFINE e == EndWord(strict, s, AnyMode)
               r == [e EXCEPT !.status = "ended"]
    <3>1. /\ e \in Scans /\ ((e = Refuse(s) /\ Refused(text)) \/ Taken(text, k, s, e))
          /\ e.is_background = s.is_background /\ e.current_index = k
      BY <2>1, <2>2, <2>14
    <3>2. x = Advance(IF e.status = "refused" THEN e ELSE r)
      BY <1>4, <2>14 DEF Scan, Newline
    <3> HIDE DEF e
    <3>3. CASE e = Refuse(s) /\ Refused(text)
      BY <2>3, <2>4, <3>2, <3>3
    <3>4. CASE Taken(text, k, s, e)
      <4>1. k + 1 = Len(text) /\ k \in At(text, "newline")
        <5>1. k + 1 \in DOMAIN text /\ text[k + 1] = "newline"
          BY <2>14 DEF Char
        <5> QED
          BY <2>14, <5>1, Places1 DEF Whole
      <4>2. /\ x.status = "ended" /\ x.commands = e.commands /\ x.heap = e.heap
            /\ x.is_background = e.is_background
        BY <3>1, <3>2, <3>4 DEF Advance, Scans, Taken
      <4> HIDE DEF x
      <4>3. Counted(text, k + 1, x)
        BY <2>1, <2>14, <3>4, <4>2, BarsNext DEF Counted, Under, Taken
      <4>4. Contents(text, k + 1, x.commands) /\ Heaped(text, k + 1, x)
        BY <3>4, <4>2 DEF Taken, Heaped, CommandBlocks, LastCommand
      <4>5. Allowed(text, k + 1)
        <5>1. Admitted(text, k)
          BY <2>14 DEF Admitted
        <5> QED
          BY <2>1, <3>4, <5>1, SingleNext DEF Allowed, Taken
      <4>6. x.is_background = (At(text, "&") # {})
        <5>1. Until(text, "&", k + 1) = Until(text, "&", k)
          BY <2>14, UntilNext
        <5>2. Until(text, "&", k + 1) = At(text, "&")
          BY <4>1 DEF Until, At
        <5> QED
          BY <2>1, <3>1, <4>2, <5>1, <5>2 DEF Flagged
      <4>7. x.heap = PipelineFree(x)
        <5>1. x \in Scans
          BY <1>2 DEF ScansTo
        <5> QED
          BY <4>3, <4>4, <4>5, <5>1, Balanced
      <4> QED
        BY <1>2, <4>1, <4>2, <4>3, <4>4, <4>5, <4>6, <4>7 DEF Outcomes, Built
    <3> QED
      BY <3>1, <3>3, <3>4
  <2> QED
    BY <1>1, <2>8, <2>9, <2>10, <2>11, <2>12, <2>13, <2>14 DEF Characters
<1> QED
  BY <1>3, <1>4

\* Before the first character nothing has been said.
LEMMA StartMeans ==
  ASSUME NEW text \in Seq(Characters)
  PROVE  Start \in Outcomes(text, 0)
<1> DEFINE s == Start
<1>1. /\ s.current_index = 0 /\ s.begin_index = 0 /\ s.redirect_mode = "arg"
      /\ s.commands = <<EmptyCommand>> /\ ~s.is_background /\ ~s.contain_in /\ ~s.contain_out
      /\ s.is_background \in BOOLEAN /\ s.contain_in \in BOOLEAN /\ s.contain_out \in BOOLEAN
      /\ s.status = "scanning" /\ s.heap = {<<"pipeline", 0, 0>>, <<"command", 1, 0>>}
  BY DEF Start
<1>2. s \in ScansTo(0) /\ s \in Scans
  BY StartTyped DEF ScansTo
<1> HIDE DEF s
<1>3. \A c : Until(text, c, 0) = {}
  BY Places1 DEF Until
<1>4. Done(text, 0) = {}
  BY WordPlaces DEF Done
<1>5. \A c, r : DoneAs(text, 0, c, r) = {}
  BY <1>4 DEF DoneAs
<1>6. Cardinality(BarsUntil(text, 0)) = 0
  <2>1. BarsUntil(text, 0) = {}
    BY Places1 DEF BarsUntil, Bars
  <2> QED
    BY <2>1, FS_EmptySet
<1>7. RunAt(text, s.begin_index, 0)
  <2>1. 0 - 1 \notin At(text, "w")
    BY DEF At
  <2> QED
    BY <1>1, <2>1 DEF RunAt
<1>8. s.redirect_mode = ModeAt(text, s.begin_index)
  <2>1. Pending(text, 0) = {}
    BY PendingPlaces
  <2> QED
    BY <1>1, <2>1 DEF ModeAt
<1>9. Len(s.commands) = 1 /\ DOMAIN s.commands = {1} /\ s.commands[1] = EmptyCommand
  BY <1>1
<1>10. Contents(text, 0, s.commands)
  <2>1. /\ EmptyCommand.args = <<>> /\ EmptyCommand.in = NoWord /\ EmptyCommand.out = NoWord
    BY DEF EmptyCommand
  <2>2. DOMAIN EmptyCommand.args = {}
    BY <2>1
  <2>3. InPlace(EmptyCommand.args, {})
    BY <2>2 DEF InPlace
  <2> QED
    BY <1>5, <1>9, <2>1, <2>3, OnlyOne DEF Contents
<1>11. Heaped(text, 0, s)
  <2>1. CommandBlocks(s) = {<<"command", 1, 0>>}
    BY <1>9 DEF CommandBlocks, LastCommand
  <2> QED
    BY <1>1, <1>4, <2>1 DEF Heaped
<1>12. Counted(text, 0, s) /\ Flagged(text, 0, s) /\ Allowed(text, 0)
  BY <1>1, <1>3, <1>4, <1>6, <1>9 DEF Counted, Flagged, Allowed, Single, FirstIn
<1>13. Under(text, 0, s)
  BY <1>1, <1>7, <1>8, <1>10, <1>11, <1>12 DEF Under
<1>14. s.heap = PipelineFree(s)
  BY <1>2, <1>10, <1>11, <1>12, Balanced
<1>15. s \in Outcomes(text, 0)
  BY <1>1, <1>2, <1>3, <1>13, <1>14 DEF Outcomes
<1> QED
  BY <1>15 DEF s

\* The scan of a line means what the line means.
LEMMA ScannedMeans ==
  ASSUME NEW text \in Seq(Characters), Len(text) < MaxLine, Whole(text),
         NEW strict \in BOOLEAN, strict \/ ~Refused(text)
  PROVE  Scanned(strict, text) \in Outcomes(text, Len(text))
<1> DEFINE n == Len(text)
           States == [k \in 0 .. n |-> Outcomes(text, k)]
<1>1. n \in Nat /\ DOMAIN text = 1 .. n
  OBVIOUS
<1>2. Start \in States[0]
  BY <1>1, StartMeans
<1>3. \A k \in 1 .. n : \A s \in States[k - 1] : Scan(strict, s, text[k]) \in States[k]
  <2> SUFFICES ASSUME NEW k \in 1 .. n, NEW s \in Outcomes(text, k - 1)
               PROVE  Scan(strict, s, text[k]) \in Outcomes(text, k)
    BY <1>1
  <2>1. k - 1 \in Nat /\ k - 1 < Len(text) /\ (k - 1) + 1 = k
    OBVIOUS
  <2>2. text[k] = Char(text, k - 1)
    BY <2>1 DEF Char
  <2>3. Scan(strict, s, Char(text, k - 1)) \in Outcomes(text, (k - 1) + 1)
    BY <2>1, ScanMeans
  <2> QED
    BY <2>1, <2>2, <2>3
<1> HIDE DEF n
<1>4. Scanned(strict, text) \in States[n]
  <2> HIDE DEF States
  <2> QED
    BY <1>1, <1>2, <1>3, ScanCarries
<1> QED
  BY <1>1, <1>4 DEF n

\* At the end every character has been seen.
LEMMA Complete ==
  ASSUME NEW text \in Seq(Characters)
  PROVE  /\ BarsUntil(text, Len(text)) = Bars(text)
         /\ \A c : Until(text, c, Len(text)) = At(text, c)
<1>1. \A c : \A i \in At(text, c) : i < Len(text)
  BY DEF At
<1>2. BarsUntil(text, Len(text)) = Bars(text)
  BY <1>1 DEF BarsUntil, Bars
<1> QED
  BY <1>1, <1>2 DEF Until

\* No word reaches the end of a line that ends in a newline, so that all have ended.
LEMMA AllDone ==
  ASSUME NEW text \in Seq(Characters), Whole(text), At(text, "newline") # {}
  PROVE  /\ Done(text, Len(text)) = Words(text)
         /\ \A c, r : DoneAs(text, Len(text), c, r) = WordsAs(text, c, r)
<1>1. PICK i \in At(text, "newline") : TRUE
  OBVIOUS
<1>2. i \in Nat /\ i = Len(text) - 1 /\ Char(text, i) = "newline"
  BY <1>1 DEF At, Char, Whole
<1>3. i \notin At(text, "w")
  BY <1>2 DEF At
<1>4. ASSUME NEW w \in Words(text) PROVE w[2] < Len(text)
  <2>1. /\ w[1] \in Nat /\ w[2] \in Nat /\ w[1] < w[2] /\ w[2] <= Len(text)
        /\ w[1] .. w[2] - 1 \subseteq At(text, "w")
    BY WordPlaces
  <2>2. CASE w[2] = Len(text)
    <3>1. i \in w[1] .. w[2] - 1
      BY <1>2, <2>1, <2>2
    <3> QED
      BY <1>3, <2>1, <3>1
  <2> QED
    BY <2>1, <2>2
<1>5. Done(text, Len(text)) = Words(text)
  BY <1>4 DEF Done
<1> QED
  BY <1>5 DEF DoneAs, WordsAs

\* What the words that something follows make of a line.
Said(text) ==
  [k \in 1 .. 1 + Cardinality(Bars(text)) |->
     [args |-> InOrder(DoneAs(text, Len(text), k, "arg")),
      in   |-> Only(DoneAs(text, Len(text), k, "in")),
      out  |-> Only(DoneAs(text, Len(text), k, "out"))]]

LEMMA SaidIsMeaning ==
  ASSUME NEW text \in Seq(Characters), Whole(text), At(text, "newline") # {}
  PROVE  Said(text) = Meaning(text)
BY AllDone DEF Said, Meaning

\* A line that ends in a newline and is scanned to its end is not one to be refused.
LEMMA BuiltAllowed ==
  ASSUME NEW text \in Seq(Characters), Whole(text), At(text, "newline") # {},
         NEW s \in Scans, Built(text, s)
  PROVE  ~Refused(text)
<1>1. ~Refused(text)
  <2>1. Allowed(text, Len(text))
    BY DEF Built
  <2>2. /\ \A i, j \in At(text, "<") : i = j
        /\ \A i, j \in At(text, ">") : i = j
        /\ \A i \in At(text, ">"), j \in At(text, "|") : ~(i < j)
    BY <2>1, Complete DEF Allowed, Single
  <2>3. \A w \in Words(text) : Role(text, w) = "in" => CommandOf(text, w) = 1
    BY <2>1, AllDone DEF Allowed, FirstIn
  <2>4. ASSUME NEW S, \A i, j \in S : i = j PROVE ~(Cardinality(S) > 1)
    <3>1. CASE S = {}
      BY <3>1, FS_EmptySet
    <3>2. CASE S # {}
      <4>1. PICK i \in S : TRUE
        BY <3>2
      <4>2. S = {i}
        BY <2>4, <4>1
      <4>3. Cardinality({i}) = 1
        BY FS_Singleton
      <4> QED
        BY <4>2, <4>3
    <3> QED
      BY <3>1, <3>2
  <2>5. ~(Cardinality(At(text, "<")) > 1) /\ ~(Cardinality(At(text, ">")) > 1)
    BY <2>2, <2>4
  <2>6. ~(\E w \in Words(text) : Role(text, w) = "in" /\ CommandOf(text, w) > 1)
    BY <2>3
  <2> QED
    BY <2>2, <2>5, <2>6 DEF Refused
<1> QED
  BY <1>1

\* What is built of a line that is scanned to its end is what its words say.
LEMMA BuiltMeans ==
  ASSUME NEW text \in Seq(Characters), NEW s \in Scans, Built(text, s)
  PROVE  s.commands = Said(text)
<1> DEFINE n == 1 + Cardinality(Bars(text))
<1>2. Len(s.commands) = n /\ DOMAIN s.commands = 1 .. n /\ s.commands \in Seq(Commands)
  BY Complete DEF Built, Counted, Scans
<1>3. ASSUME NEW k \in 1 .. n
      PROVE  s.commands[k] = [args |-> InOrder(DoneAs(text, Len(text), k, "arg")),
                              in   |-> Only(DoneAs(text, Len(text), k, "in")),
                              out  |-> Only(DoneAs(text, Len(text), k, "out"))]
  <2> DEFINE c == s.commands[k]
             S == DoneAs(text, Len(text), k, "arg")
  <2>1. /\ c \in Commands /\ InPlace(c.args, S)
        /\ c.in = Only(DoneAs(text, Len(text), k, "in")) /\ c.out = Only(DoneAs(text, Len(text), k, "out"))
    BY <1>2, Complete DEF Built, Contents
  <2>2. \A w \in S : w[1] \in Nat
    BY WordPlaces DEF DoneAs, Done
  <2> HIDE DEF c, S
  <2>3. c.args \in Seq(Places) /\ Len(c.args) \in Nat /\ DOMAIN c.args = 1 .. Len(c.args)
    BY <2>1 DEF Commands
  <2>4. c.args \in [1 .. Len(c.args) -> S]
    BY <2>1, <2>3 DEF InPlace
  <2>5. c.args = InOrder(S)
    BY <2>1, <2>2, <2>3, <2>4, Ordered
  <2>6. c = [args |-> c.args, in |-> c.in, out |-> c.out]
    BY <2>1 DEF Commands
  <2> QED
    BY <2>1, <2>5, <2>6 DEF c, S
<1>4. s.commands = [k \in 1 .. n |-> s.commands[k]]
  BY <1>2
<1> QED
  BY <1>3, <1>4 DEF Said

\* pipeline_build refuses the lines that are to be refused, if it refuses any, and
\* makes of every other line what its words say that something follows: all of them
\* when the line ends in a newline (myshell_parser.c 26-341).
THEOREM LineIsBuilt ==
  ASSUME NEW text \in Seq(Characters), Len(text) < MaxLine, Whole(text),
         NEW strict \in BOOLEAN, strict \/ ~Refused(text)
  PROVE  LET built == Scanned(strict, text)
         IN  /\ built.heap = PipelineFree(built)
             /\ built.status \in {"scanning", "ended", "refused"}
             /\ built.status = "refused" => Refused(text)
             /\ built.status # "refused" =>
                  /\ built.status = (IF At(text, "newline") # {} THEN "ended" ELSE "scanning")
                  /\ built.commands = Said(text)
                  /\ built.is_background = (At(text, "&") # {})
                  /\ Built(text, built)
             /\ At(text, "newline") # {} /\ Refused(text) => built.status = "refused"
<1> DEFINE s == Scanned(strict, text)
<1>1. s \in Outcomes(text, Len(text))
  BY ScannedMeans
<1> HIDE DEF s
<1>2. s \in Scans /\ s.heap = PipelineFree(s) /\ s.status \in {"scanning", "ended", "refused"}
  BY <1>1 DEF Outcomes, ScansTo, Scans
<1>3. CASE s.status = "scanning"
  <2>1. Under(text, Len(text), s) /\ At(text, "newline") = {}
    BY <1>1, <1>3, Complete DEF Outcomes
  <2>2. Built(text, s)
    BY <2>1, Complete DEF Under, Flagged, Built
  <2> QED
    BY <1>2, <1>3, <2>1, <2>2, BuiltMeans DEF s, Built
<1>4. CASE s.status = "ended"
  <2>1. Built(text, s) /\ At(text, "newline") # {}
    BY <1>1, <1>4 DEF Outcomes
  <2>2. ~Refused(text)
    BY <1>2, <2>1, BuiltAllowed
  <2> QED
    BY <1>2, <1>4, <2>1, <2>2, BuiltMeans DEF s, Built
<1>5. CASE s.status = "refused"
  <2>1. Refused(text)
    BY <1>1, <1>5 DEF Outcomes
  <2> QED
    BY <1>2, <1>5, <2>1 DEF s
<1> QED
  BY <1>2, <1>3, <1>4, <1>5
=============================================================================
