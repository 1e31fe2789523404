---------------------------- MODULE ShellProofs -----------------------------
(***************************************************************************)
(* Proofs about Shell, for every script, line length and number of         *)
(* processes and descriptors.                                              *)
(***************************************************************************)
EXTENDS Shell, ParserProofs, FiniteSetTheorems, TLAPS

-----------------------------------------------------------------------------
(* Descriptor tables.                                                      *)

Tables == [FdNumbers -> Objects]

\* Descriptors are numbers from 0, and the standard ones are among them.
LEMMA Descriptors ==
  /\ FdNumbers \in SUBSET Nat /\ {STDIN, STDOUT, STDERR} \subseteq FdNumbers
  /\ Closed \in Objects /\ Terminal \in Objects
  /\ \A j, k \in Nat : {ReadEnd(j, k), WriteEnd(j, k), InFile(j), OutFile(j)} \subseteq Objects
BY MaxFdAssumption DEF FdNumbers, STDIN, STDOUT, STDERR, Objects, Closed, Terminal,
   ReadEnd, WriteEnd, InFile, OutFile

\* What two descriptors stand for is told apart by its kind.
LEMMA Kinds ==
  /\ Closed[1] = "closed" /\ Terminal[1] = "terminal"
  /\ \A j, k : /\ ReadEnd(j, k)[1] = "read" /\ WriteEnd(j, k)[1] = "write"
               /\ InFile(j)[1] = "in" /\ OutFile(j)[1] = "out"
               /\ ReadEnd(j, k)[2] = j /\ ReadEnd(j, k)[3] = k
               /\ PipeOf(ReadEnd(j, k)) = <<j, k>> /\ PipeOf(WriteEnd(j, k)) = <<j, k>>
BY DEF Closed, Terminal, ReadEnd, WriteEnd, InFile, OutFile, PipeOf

\* The end of a pipe is what its kind, pipeline and stage say.
LEMMA EndIs ==
  ASSUME NEW object \in Objects
  PROVE  /\ object[1] = "read" => object = ReadEnd(object[2], object[3])
         /\ object[1] = "write" => object = WriteEnd(object[2], object[3])
BY DEF Objects, ReadEnd, WriteEnd

\* The lowest free number.
LEMMA LowestUnused ==
  ASSUME NEW S \in SUBSET FdNumbers, S # {}
  PROVE  Min(S) \in S /\ \A n \in S : Min(S) <= n
BY LeastNatural, Descriptors

\* Opening and duplicating take the lowest free number.
LEMMA Opened ==
  ASSUME NEW fd \in Tables, Unused(fd) # {}, NEW object \in Objects
  PROVE  LET n == Min(Unused(fd))
         IN  /\ n \in FdNumbers /\ fd[n] = Closed
             /\ \A m \in FdNumbers : m < n => fd[m] # Closed
             /\ OpenAs(fd, object) \in Tables
             /\ OpenAs(fd, object) = [fd EXCEPT ![n] = object]
<1>1. Unused(fd) \in SUBSET FdNumbers
  BY DEF Unused
<1> DEFINE n == Min(Unused(fd))
<1>2. n \in Unused(fd) /\ \A m \in Unused(fd) : n <= m
  BY <1>1, LowestUnused
<1> HIDE DEF n
<1>3. \A m \in FdNumbers : m < n => fd[m] # Closed
  BY <1>1, <1>2, Descriptors DEF Unused
<1>4. n \in FdNumbers /\ fd[n] = Closed
  BY <1>2 DEF Unused
<1> QED
  BY <1>3, <1>4 DEF OpenAs, n, Tables

\* Closing a number makes it free.
LEMMA CloseTyped ==
  ASSUME NEW fd \in Tables, NEW n
  PROVE  Close(fd, n) \in Tables
BY Descriptors DEF Close, Tables

\* After close, dup gives that number away again if all lower ones are in use.
LEMMA DupInto ==
  ASSUME NEW fd \in Tables, NEW n \in FdNumbers, NEW m \in FdNumbers, m # n,
         fd[m] # Closed, \A i \in FdNumbers : i < n => fd[i] # Closed
  PROVE  /\ Dup(Close(fd, n), m) = [fd EXCEPT ![n] = fd[m]]
         /\ Dup(Close(fd, n), m) \in Tables
<1> DEFINE c == Close(fd, n)
           u == Min(Unused(c))
<1>1. c \in Tables /\ c[n] = Closed /\ \A i \in FdNumbers : i # n => c[i] = fd[i]
  BY CloseTyped DEF Close, Tables
<1>2. n \in Unused(c)
  BY <1>1 DEF Unused
<1>3. fd[m] \in Objects
  BY DEF Tables
<1>4. u \in Unused(c) /\ u <= n /\ u \in FdNumbers
  <2>1. Unused(c) \in SUBSET FdNumbers
    BY DEF Unused
  <2> HIDE DEF c
  <2> QED
    BY <1>2, <2>1, LowestUnused
<1>5. u = n
  <2>1. c[u] = Closed
    BY <1>4 DEF Unused
  <2> HIDE DEF u, c
  <2>2. u # n => c[u] = fd[u]
    BY <1>1, <1>4
  <2>3. ~(u < n)
    BY <1>4, <2>1, <2>2, Descriptors
  <2> QED
    BY <1>4, <2>3, Descriptors
<1>6. Dup(c, m) = [c EXCEPT ![n] = fd[m]]
  BY <1>1, <1>5 DEF Dup, OpenAs
<1>7. [c EXCEPT ![n] = fd[m]] = [fd EXCEPT ![n] = fd[m]]
  BY <1>1 DEF Close, Tables
<1>8. [fd EXCEPT ![n] = fd[m]] \in Tables
  BY <1>3 DEF Tables
<1> QED
  BY <1>6, <1>7, <1>8

\* Both outputs become what n stands for.
LEMMA OutAndErrBecome ==
  ASSUME NEW fd \in Tables, NEW n \in FdNumbers, n > STDERR, fd[n] # Closed,
         fd[STDIN] # Closed
  PROVE  /\ OutAndErr(fd, n) = [fd EXCEPT ![STDOUT] = fd[n], ![STDERR] = fd[n]]
         /\ OutAndErr(fd, n) \in Tables
<1>1. {STDIN, STDOUT, STDERR} \subseteq FdNumbers /\ n \in Nat /\ FdNumbers \subseteq Nat
  BY Descriptors
<1> DEFINE one == [fd EXCEPT ![STDOUT] = fd[n]]
           two == [one EXCEPT ![STDERR] = fd[n]]
<1>2. /\ n # STDOUT /\ n # STDERR
      /\ \A i \in FdNumbers : i < STDOUT => fd[i] # Closed
  BY <1>1 DEF STDIN, STDOUT, STDERR
<1>3. Dup(Close(fd, STDOUT), n) = one /\ one \in Tables
  <2>1. STDOUT \in FdNumbers
    BY <1>1
  <2> QED
    BY <1>2, <2>1, DupInto
<1>4. one[n] = fd[n] /\ \A i \in FdNumbers : i < STDERR => one[i] # Closed
  BY <1>1 DEF STDIN, STDOUT, STDERR, Tables
<1> HIDE DEF one
<1>5. Dup(Close(one, STDERR), n) = two /\ two \in Tables
  <2>1. /\ STDERR \in FdNumbers /\ one \in Tables /\ n # STDERR /\ one[n] # Closed
        /\ \A i \in FdNumbers : i < STDERR => one[i] # Closed
    BY <1>1, <1>2, <1>3, <1>4
  <2>2. /\ Dup(Close(one, STDERR), n) = [one EXCEPT ![STDERR] = one[n]]
        /\ Dup(Close(one, STDERR), n) \in Tables
    BY <2>1, DupInto
  <2> QED
    BY <1>4, <2>2
<1> QED
  BY <1>3, <1>5 DEF OutAndErr, one

-----------------------------------------------------------------------------
(* What is true of every process by itself.                                *)

IdleCode  == {"prompt", "parse", "fork_leader"}
RunCode   == {"loop", "fork", "wait"}
StageCode == Programs \cup {"redirect", "exec"}

\* The pipe to the next command has been made.
Owns(pr) == pr.pc = "fork" \/ (pr.pc \in {"wait", "redirect"} /\ ~IsLast(pr))

AllUsedBelow(fd, w) == \A n \in FdNumbers : n < w => fd[n] # Closed

\* The numbers in pipe_list.  The write end of the pipe before is closed, and the
\* next pipe has been given its number.
PipeShape(pr) ==
  LET list == pr.pipe_list  k == pr.at + 1  j == pr.job.number
  IN  /\ pr.pc = "fork" => ~IsLast(pr)
      /\ Len(list) = IF Owns(pr) THEN k ELSE pr.at
      /\ \A i \in 1 .. Len(list) : pr.fd[list[i][1]] = ReadEnd(j, i)
      /\ pr.at > 0 /\ ~Owns(pr) =>
           pr.fd[list[pr.at][2]] = Closed /\ AllUsedBelow(pr.fd, list[pr.at][2])
      /\ Owns(pr) => /\ pr.fd[list[k][2]] = WriteEnd(j, k)
                     /\ AllUsedBelow(pr.fd, list[k][2])
                     /\ pr.at > 0 => list[pr.at][2] = list[k][1]

\* A write end is that of the stage being run.
Writes(pr) ==
  \A n \in FdNumbers : pr.fd[n][1] = "write" =>
    /\ pr.fd[n] = WriteEnd(pr.job.number, pr.at + 1)
    /\ pr.pc \in {"fork", "wait"} \cup StageCode
    /\ pr.pc \in RunCode \cup {"redirect"} => Owns(pr) /\ n = pr.pipe_list[pr.at + 1][2]

\* What Plumbed says of one process.
Connected(pr) ==
  pr.pc \in Programs \cup {"exec"} =>
    LET j == pr.job.number
        k == pr.at + 1
    IN  /\ pr.fd[STDIN] = IF k > 1 THEN ReadEnd(j, k - 1)
                          ELSE IF Command(pr).in THEN InFile(j) ELSE Terminal
        /\ pr.fd[STDERR] = pr.fd[STDOUT]
        /\ pr.fd[STDOUT] \in IF ~IsLast(pr) THEN {WriteEnd(j, k)}
                             ELSE IF Command(pr).out THEN {OutFile(j), Closed}
                             ELSE {Terminal}

\* Who is in a write has a pipe to write to.
Directed(pr) == pr.pc = "writing" => pr.fd[STDOUT][1] = "write"

Standard(pr) == \A n \in {STDIN, STDOUT, STDERR} : pr.fd[n] = Terminal

Sound(pr) ==
  /\ pr.pc \in {"none", "zombie"} => \A n \in FdNumbers : pr.fd[n] = Closed
  /\ pr.pc \in IdleCode => pr.at = 0 /\ pr.pipe_list = <<>>
  /\ pr.pc \in ShellCode \cup {"redirect"} => Standard(pr)
  /\ pr.pc \in RunCode \cup {"redirect"} => PipeShape(pr)
  /\ Writes(pr)
  /\ Connected(pr)
  /\ Directed(pr)

\* The state of a process has all its fields.
LEMMA ProcessFields ==
  ASSUME NEW pr \in Processes
  PROVE  /\ pr.fd \in Tables /\ pr.job \in Jobs /\ pr.job.number \in Nat /\ pr.at \in Nat
         /\ pr.pipe_list \in Seq(FdNumbers \X FdNumbers)
         /\ pr.parent \in Pids \cup {NoPid} /\ pr.child \in Pids \cup {NoPid}
         /\ pr.pc \in ShellCode \cup StageCode \cup {"none", "zombie"}
BY DEF Processes, Tables, Jobs, StageCode

\* Whether a process is sound does not depend on its parent and child.
LEMMA SoundOfSame ==
  ASSUME NEW pr \in Processes, NEW new \in Processes, Sound(pr),
         new.pc = pr.pc, new.job = pr.job, new.at = pr.at, new.fd = pr.fd,
         new.pipe_list = pr.pipe_list
  PROVE  Sound(new)
<1>1. (IsLast(new) <=> IsLast(pr)) /\ (Owns(new) <=> Owns(pr)) /\ Command(new) = Command(pr)
  BY DEF IsLast, Owns, Stages, Command
<1> HIDE DEF IsLast, Owns, Command
<1>2. PipeShape(pr) => PipeShape(new)
  BY <1>1 DEF PipeShape
<1>3. Writes(new) /\ Connected(new)
  BY <1>1 DEF Writes, Connected, Sound
<1> QED
  BY <1>2, <1>3 DEF Sound, Directed, Standard

\* A stage stays sound while its descriptors do not change.
LEMMA StageSound ==
  ASSUME NEW pr \in Processes, Sound(pr), pr.pc \in Programs \cup {"exec"},
         NEW pc \in Programs, pc = "writing" => pr.fd[STDOUT][1] = "write"
  PROVE  /\ [pr EXCEPT !.pc = pc] \in Processes
         /\ Sound([pr EXCEPT !.pc = pc])
<1> DEFINE new == [pr EXCEPT !.pc = pc]
<1>1. /\ new \in Processes /\ new.pc = pc /\ new.job = pr.job /\ new.at = pr.at
      /\ new.fd = pr.fd /\ new.pipe_list = pr.pipe_list
  BY DEF Processes
<1> HIDE DEF new
<1>2. (IsLast(new) <=> IsLast(pr)) /\ Command(new) = Command(pr)
  BY <1>1 DEF IsLast, Stages, Command
<1>3. Writes(new)
  BY <1>1 DEF Sound, Writes, StageCode, Programs, RunCode
<1>4. Connected(new)
  BY <1>1, <1>2 DEF Sound, Connected
<1>5. Sound(new)
  BY <1>1, <1>3, <1>4 DEF Sound, Directed, Programs, IdleCode, ShellCode, RunCode
<1> QED
  BY <1>1, <1>5 DEF new

\* Both sides of a fork are sound.
LEMMA ForkSound ==
  ASSUME NEW pr \in Processes, Sound(pr), pr.pc = "fork" \/ (pr.pc = "loop" /\ IsLast(pr)),
         NEW new \in Processes, new.pc \in {"wait", "redirect"}, new.job = pr.job,
         new.at = pr.at, new.fd = pr.fd, new.pipe_list = pr.pipe_list
  PROVE  Sound(new)
<1>1. PipeShape(pr) /\ Standard(pr) /\ Writes(pr)
  BY DEF Sound, RunCode, ShellCode
<1>2. (IsLast(new) <=> IsLast(pr)) /\ (Owns(new) <=> pr.pc = "fork") /\ (Owns(pr) <=> pr.pc = "fork")
  BY <1>1 DEF IsLast, Owns, Stages, PipeShape
<1> HIDE DEF IsLast, Owns
<1>3. PipeShape(new)
  BY <1>1, <1>2 DEF PipeShape
<1>4. Writes(new)
  BY <1>1, <1>2 DEF Writes, RunCode, StageCode
<1> QED
  BY <1>1, <1>3, <1>4 DEF Sound, Directed, Standard, Connected, Programs, IdleCode, RunCode

\* A process in the loop that makes a pipe.
WithPipe(pr, r, w) ==
  [pr EXCEPT !.pc = "fork",
             !.fd[r] = ReadEnd(pr.job.number, pr.at + 1),
             !.fd[w] = WriteEnd(pr.job.number, pr.at + 1),
             !.pipe_list = Append(@, <<r, w>>)]

\* The two lowest free numbers become the pipe's; the lower is that of the write
\* end closed last.
LEMMA PipeSound ==
  ASSUME NEW pr \in Processes, Sound(pr), pr.pc = "loop", ~IsLast(pr),
         NEW r \in FdNumbers, NEW w \in FdNumbers, r < w,
         pr.fd[r] = Closed, pr.fd[w] = Closed,
         \A n \in FdNumbers : n < w /\ n # r => pr.fd[n] # Closed
  PROVE  WithPipe(pr, r, w) \in Processes /\ Sound(WithPipe(pr, r, w))
<1> DEFINE new == WithPipe(pr, r, w)
           j == pr.job.number
           k == pr.at + 1
           list == pr.pipe_list
<1>1. /\ pr.fd \in Tables /\ j \in Nat /\ pr.at \in Nat /\ k \in Nat
      /\ list \in Seq(FdNumbers \X FdNumbers) /\ r # w /\ r \in Nat /\ w \in Nat
  BY ProcessFields, Descriptors
<1>2. ReadEnd(j, k) \in Objects /\ WriteEnd(j, k) \in Objects
  BY <1>1, Descriptors
<1>3. PipeShape(pr) /\ Standard(pr) /\ Writes(pr) /\ ~Owns(pr)
  BY DEF Sound, RunCode, ShellCode, Owns
<1>4. Len(list) = pr.at /\ \A i \in 1 .. Len(list) : pr.fd[list[i][1]] = ReadEnd(j, i)
  BY <1>3 DEF PipeShape
<1>5. /\ new.pc = "fork" /\ new.job = pr.job /\ new.at = pr.at
      /\ new.pipe_list = Append(list, <<r, w>>)
      /\ new.fd = [pr.fd EXCEPT ![r] = ReadEnd(j, k), ![w] = WriteEnd(j, k)]
      /\ new \in Processes
  <2>1. [pr.fd EXCEPT ![r] = ReadEnd(j, k), ![w] = WriteEnd(j, k)] \in Tables
    BY <1>1, <1>2 DEF Tables
  <2>2. Append(list, <<r, w>>) \in Seq(FdNumbers \X FdNumbers)
    BY <1>1
  <2> QED
    BY <2>1, <2>2 DEF WithPipe, Processes, Tables, ShellCode
<1> HIDE DEF new, list
<1>6. /\ new.fd[r] = ReadEnd(j, k) /\ new.fd[w] = WriteEnd(j, k)
      /\ \A n \in FdNumbers \ {r, w} : new.fd[n] = pr.fd[n]
  BY <1>1, <1>5 DEF Tables
<1>7. \A n \in FdNumbers : pr.fd[n] # Closed => new.fd[n] = pr.fd[n]
  BY <1>6
<1>8. ~IsLast(new) /\ Owns(new)
  BY <1>5 DEF IsLast, Stages, Owns
<1>9. \A i \in 1 .. pr.at : list[i] \in FdNumbers \X FdNumbers
  BY <1>1, <1>4
<1>10. /\ Len(new.pipe_list) = k /\ new.pipe_list[k] = <<r, w>>
       /\ \A i \in 1 .. pr.at : new.pipe_list[i] = list[i]
  BY <1>1, <1>4, <1>5
<1>11. \A i \in 1 .. k : new.fd[new.pipe_list[i][1]] = ReadEnd(j, i)
  <2> SUFFICES ASSUME NEW i \in 1 .. k
               PROVE  new.fd[new.pipe_list[i][1]] = ReadEnd(j, i)
    OBVIOUS
  <2>1. CASE i = k
    BY <1>6, <1>10, <2>1
  <2>2. CASE i \in 1 .. pr.at
    <3>1. list[i][1] \in FdNumbers /\ pr.fd[list[i][1]] = ReadEnd(j, i)
      BY <1>4, <1>9, <2>2
    <3>2. ReadEnd(j, i) # Closed
      BY Kinds
    <3> QED
      BY <1>7, <1>10, <2>2, <3>1, <3>2
  <2> QED
    BY <1>1, <2>1, <2>2
<1>12. AllUsedBelow(new.fd, w)
  <2>1. ReadEnd(j, k) # Closed
    BY Kinds
  <2> QED
    BY <1>6, <1>7, <2>1, Descriptors DEF AllUsedBelow
<1>13. pr.at > 0 => list[pr.at][2] = r
  <2> SUFFICES ASSUME pr.at > 0 PROVE list[pr.at][2] = r
    OBVIOUS
  <2> DEFINE x == list[pr.at][2]
  <2>1. pr.fd[x] = Closed /\ AllUsedBelow(pr.fd, x)
    BY <1>3 DEF PipeShape, list
  <2>2. x \in FdNumbers
    BY <1>1, <1>9
  <2> HIDE DEF x
  <2>3. ~(r < x) /\ ~(x < w /\ x # r)
    BY <2>1, <2>2 DEF AllUsedBelow
  <2>4. x \in Nat
    BY <2>2, Descriptors
  <2>5. x = r
    BY <1>1, <2>3, <2>4
  <2> QED
    BY <2>5 DEF x
<1>14. PipeShape(new)
  <2>1. pr.at > 0 => new.pipe_list[pr.at][2] = new.pipe_list[k][1]
    <3>1. pr.at > 0 => pr.at \in 1 .. pr.at
      BY <1>1
    <3> QED
      BY <1>10, <1>13, <3>1
  <2>2. new.pipe_list[k][2] = w
    BY <1>10
  <2>3. new.job.number = j /\ new.at + 1 = k
    BY <1>5
  <2> HIDE DEF j, k
  <2> QED
    BY <1>5, <1>6, <1>8, <1>10, <1>11, <1>12, <2>1, <2>2, <2>3 DEF PipeShape
<1>15. Standard(new)
  BY <1>3, <1>7, Kinds, Descriptors DEF Standard
<1>16. Writes(new)
  <2> SUFFICES ASSUME NEW n \in FdNumbers, new.fd[n][1] = "write"
               PROVE  n = w
    BY <1>5, <1>6, <1>8, <1>10 DEF Writes, RunCode, StageCode
  <2>1. n # r
    BY <1>6, Kinds
  <2>2. CASE n # w
    BY <1>3, <1>6, <2>1, <2>2 DEF Writes, StageCode, Programs
  <2> QED
    BY <2>2
<1>17. Sound(new)
  BY <1>5, <1>14, <1>15, <1>16 DEF Sound, Directed, Connected, Programs, IdleCode
<1> QED
  BY <1>5, <1>17 DEF new

\* Who has waited for a stage goes on to the next with the write end closed.
LEMMA NextStageSound ==
  ASSUME NEW pr \in Processes, Sound(pr), pr.pc = "wait", ~IsLast(pr),
         NEW new \in Processes, new.pc = "loop", new.job = pr.job, new.at = pr.at + 1,
         new.fd = CloseWriteEnd(pr), new.pipe_list = pr.pipe_list
  PROVE  Sound(new)
<1> DEFINE j == pr.job.number
           k == pr.at + 1
           list == pr.pipe_list
           w == list[k][2]
<1>1. /\ pr.fd \in Tables /\ j \in Nat /\ pr.at \in Nat /\ k \in Nat /\ k > 0
      /\ list \in Seq(FdNumbers \X FdNumbers)
  BY ProcessFields
<1>2. PipeShape(pr) /\ Standard(pr) /\ Writes(pr) /\ Owns(pr) /\ ~Owns(new)
  BY DEF Sound, RunCode, ShellCode, Owns
<1>3. /\ Len(list) = k /\ \A i \in 1 .. k : pr.fd[list[i][1]] = ReadEnd(j, i)
      /\ pr.fd[w] = WriteEnd(j, k) /\ AllUsedBelow(pr.fd, w)
  BY <1>2 DEF PipeShape
<1>4. /\ w \in FdNumbers /\ \A i \in 1 .. k : list[i][1] \in FdNumbers
      /\ \A n \in FdNumbers : n # w => new.fd[n] = pr.fd[n]
      /\ new.fd[w] = Closed
  <2>1. \A i \in 1 .. k : list[i] \in FdNumbers \X FdNumbers
    BY <1>1, <1>3
  <2> QED
    BY <1>1, <2>1 DEF CloseWriteEnd, Close, Tables
<1> HIDE DEF list, w
<1>5. \A n \in FdNumbers : pr.fd[n][1] # "write" => new.fd[n] = pr.fd[n]
  BY <1>3, <1>4, Kinds
<1>6. \A i \in 1 .. k : new.fd[list[i][1]] = ReadEnd(j, i)
  BY <1>3, <1>4, <1>5, Kinds
<1>7. AllUsedBelow(new.fd, w)
  BY <1>3, <1>4, Descriptors DEF AllUsedBelow
<1>8. PipeShape(new)
  BY <1>1, <1>2, <1>3, <1>4, <1>6, <1>7 DEF PipeShape, list, w
<1>9. Standard(new)
  BY <1>2, <1>5, Kinds, Descriptors DEF Standard
<1>10. \A n \in FdNumbers : new.fd[n][1] # "write"
  <2> SUFFICES ASSUME NEW n \in FdNumbers, new.fd[n][1] = "write" PROVE FALSE
    OBVIOUS
  <2>1. n # w /\ pr.fd[n][1] = "write"
    BY <1>4, Kinds
  <2>2. n = pr.pipe_list[pr.at + 1][2]
    BY <1>2, <2>1 DEF Writes, RunCode
  <2> QED
    BY <2>1, <2>2 DEF w, list
<1> QED
  BY <1>8, <1>9, <1>10 DEF Sound, Directed, Writes, Connected, Programs, IdleCode

\* The shell outside the loop has the standard descriptors and no write end.
LEMMA IdleSound ==
  ASSUME NEW pr \in Processes, NEW new \in Processes, new.fd = pr.fd,
         \A n \in FdNumbers : pr.fd[n][1] # "write", Standard(pr),
         \/ new.pc = "free"
         \/ new.pc \in IdleCode \cup {"loop"} /\ new.at = 0 /\ new.pipe_list = <<>>
  PROVE  Sound(new)
<1>1. CASE new.pc = "loop"
  <2>1. PipeShape(new)
    BY <1>1 DEF PipeShape, Owns
  <2> QED
    BY <1>1, <2>1 DEF Sound, Directed, Standard, Writes, Connected, Programs, IdleCode
<1>2. CASE new.pc \in IdleCode \cup {"free"}
  BY <1>2 DEF Sound, Directed, Standard, Writes, Connected, Programs, IdleCode, RunCode
<1> QED
  BY <1>1, <1>2

\* Outside the loop, and where the last stage has been waited for, there is none.
LEMMA NoWrites ==
  ASSUME NEW pr \in Processes, Sound(pr),
         pr.pc \in IdleCode \cup {"free", "loop", "none", "zombie"}
           \/ (pr.pc = "wait" /\ IsLast(pr))
  PROVE  \A n \in FdNumbers : pr.fd[n][1] # "write"
BY DEF Sound, Writes, Owns, IdleCode, RunCode, StageCode, Programs

\* What the standard input of a stage should be.
InputOf(pr) ==
  IF pr.at > 0 THEN ReadEnd(pr.job.number, pr.at)
  ELSE IF Command(pr).in THEN InFile(pr.job.number) ELSE Terminal

\* The ends of pipes in one table come from another.
FromTable(fd, old) ==
  \A n \in FdNumbers : fd[n][1] \in {"read", "write"} => \E m \in FdNumbers : old[m] = fd[n]

\* Closing the write end of the pipe before, whose number may be that of the next
\* pipe's read end, does no harm: the standard input becomes what it should be, and
\* the write end of the next pipe stays where it is.
LEMMA InputRedirected ==
  ASSUME NEW pr \in Processes, Sound(pr), pr.pc = "redirect", NEW in \in Inputs(pr)
  PROVE  /\ in \in Tables
         /\ in[STDIN] = InputOf(pr) /\ in[STDIN] # Closed
         /\ in[STDOUT] = Terminal /\ in[STDERR] = Terminal
         /\ \A n \in FdNumbers : pr.fd[n][1] = "write" => in[n] = pr.fd[n]
         /\ \A n \in FdNumbers : in[n][1] = "write" => pr.fd[n][1] = "write"
         /\ FromTable(in, pr.fd)
<1> DEFINE fd == pr.fd
           j == pr.job.number
           list == pr.pipe_list
<1>1. /\ fd \in Tables /\ j \in Nat /\ pr.at \in Nat
      /\ list \in Seq(FdNumbers \X FdNumbers)
  BY ProcessFields
<1>2. PipeShape(pr) /\ Standard(pr)
  BY DEF Sound
<1>3. /\ fd[STDIN] = Terminal /\ fd[STDOUT] = Terminal /\ fd[STDERR] = Terminal
      /\ {STDIN, STDOUT, STDERR} \subseteq FdNumbers
      /\ STDIN # STDOUT /\ STDIN # STDERR /\ STDOUT # STDERR
  BY <1>2, Descriptors DEF Standard, STDIN, STDOUT, STDERR
<1>4. FromTable(fd, fd)
  BY DEF FromTable
<1>5. CASE pr.at > 0
  <2> DEFINE r == list[pr.at][1]
             w == list[pr.at][2]
             a == Close(fd, w)
             b == Close(a, STDIN)
  <2>1. pr.at \in 1 .. Len(list)
    BY <1>1, <1>2, <1>5 DEF PipeShape
  <2>2. r \in FdNumbers /\ w \in FdNumbers
    BY <1>1, <2>1
  <2>3. fd[r] = ReadEnd(j, pr.at)
    BY <1>2, <2>1 DEF PipeShape
  <2>4. fd[w] = Closed \/ fd[w] = ReadEnd(j, pr.at + 1)
    <3>1. CASE ~Owns(pr)
      BY <1>2, <1>5, <3>1 DEF PipeShape
    <3>2. CASE Owns(pr)
      <4>1. Len(list) = pr.at + 1 /\ w = list[pr.at + 1][1]
        BY <1>2, <1>5, <3>2 DEF PipeShape
      <4>2. pr.at + 1 \in 1 .. Len(list)
        BY <1>1, <4>1
      <4>3. fd[list[pr.at + 1][1]] = ReadEnd(j, pr.at + 1)
        BY <1>2, <4>2 DEF PipeShape
      <4> QED
        BY <4>1, <4>3
    <3> QED
      BY <3>1, <3>2
  <2>5. ReadEnd(j, pr.at + 1) # ReadEnd(j, pr.at)
    BY <1>1 DEF ReadEnd
  <2>6. /\ r # w /\ r \notin {STDIN, STDOUT, STDERR} /\ w \notin {STDIN, STDOUT, STDERR}
        /\ fd[r] # Closed /\ fd[w][1] # "write"
    BY <1>3, <2>3, <2>4, <2>5, Kinds
  <2> HIDE DEF fd, j, list, r, w
  <2>7. /\ a \in Tables /\ a[w] = Closed /\ \A n \in FdNumbers : n # w => a[n] = fd[n]
    BY <1>1, <2>2, CloseTyped DEF Close, Tables
  <2> HIDE DEF a
  <2>8. in = Dup(b, r)
    <3>1. in = FromPipe(pr)
      BY <1>5 DEF Inputs
    <3> QED
      BY <3>1 DEF FromPipe, InputPipe, a, fd, list, r, w
  <2>9. in = [a EXCEPT ![STDIN] = a[r]] /\ in \in Tables
    <3>1. STDIN \in FdNumbers /\ r # STDIN /\ a[r] # Closed
      BY <1>3, <2>2, <2>6, <2>7
    <3>2. \A i \in FdNumbers : i < STDIN => a[i] # Closed
      BY Descriptors DEF STDIN
    <3> QED
      BY <2>2, <2>7, <2>8, <3>1, <3>2, DupInto
  <2>10. /\ in[STDIN] = ReadEnd(j, pr.at) /\ in[w] = Closed
         /\ \A n \in FdNumbers \ {STDIN, w} : in[n] = fd[n]
    BY <1>3, <2>2, <2>3, <2>6, <2>7, <2>9 DEF Tables
  <2>11. in[STDIN] = InputOf(pr)
    BY <1>5, <2>10 DEF InputOf, j
  <2>12. FromTable(in, fd)
    <3> SUFFICES ASSUME NEW n \in FdNumbers, in[n][1] \in {"read", "write"}
                 PROVE  \E m \in FdNumbers : fd[m] = in[n]
      BY DEF FromTable
    <3>1. n # w
      BY <2>10, Kinds
    <3> QED
      BY <2>2, <2>3, <2>10, <3>1
  <2>13. in[STDIN] # Closed /\ in[STDIN][1] # "write" /\ fd[STDIN][1] # "write" /\ in[w][1] # "write"
    BY <1>3, <2>10, Kinds
  <2>14. \A n \in FdNumbers : (fd[n][1] = "write" \/ in[n][1] = "write") => in[n] = fd[n]
    BY <2>6, <2>10, <2>13
  <2>15. in[STDOUT] = Terminal /\ in[STDERR] = Terminal
    BY <1>3, <2>6, <2>10
  <2> QED
    BY <2>9, <2>11, <2>12, <2>13, <2>14, <2>15 DEF fd
<1>6. CASE ~(pr.at > 0) /\ ~Command(pr).in
  <2>1. in = fd /\ InputOf(pr) = Terminal
    BY <1>6 DEF Inputs, InputOf
  <2> QED
    BY <1>1, <1>3, <1>4, <2>1, Kinds
<1>7. CASE ~(pr.at > 0) /\ Command(pr).in
  <2> DEFINE n == Min(Unused(fd))
             a == OpenAs(fd, InFile(j))
             b == Close(a, STDIN)
  <2>1. Unused(fd) # {} /\ in = FromFile(pr)
    BY <1>7 DEF Inputs
  <2>2. in = Dup(b, n)
    BY <2>1 DEF FromFile
  <2>3. InFile(j) \in Objects
    BY <1>1, Descriptors
  <2> HIDE DEF fd, j
  <2>4. /\ n \in FdNumbers /\ fd[n] = Closed /\ a = [fd EXCEPT ![n] = InFile(j)]
        /\ a \in Tables
    BY <1>1, <2>1, <2>3, Opened
  <2> HIDE DEF n, a
  <2>5. n \notin {STDIN, STDOUT, STDERR}
    BY <1>3, <2>4, Kinds
  <2>6. a[n] = InFile(j) /\ \A m \in FdNumbers \ {n} : a[m] = fd[m]
    BY <1>1, <2>4 DEF Tables
  <2>7. in = [a EXCEPT ![STDIN] = a[n]] /\ in \in Tables
    <3>1. STDIN \in FdNumbers /\ n # STDIN /\ a[n] # Closed
      BY <1>3, <2>5, <2>6, Kinds
    <3>2. \A i \in FdNumbers : i < STDIN => a[i] # Closed
      BY Descriptors DEF STDIN
    <3>3. /\ Dup(Close(a, STDIN), n) = [a EXCEPT ![STDIN] = a[n]]
          /\ Dup(Close(a, STDIN), n) \in Tables
      BY <2>4, <3>1, <3>2, DupInto
    <3> QED
      BY <2>2, <3>3
  <2>8. /\ in[STDIN] = InFile(j) /\ in[n] = InFile(j)
        /\ \A m \in FdNumbers \ {STDIN, n} : in[m] = fd[m]
    BY <1>3, <2>4, <2>5, <2>6, <2>7 DEF Tables
  <2>9. in[STDIN] = InputOf(pr)
    BY <1>7, <2>8 DEF InputOf, j
  <2>10. FromTable(in, fd)
    BY <2>8, Kinds DEF FromTable
  <2>11. /\ in[STDIN] # Closed /\ in[STDIN][1] # "write" /\ in[n][1] # "write"
         /\ fd[STDIN][1] # "write" /\ fd[n][1] # "write"
    BY <1>3, <2>4, <2>8, Kinds
  <2>12. \A m \in FdNumbers : (fd[m][1] = "write" \/ in[m][1] = "write") => in[m] = fd[m]
    BY <2>8, <2>11
  <2>13. in[STDOUT] = Terminal /\ in[STDERR] = Terminal
    BY <1>3, <2>5, <2>8
  <2> QED
    BY <2>7, <2>9, <2>10, <2>11, <2>12, <2>13 DEF fd
<1> QED
  BY <1>5, <1>6, <1>7

\* What its outputs may be; a file that cannot be made leaves them closed.
OutputsOf(pr) ==
  IF ~IsLast(pr) THEN {WriteEnd(pr.job.number, pr.at + 1)}
  ELSE IF Command(pr).out THEN {OutFile(pr.job.number), Closed}
  ELSE {Terminal}

\* The outputs of a stage become what they should be.
LEMMA OutputRedirected ==
  ASSUME NEW pr \in Processes, Sound(pr), pr.pc = "redirect", NEW in \in Inputs(pr),
         NEW out \in Outputs(pr, in)
  PROVE  /\ out \in Tables /\ out[STDIN] = in[STDIN]
         /\ out[STDERR] = out[STDOUT]
         /\ out[STDOUT] \in OutputsOf(pr)
         /\ \A n \in FdNumbers : out[n][1] = "write" =>
              out[n] = WriteEnd(pr.job.number, pr.at + 1)
         /\ FromTable(out, pr.fd)
<1> DEFINE fd == pr.fd
           j == pr.job.number
           k == pr.at + 1
           list == pr.pipe_list
<1>1. /\ fd \in Tables /\ j \in Nat /\ k \in Nat /\ k > 0
      /\ list \in Seq(FdNumbers \X FdNumbers)
  BY ProcessFields
<1>2. PipeShape(pr) /\ Standard(pr) /\ Writes(pr) /\ (Owns(pr) <=> ~IsLast(pr))
  BY DEF Sound, Owns
<1>3. /\ {STDIN, STDOUT, STDERR} \subseteq FdNumbers
      /\ STDIN # STDOUT /\ STDIN # STDERR /\ STDOUT # STDERR
      /\ \A n \in FdNumbers : n \notin {STDIN, STDOUT, STDERR} => n > STDERR
      /\ \A n \in FdNumbers : n > STDERR => n \notin {STDIN, STDOUT, STDERR}
  BY Descriptors DEF STDIN, STDOUT, STDERR
<1>4. /\ in \in Tables /\ in[STDIN] # Closed
      /\ in[STDOUT] = Terminal /\ in[STDERR] = Terminal
      /\ \A n \in FdNumbers : fd[n][1] = "write" => in[n] = fd[n]
      /\ \A n \in FdNumbers : in[n][1] = "write" => fd[n][1] = "write"
      /\ FromTable(in, fd)
  BY InputRedirected
<1>5. \A n \in FdNumbers : fd[n][1] = "write" => fd[n] = WriteEnd(j, k) /\ ~IsLast(pr)
  BY <1>2 DEF Writes, RunCode
<1>6. \A n \in FdNumbers : in[n][1] = "write" => in[n] = WriteEnd(j, k) /\ ~IsLast(pr)
  BY <1>4, <1>5
<1>7. CASE ~IsLast(pr)
  <2> DEFINE r == list[k][1]
             w == list[k][2]
             a == Close(in, r)
  <2>1. Len(list) = k /\ k \in 1 .. Len(list)
    BY <1>1, <1>2, <1>7 DEF PipeShape
  <2>2. /\ r \in FdNumbers /\ w \in FdNumbers
        /\ fd[r] = ReadEnd(j, k) /\ fd[w] = WriteEnd(j, k)
    BY <1>1, <1>2, <1>7, <2>1 DEF PipeShape
  <2>3. out = OutAndErr(a, w)
    BY <1>7 DEF Outputs, ToPipe
  <2> HIDE DEF fd, j, k, list, r, w
  <2>4. fd[STDIN] = Terminal /\ fd[STDOUT] = Terminal /\ fd[STDERR] = Terminal
    BY <1>2 DEF Standard, fd
  <2>5. /\ r \notin {STDIN, STDOUT, STDERR} /\ w \notin {STDIN, STDOUT, STDERR}
        /\ r # w /\ fd[w][1] = "write"
    BY <2>2, <2>4, Kinds
  <2>6. /\ a \in Tables /\ a[r] = Closed /\ \A n \in FdNumbers : n # r => a[n] = in[n]
    BY <1>4, <2>2, CloseTyped DEF Close, Tables
  <2>7. a[w] = WriteEnd(j, k) /\ a[w] # Closed /\ a[STDIN] # Closed /\ a[STDIN] = in[STDIN]
    BY <1>3, <1>4, <2>2, <2>5, <2>6, Kinds
  <2> HIDE DEF a
  <2>8. out = [a EXCEPT ![STDOUT] = a[w], ![STDERR] = a[w]] /\ out \in Tables
    BY <1>3, <2>2, <2>3, <2>5, <2>6, <2>7, OutAndErrBecome
  <2>9. /\ out[STDOUT] = WriteEnd(j, k) /\ out[STDERR] = WriteEnd(j, k)
        /\ \A n \in FdNumbers \ {STDOUT, STDERR} : out[n] = a[n]
    BY <1>3, <2>6, <2>7, <2>8 DEF Tables
  <2>10. out[STDIN] = in[STDIN]
    BY <1>3, <2>7, <2>9
  <2>11. \A n \in FdNumbers : out[n][1] = "write" => out[n] = WriteEnd(j, k)
    <3> SUFFICES ASSUME NEW n \in FdNumbers \ {STDOUT, STDERR}, out[n][1] = "write"
                 PROVE  out[n] = WriteEnd(j, k)
      BY <2>9
    <3>1. n # r
      BY <2>6, <2>9, Kinds
    <3>2. out[n] = in[n]
      BY <2>6, <2>9, <3>1
    <3> QED
      BY <1>6, <3>2
  <2>12. FromTable(out, fd)
    <3> SUFFICES ASSUME NEW n \in FdNumbers, out[n][1] \in {"read", "write"}
                 PROVE  \E m \in FdNumbers : fd[m] = out[n]
      BY DEF FromTable
    <3>1. CASE n \in {STDOUT, STDERR}
      BY <2>2, <2>9, <3>1
    <3>2. CASE n \notin {STDOUT, STDERR}
      <4>1. n # r
        BY <2>6, <2>9, <3>2, Kinds
      <4>2. out[n] = in[n]
        BY <2>6, <2>9, <3>2, <4>1
      <4> QED
        BY <1>4, <4>2 DEF FromTable
    <3> QED
      BY <3>1, <3>2
  <2>13. out[STDOUT] \in OutputsOf(pr)
    BY <1>7, <2>9 DEF OutputsOf, j, k
  <2>14. out[STDERR] = out[STDOUT]
    BY <2>9
  <2> QED
    BY <2>8, <2>10, <2>11, <2>12, <2>13, <2>14 DEF fd, j, k
<1>8. CASE IsLast(pr) /\ ~Command(pr).out
  <2>1. out = in
    BY <1>8 DEF Outputs
  <2> QED
    BY <1>4, <1>6, <1>8, <2>1 DEF OutputsOf
<1>9. CASE IsLast(pr) /\ Command(pr).out
  <2>1. \A n \in FdNumbers : in[n][1] # "write"
    BY <1>6, <1>9
  <2>2. CASE out = Close(Close(in, STDOUT), STDERR)
    <3>1. /\ out \in Tables /\ out[STDOUT] = Closed /\ out[STDERR] = Closed
          /\ \A n \in FdNumbers \ {STDOUT, STDERR} : out[n] = in[n]
      BY <1>3, <1>4, <2>2, CloseTyped DEF Close, Tables
    <3>2. FromTable(out, fd)
      BY <1>4, <3>1, Kinds DEF FromTable
    <3>3. \A n \in FdNumbers : out[n][1] # "write"
      BY <2>1, <3>1, Kinds
    <3> QED
      BY <1>3, <1>9, <3>1, <3>2, <3>3 DEF OutputsOf
  <2>3. CASE Unused(in) # {} /\ out = OutAndErr(OpenAs(in, OutFile(j)), Min(Unused(in)))
    <3> DEFINE n == Min(Unused(in))
               a == OpenAs(in, OutFile(j))
    <3>1. OutFile(j) \in Objects
      BY <1>1, Descriptors
    <3>2. /\ n \in FdNumbers /\ in[n] = Closed /\ a = [in EXCEPT ![n] = OutFile(j)]
          /\ a \in Tables
      BY <1>4, <2>3, <3>1, Opened
    <3>3. out = OutAndErr(a, n)
      BY <2>3
    <3> HIDE DEF n, a, fd, j
    <3>4. n \notin {STDIN, STDOUT, STDERR} /\ n > STDERR
      <4>1. n \notin {STDIN, STDOUT, STDERR}
        BY <1>4, <3>2, Kinds
      <4> QED
        BY <1>3, <3>2, <4>1
    <3>5. /\ a[n] = OutFile(j) /\ a[n] # Closed
          /\ \A m \in FdNumbers \ {n} : a[m] = in[m]
      BY <1>4, <3>2, Kinds DEF Tables
    <3>6. a[STDIN] = in[STDIN] /\ a[STDIN] # Closed
      BY <1>3, <1>4, <3>4, <3>5
    <3>7. out = [a EXCEPT ![STDOUT] = a[n], ![STDERR] = a[n]] /\ out \in Tables
      BY <3>2, <3>3, <3>4, <3>5, <3>6, OutAndErrBecome
    <3>8. /\ out[STDOUT] = OutFile(j) /\ out[STDERR] = OutFile(j)
          /\ \A m \in FdNumbers \ {STDOUT, STDERR} : out[m] = a[m]
      BY <1>3, <3>2, <3>5, <3>7 DEF Tables
    <3>9. \A m \in FdNumbers : out[m] = OutFile(j) \/ out[m] = in[m]
      BY <3>5, <3>8
    <3>10. FromTable(out, fd)
      BY <1>4, <3>9, Kinds DEF FromTable
    <3>11. \A m \in FdNumbers : out[m][1] # "write"
      BY <2>1, <3>9, Kinds
    <3>12. out[STDIN] = in[STDIN]
      BY <1>3, <3>6, <3>8
    <3>13. out[STDOUT] \in OutputsOf(pr) /\ out[STDERR] = out[STDOUT]
      BY <1>9, <3>8 DEF OutputsOf, j
    <3> QED
      BY <3>7, <3>10, <3>11, <3>12, <3>13 DEF fd
  <2> QED
    BY <1>9, <2>2, <2>3 DEF Outputs, ToFile
<1> QED
  BY <1>7, <1>8, <1>9

\* A stage that has redirected its input and output is connected to its neighbours.
LEMMA RedirectSound ==
  ASSUME NEW pr \in Processes, Sound(pr), pr.pc = "redirect", NEW in \in Inputs(pr),
         NEW out \in Outputs(pr, in), NEW new \in Processes, new.pc = "exec",
         new.fd = out, new.job = pr.job, new.at = pr.at
  PROVE  Sound(new)
<1> DEFINE j == pr.job.number
           k == pr.at + 1
<1>1. /\ out[STDIN] = InputOf(pr)
      /\ out[STDERR] = out[STDOUT]
      /\ out[STDOUT] \in OutputsOf(pr)
      /\ \A n \in FdNumbers : out[n][1] = "write" => out[n] = WriteEnd(j, k)
  BY InputRedirected, OutputRedirected
<1>2. (IsLast(new) <=> IsLast(pr)) /\ Command(new) = Command(pr)
  BY DEF IsLast, Stages, Command
<1>3. pr.at \in Nat
  BY ProcessFields
<1>4. Connected(new)
  <2>1. new.fd[STDIN] = IF k > 1 THEN ReadEnd(j, k - 1)
                        ELSE IF Command(new).in THEN InFile(j) ELSE Terminal
    BY <1>1, <1>2, <1>3 DEF InputOf
  <2> QED
    BY <1>1, <1>2, <2>1 DEF Connected, OutputsOf
<1>5. Writes(new)
  BY <1>1 DEF Writes, StageCode, RunCode
<1> QED
  BY <1>4, <1>5 DEF Sound, Directed, IdleCode, ShellCode, RunCode

-----------------------------------------------------------------------------
(* What is true of processes together.                                     *)

Alive(p)  == proc[p].pc \notin {"none", "zombie"}
Number(p) == proc[p].job.number

WaitsFor(p, c) == proc[p].pc = "wait" /\ proc[p].child = c

\* Nobody else works on its pipeline.
Alone(p) == \A q \in Pids : Alive(q) /\ Number(q) = Number(p) => q = p

LinesInv ==
  /\ input \in Seq(Seq(Characters)) /\ line \in Seq(Characters)
  /\ \A i \in DOMAIN input : Len(input[i]) < MaxLine /\ Whole(input[i])
  /\ Len(line) < MaxLine /\ Whole(line)

ProcInv == proc \in [Pids -> Processes] /\ \A p \in Pids : Sound(proc[p])

\* Who runs the loop of the shell, and who leads a pipeline in the background.
RolesInv ==
  /\ \A p \in Pids \ {MyShell} :
       /\ proc[p].pc \notin IdleCode \cup {"free"}
       /\ proc[p].pc \in RunCode => proc[p].job.is_background
  /\ proc[MyShell].pc = "fork_leader" => proc[MyShell].job.is_background

\* Who waits does so for a stage of its pipeline, the one it has got to.
WaitInv ==
  \A p \in Pids : \A c \in Pids \cup {NoPid} : WaitsFor(p, c) =>
    /\ c \in Pids \ {p}
    /\ proc[c].parent = p
    /\ proc[c].pc \in StageCode \cup {"zombie"}
    /\ proc[c].job = proc[p].job
    /\ Alive(c) => proc[c].at = proc[p].at

\* While the shell goes on, only the stage it waits for is not in the background.
ForegroundInv ==
  proc[MyShell].pc \in ShellCode =>
    \A p \in Pids \ {MyShell} :
      proc[p].pc # "none" => proc[p].job.is_background \/ WaitsFor(MyShell, p)

\* A pipeline has a number of its own.  Two that have the same are a stage and who
\* waits for it, or a leader and the shell that has just forked it.
NumberInv ==
  /\ proc[MyShell].pc \in ShellCode =>
       \A p \in Pids : Alive(p) => Number(p) <= Number(MyShell)
  /\ \A p, q \in Pids :
       p # q /\ Alive(p) /\ Alive(q) /\ Number(p) = Number(q) =>
         \/ WaitsFor(p, q) \/ WaitsFor(q, p)
         \/ MyShell \in {p, q} /\ proc[MyShell].pc \in {"free", "prompt"}

\* The read end p has as n is of its own pipeline or of one that is over.
ReadEndKnown(p, n) ==
  LET j == proc[p].fd[n][2]
  IN  /\ j <= Number(p)
      /\ j < Number(p) => \A q \in Pids : Alive(q) => Number(q) # j
      /\ j = Number(p) => /\ proc[p].pc \notin {"parse", "fork_leader"}
                          /\ proc[p].pc \in {"free", "prompt"} => Alone(p)

ReadsInv == \A p \in Pids : \A n \in FdNumbers : HasPipe(p, n, "read") => ReadEndKnown(p, n)

TogetherInv == WaitInv /\ ForegroundInv /\ NumberInv /\ ReadsInv

\* Nothing is written to a pipe before the stage that writes to it has started.
FreshInv ==
  \A p \in Pids : \A n \in FdNumbers :
    HasPipe(p, n, "write") /\ proc[p].pc \in {"fork", "redirect", "exec"}
      => data[PipeOf(proc[p].fd[n])] = 0

DataInv ==
  /\ DOMAIN data = Ends(proc, "read") \cup Ends(proc, "write")
  /\ \A q \in DOMAIN data : data[q] \in 0 .. Capacity
  /\ FreshInv

ShellInv == LinesInv /\ ProcInv /\ RolesInv /\ TogetherInv /\ DataInv

\* The shell is a process, and processes are numbers.
LEMMA ShellPid == MyShell \in Pids /\ Pids \subseteq Nat /\ NoPid \notin Pids
BY MaxProcsAssumption DEF MyShell, Pids, NoPid

\* A step in which one process changes and neither starts nor stops waiting.
Moves(p) ==
  /\ \A q \in Pids \ {p} : proc'[q] = proc[q]
  /\ Alive(p) /\ Alive(p)' /\ proc[p].pc # "wait" /\ proc'[p].pc # "wait"
  /\ proc'[p].parent = proc[p].parent
  /\ proc[p].pc \in StageCode =>
       proc'[p].pc \in StageCode /\ proc'[p].job = proc[p].job /\ proc'[p].at = proc[p].at
  /\ p # MyShell => proc'[p].job = proc[p].job
  /\ \/ Number(p)' = Number(p)
     \/ p = MyShell /\ proc[p].pc = "prompt" /\ Number(p)' > Number(p)
  /\ proc[p].pc \in {"free", "prompt"} =>
       proc'[p].pc = "prompt" \/ Number(p)' > Number(p)
  /\ proc'[p].pc \in {"free", "prompt"} => proc[p].pc \in {"free", "parse"}
  /\ proc'[p].pc = "parse" => Number(p)' > Number(p)
  /\ proc'[p].pc = "fork_leader" => proc[p].pc = "parse"
  /\ proc'[p].pc \in ShellCode => proc[p].pc \in ShellCode

\* The read ends in the table after a step are those before or of its own pipeline.
ReadsFrom(p) ==
  \A n \in FdNumbers : HasPipe(p, n, "read")' =>
    \/ \E m \in FdNumbers : proc[p].fd[m] = proc'[p].fd[n]
    \/ proc'[p].pc = "fork" /\ proc'[p].fd[n][2] = Number(p)'

\* Such a step disturbs nobody.
LEMMA MovesTogether ==
  ASSUME ProcInv, TogetherInv, NEW p \in Pids, proc' \in [Pids -> Processes],
         Moves(p), ReadsFrom(p)
  PROVE  TogetherInv'
<1>1. \A q \in Pids : /\ proc[q].fd \in Tables /\ Number(q) \in Nat /\ Number(q)' \in Nat
                      /\ proc'[q].fd \in Tables
  BY ProcessFields DEF ProcInv, Number
<1>2. \A q \in Pids : \A n \in FdNumbers :
        proc[q].fd[n][2] \in Nat /\ proc'[q].fd[n][2] \in Nat
  BY <1>1 DEF Tables, Objects
<1>3. \A q \in Pids \ {p} : (Alive(q)' <=> Alive(q)) /\ Number(q)' = Number(q)
  BY DEF Moves, Alive, Number
<1>4. \A q, c : q \in Pids => (WaitsFor(q, c)' <=> q # p /\ WaitsFor(q, c))
  BY DEF Moves, WaitsFor
<1>5. \A c : ~WaitsFor(p, c)
  BY DEF Moves, WaitsFor
<1>6. Alive(p) /\ Alive(p)'
  BY DEF Moves
<1>7. WaitInv'
  <2> SUFFICES ASSUME NEW q \in Pids \ {p}, NEW c \in Pids \cup {NoPid}, WaitsFor(q, c)
               PROVE  /\ c \in Pids \ {q}
                      /\ proc'[c].parent = q
                      /\ proc'[c].pc \in StageCode \cup {"zombie"}
                      /\ proc'[c].job = proc'[q].job
                      /\ Alive(c)' => proc'[c].at = proc'[q].at
    BY <1>4 DEF WaitInv
  <2>1. /\ c \in Pids \ {q} /\ proc[c].parent = q
        /\ proc[c].pc \in StageCode \cup {"zombie"}
        /\ proc[c].job = proc[q].job
        /\ Alive(c) => proc[c].at = proc[q].at
    BY DEF TogetherInv, WaitInv
  <2> QED
    BY <1>3, <1>6, <2>1 DEF Moves, Alive
<1>8. ForegroundInv'
  <2> SUFFICES ASSUME proc'[MyShell].pc \in ShellCode, NEW q \in Pids \ {MyShell},
                      proc'[q].pc # "none"
               PROVE  proc'[q].job.is_background \/ WaitsFor(MyShell, q)'
    BY DEF ForegroundInv
  <2>1. proc[MyShell].pc \in ShellCode
    BY ShellPid DEF Moves
  <2>2. proc[q].pc # "none" /\ proc'[q].job = proc[q].job
    BY <1>6 DEF Moves, Alive
  <2>3. proc[q].job.is_background \/ WaitsFor(MyShell, q)
    BY <2>1, <2>2 DEF TogetherInv, ForegroundInv
  <2> QED
    BY <1>4, <1>5, <2>2, <2>3, ShellPid
<1>9. proc[MyShell].pc \in ShellCode => \A q \in Pids : Alive(q) => Number(q) <= Number(MyShell)
  BY DEF TogetherInv, NumberInv
<1>10. Number(p)' > Number(p) => \A q \in Pids \ {p} : Alive(q) => Number(q) < Number(p)'
  <2> SUFFICES ASSUME Number(p)' > Number(p), NEW q \in Pids \ {p}, Alive(q)
               PROVE  Number(q) < Number(p)'
    OBVIOUS
  <2>1. p = MyShell /\ proc[p].pc = "prompt"
    BY <1>1 DEF Moves
  <2>2. Number(q) <= Number(p)
    BY <1>9, <2>1 DEF ShellCode
  <2> QED
    BY <1>1, <2>2
<1>11. NumberInv'
  <2>1. proc'[MyShell].pc \in ShellCode =>
          \A q \in Pids : Alive(q)' => Number(q)' <= Number(MyShell)'
    <3> SUFFICES ASSUME proc'[MyShell].pc \in ShellCode, NEW q \in Pids, Alive(q)'
                 PROVE  Number(q)' <= Number(MyShell)'
      OBVIOUS
    <3>1. proc[MyShell].pc \in ShellCode
      BY ShellPid DEF Moves
    <3>2. CASE p = MyShell
      BY <1>1, <1>3, <1>9, <1>10, <3>1, <3>2 DEF Moves
    <3>3. CASE p # MyShell
      BY <1>1, <1>3, <1>6, <1>9, <3>1, <3>3, ShellPid DEF Moves
    <3> QED
      BY <3>2, <3>3
  <2>2. ASSUME NEW q \in Pids, q # p, Alive(q), Number(p)' = Number(q)
        PROVE  \/ WaitsFor(q, p)
               \/ MyShell \in {p, q} /\ proc'[MyShell].pc \in {"free", "prompt"}
    <3>1. Number(p)' = Number(p)
      BY <1>1, <1>10, <2>2 DEF Moves
    <3>2. \/ WaitsFor(p, q) \/ WaitsFor(q, p)
          \/ MyShell \in {p, q} /\ proc[MyShell].pc \in {"free", "prompt"}
      BY <1>6, <2>2, <3>1 DEF TogetherInv, NumberInv
    <3>3. CASE MyShell \in {p, q} /\ proc[MyShell].pc \in {"free", "prompt"}
      BY <1>1, <2>2, <3>1, <3>3 DEF Moves
    <3> QED
      BY <1>5, <3>2, <3>3
  <2>3. ASSUME NEW q \in Pids \ {p}, NEW r \in Pids \ {p}, q # r, Alive(q), Alive(r),
               Number(q) = Number(r)
        PROVE  \/ WaitsFor(q, r) \/ WaitsFor(r, q)
               \/ MyShell \in {q, r} /\ proc'[MyShell].pc \in {"free", "prompt"}
    BY <2>3 DEF TogetherInv, NumberInv, Moves
  <2> QED
    BY <1>3, <1>4, <2>1, <2>2, <2>3 DEF NumberInv
<1>12. ReadsInv'
  <2>1. ASSUME NEW n \in FdNumbers, HasPipe(p, n, "read")'
        PROVE  ReadEndKnown(p, n)'
    <3> DEFINE j == proc'[p].fd[n][2]
    <3>1. CASE proc'[p].pc = "fork" /\ j = Number(p)'
      BY <1>1, <3>1 DEF ReadEndKnown
    <3>2. CASE \E m \in FdNumbers : proc[p].fd[m] = proc'[p].fd[n]
      <4>1. PICK m \in FdNumbers : proc[p].fd[m] = proc'[p].fd[n]
        BY <3>2
      <4>2. proc[p].fd[m][2] = j /\ j \in Nat
        BY <1>2, <4>1
      <4>3. ReadEndKnown(p, m)
        BY <2>1, <4>1 DEF TogetherInv, ReadsInv, HasPipe
      <4> HIDE DEF j
      <4>4. /\ j <= Number(p)
            /\ j < Number(p) => \A q \in Pids : Alive(q) => Number(q) # j
            /\ j = Number(p) => /\ proc[p].pc \notin {"parse", "fork_leader"}
                                /\ proc[p].pc \in {"free", "prompt"} => Alone(p)
        BY <4>2, <4>3 DEF ReadEndKnown
      <4>5. Number(p) <= Number(p)'
        BY <1>1 DEF Moves
      <4>6. j <= Number(p)'
        BY <1>1, <4>2, <4>4, <4>5
      <4>7. ASSUME j < Number(p)', NEW q \in Pids, Alive(q)'
            PROVE  Number(q)' # j
        <5>1. CASE q = p
          BY <1>1, <4>2, <4>7, <5>1
        <5>2. CASE q # p /\ j < Number(p)
          BY <1>3, <4>4, <4>7, <5>2
        <5>3. CASE q # p /\ j = Number(p)
          <6>1. proc[p].pc = "prompt"
            BY <1>1, <4>7, <5>3 DEF Moves
          <6> QED
            BY <1>3, <4>4, <4>7, <5>3, <6>1 DEF Alone
        <5> QED
          BY <1>1, <4>2, <4>4, <5>1, <5>2, <5>3
      <4>8. ASSUME j = Number(p)'
            PROVE  /\ proc'[p].pc \notin {"parse", "fork_leader"}
                   /\ proc'[p].pc \in {"free", "prompt"} => Alone(p)'
        <5>1. Number(p)' = Number(p) /\ j = Number(p)
          BY <1>1, <4>2, <4>4, <4>5, <4>8
        <5>2. proc[p].pc \notin {"parse", "fork_leader"}
              /\ (proc[p].pc \in {"free", "prompt"} => Alone(p))
          BY <4>4, <5>1
        <5>3. proc'[p].pc \in {"free", "prompt"} => Alone(p)
          BY <5>2 DEF Moves
        <5>4. Alone(p) => Alone(p)'
          BY <1>3, <5>1 DEF Alone
        <5> QED
          BY <1>1, <5>1, <5>2, <5>3, <5>4 DEF Moves
      <4> QED
        BY <4>6, <4>7, <4>8 DEF ReadEndKnown, j
    <3> QED
      BY <2>1, <3>1, <3>2 DEF ReadsFrom
  <2>2. ASSUME NEW q \in Pids, q # p, NEW n \in FdNumbers, HasPipe(q, n, "read")'
        PROVE  ReadEndKnown(q, n)'
    <3> DEFINE j == proc[q].fd[n][2]
    <3>1. proc'[q] = proc[q] /\ proc'[q].fd[n][2] = j /\ j \in Nat
      BY <1>2, <2>2 DEF Moves
    <3>2. ReadEndKnown(q, n)
      BY <2>2, <3>1 DEF TogetherInv, ReadsInv, HasPipe
    <3> HIDE DEF j
    <3>3. /\ j <= Number(q)
          /\ j < Number(q) => \A r \in Pids : Alive(r) => Number(r) # j
          /\ j = Number(q) => /\ proc[q].pc \notin {"parse", "fork_leader"}
                              /\ proc[q].pc \in {"free", "prompt"} => Alone(q)
      BY <3>2 DEF ReadEndKnown, j
    <3>4. ASSUME j < Number(q), NEW r \in Pids, Alive(r)'
          PROVE  Number(r)' # j
      <4>1. CASE r # p
        BY <1>3, <3>3, <3>4, <4>1
      <4>2. CASE r = p /\ Number(p)' = Number(p)
        BY <1>6, <3>3, <3>4, <4>2
      <4>3. CASE r = p /\ Number(p)' > Number(p)
        <5>1. j < Number(p)'
          <6>1. CASE Alive(q)
            BY <1>1, <1>10, <2>2, <3>1, <3>4, <4>3, <6>1
          <6>2. CASE ~Alive(q)
            <7>1. \A i \in FdNumbers : proc[q].fd[i] = Closed
              BY <6>2 DEF ProcInv, Sound, Alive
            <7> QED
              BY <2>2, <3>1, <7>1, Kinds DEF HasPipe
          <6> QED
            BY <6>1, <6>2
        <5> QED
          BY <1>1, <3>1, <4>3, <5>1
      <4> QED
        BY <4>1, <4>2, <4>3 DEF Moves
    <3>5. ASSUME j = Number(q), proc[q].pc \in {"free", "prompt"}
          PROVE  Alone(q)'
      <4>1. Alone(q)
        BY <3>3, <3>5
      <4>2. Number(p) # Number(q)
        BY <1>6, <2>2, <4>1 DEF Alone
      <4>3. Number(p)' # Number(q)
        <5>1. CASE Number(p)' = Number(p)
          BY <4>2, <5>1
        <5>2. CASE Number(p)' > Number(p)
          <6>1. Alive(q)
            BY <3>5 DEF Alive
          <6> QED
            BY <1>1, <1>10, <2>2, <5>2, <6>1
        <5> QED
          BY <5>1, <5>2 DEF Moves
      <4> QED
        BY <1>3, <2>2, <4>1, <4>3 DEF Alone
    <3> QED
      BY <1>3, <2>2, <3>1, <3>3, <3>4, <3>5 DEF ReadEndKnown
  <2> QED
    BY <2>1, <2>2 DEF ReadsInv
<1> QED
  BY <1>7, <1>8, <1>11, <1>12 DEF TogetherInv

\* p has forked c, as its stage or as the leader of a pipeline.
Forked(p, c) ==
  /\ proc[c].pc = "none"
  /\ \A q \in Pids \ {p, c} : proc'[q] = proc[q]
  /\ \A q \in {p, c} : /\ proc'[q].job = proc[p].job /\ proc'[q].at = proc[p].at
                       /\ proc'[q].fd = proc[p].fd
  /\ proc'[p].parent = proc[p].parent /\ proc'[c].parent = p
  /\ \/ /\ proc[p].pc \in {"fork", "loop"}
        /\ proc'[p].pc = "wait" /\ proc'[p].child = c /\ proc'[c].pc = "redirect"
     \/ /\ p = MyShell /\ proc[p].pc = "fork_leader"
        /\ proc'[p].pc = "free" /\ proc'[c].pc = "loop"

\* A fork keeps the pipelines apart.
LEMMA ForkTogether ==
  ASSUME ProcInv, RolesInv, TogetherInv, proc' \in [Pids -> Processes],
         NEW p \in Pids, NEW c \in Pids \ {p}, Forked(p, c)
  PROVE  TogetherInv'
<1>1. \A q \in Pids : /\ proc[q].fd \in Tables /\ Number(q) \in Nat /\ Number(q)' \in Nat
                      /\ proc'[q].fd \in Tables
  BY ProcessFields DEF ProcInv, Number
<1>2. \A q \in Pids : \A n \in FdNumbers :
        proc[q].fd[n][2] \in Nat /\ proc'[q].fd[n][2] \in Nat
  BY <1>1 DEF Tables, Objects
<1>3. /\ Alive(p) /\ Alive(p)' /\ ~Alive(c) /\ Alive(c)' /\ proc[p].pc # "wait"
      /\ proc[p].pc \notin StageCode /\ proc[p].pc \in ShellCode
      /\ proc[p].pc \notin {"free", "prompt"}
  BY DEF Forked, Alive, StageCode, Programs, ShellCode
<1>4. /\ \A q \in Pids \ {c} : Number(q)' = Number(q) /\ (Alive(q)' <=> Alive(q))
      /\ Number(c)' = Number(p)
  BY <1>3 DEF Forked, Number, Alive
<1>5. ASSUME NEW q \in Pids, NEW r, WaitsFor(q, r)'
      PROVE  \/ q = p /\ r = c /\ proc[p].pc \in {"fork", "loop"}
                 /\ proc'[p].pc = "wait" /\ proc'[c].pc = "redirect"
             \/ q \notin {p, c} /\ WaitsFor(q, r)
  BY <1>5 DEF WaitsFor, Forked
<1>6. \A q \in Pids \ {p, c} : \A r : WaitsFor(q, r) => WaitsFor(q, r)'
  BY DEF WaitsFor, Forked
<1>7. \A q, r \in Pids : WaitsFor(q, r) => q \notin {p, c} /\ r \notin {p, c}
  <2> SUFFICES ASSUME NEW q \in Pids, NEW r \in Pids, WaitsFor(q, r)
               PROVE  q \notin {p, c} /\ r \notin {p, c}
    OBVIOUS
  <2>1. proc[r].pc \in StageCode \cup {"zombie"}
    BY DEF TogetherInv, WaitInv
  <2> QED
    BY <1>3, <2>1 DEF WaitsFor, Forked, Alive, StageCode, Programs
<1>8. WaitInv'
  <2> SUFFICES ASSUME NEW q \in Pids, NEW r \in Pids \cup {NoPid}, WaitsFor(q, r)'
               PROVE  /\ r \in Pids \ {q}
                      /\ proc'[r].parent = q
                      /\ proc'[r].pc \in StageCode \cup {"zombie"}
                      /\ proc'[r].job = proc'[q].job
                      /\ Alive(r)' => proc'[r].at = proc'[q].at
    BY DEF WaitInv
  <2>1. CASE q = p /\ r = c /\ proc'[c].pc = "redirect"
    BY <2>1 DEF Forked, StageCode
  <2>2. CASE q \notin {p, c} /\ WaitsFor(q, r)
    <3>1. /\ r \in Pids \ {q} /\ proc[r].parent = q
          /\ proc[r].pc \in StageCode \cup {"zombie"}
          /\ proc[r].job = proc[q].job
          /\ Alive(r) => proc[r].at = proc[q].at
      BY <2>2 DEF TogetherInv, WaitInv
    <3>2. r \notin {p, c}
      BY <1>7, <2>2, <3>1
    <3> QED
      BY <1>4, <2>2, <3>1, <3>2 DEF Forked
  <2> QED
    BY <1>5, <2>1, <2>2
<1>9. ForegroundInv'
  <2> SUFFICES ASSUME proc'[MyShell].pc \in ShellCode, NEW q \in Pids \ {MyShell},
                      proc'[q].pc # "none"
               PROVE  proc'[q].job.is_background \/ WaitsFor(MyShell, q)'
    BY DEF ForegroundInv
  <2>1. c # MyShell /\ proc[MyShell].pc \in ShellCode
    BY <1>3, ShellPid DEF Forked, ShellCode
  <2>2. CASE q = c /\ p # MyShell
    <3>1. proc[p].job.is_background
      BY <2>2 DEF RolesInv, Forked, RunCode
    <3> QED
      BY <2>2, <3>1 DEF Forked
  <2>3. CASE q = c /\ p = MyShell
    <3>1. CASE proc[p].pc = "fork_leader"
      <4>1. proc[p].job.is_background
        BY <2>3, <3>1 DEF RolesInv
      <4> QED
        BY <2>3, <4>1 DEF Forked
    <3>2. CASE proc[p].pc # "fork_leader"
      BY <2>3, <3>2 DEF Forked, WaitsFor
    <3> QED
      BY <3>1, <3>2
  <2>4. CASE q # c
    <3>1. proc[q].pc # "none" /\ proc'[q].job = proc[q].job
      BY <1>3, <2>4 DEF Forked, Alive
    <3>2. proc[q].job.is_background \/ WaitsFor(MyShell, q)
      BY <2>1, <3>1 DEF TogetherInv, ForegroundInv
    <3> QED
      BY <1>6, <1>7, <3>1, <3>2, ShellPid
  <2> QED
    BY <2>2, <2>3, <2>4
<1>10. proc[MyShell].pc \in ShellCode => \A q \in Pids : Alive(q) => Number(q) <= Number(MyShell)
  BY DEF TogetherInv, NumberInv
<1>11. NumberInv'
  <2>1. proc'[MyShell].pc \in ShellCode =>
          \A q \in Pids : Alive(q)' => Number(q)' <= Number(MyShell)'
    <3> SUFFICES ASSUME proc'[MyShell].pc \in ShellCode, NEW q \in Pids, Alive(q)'
                 PROVE  Number(q)' <= Number(MyShell)'
      OBVIOUS
    <3>1. c # MyShell /\ proc[MyShell].pc \in ShellCode
      BY <1>3, ShellPid DEF Forked, ShellCode
    <3> QED
      BY <1>3, <1>4, <1>10, <3>1, ShellPid
  <2>2. ASSUME NEW q \in Pids \ {p, c}, Alive(q), Number(q) = Number(p)
        PROVE  MyShell = q /\ proc'[MyShell].pc \in {"free", "prompt"}
    <3>1. \/ WaitsFor(p, q) \/ WaitsFor(q, p)
          \/ MyShell \in {p, q} /\ proc[MyShell].pc \in {"free", "prompt"}
      BY <1>3, <2>2 DEF TogetherInv, NumberInv
    <3>2. MyShell = q /\ proc[MyShell].pc \in {"free", "prompt"}
      BY <1>3, <1>7, <2>2, <3>1
    <3> QED
      BY <2>2, <3>2 DEF Forked
  <2>3. \/ WaitsFor(p, c)'
        \/ p = MyShell /\ proc'[MyShell].pc \in {"free", "prompt"}
    BY DEF Forked, WaitsFor
  <2>4. ASSUME NEW q \in Pids \ {p, c}, NEW r \in Pids \ {p, c}, q # r, Alive(q), Alive(r),
               Number(q) = Number(r)
        PROVE  \/ WaitsFor(q, r)' \/ WaitsFor(r, q)'
               \/ MyShell \in {q, r} /\ proc'[MyShell].pc \in {"free", "prompt"}
    <3>1. \/ WaitsFor(q, r) \/ WaitsFor(r, q)
          \/ MyShell \in {q, r} /\ proc[MyShell].pc \in {"free", "prompt"}
      BY <2>4 DEF TogetherInv, NumberInv
    <3> QED
      BY <1>6, <2>4, <3>1 DEF Forked
  <2> QED
    BY <1>3, <1>4, <2>1, <2>2, <2>3, <2>4 DEF NumberInv
<1>12. ReadsInv'
  <2> SUFFICES ASSUME NEW q \in Pids, NEW n \in FdNumbers, HasPipe(q, n, "read")'
               PROVE  ReadEndKnown(q, n)'
    BY DEF ReadsInv
  <2> DEFINE o == IF q = c THEN p ELSE q
             j == proc[o].fd[n][2]
  <2>1. /\ o \in Pids \ {c} /\ proc'[q].fd = proc[o].fd /\ proc'[q].fd[n][2] = j
        /\ Number(q)' = Number(o) /\ j \in Nat
    BY <1>2, <1>4 DEF Forked
  <2>2. ReadEndKnown(o, n)
    BY <2>1 DEF TogetherInv, ReadsInv, HasPipe
  <2> HIDE DEF j
  <2>3. /\ j <= Number(o)
        /\ j < Number(o) => \A r \in Pids : Alive(r) => Number(r) # j
        /\ j = Number(o) => /\ proc[o].pc \notin {"parse", "fork_leader"}
                            /\ proc[o].pc \in {"free", "prompt"} => Alone(o)
    BY <2>2 DEF ReadEndKnown, j
  <2>4. ASSUME j < Number(o), NEW r \in Pids, Alive(r)'
        PROVE  Number(r)' # j
    BY <1>3, <1>4, <2>3, <2>4
  <2>5. ASSUME j = Number(o)
        PROVE  /\ proc'[q].pc \notin {"parse", "fork_leader"}
               /\ proc'[q].pc \in {"free", "prompt"} => Alone(q)'
    <3>1. CASE q \in {p, c}
      BY <2>3, <2>5, <3>1 DEF Forked
    <3>2. CASE q \notin {p, c}
      <4>1. o = q /\ proc'[q].pc = proc[q].pc
        BY <3>2 DEF Forked
      <4>2. proc[q].pc \in {"free", "prompt"} => Alone(q)'
        <5> SUFFICES ASSUME proc[q].pc \in {"free", "prompt"} PROVE Alone(q)'
          OBVIOUS
        <5>1. Alone(q)
          BY <2>3, <2>5, <4>1
        <5>2. Number(p) # Number(q)
          BY <1>3, <3>2, <5>1 DEF Alone
        <5> QED
          BY <1>4, <3>2, <5>1, <5>2 DEF Alone
      <4> QED
        BY <2>3, <2>5, <4>1, <4>2
    <3> QED
      BY <3>1, <3>2
  <2> QED
    BY <2>1, <2>3, <2>4, <2>5 DEF ReadEndKnown
<1> QED
  BY <1>8, <1>9, <1>11, <1>12 DEF TogetherInv

\* What the end of p leaves of the others, and of p itself.
Ended(p) ==
  /\ ~Alive(p)'
  /\ proc'[p].pc # "none" => proc'[p].job = proc[p].job
  /\ proc[p].parent # NoPid =>
       proc'[p].pc = "zombie" /\ proc'[p].parent = proc[p].parent /\ proc'[p].job = proc[p].job
  /\ \A n \in FdNumbers : proc'[p].fd[n] = Closed
  /\ \A q \in Pids \ {p} :
       /\ proc[q].parent # p => proc'[q] = proc[q]
       /\ ~Alive(q) => ~Alive(q)'
       /\ proc'[q].pc # "none" =>
            /\ proc'[q].pc = proc[q].pc /\ proc'[q].job = proc[q].job
            /\ proc'[q].at = proc[q].at /\ proc'[q].fd = proc[q].fd
            /\ proc'[q].child = proc[q].child /\ proc'[q].pipe_list = proc[q].pipe_list
       /\ Alive(q) => Alive(q)'
       /\ \A n \in FdNumbers : proc'[q].fd[n] # Closed => proc'[q].fd[n] = proc[q].fd[n]

\* Whose child nobody waits for any more, or was never waited for, is not missed.
LEMMA EndTogether ==
  ASSUME ProcInv, TogetherInv, proc' \in [Pids -> Processes], NEW p \in Pids,
         Alive(p), Ended(p)
  PROVE  TogetherInv'
<1>1. \A q \in Pids : /\ Number(q) \in Nat /\ Number(q)' \in Nat
                      /\ proc[q].fd \in Tables /\ proc'[q].fd \in Tables
  BY ProcessFields DEF ProcInv, Number
<1>2. \A q \in Pids : \A n \in FdNumbers :
        proc[q].fd[n][2] \in Nat /\ proc'[q].fd[n][2] \in Nat
  BY <1>1 DEF Tables, Objects
<1>3. \A q \in Pids : Alive(q)' => /\ q # p /\ Alive(q) /\ Number(q)' = Number(q)
                                   /\ proc'[q].pc = proc[q].pc /\ proc'[q].fd = proc[q].fd
                                   /\ proc'[q].child = proc[q].child /\ proc'[q].at = proc[q].at
                                   /\ proc'[q].job = proc[q].job
  BY DEF Ended, Alive, Number
<1>4. \A q \in Pids, r \in Pids \cup {NoPid} :
        /\ WaitsFor(q, r)' => Alive(q)' /\ WaitsFor(q, r)
        /\ WaitsFor(q, r) /\ q # p => WaitsFor(q, r)'
  <2> SUFFICES ASSUME NEW q \in Pids, NEW r \in Pids \cup {NoPid}
               PROVE  /\ WaitsFor(q, r)' => Alive(q)' /\ WaitsFor(q, r)
                      /\ WaitsFor(q, r) /\ q # p => WaitsFor(q, r)'
    OBVIOUS
  <2>1. WaitsFor(q, r)' => Alive(q)'
    BY DEF WaitsFor, Alive
  <2>2. WaitsFor(q, r) => Alive(q)
    BY DEF WaitsFor, Alive
  <2>3. q # p /\ Alive(q) => Alive(q)'
    BY DEF Ended
  <2> QED
    BY <1>3, <2>1, <2>2, <2>3 DEF WaitsFor
<1>5. WaitInv'
  <2> SUFFICES ASSUME NEW q \in Pids, NEW c \in Pids \cup {NoPid}, WaitsFor(q, c)'
               PROVE  /\ c \in Pids \ {q}
                      /\ proc'[c].parent = q
                      /\ proc'[c].pc \in StageCode \cup {"zombie"}
                      /\ proc'[c].job = proc'[q].job
                      /\ Alive(c)' => proc'[c].at = proc'[q].at
    BY DEF WaitInv
  <2>1. /\ WaitsFor(q, c) /\ Alive(q)' /\ q # p
        /\ proc'[q].job = proc[q].job /\ proc'[q].at = proc[q].at
    BY <1>3, <1>4
  <2>2. /\ c \in Pids \ {q} /\ proc[c].parent = q
        /\ proc[c].pc \in StageCode \cup {"zombie"}
        /\ proc[c].job = proc[q].job
        /\ Alive(c) => proc[c].at = proc[q].at
    BY <2>1 DEF TogetherInv, WaitInv
  <2>3. CASE c = p
    <3>1. proc[p].parent # NoPid
      BY <2>2, <2>3, ShellPid
    <3>2. proc'[p].pc = "zombie" /\ proc'[p].parent = q /\ proc'[p].job = proc[q].job
      BY <2>2, <2>3, <3>1 DEF Ended
    <3> QED
      BY <2>1, <2>2, <2>3, <3>2 DEF Alive
  <2>4. CASE c # p
    <3>1. proc'[c] = proc[c]
      BY <2>1, <2>2, <2>4 DEF Ended
    <3> QED
      BY <1>3, <2>1, <2>2, <3>1 DEF Alive
  <2> QED
    BY <2>3, <2>4
<1>6. proc'[MyShell].pc \in ShellCode => Alive(MyShell)' /\ MyShell # p
  <2>1. proc'[MyShell].pc \in ShellCode => Alive(MyShell)'
    BY DEF Alive, ShellCode
  <2> QED
    BY <1>3, <2>1, ShellPid
<1>7. proc'[MyShell].pc \in ShellCode => proc[MyShell].pc \in ShellCode
  BY <1>3, <1>6, ShellPid
<1>8. ForegroundInv'
  <2> SUFFICES ASSUME proc'[MyShell].pc \in ShellCode, NEW q \in Pids \ {MyShell},
                      proc'[q].pc # "none"
               PROVE  proc'[q].job.is_background \/ WaitsFor(MyShell, q)'
    BY DEF ForegroundInv
  <2>1. proc[q].pc # "none" /\ proc'[q].job = proc[q].job
    BY DEF Ended, Alive
  <2>2. proc[q].job.is_background \/ WaitsFor(MyShell, q)
    BY <1>7, <2>1 DEF TogetherInv, ForegroundInv
  <2> QED
    BY <1>4, <1>6, <2>1, <2>2, ShellPid
<1>9. NumberInv'
  <2>1. proc'[MyShell].pc \in ShellCode =>
          \A q \in Pids : Alive(q)' => Number(q)' <= Number(MyShell)'
    BY <1>3, <1>6, <1>7, ShellPid DEF TogetherInv, NumberInv
  <2>2. ASSUME NEW q \in Pids, NEW r \in Pids, q # r, Alive(q)', Alive(r)',
               Number(q)' = Number(r)'
        PROVE  \/ WaitsFor(q, r)' \/ WaitsFor(r, q)'
               \/ MyShell \in {q, r} /\ proc'[MyShell].pc \in {"free", "prompt"}
    <3>1. \/ WaitsFor(q, r) \/ WaitsFor(r, q)
          \/ MyShell \in {q, r} /\ proc[MyShell].pc \in {"free", "prompt"}
      BY <1>3, <2>2 DEF TogetherInv, NumberInv
    <3>2. WaitsFor(q, r) => WaitsFor(q, r)'
      BY <1>3, <1>4, <2>2
    <3>3. WaitsFor(r, q) => WaitsFor(r, q)'
      BY <1>3, <1>4, <2>2
    <3> QED
      BY <1>3, <2>2, <3>1, <3>2, <3>3
  <2> QED
    BY <2>1, <2>2 DEF NumberInv
<1>10. ReadsInv'
  <2> SUFFICES ASSUME NEW q \in Pids, NEW n \in FdNumbers, HasPipe(q, n, "read")'
               PROVE  ReadEndKnown(q, n)'
    BY DEF ReadsInv
  <2>1. proc'[q].fd[n] # Closed
    BY Kinds DEF HasPipe
  <2>2. q # p /\ proc'[q].fd[n] = proc[q].fd[n]
    BY <2>1 DEF Ended
  <2>3. Alive(q)
    <3>1. proc[q].fd[n] # Closed
      BY <2>1, <2>2
    <3> QED
      BY <3>1 DEF ProcInv, Sound, Alive
  <2>4. Alive(q)'
    BY <2>2, <2>3 DEF Ended
  <2>5. ReadEndKnown(q, n)
    BY <2>2 DEF TogetherInv, ReadsInv, HasPipe
  <2>6. Alone(q) => Alone(q)'
    BY <1>3, <2>4 DEF Alone
  <2> QED
    BY <1>3, <2>2, <2>4, <2>5, <2>6 DEF ReadEndKnown
<1> QED
  BY <1>5, <1>8, <1>9, <1>10 DEF TogetherInv

\* p has waited for c, which has ended.
Reaps(p, c) ==
  /\ WaitsFor(p, c) /\ proc[c].pc = "zombie"
  /\ proc'[c].pc = "none" /\ \A n \in FdNumbers : proc'[c].fd[n] = Closed
  /\ proc'[p].pc \in {"loop", "free"}
  /\ proc'[p].pc = "free" => p = MyShell
  /\ proc'[p].job = proc[p].job
  /\ \A n \in FdNumbers : proc'[p].fd[n] # Closed => proc'[p].fd[n] = proc[p].fd[n]
  /\ \A q \in Pids \ {p, c} : proc'[q] = proc[q]

\* Taking away a child that has ended keeps the pipelines apart, and leaves the shell
\* alone with its own.
LEMMA ReapTogether ==
  ASSUME ProcInv, TogetherInv, proc' \in [Pids -> Processes], NEW p \in Pids,
         NEW c \in Pids \cup {NoPid}, Reaps(p, c)
  PROVE  TogetherInv'
<1>1. \A q \in Pids : /\ Number(q) \in Nat /\ Number(q)' \in Nat
                      /\ proc[q].fd \in Tables /\ proc'[q].fd \in Tables
  BY ProcessFields DEF ProcInv, Number
<1>2. \A q \in Pids : \A n \in FdNumbers :
        proc[q].fd[n][2] \in Nat /\ proc'[q].fd[n][2] \in Nat
  BY <1>1 DEF Tables, Objects
<1>3. c \in Pids \ {p} /\ proc[c].parent = p
  BY DEF TogetherInv, WaitInv, Reaps
<1>4. /\ \A q \in Pids \ {c} : Number(q)' = Number(q) /\ (Alive(q)' <=> Alive(q))
      /\ ~Alive(c) /\ ~Alive(c)' /\ Alive(p) /\ proc[p].pc = "wait"
  BY <1>3 DEF Reaps, Alive, Number, WaitsFor
<1>5. \A q \in Pids : \A r : WaitsFor(q, r)' => q \notin {p, c} /\ WaitsFor(q, r)
  BY <1>3 DEF WaitsFor, Reaps
<1>6. \A q \in Pids \ {p, c} : \A r : WaitsFor(q, r) => WaitsFor(q, r)'
  BY DEF WaitsFor, Reaps
<1>7. \A q, r \in Pids : WaitsFor(q, r) => r # p /\ (r = c => q = p)
  <2> SUFFICES ASSUME NEW q \in Pids, NEW r \in Pids, WaitsFor(q, r)
               PROVE  r # p /\ (r = c => q = p)
    OBVIOUS
  <2>1. proc[r].pc \in StageCode \cup {"zombie"} /\ proc[r].parent = q
    BY DEF TogetherInv, WaitInv
  <2> QED
    BY <1>3, <1>4, <2>1 DEF StageCode, Programs
<1>8. WaitInv'
  <2> SUFFICES ASSUME NEW q \in Pids, NEW r \in Pids \cup {NoPid}, WaitsFor(q, r)'
               PROVE  /\ r \in Pids \ {q}
                      /\ proc'[r].parent = q
                      /\ proc'[r].pc \in StageCode \cup {"zombie"}
                      /\ proc'[r].job = proc'[q].job
                      /\ Alive(r)' => proc'[r].at = proc'[q].at
    BY DEF WaitInv
  <2>1. q \notin {p, c} /\ WaitsFor(q, r)
    BY <1>5
  <2>2. /\ r \in Pids \ {q} /\ proc[r].parent = q
        /\ proc[r].pc \in StageCode \cup {"zombie"}
        /\ proc[r].job = proc[q].job
        /\ Alive(r) => proc[r].at = proc[q].at
    BY <2>1 DEF TogetherInv, WaitInv
  <2>3. r \notin {p, c}
    BY <1>7, <2>1, <2>2
  <2> QED
    BY <1>4, <2>1, <2>2, <2>3 DEF Reaps
<1>9. /\ \A q \in Pids \ {p} : Alive(q) => proc'[q] = proc[q]
      /\ proc'[MyShell].pc \in ShellCode => proc[MyShell].pc \in ShellCode
  BY <1>3, <1>4, ShellPid DEF Reaps, ShellCode
<1>10. ForegroundInv'
  <2> SUFFICES ASSUME proc'[MyShell].pc \in ShellCode, NEW q \in Pids \ {MyShell},
                      proc'[q].pc # "none"
               PROVE  proc'[q].job.is_background \/ WaitsFor(MyShell, q)'
    BY DEF ForegroundInv
  <2>1. q # c /\ proc[q].pc # "none" /\ proc'[q].job = proc[q].job
    BY <1>4 DEF Reaps, Alive
  <2>2. proc[q].job.is_background \/ WaitsFor(MyShell, q)
    BY <1>9, <2>1 DEF TogetherInv, ForegroundInv
  <2>3. WaitsFor(MyShell, q) => WaitsFor(MyShell, q)'
    <3>1. CASE MyShell = p
      <4>1. ~WaitsFor(p, q)
        BY <2>1 DEF Reaps, WaitsFor
      <4> QED
        BY <3>1, <4>1
    <3>2. CASE MyShell = c
      <4>1. proc'[MyShell].pc = "none"
        BY <3>2 DEF Reaps
      <4> QED
        BY <4>1 DEF ShellCode
    <3> QED
      BY <1>6, <3>1, <3>2, ShellPid
  <2> QED
    BY <2>1, <2>2, <2>3
<1>11. \A q \in Pids \ {p} : Alive(q) /\ Number(q) = Number(p) =>
         MyShell = q /\ proc[MyShell].pc \in {"free", "prompt"}
  <2> SUFFICES ASSUME NEW q \in Pids \ {p}, Alive(q), Number(q) = Number(p)
               PROVE  MyShell = q /\ proc[MyShell].pc \in {"free", "prompt"}
    OBVIOUS
  <2>1. \/ WaitsFor(p, q) \/ WaitsFor(q, p)
        \/ MyShell \in {p, q} /\ proc[MyShell].pc \in {"free", "prompt"}
    BY <1>4 DEF TogetherInv, NumberInv
  <2>2. ~WaitsFor(p, q) /\ ~WaitsFor(q, p)
    BY <1>4, <1>7 DEF Reaps, WaitsFor, Alive
  <2> QED
    BY <1>4, <2>1, <2>2
<1>12. NumberInv'
  <2>1. proc'[MyShell].pc \in ShellCode =>
          \A q \in Pids : Alive(q)' => Number(q)' <= Number(MyShell)'
    <3> SUFFICES ASSUME proc'[MyShell].pc \in ShellCode, NEW q \in Pids, Alive(q)'
                 PROVE  Number(q)' <= Number(MyShell)'
      OBVIOUS
    <3>1. MyShell # c /\ q # c
      BY <1>4 DEF Reaps, ShellCode
    <3> QED
      BY <1>4, <1>9, <3>1, ShellPid DEF TogetherInv, NumberInv
  <2>2. ASSUME NEW q \in Pids \ {p, c}, NEW r \in Pids \ {p, c}, q # r, Alive(q), Alive(r),
               Number(q) = Number(r)
        PROVE  \/ WaitsFor(q, r)' \/ WaitsFor(r, q)'
               \/ MyShell \in {q, r} /\ proc'[MyShell].pc \in {"free", "prompt"}
    <3>1. \/ WaitsFor(q, r) \/ WaitsFor(r, q)
          \/ MyShell \in {q, r} /\ proc[MyShell].pc \in {"free", "prompt"}
      BY <2>2 DEF TogetherInv, NumberInv
    <3> QED
      BY <1>6, <2>2, <3>1 DEF Reaps
  <2>3. ASSUME NEW q \in Pids \ {p, c}, Alive(q), Number(q) = Number(p)
        PROVE  MyShell = q /\ proc'[MyShell].pc \in {"free", "prompt"}
    BY <1>11, <2>3 DEF Reaps
  <2> QED
    BY <1>4, <2>1, <2>2, <2>3 DEF NumberInv
<1>13. ReadsInv'
  <2> SUFFICES ASSUME NEW q \in Pids, NEW n \in FdNumbers, HasPipe(q, n, "read")'
               PROVE  ReadEndKnown(q, n)'
    BY DEF ReadsInv
  <2>1. proc'[q].fd[n] # Closed
    BY Kinds DEF HasPipe
  <2>2. q # c /\ proc'[q].fd[n] = proc[q].fd[n]
    BY <2>1 DEF Reaps
  <2> DEFINE j == proc[q].fd[n][2]
  <2>3. ReadEndKnown(q, n)
    BY <2>2 DEF TogetherInv, ReadsInv, HasPipe
  <2>4. j < Number(q) => \A r \in Pids : Alive(r)' => Number(r)' # j
    BY <1>4, <2>3 DEF ReadEndKnown
  <2>5. CASE q # p
    <3>1. Alone(q) => Alone(q)'
      BY <1>4, <2>2 DEF Alone
    <3> QED
      BY <1>4, <2>2, <2>3, <2>4, <2>5, <3>1 DEF ReadEndKnown, Reaps
  <2>6. CASE q = p
    <3>1. proc'[p].pc = "free" => Alone(p)'
      <4> SUFFICES ASSUME proc'[p].pc = "free", NEW r \in Pids \ {p}, Alive(r)',
                          Number(r)' = Number(p)'
                   PROVE  FALSE
        BY DEF Alone
      <4>1. MyShell = p /\ Alive(r) /\ Number(r) = Number(p)
        BY <1>4 DEF Reaps
      <4> QED
        BY <1>11, <4>1
    <3> QED
      BY <1>4, <2>2, <2>3, <2>4, <2>6, <3>1 DEF ReadEndKnown, Reaps
  <2> QED
    BY <2>5, <2>6
<1> QED
  BY <1>8, <1>10, <1>12, <1>13 DEF TogetherInv

\* A process that is none or has ended is sound.
LEMMA GoneSound ==
  ASSUME NEW pr \in Processes
  PROVE  /\ NoProcess \in Processes /\ Sound(NoProcess)
         /\ Zombie(pr) \in Processes /\ Sound(Zombie(pr))
         /\ [pr EXCEPT !.parent = NoPid] \in Processes
<1>1. NoJob \in Jobs
  BY DEF NoJob, Jobs
<1>2. [n \in FdNumbers |-> Closed] \in Tables
  BY Descriptors DEF Tables
<1>3. NoProcess \in Processes
  BY <1>1, <1>2 DEF NoProcess, Processes, Tables
<1>4. /\ NoProcess.pc = "none" /\ \A n \in FdNumbers : NoProcess.fd[n] = Closed
  BY DEF NoProcess
<1> DEFINE z == Zombie(pr)
<1>5. /\ z \in Processes /\ z.pc = "zombie" /\ \A n \in FdNumbers : z.fd[n] = Closed
  <2>1. NoProcess.fd = [n \in FdNumbers |-> Closed]
    BY DEF NoProcess
  <2>2. z \in Processes /\ z.pc = "zombie" /\ z.fd = NoProcess.fd
    BY <1>3 DEF Zombie, Processes
  <2> QED
    BY <1>4, <2>2
<1> HIDE DEF z
<1>6. ASSUME NEW x \in Processes, x.pc \in {"none", "zombie"},
             \A n \in FdNumbers : x.fd[n] = Closed
      PROVE  Sound(x)
  BY <1>6, Kinds DEF Sound, Directed, Writes, Connected, IdleCode, RunCode, ShellCode, Programs
<1>7. Sound(NoProcess) /\ Sound(z)
  BY <1>3, <1>4, <1>5, <1>6
<1>8. [pr EXCEPT !.parent = NoPid] \in Processes
  BY DEF Processes
<1> QED
  BY <1>3, <1>5, <1>7, <1>8 DEF z

\* The end of a process leaves every other as sound as it was, and in its role.
LEMMA ExitKeeps ==
  ASSUME ProcInv, RolesInv, TogetherInv, NEW p \in Pids, Alive(p), proc' = Exited(proc, p)
  PROVE  Ended(p) /\ ProcInv' /\ RolesInv' /\ TogetherInv'
<1>1. \A q \in Pids : proc[q] \in Processes /\ Sound(proc[q])
  BY DEF ProcInv
<1>2. ASSUME NEW q \in Pids
      PROVE  /\ proc'[q] = CASE q = p ->
                                IF proc[p].parent = NoPid THEN NoProcess ELSE Zombie(proc[p])
                           [] q # p /\ proc[q].parent = p ->
                                IF proc[q].pc = "zombie" THEN NoProcess
                                ELSE [proc[q] EXCEPT !.parent = NoPid]
                           [] OTHER -> proc[q]
  BY DEF Exited
<1>3. /\ NoProcess.pc = "none" /\ \A n \in FdNumbers : NoProcess.fd[n] = Closed
  BY DEF NoProcess
<1>4. \A q \in Pids :
        /\ Zombie(proc[q]).pc = "zombie" /\ Zombie(proc[q]).parent = proc[q].parent
        /\ Zombie(proc[q]).job = proc[q].job
        /\ \A n \in FdNumbers : Zombie(proc[q]).fd[n] = Closed
  <2>1. NoProcess.fd = [n \in FdNumbers |-> Closed]
    BY DEF NoProcess
  <2> QED
    BY <2>1, GoneSound DEF Zombie, NoProcess
<1>5. \A q \in Pids :
        LET new == [proc[q] EXCEPT !.parent = NoPid]
        IN  /\ new \in Processes /\ new.pc = proc[q].pc /\ new.job = proc[q].job
            /\ new.at = proc[q].at /\ new.fd = proc[q].fd /\ new.child = proc[q].child
            /\ new.pipe_list = proc[q].pipe_list
  BY <1>1 DEF Processes
<1>6. \A q \in Pids : proc'[q] \in Processes /\ Sound(proc'[q])
  <2> SUFFICES ASSUME NEW q \in Pids PROVE proc'[q] \in Processes /\ Sound(proc'[q])
    OBVIOUS
  <2>1. CASE q = p
    BY <1>1, <1>2, <2>1, GoneSound
  <2>2. CASE q # p /\ proc[q].parent = p
    <3> DEFINE new == [proc[q] EXCEPT !.parent = NoPid]
    <3>1. Sound(new)
      BY ZenonT(30), <1>1, <1>5, SoundOfSame
    <3> QED
      BY <1>1, <1>2, <1>5, <2>2, <3>1, GoneSound
  <2>3. CASE q # p /\ proc[q].parent # p
    BY <1>1, <1>2, <2>3
  <2> QED
    BY <2>1, <2>2, <2>3
<1>7. ProcInv'
  <2>1. proc' = [q \in Pids |-> proc'[q]]
    BY DEF Exited
  <2> QED
    BY <1>6, <2>1 DEF ProcInv
<1>8. ASSUME NEW q \in Pids \ {p}
      PROVE  /\ proc[q].parent # p => proc'[q] = proc[q]
             /\ \/ proc'[q].pc = "none" /\ proc[q].pc = "zombie"
                   /\ \A n \in FdNumbers : proc'[q].fd[n] = Closed
                \/ /\ proc'[q].pc = proc[q].pc /\ proc'[q].job = proc[q].job
                   /\ proc'[q].at = proc[q].at /\ proc'[q].fd = proc[q].fd
                   /\ proc'[q].child = proc[q].child /\ proc'[q].pipe_list = proc[q].pipe_list
  BY ZenonT(30), <1>2, <1>3, <1>5
<1>9. /\ proc'[p].pc \in {"none", "zombie"} /\ \A n \in FdNumbers : proc'[p].fd[n] = Closed
      /\ proc'[p].pc # "none" => proc'[p].job = proc[p].job
      /\ proc[p].parent # NoPid =>
           proc'[p].pc = "zombie" /\ proc'[p].parent = proc[p].parent /\ proc'[p].job = proc[p].job
  BY ZenonT(30), <1>2, <1>3, <1>4
<1>10. Ended(p)
  BY <1>8, <1>9 DEF Ended, Alive
<1>11. RolesInv'
  <2>1. ASSUME NEW q \in Pids
        PROVE  \/ proc'[q].pc \in {"none", "zombie"}
               \/ proc'[q].pc = proc[q].pc /\ proc'[q].job = proc[q].job
    BY <1>8, <1>9
  <2> QED
    BY <2>1, ShellPid DEF RolesInv, IdleCode, RunCode
<1> QED
  BY <1>7, <1>10, <1>11, EndTogether DEF ProcInv

\* What RolesInv says of one process.
InRole(p, pr) ==
  /\ p # MyShell => /\ pr.pc \notin IdleCode \cup {"free"}
                    /\ pr.pc \in RunCode => pr.job.is_background
  /\ p = MyShell /\ pr.pc = "fork_leader" => pr.job.is_background

\* One process changes, into one that is sound and in its role.
LEMMA MoveKeeps ==
  ASSUME ProcInv, RolesInv, TogetherInv, NEW p \in Pids, NEW new \in Processes,
         proc' = [proc EXCEPT ![p] = new], Sound(new), InRole(p, new),
         Moves(p), ReadsFrom(p)
  PROVE  ProcInv' /\ RolesInv' /\ TogetherInv'
<1>1. /\ proc' \in [Pids -> Processes] /\ proc'[p] = new
      /\ \A q \in Pids \ {p} : proc'[q] = proc[q]
  BY DEF ProcInv
<1>2. ProcInv'
  BY <1>1 DEF ProcInv
<1>3. RolesInv'
  BY <1>1, ShellPid DEF RolesInv, InRole
<1>4. TogetherInv'
  BY <1>1, MovesTogether
<1> QED
  BY <1>2, <1>3, <1>4

\* A program, or what becomes one, does something that changes nothing but its pc.
LEMMA ProgramKeeps ==
  ASSUME ProcInv, RolesInv, TogetherInv, NEW p \in Pids, NEW pc \in Programs,
         proc[p].pc \in Programs \cup {"exec"}, proc' = [proc EXCEPT ![p].pc = pc],
         pc = "writing" => HasPipe(p, STDOUT, "write")
  PROVE  ProcInv' /\ RolesInv' /\ TogetherInv'
<1> DEFINE new == [proc[p] EXCEPT !.pc = pc]
<1>1. proc[p] \in Processes /\ Sound(proc[p])
  BY DEF ProcInv
<1>2. new \in Processes /\ Sound(new)
  BY <1>1, StageSound DEF HasPipe
<1>3. /\ new.pc = pc /\ new.job = proc[p].job /\ new.at = proc[p].at /\ new.fd = proc[p].fd
      /\ new.parent = proc[p].parent
  BY <1>1 DEF Processes
<1>4. proc' = [proc EXCEPT ![p] = new]
  OBVIOUS
<1> HIDE DEF new
<1>5. proc'[p] = new /\ \A q \in Pids \ {p} : proc'[q] = proc[q]
  BY <1>4 DEF ProcInv
<1>6. InRole(p, new)
  BY <1>3 DEF InRole, IdleCode, RunCode, Programs
<1>7. Moves(p)
  BY <1>3, <1>5 DEF Moves, Alive, Number, StageCode, ShellCode, Programs
<1>8. ReadsFrom(p)
  BY <1>3, <1>5 DEF ReadsFrom
<1> QED
  BY <1>2, <1>4, <1>6, <1>7, <1>8, MoveKeeps

-----------------------------------------------------------------------------
(* The pipes after a step.                                                 *)

\* Code in which a process has written nothing yet.
Unstarted == {"fork", "redirect", "exec"}

\* Ends of pipes after a step were there before it, or the other way round.
EndsFrom ==
  \A p \in Pids : \A n \in FdNumbers : proc'[p].fd[n][1] \in {"read", "write"} =>
    \E q \in Pids : \E m \in FdNumbers : proc[q].fd[m] = proc'[p].fd[n]

EndsStay ==
  \A p \in Pids : \A n \in FdNumbers : proc[p].fd[n][1] \in {"read", "write"} =>
    \E q \in Pids : \E m \in FdNumbers : proc'[q].fd[m] = proc[p].fd[n]

\* So were the write ends nobody has written to.
FreshFrom ==
  \A p \in Pids : \A n \in FdNumbers : HasPipe(p, n, "write")' /\ proc'[p].pc \in Unstarted =>
    \E q \in Pids : \E m \in FdNumbers :
      proc[q].pc \in Unstarted /\ proc[q].fd[m] = proc'[p].fd[n]

\* A pipe is among the ends if a process has an end of it.
LEMMA EndsAre ==
  ASSUME NEW procs, NEW kind, NEW x
  PROVE  x \in Ends(procs, kind) <=>
           \E p \in Pids : \E n \in FdNumbers :
             procs[p].fd[n][1] = kind /\ x = PipeOf(procs[p].fd[n])
BY DEF Ends, EndsOf

\* No end of a pipe appears, or none is lost.
LEMMA EndsCompared ==
  ASSUME NEW kind \in {"read", "write"}
  PROVE  /\ EndsFrom => Ends(proc', kind) \subseteq Ends(proc, kind)
         /\ EndsStay => Ends(proc, kind) \subseteq Ends(proc', kind)
<1>1. ASSUME EndsFrom, NEW x \in Ends(proc', kind) PROVE x \in Ends(proc, kind)
  <2>1. PICK p \in Pids : \E n \in FdNumbers :
          proc'[p].fd[n][1] = kind /\ x = PipeOf(proc'[p].fd[n])
    BY <1>1, EndsAre
  <2>2. PICK n \in FdNumbers : proc'[p].fd[n][1] = kind /\ x = PipeOf(proc'[p].fd[n])
    BY <2>1
  <2>3. \E q \in Pids : \E m \in FdNumbers : proc[q].fd[m] = proc'[p].fd[n]
    BY <1>1, <2>2 DEF EndsFrom
  <2> QED
    BY <2>2, <2>3, EndsAre
<1>2. ASSUME EndsStay, NEW x \in Ends(proc, kind) PROVE x \in Ends(proc', kind)
  <2>1. PICK p \in Pids : \E n \in FdNumbers :
          proc[p].fd[n][1] = kind /\ x = PipeOf(proc[p].fd[n])
    BY <1>2, EndsAre
  <2>2. PICK n \in FdNumbers : proc[p].fd[n][1] = kind /\ x = PipeOf(proc[p].fd[n])
    BY <2>1
  <2>3. \E q \in Pids : \E m \in FdNumbers : proc'[q].fd[m] = proc[p].fd[n]
    BY <1>2, <2>2 DEF EndsStay
  <2> QED
    BY <2>2, <2>3, EndsAre
<1> QED
  BY <1>1, <1>2

\* Whoever has an end of a pipe finds the pipe in data.
LEMMA EndHasData ==
  ASSUME DOMAIN data = Ends(proc, "read") \cup Ends(proc, "write"),
         NEW p \in Pids, NEW n \in FdNumbers, proc[p].fd[n][1] \in {"read", "write"}
  PROVE  PipeOf(proc[p].fd[n]) \in DOMAIN data
BY EndsAre

\* Ends are closed and nothing else: the other pipes keep what is in them.
LEMMA DataKept ==
  ASSUME DataInv, EndsFrom, FreshFrom, data' = Kept(proc', data)
  PROVE  DataInv'
<1> DEFINE ends == Ends(proc', "read") \cup Ends(proc', "write")
<1>1. ends \subseteq DOMAIN data
  BY EndsCompared DEF DataInv
<1>2. DOMAIN data' = ends /\ \A x \in ends : data'[x] = data[x]
  BY <1>1 DEF Kept
<1>3. FreshInv'
  <2> SUFFICES ASSUME NEW p \in Pids, NEW n \in FdNumbers, HasPipe(p, n, "write")',
                      proc'[p].pc \in Unstarted
               PROVE  data'[PipeOf(proc'[p].fd[n])] = 0
    BY DEF FreshInv, Unstarted
  <2>1. PICK q \in Pids : \E m \in FdNumbers :
          proc[q].pc \in Unstarted /\ proc[q].fd[m] = proc'[p].fd[n]
    BY DEF FreshFrom
  <2>2. PICK m \in FdNumbers : proc[q].pc \in Unstarted /\ proc[q].fd[m] = proc'[p].fd[n]
    BY <2>1
  <2>3. data[PipeOf(proc[q].fd[m])] = 0
    BY <2>2 DEF DataInv, FreshInv, Unstarted, HasPipe
  <2>4. PipeOf(proc'[p].fd[n]) \in ends
    BY EndsAre DEF HasPipe
  <2> QED
    BY <1>2, <2>2, <2>3, <2>4
<1> QED
  BY <1>1, <1>2, <1>3 DEF DataInv

\* No end is closed or opened, and nothing is read or written.
LEMMA DataUnchanged ==
  ASSUME DataInv, EndsFrom, EndsStay, FreshFrom, UNCHANGED data
  PROVE  DataInv'
<1>1. Ends(proc', "read") = Ends(proc, "read") /\ Ends(proc', "write") = Ends(proc, "write")
  BY EndsCompared
<1>2. FreshInv'
  <2> SUFFICES ASSUME NEW p \in Pids, NEW n \in FdNumbers, HasPipe(p, n, "write")',
                      proc'[p].pc \in Unstarted
               PROVE  data'[PipeOf(proc'[p].fd[n])] = 0
    BY DEF FreshInv, Unstarted
  <2>1. PICK q \in Pids : \E m \in FdNumbers :
          proc[q].pc \in Unstarted /\ proc[q].fd[m] = proc'[p].fd[n]
    BY DEF FreshFrom
  <2> QED
    BY <2>1 DEF DataInv, FreshInv, Unstarted, HasPipe
<1> QED
  BY <1>1, <1>2 DEF DataInv

\* The tables are the same, and nobody has become one that has not written yet.
LEMMA TablesSame ==
  ASSUME \A q \in Pids : proc'[q].fd = proc[q].fd,
         \A q \in Pids : proc'[q].pc \in Unstarted => proc[q].pc \in Unstarted
  PROVE  EndsFrom /\ EndsStay /\ FreshFrom
<1>1. EndsFrom /\ EndsStay
  BY DEF EndsFrom, EndsStay
<1>2. FreshFrom
  BY DEF FreshFrom
<1> QED
  BY <1>1, <1>2

-----------------------------------------------------------------------------
(* Every action keeps the invariant.                                       *)

ProcsInv == ProcInv /\ RolesInv /\ TogetherInv

\* What an end leaves of the ends of pipes.
LEMMA EndedEnds ==
  ASSUME NEW p \in Pids, Ended(p)
  PROVE  EndsFrom /\ FreshFrom
<1>1. \A q \in Pids : \A n \in FdNumbers :
        proc'[q].fd[n] # Closed => q # p /\ proc'[q].fd[n] = proc[q].fd[n]
  BY DEF Ended
<1>2. EndsFrom
  BY <1>1, Kinds DEF EndsFrom
<1>3. \A q \in Pids : proc'[q].pc \in Unstarted => proc'[q].pc = proc[q].pc
  BY DEF Ended, Alive, Unstarted
<1>4. FreshFrom
  BY <1>1, <1>3, Kinds DEF FreshFrom, HasPipe
<1> QED
  BY <1>2, <1>4

\* A process ends.
LEMMA ExitInv ==
  ASSUME ProcsInv, DataInv, NEW p \in Pids, Alive(p), Exit(p)
  PROVE  Ended(p) /\ ProcsInv' /\ DataInv'
<1>1. proc' = Exited(proc, p) /\ data' = Kept(proc', data)
  BY DEF Exit
<1>2. Ended(p) /\ ProcInv' /\ RolesInv' /\ TogetherInv'
  BY <1>1, ExitKeeps DEF ProcsInv
<1>3. DataInv'
  BY <1>1, <1>2, EndedEnds, DataKept
<1> QED
  BY <1>2, <1>3 DEF ProcsInv

\* The lines after a step are some of those before it.
LEMMA LinesKept ==
  ASSUME LinesInv, \/ input' = input
                   \/ input # <<>> /\ input' = Tail(input),
         line' \in {line, <<>>} \/ (input # <<>> /\ line' = Head(input))
  PROVE  LinesInv'
<1>1. MaxLine \in Nat /\ MaxLine > 1
  BY MaxLineAssumption
<1>2. ASSUME input # <<>>
      PROVE  /\ Head(input) \in Seq(Characters)
             /\ Len(Head(input)) < MaxLine /\ Whole(Head(input))
             /\ Tail(input) \in Seq(Seq(Characters))
             /\ \A i \in DOMAIN Tail(input) :
                  Len(Tail(input)[i]) < MaxLine /\ Whole(Tail(input)[i])
  <2>1. 1 \in DOMAIN input /\ Head(input) = input[1]
    BY <1>2 DEF LinesInv
  <2>2. \A i \in DOMAIN Tail(input) : i + 1 \in DOMAIN input /\ Tail(input)[i] = input[i + 1]
    BY <1>2 DEF LinesInv
  <2> QED
    BY <1>2, <2>1, <2>2 DEF LinesInv
<1>3. <<>> \in Seq(Characters) /\ Len(<<>>) < MaxLine /\ Whole(<<>>)
  <2>1. Len(<<>>) = 0 /\ DOMAIN <<>> = {}
    OBVIOUS
  <2> QED
    BY <1>1, <2>1 DEF Whole
<1>4. line' \in Seq(Characters) /\ Len(line') < MaxLine /\ Whole(line')
  BY <1>2, <1>3 DEF LinesInv
<1>5. /\ input' \in Seq(Seq(Characters))
      /\ \A i \in DOMAIN input' : Len(input'[i]) < MaxLine /\ Whole(input'[i])
  BY <1>2 DEF LinesInv
<1> QED
  BY <1>4, <1>5 DEF LinesInv

\* The shell reads a line.
LEMMA ReadLineInv ==
  ASSUME ShellInv, ReadLine
  PROVE  ShellInv'
<1> DEFINE job == [proc[MyShell].job EXCEPT !.number = @ + 1]
           new == [proc[MyShell] EXCEPT !.pc = "parse", !.job = job]
<1>1. /\ MyShell \in Pids /\ proc[MyShell] \in Processes /\ Sound(proc[MyShell])
      /\ proc[MyShell].pc = "prompt"
  BY ShellPid DEF ShellInv, ProcInv, ReadLine
<1>2. /\ new \in Processes /\ new.pc = "parse" /\ new.at = proc[MyShell].at
      /\ new.fd = proc[MyShell].fd /\ new.pipe_list = proc[MyShell].pipe_list
      /\ new.parent = proc[MyShell].parent /\ new.job.number = proc[MyShell].job.number + 1
  <2>1. job \in Jobs /\ job.number = proc[MyShell].job.number + 1
    <3>1. proc[MyShell].job \in Jobs
      BY <1>1, ProcessFields
    <3> QED
      BY <3>1 DEF Jobs
  <2> HIDE DEF job
  <2> QED
    BY <1>1, <2>1 DEF Processes, ShellCode
<1>3. proc' = [proc EXCEPT ![MyShell] = new]
  BY <1>1 DEF ReadLine, ShellInv, ProcInv
<1> HIDE DEF new
<1>4. Sound(new)
  <2>1. Standard(proc[MyShell]) /\ \A n \in FdNumbers : proc[MyShell].fd[n][1] # "write"
    BY <1>1, NoWrites DEF Sound, ShellCode, IdleCode
  <2>2. new.at = 0 /\ new.pipe_list = <<>>
    BY <1>1, <1>2 DEF Sound, IdleCode
  <2> QED
    BY <1>1, <1>2, <2>1, <2>2, IdleSound DEF IdleCode
<1>5. proc'[MyShell] = new /\ \A q \in Pids \ {MyShell} : proc'[q] = proc[q]
  BY <1>1, <1>3 DEF ShellInv, ProcInv
<1>6. proc[MyShell].job.number \in Nat
  BY <1>1, ProcessFields
<1>7. Moves(MyShell) /\ ReadsFrom(MyShell) /\ InRole(MyShell, new)
  <2>1. Moves(MyShell)
    BY <1>1, <1>2, <1>5, <1>6 DEF Moves, Alive, Number, StageCode, ShellCode, Programs
  <2>2. ReadsFrom(MyShell) /\ InRole(MyShell, new)
    BY <1>2, <1>5 DEF ReadsFrom, InRole
  <2> QED
    BY <2>1, <2>2
<1>8. ProcInv' /\ RolesInv' /\ TogetherInv'
  BY <1>1, <1>2, <1>3, <1>4, <1>7, MoveKeeps DEF ShellInv
<1>9. DataInv'
  <2>1. \A q \in Pids : proc'[q].fd = proc[q].fd
    BY <1>2, <1>5
  <2>2. \A q \in Pids : proc'[q].pc \in Unstarted => proc[q].pc \in Unstarted
    BY <1>2, <1>5 DEF Unstarted
  <2> QED
    BY <2>1, <2>2, TablesSame, DataUnchanged DEF ShellInv, ReadLine
<1>10. LinesInv'
  BY LinesKept DEF ShellInv, ReadLine
<1> QED
  BY <1>8, <1>9, <1>10 DEF ShellInv

\* A process that does not change its table stays out of the others' way.
LEMMA OneTable ==
  ASSUME NEW p \in Pids, proc'[p].fd = proc[p].fd,
         \A q \in Pids \ {p} : proc'[q] = proc[q],
         proc'[p].pc \in Unstarted =>
           proc[p].pc \in Unstarted \/ \A n \in FdNumbers : proc[p].fd[n][1] # "write"
  PROVE  EndsFrom /\ EndsStay /\ FreshFrom
<1>1. \A q \in Pids : proc'[q].fd = proc[q].fd
  OBVIOUS
<1>2. EndsFrom /\ EndsStay
  BY <1>1 DEF EndsFrom, EndsStay
<1>3. FreshFrom
  BY <1>1 DEF FreshFrom, HasPipe
<1> QED
  BY <1>2, <1>3

\* The job made of what the parser has built.
LEMMA JobTyped ==
  ASSUME LinesInv, NEW number \in Nat, PipelineBuild(line).status \in {"ended", "scanning"}
  PROVE  /\ JobOf(PipelineBuild(line), number) \in Jobs
         /\ JobOf(PipelineBuild(line), number).number = number
<1> DEFINE built == PipelineBuild(line)
<1>1. line # <<>>
  <2>1. NoPipeline.status = "none"
    BY DEF NoPipeline, Start
  <2> QED
    BY <2>1 DEF PipelineBuild
<1>2. built \in Scans
  BY <1>1, ScannedTyped DEF PipelineBuild, ScansTo, LinesInv
<1> HIDE DEF built
<1>3. built.commands \in Seq(Commands)
  BY <1>2 DEF Scans
<1> DEFINE stage(k) == [program |-> built.commands[k].args # <<>>,
                         in      |-> built.commands[k].in # NoWord,
                         out     |-> built.commands[k].out # NoWord]
<1>4. [k \in DOMAIN built.commands |-> stage(k)]
      \in Seq([program : BOOLEAN, in : BOOLEAN, out : BOOLEAN])
  <2>1. \A k \in DOMAIN built.commands :
          stage(k) \in [program : BOOLEAN, in : BOOLEAN, out : BOOLEAN]
    OBVIOUS
  <2>2. DOMAIN built.commands = 1 .. Len(built.commands) /\ Len(built.commands) \in Nat
    BY <1>3
  <2> HIDE DEF stage
  <2> QED
    BY <2>1, <2>2
<1>5. built.is_background \in BOOLEAN /\ FreesUnset(built) \in BOOLEAN
  BY <1>2 DEF Scans, FreesUnset
<1>6. /\ JobOf(built, number) \in Jobs
      /\ JobOf(built, number).number = number
  BY <1>4, <1>5 DEF JobOf, Jobs
<1> QED
  BY <1>6 DEF built

\* The shell outside the loop over the commands.
LEMMA ShellMoves ==
  ASSUME ShellInv, NEW new \in Processes, proc' = [proc EXCEPT ![MyShell] = new],
         proc[MyShell].pc \in IdleCode \cup {"free"},
         new.fd = proc[MyShell].fd, new.parent = proc[MyShell].parent,
         \/ new.pc = "free"
         \/ new.pc \in IdleCode \cup {"loop"} /\ new.at = 0 /\ new.pipe_list = <<>>,
         Moves(MyShell), InRole(MyShell, new)
  PROVE  /\ ProcsInv'
         /\ UNCHANGED data => DataInv'
<1>1. /\ MyShell \in Pids /\ proc[MyShell] \in Processes /\ Sound(proc[MyShell])
      /\ proc'[MyShell] = new /\ \A q \in Pids \ {MyShell} : proc'[q] = proc[q]
  BY ShellPid DEF ShellInv, ProcInv
<1>2. Standard(proc[MyShell]) /\ \A n \in FdNumbers : proc[MyShell].fd[n][1] # "write"
  BY <1>1, NoWrites DEF Sound, ShellCode, IdleCode
<1>3. Sound(new)
  BY <1>1, <1>2, IdleSound
<1>4. ReadsFrom(MyShell)
  BY <1>1 DEF ReadsFrom
<1>5. ProcsInv'
  BY <1>1, <1>3, <1>4, MoveKeeps DEF ShellInv, ProcsInv
<1>6. EndsFrom /\ EndsStay /\ FreshFrom
  BY <1>1, <1>2, OneTable
<1> QED
  BY <1>5, <1>6, DataUnchanged DEF ShellInv

\* It starts on the pipeline it has parsed.
LEMMA ParseLineInv ==
  ASSUME ShellInv, ParseLine
  PROVE  ShellInv'
<1> DEFINE pr == proc[MyShell]
           job == JobOf(PipelineBuild(line), pr.job.number)
           pc == IF job.is_background THEN "fork_leader" ELSE "loop"
           new == [pr EXCEPT !.pc = pc, !.job = job]
<1>1. /\ MyShell \in Pids /\ pr \in Processes /\ Sound(pr) /\ pr.pc = "parse"
  BY ShellPid DEF ShellInv, ProcInv, ParseLine
<1>2. job \in Jobs /\ job.number = pr.job.number
  <2>1. PipelineBuild(line).status \in {"ended", "scanning"}
    BY DEF ParseLine
  <2>2. pr.job.number \in Nat
    BY <1>1, ProcessFields
  <2> QED
    BY <2>1, <2>2, JobTyped DEF ShellInv
<1>3. proc' = [proc EXCEPT ![MyShell] = new]
  BY <1>1 DEF ParseLine, ShellInv, ProcInv
<1> HIDE DEF job
<1>4. /\ new \in Processes /\ new.pc = pc /\ new.at = pr.at /\ new.fd = pr.fd
      /\ new.pipe_list = pr.pipe_list /\ new.parent = pr.parent /\ new.job = job
  BY <1>1, <1>2 DEF Processes, ShellCode
<1> HIDE DEF new
<1>5. proc'[MyShell] = new /\ \A q \in Pids \ {MyShell} : proc'[q] = proc[q]
  BY <1>1, <1>3 DEF ShellInv, ProcInv
<1>6. new.at = 0 /\ new.pipe_list = <<>>
  BY <1>1, <1>4 DEF Sound, IdleCode
<1>7. Moves(MyShell)
  BY <1>1, <1>2, <1>4, <1>5 DEF Moves, Alive, Number, StageCode, ShellCode, Programs
<1>8. InRole(MyShell, new)
  BY <1>4 DEF InRole
<1>9. ProcsInv' /\ DataInv'
  <2>1. new.pc \in IdleCode \cup {"loop"} /\ pr.pc \in IdleCode
    BY <1>1, <1>4 DEF IdleCode
  <2>2. UNCHANGED data
    BY DEF ParseLine
  <2> QED
    BY <1>3, <1>4, <1>6, <1>7, <1>8, <2>1, <2>2, ShellMoves
<1>10. LinesInv'
  BY LinesKept DEF ShellInv, ParseLine
<1> QED
  BY <1>9, <1>10 DEF ShellInv, ProcsInv

\* Or it asks for the next line.
LEMMA NothingToRunInv ==
  ASSUME ShellInv, NothingToRun
  PROVE  ShellInv'
<1> DEFINE pr == proc[MyShell]
           new == [pr EXCEPT !.pc = "prompt"]
<1>1. /\ MyShell \in Pids /\ pr \in Processes /\ Sound(pr) /\ pr.pc = "parse"
  BY ShellPid DEF ShellInv, ProcInv, NothingToRun
<1>2. proc' = [proc EXCEPT ![MyShell] = new]
  BY DEF NothingToRun
<1>3. /\ new \in Processes /\ new.pc = "prompt" /\ new.at = pr.at /\ new.fd = pr.fd
      /\ new.pipe_list = pr.pipe_list /\ new.parent = pr.parent /\ new.job = pr.job
  BY <1>1 DEF Processes, ShellCode
<1> HIDE DEF new
<1>4. proc'[MyShell] = new /\ \A q \in Pids \ {MyShell} : proc'[q] = proc[q]
  BY <1>1, <1>2 DEF ShellInv, ProcInv
<1>5. new.at = 0 /\ new.pipe_list = <<>>
  BY <1>1, <1>3 DEF Sound, IdleCode
<1>6. Moves(MyShell)
  BY <1>1, <1>3, <1>4 DEF Moves, Alive, Number, StageCode, ShellCode, Programs
<1>7. InRole(MyShell, new)
  BY <1>3 DEF InRole
<1>8. ProcsInv' /\ DataInv'
  <2>1. new.pc \in IdleCode /\ pr.pc \in IdleCode
    BY <1>1, <1>3 DEF IdleCode
  <2>2. UNCHANGED data
    BY DEF NothingToRun
  <2> QED
    BY <1>2, <1>3, <1>5, <1>6, <1>7, <2>1, <2>2, ShellMoves
<1>9. LinesInv'
  BY LinesKept DEF ShellInv, NothingToRun
<1> QED
  BY <1>8, <1>9 DEF ShellInv, ProcsInv

\* A pipeline given back leaves the number, the descriptors and the parent.
LEMMA ResetTyped ==
  ASSUME NEW pr \in Processes
  PROVE  LET new == Reset(pr, "prompt")
         IN  /\ new \in Processes /\ new.pc = "prompt" /\ new.at = 0 /\ new.fd = pr.fd
             /\ new.pipe_list = <<>> /\ new.parent = pr.parent
             /\ new.job.number = pr.job.number
<1> DEFINE n == pr.job.number
           job == [NoJob EXCEPT !.number = n]
           new == Reset(pr, "prompt")
<1>1. n \in Nat
  BY ProcessFields
<1> HIDE DEF n
<1>2. NoJob \in Jobs
  BY DEF NoJob, Jobs
<1>3. job \in Jobs /\ job.number = n
  BY <1>1, <1>2 DEF Jobs
<1>4. new = [pr EXCEPT !.pc = "prompt", !.job = job, !.child = NoPid, !.at = 0,
                       !.pipe_list = <<>>]
  BY DEF Reset, n
<1>5. <<>> \in Seq(FdNumbers \X FdNumbers)
  OBVIOUS
<1> HIDE DEF new, job
<1>6. NoPid \in Pids \cup {NoPid} /\ 0 \in Nat
  OBVIOUS
<1>7. /\ new \in Processes /\ new.pc = "prompt" /\ new.at = 0 /\ new.fd = pr.fd
      /\ new.pipe_list = <<>> /\ new.parent = pr.parent /\ new.job = job
  BY <1>3, <1>4, <1>5, <1>6 DEF Processes, ShellCode
<1> QED
  BY <1>3, <1>7 DEF n, new

\* A pipeline given back leaves nothing of itself in the shell.
LEMMA FreePipelineInv ==
  ASSUME ShellInv, FreePipeline
  PROVE  ShellInv'
<1> DEFINE pr == proc[MyShell]
           new == Reset(pr, "prompt")
<1>1. /\ MyShell \in Pids /\ pr \in Processes /\ Sound(pr) /\ pr.pc = "free"
  BY ShellPid DEF ShellInv, ProcInv, FreePipeline
<1>2. proc' = [proc EXCEPT ![MyShell] = new]
  BY <1>1 DEF FreePipeline, ShellInv, ProcInv
<1>3. /\ new \in Processes /\ new.pc = "prompt" /\ new.at = 0 /\ new.fd = pr.fd
      /\ new.pipe_list = <<>> /\ new.parent = pr.parent
      /\ new.job.number = pr.job.number
  BY <1>1, ResetTyped
<1> HIDE DEF new
<1>5. proc'[MyShell] = new /\ \A q \in Pids \ {MyShell} : proc'[q] = proc[q]
  BY <1>1, <1>2 DEF ShellInv, ProcInv
<1>6. Moves(MyShell)
  BY <1>1, <1>3, <1>5 DEF Moves, Alive, Number, StageCode, ShellCode, Programs
<1>7. InRole(MyShell, new)
  BY <1>3 DEF InRole
<1>8. ProcsInv' /\ DataInv'
  <2>1. new.pc \in IdleCode
    BY <1>3 DEF IdleCode
  <2>2. UNCHANGED data
    BY DEF FreePipeline
  <2> QED
    BY <1>1, <1>2, <1>3, <1>6, <1>7, <2>1, <2>2, ShellMoves
<1>9. LinesInv'
  BY LinesKept DEF ShellInv, FreePipeline
<1> QED
  BY <1>8, <1>9 DEF ShellInv, ProcsInv

ForkFails(p, child_pc) == proc' = [proc EXCEPT ![p] = [proc[p] EXCEPT !.pc = child_pc]]

ForkMakes(p, c, parent_pc, child_pc) ==
  /\ proc[c].pc = "none"
  /\ proc' = [proc EXCEPT ![p] = [proc[p] EXCEPT !.pc = parent_pc, !.child = c],
                          ![c] = [proc[p] EXCEPT !.pc = child_pc, !.parent = p]]

\* A fork gives the parent a child that is no process yet, or, when there is none,
\* makes the parent take the branch of the child.
LEMMA ForkCases ==
  ASSUME ProcInv, NEW p \in Pids, Alive(p), NEW parent_pc, NEW child_pc,
         Fork(p, parent_pc, child_pc)
  PROVE  \/ FreePids = {} /\ ForkFails(p, child_pc)
         \/ \E c \in Pids \ {p} : ForkMakes(p, c, parent_pc, child_pc)
<1>1. CASE FreePids = {}
  BY <1>1 DEF Fork, ForkFails
<1>2. CASE FreePids # {}
  <2> DEFINE c == Min(FreePids)
  <2>1. c \in FreePids
    <3>1. FreePids \in SUBSET Nat
      BY ShellPid DEF FreePids
    <3> QED
      BY <1>2, <3>1, LeastNatural
  <2>2. proc' = [proc EXCEPT ![p].pc = parent_pc, ![p].child = c,
                             ![c] = [proc[p] EXCEPT !.pc = child_pc, !.parent = p]]
    BY <1>2 DEF Fork
  <2> HIDE DEF c
  <2>3. c \in Pids \ {p} /\ proc[c].pc = "none"
    BY <2>1 DEF FreePids, Alive
  <2>4. proc' = [proc EXCEPT ![p] = [proc[p] EXCEPT !.pc = parent_pc, !.child = c],
                             ![c] = [proc[p] EXCEPT !.pc = child_pc, !.parent = p]]
    BY <2>2, <2>3 DEF ProcInv
  <2> QED
    BY <2>3, <2>4 DEF ForkMakes
<1> QED
  BY <1>1, <1>2

\* Parent and child after a fork, a and b, are sound and in their roles.
LEMMA ForkKeeps ==
  ASSUME ProcsInv, NEW p \in Pids, NEW c \in Pids \ {p},
         NEW a \in Processes, NEW b \in Processes, Sound(a), Sound(b),
         InRole(p, a), InRole(c, b), proc' = [proc EXCEPT ![p] = a, ![c] = b],
         Forked(p, c)
  PROVE  ProcsInv'
<1>1. /\ proc' \in [Pids -> Processes] /\ proc'[p] = a /\ proc'[c] = b
      /\ \A q \in Pids \ {p, c} : proc'[q] = proc[q]
  BY DEF ProcInv, ProcsInv
<1>2. ProcInv'
  BY <1>1 DEF ProcInv, ProcsInv
<1>3. RolesInv'
  BY <1>1, ShellPid DEF RolesInv, InRole, ProcsInv
<1>4. TogetherInv'
  BY <1>1, ForkTogether DEF ProcsInv
<1> QED
  BY <1>2, <1>3, <1>4 DEF ProcsInv

\* The child's table is a copy of its parent's.
LEMMA ForkData ==
  ASSUME ProcInv, DataInv, NEW p \in Pids, NEW c \in Pids \ {p}, Forked(p, c),
         proc'[p].pc \notin Unstarted,
         proc'[c].pc \in Unstarted =>
           proc[p].pc \in Unstarted \/ \A n \in FdNumbers : proc[p].fd[n][1] # "write",
         UNCHANGED data
  PROVE  DataInv'
<1>1. \A n \in FdNumbers : proc[c].fd[n] = Closed
  BY DEF ProcInv, Sound, Forked
<1>2. /\ proc'[p].fd = proc[p].fd /\ proc'[c].fd = proc[p].fd
      /\ \A q \in Pids \ {p, c} : proc'[q] = proc[q]
  BY DEF Forked
<1>3. EndsFrom
  BY <1>2 DEF EndsFrom
<1>4. EndsStay
  BY <1>1, <1>2, Kinds DEF EndsStay
<1>5. FreshFrom
  BY <1>2 DEF FreshFrom, HasPipe
<1> QED
  BY <1>3, <1>4, <1>5, DataUnchanged

\* The shell forks the leader of a pipeline in the background, or becomes it.
LEMMA ForkLeaderInv ==
  ASSUME ShellInv, ForkLeader
  PROVE  ShellInv'
<1> DEFINE pr == proc[MyShell]
<1>1. /\ MyShell \in Pids /\ pr \in Processes /\ Sound(pr) /\ pr.pc = "fork_leader"
      /\ pr.at = 0 /\ pr.pipe_list = <<>> /\ Alive(MyShell) /\ pr.job.is_background
  BY ShellPid DEF ShellInv, ProcInv, ForkLeader, Sound, IdleCode, Alive, RolesInv
<1>2. ProcsInv' /\ DataInv'
  <2>1. CASE ForkFails(MyShell, "loop")
    <3> DEFINE new == [pr EXCEPT !.pc = "loop"]
    <3>1. /\ new \in Processes /\ new.pc = "loop" /\ new.at = pr.at /\ new.fd = pr.fd
          /\ new.pipe_list = pr.pipe_list /\ new.parent = pr.parent /\ new.job = pr.job
      BY <1>1 DEF Processes, ShellCode
    <3> HIDE DEF new
    <3>2. proc' = [proc EXCEPT ![MyShell] = new]
      BY <2>1 DEF new, ForkFails
    <3>3. proc'[MyShell] = new /\ \A q \in Pids \ {MyShell} : proc'[q] = proc[q]
      BY <1>1, <3>2 DEF ShellInv, ProcInv
    <3>4. Moves(MyShell)
      BY <1>1, <3>1, <3>3 DEF Moves, Alive, Number, StageCode, ShellCode, Programs
    <3>5. InRole(MyShell, new)
      BY <3>1 DEF InRole
    <3>6. pr.pc \in IdleCode
      BY <1>1 DEF IdleCode
    <3>7. UNCHANGED data
      BY DEF ForkLeader
    <3> QED
      BY <1>1, <3>1, <3>2, <3>4, <3>5, <3>6, <3>7, ShellMoves
  <2>2. ASSUME NEW c \in Pids \ {MyShell}, ForkMakes(MyShell, c, "free", "loop")
        PROVE  ProcsInv' /\ DataInv'
    <3> DEFINE a == [pr EXCEPT !.pc = "free", !.child = c]
               b == [pr EXCEPT !.pc = "loop", !.parent = MyShell]
    <3>1. /\ a \in Processes /\ a.pc = "free" /\ a.at = pr.at /\ a.fd = pr.fd
          /\ a.parent = pr.parent /\ a.job = pr.job
          /\ b \in Processes /\ b.pc = "loop" /\ b.at = pr.at /\ b.fd = pr.fd
          /\ b.pipe_list = pr.pipe_list /\ b.parent = MyShell /\ b.job = pr.job
      BY <1>1 DEF Processes, ShellCode
    <3>2. proc' = [proc EXCEPT ![MyShell] = a, ![c] = b]
      BY <2>2 DEF ForkMakes
    <3> HIDE DEF a, b
    <3>3. /\ proc'[MyShell] = a /\ proc'[c] = b
          /\ \A q \in Pids \ {MyShell, c} : proc'[q] = proc[q]
      BY <1>1, <3>2 DEF ShellInv, ProcInv
    <3>4. Standard(pr) /\ \A n \in FdNumbers : pr.fd[n][1] # "write"
      BY <1>1, NoWrites DEF Sound, ShellCode, IdleCode
    <3>5. Sound(a)
      BY <1>1, <3>1, <3>4, IdleSound
    <3>6. Sound(b)
      BY <1>1, <3>1, <3>4, IdleSound
    <3>7. InRole(MyShell, a) /\ InRole(c, b)
      BY <1>1, <3>1 DEF InRole, IdleCode
    <3>8. Forked(MyShell, c)
      <4>1. /\ proc'[MyShell].job = pr.job /\ proc'[MyShell].at = pr.at
            /\ proc'[MyShell].fd = pr.fd /\ proc'[MyShell].parent = pr.parent
            /\ proc'[MyShell].pc = "free"
            /\ proc'[c].job = pr.job /\ proc'[c].at = pr.at
            /\ proc'[c].fd = pr.fd /\ proc'[c].parent = MyShell
            /\ proc'[c].pc = "loop"
        BY <3>1, <3>3
      <4>2. proc[c].pc = "none"
        BY <2>2 DEF ForkMakes
      <4> QED
        BY <1>1, <3>3, <4>1, <4>2 DEF Forked
    <3>9. ProcsInv'
      BY <1>1, <3>1, <3>2, <3>5, <3>6, <3>7, <3>8, ForkKeeps DEF ShellInv, ProcsInv
    <3>10. DataInv'
      <4>1. proc'[MyShell].pc \notin Unstarted /\ proc'[c].pc \notin Unstarted
        BY <3>1, <3>3 DEF Unstarted
      <4>2. UNCHANGED data
        BY DEF ForkLeader
      <4> QED
        BY <1>1, <3>8, <4>1, <4>2, ForkData DEF ShellInv
    <3> QED
      BY <3>9, <3>10
  <2>3. Fork(MyShell, "free", "loop") /\ ProcInv
    BY DEF ForkLeader, ShellInv
  <2>4. \/ ForkFails(MyShell, "loop")
        \/ \E c \in Pids \ {MyShell} : ForkMakes(MyShell, c, "free", "loop")
    BY <1>1, <2>3, ForkCases
  <2> QED
    BY <2>1, <2>2, <2>4, Zenon
<1>3. LinesInv'
  BY LinesKept DEF ShellInv, ForkLeader
<1> QED
  BY <1>2, <1>3 DEF ShellInv, ProcsInv

\* A stage is forked, or who should have forked it becomes it.
LEMMA ForkStageInv ==
  ASSUME ShellInv, NEW p \in Pids, ForkStage(p)
  PROVE  ShellInv'
<1> DEFINE pr == proc[p]
<1>1. /\ pr \in Processes /\ Sound(pr) /\ Alive(p)
      /\ pr.pc = "fork" \/ (pr.pc = "loop" /\ IsLast(pr))
      /\ pr.pc \in {"fork", "loop"}
      /\ p # MyShell => pr.job.is_background
  BY DEF ShellInv, ProcInv, ForkStage, Alive, RolesInv, RunCode
<1>2. pr.pc \in Unstarted \/ \A n \in FdNumbers : pr.fd[n][1] # "write"
  BY <1>1, NoWrites DEF Unstarted
<1>3. ProcsInv' /\ DataInv'
  <2>1. CASE ForkFails(p, "redirect")
    <3> DEFINE new == [pr EXCEPT !.pc = "redirect"]
    <3>1. /\ new \in Processes /\ new.pc = "redirect" /\ new.at = pr.at /\ new.fd = pr.fd
          /\ new.pipe_list = pr.pipe_list /\ new.parent = pr.parent /\ new.job = pr.job
      BY <1>1 DEF Processes
    <3> HIDE DEF new
    <3>2. proc' = [proc EXCEPT ![p] = new]
      BY <2>1 DEF new, ForkFails
    <3>3. proc'[p] = new /\ \A q \in Pids \ {p} : proc'[q] = proc[q]
      BY <3>2 DEF ShellInv, ProcInv
    <3>4. Sound(new)
      BY <1>1, <3>1, ForkSound
    <3>5. Moves(p)
      BY <1>1, <3>1, <3>3 DEF Moves, Alive, Number, StageCode, ShellCode, Programs
    <3>6. ReadsFrom(p) /\ InRole(p, new)
      BY <3>1, <3>3 DEF ReadsFrom, InRole, IdleCode, RunCode
    <3>7. ProcsInv'
      BY <3>1, <3>2, <3>4, <3>5, <3>6, MoveKeeps DEF ShellInv, ProcsInv
    <3>8. EndsFrom /\ EndsStay /\ FreshFrom
      BY <1>2, <3>1, <3>3, OneTable
    <3> QED
      BY <3>7, <3>8, DataUnchanged DEF ShellInv, ForkStage
  <2>2. ASSUME NEW c \in Pids \ {p}, ForkMakes(p, c, "wait", "redirect")
        PROVE  ProcsInv' /\ DataInv'
    <3> DEFINE a == [pr EXCEPT !.pc = "wait", !.child = c]
               b == [pr EXCEPT !.pc = "redirect", !.parent = p]
    <3>1. /\ a \in Processes /\ a.pc = "wait" /\ a.at = pr.at /\ a.fd = pr.fd
          /\ a.parent = pr.parent /\ a.job = pr.job /\ a.child = c
          /\ a.pipe_list = pr.pipe_list
          /\ b \in Processes /\ b.pc = "redirect" /\ b.at = pr.at /\ b.fd = pr.fd
          /\ b.pipe_list = pr.pipe_list /\ b.parent = p /\ b.job = pr.job
      BY <1>1 DEF Processes, ShellCode
    <3>2. proc' = [proc EXCEPT ![p] = a, ![c] = b]
      BY <2>2 DEF ForkMakes
    <3> HIDE DEF a, b
    <3>3. /\ proc'[p] = a /\ proc'[c] = b
          /\ \A q \in Pids \ {p, c} : proc'[q] = proc[q]
      BY <3>2 DEF ShellInv, ProcInv
    <3>4. Sound(a)
      BY <1>1, <3>1, ForkSound
    <3>5. Sound(b)
      BY <1>1, <3>1, ForkSound
    <3>6. InRole(p, a) /\ InRole(c, b)
      BY <1>1, <3>1 DEF InRole, IdleCode, RunCode
    <3>7. Forked(p, c)
      <4>1. /\ proc'[p].job = proc[p].job /\ proc'[p].at = proc[p].at
            /\ proc'[p].fd = proc[p].fd /\ proc'[p].parent = proc[p].parent
            /\ proc'[p].pc = "wait" /\ proc'[p].child = c
            /\ proc'[c].job = proc[p].job /\ proc'[c].at = proc[p].at
            /\ proc'[c].fd = proc[p].fd /\ proc'[c].parent = p
            /\ proc'[c].pc = "redirect"
        BY <3>1, <3>3
      <4> HIDE DEF pr
      <4> QED
        BY <1>1, <2>2, <3>3, <4>1 DEF Forked, ForkMakes, pr
    <3>8. ProcsInv'
      BY <3>1, <3>2, <3>4, <3>5, <3>6, <3>7, ForkKeeps DEF ShellInv, ProcsInv
    <3>9. DataInv'
      <4>1. proc'[p].pc \notin Unstarted
        BY <3>1, <3>3 DEF Unstarted
      <4>2. UNCHANGED data
        BY DEF ForkStage
      <4> QED
        BY <1>2, <3>7, <4>1, <4>2, ForkData DEF ShellInv
    <3> QED
      BY <3>8, <3>9
  <2>3. Fork(p, "wait", "redirect") /\ ProcInv
    BY DEF ForkStage, ShellInv
  <2>4. \/ ForkFails(p, "redirect")
        \/ \E c \in Pids \ {p} : ForkMakes(p, c, "wait", "redirect")
    BY <1>1, <2>3, ForkCases
  <2> QED
    BY <2>1, <2>2, <2>4, Zenon
<1>4. LinesInv'
  BY LinesKept DEF ShellInv, ForkStage
<1> QED
  BY <1>3, <1>4 DEF ShellInv, ProcsInv

\* The shell ends at the end of its input, or when it frees what was never set.
LEMMA ShellEndsInv ==
  ASSUME ShellInv, EndOfInput \/ FreeUnset
  PROVE  ShellInv'
<1>1. MyShell \in Pids /\ Alive(MyShell) /\ Exit(MyShell)
  BY ShellPid DEF EndOfInput, FreeUnset, Alive
<1>2. ProcsInv' /\ DataInv'
  BY <1>1, ExitInv DEF ShellInv, ProcsInv
<1>3. LinesInv'
  BY LinesKept DEF ShellInv, EndOfInput, FreeUnset
<1> QED
  BY <1>2, <1>3 DEF ShellInv, ProcsInv

\* A process of a pipeline ends.
LEMMA ProcessEndsInv ==
  ASSUME ShellInv, NEW p \in Pids,
         PipeFails(p) \/ OpenFails(p) \/ BrokenPipe(p) \/ Finish(p)
  PROVE  ShellInv'
<1>1. Alive(p) /\ Exit(p)
  BY DEF PipeFails, OpenFails, BrokenPipe, Finish, Alive
<1>2. ProcsInv' /\ DataInv'
  BY <1>1, ExitInv DEF ShellInv, ProcsInv
<1>3. LinesInv'
  BY LinesKept DEF ShellInv, PipeFails, OpenFails, BrokenPipe, Finish
<1> QED
  BY <1>2, <1>3 DEF ShellInv, ProcsInv

\* A program starts to write or to read, or execvp has made one.
LEMMA StartInv ==
  ASSUME ShellInv, NEW p \in Pids,
         Exec(p) \/ StartWrite(p) \/ StartRead(p) \/ ReadNothing(p) \/ ReadTerminal(p)
  PROVE  ShellInv'
<1>1. PICK pc \in Programs : proc' = [proc EXCEPT ![p].pc = pc] /\ (pc = "writing" => StartWrite(p))
  BY DEF Exec, StartWrite, StartRead, ReadNothing, ReadTerminal, Programs
<1>2. /\ proc[p].pc \in Programs \cup {"exec"} /\ UNCHANGED data
      /\ StartWrite(p) => HasPipe(p, STDOUT, "write")
  BY DEF Exec, StartWrite, StartRead, ReadNothing, ReadTerminal, Programs
<1>3. ProcsInv'
  <2>1. ProcInv /\ RolesInv /\ TogetherInv
    BY DEF ShellInv
  <2> QED
    BY <1>1, <1>2, <2>1, ProgramKeeps DEF ProcsInv
<1>4. proc[p] \in Processes
  BY DEF ShellInv, ProcInv
<1>5. /\ proc'[p].fd = proc[p].fd /\ proc'[p].pc = pc
      /\ \A q \in Pids \ {p} : proc'[q] = proc[q]
  BY <1>1, <1>4 DEF ShellInv, ProcInv, Processes
<1>6. EndsFrom /\ EndsStay /\ FreshFrom
  <2>1. proc'[p].pc \notin Unstarted
    BY <1>5 DEF Unstarted, Programs
  <2> QED
    BY <1>5, <2>1, OneTable
<1>7. DataInv'
  BY <1>2, <1>6, DataUnchanged DEF ShellInv
<1>8. LinesInv'
  BY LinesKept DEF ShellInv, Exec, StartWrite, StartRead, ReadNothing, ReadTerminal
<1> QED
  BY <1>3, <1>7, <1>8 DEF ShellInv, ProcsInv

\* The write end a program writes to is of the pipe to the stage after it.  Nobody
\* who has not started has it too.
LEMMA WriteEndOwn ==
  ASSUME ShellInv, NEW p \in Pids, NEW n \in FdNumbers, HasPipe(p, n, "write"),
         NEW q \in Pids \ {p}, NEW m \in FdNumbers, HasPipe(q, m, "write"),
         PipeOf(proc[p].fd[n]) = PipeOf(proc[q].fd[m])
  PROVE  WaitsFor(p, q) \/ WaitsFor(q, p)
<1>1. /\ proc[p].fd[n] = WriteEnd(Number(p), proc[p].at + 1)
      /\ proc[p].pc \in {"fork", "wait"} \cup StageCode
      /\ proc[q].fd[m] = WriteEnd(Number(q), proc[q].at + 1)
      /\ proc[q].pc \in {"fork", "wait"} \cup StageCode
  BY DEF ShellInv, ProcInv, Sound, Writes, HasPipe, Number
<1>2. Number(p) = Number(q)
  BY <1>1 DEF PipeOf, WriteEnd
<1>3. /\ Alive(p) /\ Alive(q)
      /\ proc[p].pc \notin {"free", "prompt"} /\ proc[q].pc \notin {"free", "prompt"}
  BY <1>1 DEF Alive, StageCode, Programs
<1> QED
  BY <1>2, <1>3 DEF ShellInv, TogetherInv, NumberInv

\* What a program writes to is no pipe whose write end somebody who has not started has.
LEMMA NotWritten ==
  ASSUME ShellInv, NEW p \in Pids, proc[p].pc \in Programs,
         NEW q \in Pids \ {p}, proc[q].pc \in Unstarted,
         NEW n \in FdNumbers, HasPipe(q, n, "write")
  PROVE  PipeOf(proc[q].fd[n]) # StdoutPipe(p)
<1>1. STDOUT \in FdNumbers
  BY Descriptors
<1>2. CASE HasPipe(p, STDOUT, "write")
  <2>1. ~WaitsFor(p, q) /\ ~WaitsFor(q, p)
    BY DEF WaitsFor, Programs, Unstarted
  <2> QED
    BY <1>1, <1>2, <2>1, WriteEndOwn DEF StdoutPipe
<1>3. CASE ~HasPipe(p, STDOUT, "write")
  <2>1. Sound(proc[p]) /\ Sound(proc[q]) /\ proc[q] \in Processes
    BY DEF ShellInv, ProcInv
  <2>2. proc[p].fd[STDOUT] \in {OutFile(Number(p)), Closed, Terminal}
    <3>1. WriteEnd(Number(p), proc[p].at + 1)[1] = "write"
      BY Kinds
    <3> QED
      BY <1>3, <2>1, <3>1 DEF Sound, Connected, HasPipe, Number
  <2>3. StdoutPipe(p)[2] = 0
    BY <2>2 DEF StdoutPipe, PipeOf, OutFile, Closed, Terminal
  <2>4. proc[q].fd[n] = WriteEnd(Number(q), proc[q].at + 1) /\ proc[q].at \in Nat
    BY <2>1, ProcessFields DEF Sound, Writes, HasPipe, Number
  <2>5. PipeOf(proc[q].fd[n])[2] = proc[q].at + 1
    BY <2>4 DEF PipeOf, WriteEnd
  <2> QED
    BY <2>3, <2>4, <2>5
<1> QED
  BY <1>2, <1>3

\* A program writes a unit, for which there is room, or reads one.
LEMMA TransferInv ==
  ASSUME ShellInv, NEW p \in Pids, Write(p) \/ ReadPipe(p)
  PROVE  ShellInv'
<1> DEFINE fd == proc[p].fd
<1>1. /\ proc[p] \in Processes /\ Sound(proc[p])
      /\ proc[p].pc \in {"reading", "writing"} /\ proc' = [proc EXCEPT ![p].pc = "program"]
  BY DEF ShellInv, ProcInv, Write, ReadPipe
<1>2. ProcsInv'
  BY <1>1, ProgramKeeps DEF ShellInv, ProcsInv, Programs
<1>3. /\ proc'[p].fd = fd /\ proc'[p].pc = "program"
      /\ \A q \in Pids \ {p} : proc'[q] = proc[q]
  BY <1>1 DEF ShellInv, ProcInv, Processes
<1>4. EndsFrom /\ EndsStay /\ FreshFrom
  <2>1. proc'[p].pc \notin Unstarted
    BY <1>3 DEF Unstarted
  <2> QED
    BY <1>3, <2>1, OneTable
<1>5. Ends(proc', "read") = Ends(proc, "read") /\ Ends(proc', "write") = Ends(proc, "write")
  BY <1>4, EndsCompared
<1>6. Capacity \in Nat
  BY CapacityAssumption
<1>7. LinesInv'
  BY LinesKept DEF ShellInv, Write, ReadPipe
<1>8. {STDIN, STDOUT, STDERR} \subseteq FdNumbers
  BY Descriptors
<1>9. ASSUME NEW q \in Pids, NEW n \in FdNumbers, HasPipe(q, n, "write")',
             proc'[q].pc \in {"fork", "redirect", "exec"}
      PROVE  /\ q # p /\ HasPipe(q, n, "write") /\ proc'[q] = proc[q]
             /\ data[PipeOf(proc[q].fd[n])] = 0
             /\ PipeOf(proc[q].fd[n]) \in DOMAIN data
  <2>1. q # p /\ proc'[q] = proc[q] /\ HasPipe(q, n, "write")
    BY <1>3, <1>9 DEF HasPipe
  <2>2. PipeOf(proc[q].fd[n]) \in DOMAIN data
    BY <2>1, EndsAre DEF HasPipe, ShellInv, DataInv
  <2> QED
    BY <1>9, <2>1, <2>2 DEF ShellInv, DataInv, FreshInv
<1>10. CASE Write(p)
  <2> DEFINE x == StdoutPipe(p)
  <2>1. /\ x \in DOMAIN data /\ data[x] < Capacity /\ data' = [data EXCEPT ![x] = @ + 1]
    BY <1>10 DEF Write, HasRoom, ShellInv, DataInv
  <2>2. DOMAIN data' = DOMAIN data /\ \A y \in DOMAIN data : data'[y] \in 0 .. Capacity
    <3>1. data[x] \in 0 .. Capacity
      BY <2>1 DEF ShellInv, DataInv
    <3> HIDE DEF x
    <3> QED
      BY <1>6, <2>1, <3>1 DEF ShellInv, DataInv
  <2>3. FreshInv'
    <3> SUFFICES ASSUME NEW q \in Pids, NEW n \in FdNumbers, HasPipe(q, n, "write")',
                        proc'[q].pc \in {"fork", "redirect", "exec"}
                 PROVE  data'[PipeOf(proc'[q].fd[n])] = 0
      BY DEF FreshInv
    <3>1. /\ q # p /\ HasPipe(q, n, "write") /\ proc'[q] = proc[q]
          /\ data[PipeOf(proc[q].fd[n])] = 0
          /\ PipeOf(proc[q].fd[n]) \in DOMAIN data
      BY <1>9
    <3>2. PipeOf(proc[q].fd[n]) # x
      BY <1>10, <3>1, NotWritten DEF Write, Programs, Unstarted
    <3> HIDE DEF x
    <3> QED
      BY <2>1, <3>1, <3>2
  <2> QED
    BY <1>2, <1>5, <1>7, <2>2, <2>3 DEF ShellInv, ProcsInv, DataInv
<1>11. CASE ReadPipe(p)
  <2> DEFINE x == StdinPipe(p)
  <2>1. /\ x \in DOMAIN data /\ data[x] > 0 /\ data' = [data EXCEPT ![x] = @ - 1]
    <3>1. x \in Ends(proc, "read")
      BY <1>8, <1>11, EndsAre DEF ReadPipe, HasPipe, StdinPipe
    <3> QED
      BY <1>11, <3>1 DEF ReadPipe, ShellInv, DataInv
  <2>2. DOMAIN data' = DOMAIN data /\ \A y \in DOMAIN data : data'[y] \in 0 .. Capacity
    <3>1. data[x] \in 0 .. Capacity
      BY <2>1 DEF ShellInv, DataInv
    <3> HIDE DEF x
    <3> QED
      BY <1>6, <2>1, <3>1 DEF ShellInv, DataInv
  <2>3. FreshInv'
    <3> SUFFICES ASSUME NEW q \in Pids, NEW n \in FdNumbers, HasPipe(q, n, "write")',
                        proc'[q].pc \in {"fork", "redirect", "exec"}
                 PROVE  data'[PipeOf(proc'[q].fd[n])] = 0
      BY DEF FreshInv
    <3>1. /\ q # p /\ HasPipe(q, n, "write") /\ proc'[q] = proc[q]
          /\ data[PipeOf(proc[q].fd[n])] = 0
          /\ PipeOf(proc[q].fd[n]) \in DOMAIN data
      BY <1>9
    <3>2. PipeOf(proc[q].fd[n]) # x
      BY <2>1, <3>1
    <3> HIDE DEF x
    <3> QED
      BY <2>1, <3>1, <3>2
  <2> QED
    BY <1>2, <1>5, <1>7, <2>2, <2>3 DEF ShellInv, ProcsInv, DataInv
<1> QED
  BY <1>10, <1>11

\* execvp fails, and what perror writes fits into the pipe, which is empty.
LEMMA ExecFailsInv ==
  ASSUME ShellInv, NEW p \in Pids, ExecFails(p)
  PROVE  ShellInv'
<1> DEFINE x     == PipeOf(proc[p].fd[STDERR])
           heard == HasPipe(p, STDERR, "write") /\ x \in Ends(proc, "read")
           d     == IF heard THEN [data EXCEPT ![x] = @ + 1] ELSE data
<1>1. /\ proc[p] \in Processes /\ Sound(proc[p]) /\ proc[p].pc = "exec" /\ Alive(p)
      /\ proc' = Exited(proc, p) /\ data' = Kept(proc', d)
      /\ {STDIN, STDOUT, STDERR} \subseteq FdNumbers
  BY Descriptors DEF ShellInv, ProcInv, ExecFails, Alive
<1>2. Ended(p) /\ ProcsInv'
  BY <1>1, ExitKeeps DEF ShellInv, ProcsInv
<1>3. EndsFrom
  BY <1>2, EndedEnds
<1>4. /\ DOMAIN d = DOMAIN data /\ \A y \in DOMAIN data : d[y] \in 0 .. Capacity
      /\ \A y \in DOMAIN data : ~(heard /\ y = x) => d[y] = data[y]
  <2>1. Capacity \in Nat /\ Capacity > 0
    BY CapacityAssumption
  <2>2. heard => data[x] = 0
    BY <1>1 DEF ShellInv, DataInv, FreshInv
  <2> HIDE DEF x, heard
  <2> QED
    BY <2>1, <2>2 DEF ShellInv, DataInv
<1> DEFINE ends == Ends(proc', "read") \cup Ends(proc', "write")
<1>5. DOMAIN data' = ends /\ ends \subseteq DOMAIN data /\ \A y \in ends : data'[y] = d[y]
  <2>1. ends \subseteq DOMAIN data
    BY <1>3, EndsCompared DEF ShellInv, DataInv
  <2> HIDE DEF d
  <2> QED
    BY <1>1, <1>4, <2>1 DEF Kept
<1>6. FreshInv'
  <2> SUFFICES ASSUME NEW q \in Pids, NEW n \in FdNumbers, HasPipe(q, n, "write")',
                      proc'[q].pc \in {"fork", "redirect", "exec"}
               PROVE  data'[PipeOf(proc'[q].fd[n])] = 0
    BY DEF FreshInv
  <2>1. /\ q # p /\ proc'[q].pc = proc[q].pc /\ proc'[q].fd = proc[q].fd
    BY <1>2 DEF Ended, Alive
  <2>2. HasPipe(q, n, "write") /\ proc[q].pc \in Unstarted
    BY <2>1 DEF HasPipe, Unstarted
  <2> DEFINE y == PipeOf(proc[q].fd[n])
  <2>3. data[y] = 0
    BY <2>2 DEF ShellInv, DataInv, FreshInv, Unstarted
  <2>4. y \in ends /\ PipeOf(proc'[q].fd[n]) = y
    BY <2>1, EndsAre DEF HasPipe
  <2>5. ~(heard /\ y = x)
    <3> SUFFICES ASSUME heard, y = x PROVE FALSE
      OBVIOUS
    <3>1. WaitsFor(p, q) \/ WaitsFor(q, p)
      <4>1. STDERR \in FdNumbers
        BY <1>1
      <4> QED
        BY <2>1, <2>2, <4>1, WriteEndOwn
    <3> QED
      BY <1>1, <2>2, <3>1 DEF WaitsFor, Unstarted
  <2> HIDE DEF d, x, heard, y, ends
  <2> QED
    BY <1>4, <1>5, <2>3, <2>4, <2>5
<1>7. LinesInv'
  BY LinesKept DEF ShellInv, ExecFails
<1>8. DataInv'
  BY <1>4, <1>5, <1>6 DEF DataInv
<1> QED
  BY <1>2, <1>7, <1>8 DEF ShellInv, ProcsInv

\* The shell or a leader makes the pipe to the next stage, and finds it empty.
LEMMA MakePipeInv ==
  ASSUME ShellInv, NEW p \in Pids, MakePipe(p)
  PROVE  ShellInv'
<1> DEFINE pr == proc[p]
           j  == pr.job.number
           k  == pr.at + 1
           r  == Min(Unused(pr.fd))
           w  == Min(Unused(pr.fd) \ {r})
           new == WithPipe(pr, r, w)
<1>1. /\ pr \in Processes /\ Sound(pr) /\ pr.pc = "loop" /\ ~IsLast(pr) /\ Alive(p)
      /\ Cardinality(Unused(pr.fd)) >= 2
      /\ p # MyShell => pr.job.is_background
  BY DEF ShellInv, ProcInv, MakePipe, Alive, RolesInv, RunCode
<1>2. Unused(pr.fd) \in SUBSET FdNumbers /\ FdNumbers \in SUBSET Nat
  BY Descriptors DEF Unused
<1>3. r \in Unused(pr.fd) /\ \A n \in Unused(pr.fd) : r <= n
  <2>1. Unused(pr.fd) # {}
    BY <1>1, FS_EmptySet
  <2> QED
    BY <1>2, <2>1, LowestUnused
<1>4. w \in Unused(pr.fd) \ {r} /\ \A n \in Unused(pr.fd) \ {r} : w <= n
  <2>1. Unused(pr.fd) \ {r} # {}
    <3> SUFFICES ASSUME Unused(pr.fd) = {r} PROVE FALSE
      BY <1>3
    <3>1. Cardinality({r}) = 1
      BY FS_Singleton
    <3> QED
      BY <1>1, <3>1
  <2>2. Unused(pr.fd) \ {r} \in SUBSET FdNumbers
    BY <1>2
  <2> QED
    BY <2>1, <2>2, LowestUnused
<1>5. /\ proc' = [proc EXCEPT ![p].pc = "fork", ![p].fd[r] = ReadEnd(j, k),
                              ![p].fd[w] = WriteEnd(j, k),
                              ![p].pipe_list = Append(@, <<r, w>>)]
      /\ data' = [q \in DOMAIN data \cup {<<j, k>>} |->
                    IF q = <<j, k>> THEN 0 ELSE data[q]]
      /\ UNCHANGED <<input, line>>
  BY DEF MakePipe
<1>6. proc' = [proc EXCEPT ![p] = new]
  BY <1>5 DEF WithPipe, ShellInv, ProcInv
<1> HIDE DEF r, w
<1>7. /\ r \in FdNumbers /\ w \in FdNumbers /\ r < w
      /\ pr.fd[r] = Closed /\ pr.fd[w] = Closed
      /\ \A n \in FdNumbers : n < w /\ n # r => pr.fd[n] # Closed
  BY <1>2, <1>3, <1>4 DEF Unused
<1>8. new \in Processes /\ Sound(new)
  BY <1>1, <1>7, PipeSound
<1>9. /\ pr.fd \in Tables /\ j \in Nat /\ pr.at \in Nat
  BY <1>1, ProcessFields
<1>10. /\ new.pc = "fork" /\ new.job = pr.job /\ new.parent = pr.parent
       /\ new.fd = [pr.fd EXCEPT ![r] = ReadEnd(j, k), ![w] = WriteEnd(j, k)]
  BY <1>1 DEF WithPipe, Processes
<1>11. /\ new.fd[r] = ReadEnd(j, k) /\ new.fd[w] = WriteEnd(j, k)
       /\ \A n \in FdNumbers \ {r, w} : new.fd[n] = pr.fd[n]
  <2> HIDE DEF new, j, k
  <2> QED
    BY <1>2, <1>7, <1>9, <1>10 DEF Tables
<1> HIDE DEF new
<1>12. proc'[p] = new /\ \A q \in Pids \ {p} : proc'[q] = proc[q]
  BY <1>6 DEF ShellInv, ProcInv
<1>13. ProcsInv'
  <2>1. Moves(p)
    BY <1>1, <1>10, <1>12 DEF Moves, Alive, Number, StageCode, ShellCode, Programs
  <2>2. ReadsFrom(p)
    <3> SUFFICES ASSUME NEW n \in FdNumbers, HasPipe(p, n, "read")'
                 PROVE  \/ \E m \in FdNumbers : proc[p].fd[m] = proc'[p].fd[n]
                        \/ proc'[p].pc = "fork" /\ proc'[p].fd[n][2] = Number(p)'
      BY DEF ReadsFrom
    <3>1. n # w
      BY <1>11, <1>12, Kinds DEF HasPipe
    <3>2. CASE n = r
      <4>1. proc'[p].fd[n] = ReadEnd(j, k) /\ ReadEnd(j, k)[2] = j
        BY <1>11, <1>12, <3>2, Kinds
      <4>2. proc'[p].pc = "fork" /\ Number(p)' = j
        BY <1>10, <1>12 DEF Number
      <4> QED
        BY <4>1, <4>2
    <3>3. CASE n # r
      BY <1>11, <1>12, <3>1, <3>3
    <3> QED
      BY <3>2, <3>3
  <2>3. InRole(p, new)
    BY <1>1, <1>10 DEF InRole, IdleCode, RunCode
  <2> QED
    BY <1>6, <1>8, <2>1, <2>2, <2>3, MoveKeeps DEF ShellInv, ProcsInv
<1>14. \A n \in FdNumbers : pr.fd[n][1] # "write"
  BY <1>1, NoWrites
<1> DEFINE old == Ends(proc, "read") \cup Ends(proc, "write")
           ends == Ends(proc', "read") \cup Ends(proc', "write")
           x == <<j, k>>
<1>15. ends = old \cup {x}
  <2>1. ASSUME NEW y \in ends PROVE y \in old \cup {x}
    <3>1. PICK q \in Pids : \E n \in FdNumbers :
            proc'[q].fd[n][1] \in {"read", "write"} /\ y = PipeOf(proc'[q].fd[n])
      BY <2>1, EndsAre
    <3>2. PICK n \in FdNumbers :
            proc'[q].fd[n][1] \in {"read", "write"} /\ y = PipeOf(proc'[q].fd[n])
      BY <3>1
    <3>3. CASE q = p /\ n \in {r, w}
      BY <1>11, <1>12, <3>2, <3>3, Kinds
    <3>4. CASE ~(q = p /\ n \in {r, w})
      <4>1. proc'[q].fd[n] = proc[q].fd[n]
        BY <1>11, <1>12, <3>4
      <4> QED
        BY <3>2, <4>1, EndsAre
    <3> QED
      BY <3>3, <3>4
  <2>2. ASSUME NEW y \in old PROVE y \in ends
    <3>1. PICK q \in Pids : \E n \in FdNumbers :
            proc[q].fd[n][1] \in {"read", "write"} /\ y = PipeOf(proc[q].fd[n])
      BY <2>2, EndsAre
    <3>2. PICK n \in FdNumbers :
            proc[q].fd[n][1] \in {"read", "write"} /\ y = PipeOf(proc[q].fd[n])
      BY <3>1
    <3>3. ~(q = p /\ n \in {r, w})
      BY <1>7, <3>2, Kinds
    <3>4. proc'[q].fd[n] = proc[q].fd[n]
      BY <1>11, <1>12, <3>3
    <3> QED
      BY <3>2, <3>4, EndsAre
  <2>3. x \in ends
    <3>1. proc'[p].fd[r][1] = "read" /\ x = PipeOf(proc'[p].fd[r])
      BY <1>11, <1>12, Kinds
    <3>2. x \in Ends(proc', "read")
      BY <1>7, <3>1, EndsAre
    <3> QED
      BY <3>2
  <2> QED
    BY <2>1, <2>2, <2>3
<1>16. FreshInv'
  <2> SUFFICES ASSUME NEW q \in Pids, NEW n \in FdNumbers, HasPipe(q, n, "write")',
                      proc'[q].pc \in {"fork", "redirect", "exec"}
               PROVE  data'[PipeOf(proc'[q].fd[n])] = 0
    BY DEF FreshInv
  <2>1. CASE q = p
    <3>1. n = w
      BY <1>11, <1>12, <1>14, <2>1, Kinds DEF HasPipe
    <3>2. PipeOf(proc'[q].fd[n]) = x
      BY <1>11, <1>12, <2>1, <3>1, Kinds
    <3> QED
      BY <1>5, <3>2
  <2>2. CASE q # p
    <3> DEFINE y == PipeOf(proc[q].fd[n])
    <3>1. proc'[q] = proc[q] /\ HasPipe(q, n, "write")
      BY <1>12, <2>2 DEF HasPipe
    <3>2. data[y] = 0 /\ y \in DOMAIN data
      BY <3>1, EndsAre DEF ShellInv, DataInv, FreshInv, HasPipe
    <3> HIDE DEF y
    <3>3. data'[y] = 0
      BY <1>5, <3>2
    <3> QED
      BY <3>1, <3>3 DEF y
  <2> QED
    BY <2>1, <2>2
<1>17. DataInv'
  <2>1. DOMAIN data' = ends
    BY <1>5, <1>15 DEF ShellInv, DataInv
  <2>2. \A y \in DOMAIN data' : data'[y] \in 0 .. Capacity
    <3> HIDE DEF j, k
    <3> QED
      BY <1>5, CapacityAssumption DEF ShellInv, DataInv
  <2> QED
    BY <1>16, <2>1, <2>2 DEF DataInv
<1>18. LinesInv'
  BY <1>5, LinesKept DEF ShellInv
<1> QED
  BY <1>13, <1>17, <1>18 DEF ShellInv, ProcsInv

\* A stage has its input and outputs where they should be.
LEMMA RedirectInv ==
  ASSUME ShellInv, NEW p \in Pids, Redirect(p)
  PROVE  ShellInv'
<1> DEFINE pr == proc[p]
<1>1. /\ pr \in Processes /\ Sound(pr) /\ pr.pc = "redirect"
      /\ UNCHANGED <<input, line>> /\ data' = Kept(proc', data)
  BY DEF ShellInv, ProcInv, Redirect
<1>2. PICK in \in Inputs(pr) : \E out \in Outputs(pr, in) :
        proc' = [proc EXCEPT ![p].pc = "exec", ![p].fd = out]
  BY DEF Redirect
<1>3. PICK out \in Outputs(pr, in) : proc' = [proc EXCEPT ![p].pc = "exec", ![p].fd = out]
  BY <1>2
<1> DEFINE new == [pr EXCEPT !.pc = "exec", !.fd = out]
<1>4. proc' = [proc EXCEPT ![p] = new]
  BY <1>3 DEF ShellInv, ProcInv
<1>5. out \in Tables /\ FromTable(out, pr.fd)
  BY <1>1, OutputRedirected
<1>6. /\ new \in Processes /\ new.pc = "exec" /\ new.fd = out /\ new.job = pr.job
      /\ new.at = pr.at /\ new.parent = pr.parent
  BY <1>1, <1>5 DEF Processes, Tables
<1> HIDE DEF new
<1>7. proc'[p] = new /\ \A q \in Pids \ {p} : proc'[q] = proc[q]
  BY <1>4 DEF ShellInv, ProcInv
<1>8. Sound(new)
  BY <1>1, <1>6, RedirectSound
<1>9. \A n \in FdNumbers : proc'[p].fd[n][1] \in {"read", "write"} =>
        \E m \in FdNumbers : proc[p].fd[m] = proc'[p].fd[n]
  BY <1>5, <1>6, <1>7 DEF FromTable
<1>10. ProcsInv'
  <2>1. Moves(p)
    BY <1>1, <1>6, <1>7 DEF Moves, Alive, Number, StageCode, ShellCode, Programs
  <2>2. ReadsFrom(p)
    BY <1>9 DEF ReadsFrom, HasPipe
  <2>3. InRole(p, new)
    BY <1>6 DEF InRole, IdleCode, RunCode
  <2> QED
    BY <1>4, <1>6, <1>8, <2>1, <2>2, <2>3, MoveKeeps DEF ShellInv, ProcsInv
<1>11. EndsFrom
  BY <1>7, <1>9 DEF EndsFrom
<1>12. FreshFrom
  BY <1>1, <1>7, <1>9 DEF FreshFrom, HasPipe, Unstarted
<1>13. DataInv'
  BY <1>1, <1>11, <1>12, DataKept DEF ShellInv
<1>14. LinesInv'
  BY <1>1, LinesKept DEF ShellInv
<1> QED
  BY <1>10, <1>13, <1>14 DEF ShellInv, ProcsInv

\* Who has waited, and is new now, is sound and in its role; the child is gone.
LEMMA ReapKeeps ==
  ASSUME ProcsInv, NEW p \in Pids, NEW c \in Pids \ {p}, NEW new \in Processes,
         Sound(new), InRole(p, new), proc' = [proc EXCEPT ![c] = NoProcess, ![p] = new],
         Reaps(p, c)
  PROVE  ProcsInv' /\ EndsFrom /\ FreshFrom
<1>1. NoProcess \in Processes /\ Sound(NoProcess) /\ NoProcess.pc = "none"
  <2>1. NoProcess.pc = "none"
    BY DEF NoProcess
  <2> QED
    BY <2>1, GoneSound
<1>2. /\ proc' \in [Pids -> Processes] /\ proc'[p] = new /\ proc'[c] = NoProcess
      /\ \A q \in Pids \ {p, c} : proc'[q] = proc[q]
  BY <1>1 DEF ProcInv, ProcsInv
<1>3. ProcInv'
  BY <1>1, <1>2 DEF ProcInv, ProcsInv
<1>4. RolesInv'
  <2>1. c # MyShell => InRole(c, NoProcess)
    BY <1>1 DEF InRole, IdleCode, RunCode
  <2> QED
    BY <1>1, <1>2, <2>1, ShellPid DEF RolesInv, InRole, ProcsInv
<1>5. TogetherInv'
  BY <1>2, ReapTogether DEF ProcsInv
<1>6. \A q \in Pids : \A n \in FdNumbers :
        proc'[q].fd[n] # Closed => q # c /\ proc'[q].fd[n] = proc[q].fd[n]
  BY <1>2 DEF Reaps
<1>7. EndsFrom
  BY <1>6, Kinds DEF EndsFrom
<1>8. \A q \in Pids : proc'[q].pc \in Unstarted => q \notin {p, c}
  BY DEF Reaps, Unstarted
<1>9. FreshFrom
  BY <1>2, <1>8 DEF FreshFrom, HasPipe
<1> QED
  BY <1>3, <1>4, <1>5, <1>7, <1>9 DEF ProcsInv

\* The child that has ended is another process, whose parent waits for it.
LEMMA ChildIs ==
  ASSUME ShellInv, NEW p \in Pids, ChildEnded(p)
  PROVE  LET c == proc[p].child
         IN  /\ c \in Pids \ {p} /\ WaitsFor(p, c) /\ proc[c].pc = "zombie"
             /\ proc[c].parent = p
             /\ Reaped(proc, p) = [proc EXCEPT ![c] = NoProcess,
                                               ![p] = [proc[p] EXCEPT !.child = NoPid]]
<1> DEFINE c == proc[p].child
<1>1. proc[p] \in Processes /\ c \in Pids \cup {NoPid} /\ WaitsFor(p, c)
  <2>1. proc[p] \in Processes
    BY DEF ShellInv, ProcInv
  <2> QED
    BY <2>1, ProcessFields DEF WaitsFor, ChildEnded
<1>2. c \in Pids \ {p} /\ proc[c].pc = "zombie" /\ proc[c].parent = p
  BY <1>1 DEF ShellInv, TogetherInv, WaitInv, ChildEnded
<1>3. Reaped(proc, p) = [proc EXCEPT ![c] = NoProcess,
                                     ![p] = [proc[p] EXCEPT !.child = NoPid]]
  <2>1. Reaped(proc, p) = [proc EXCEPT ![c] = NoProcess, ![p].child = NoPid]
    BY <1>2 DEF Reaped
  <2> HIDE DEF c
  <2> QED
    BY <1>2, <2>1 DEF ShellInv, ProcInv
<1> QED
  BY <1>1, <1>2, <1>3

\* The shell or a leader goes on to the next stage, or the shell to the end.
LEMMA WaitInvKept ==
  ASSUME ShellInv, NEW p \in Pids, WaitStage(p) \/ WaitLast(p)
  PROVE  ShellInv'
<1> DEFINE pr == proc[p]
           c == pr.child
           one == [pr EXCEPT !.child = NoPid]
<1>1. ChildEnded(p) /\ UNCHANGED <<input, line>>
  BY DEF WaitStage, WaitLast
<1>2. /\ c \in Pids \ {p} /\ WaitsFor(p, c) /\ proc[c].pc = "zombie"
      /\ Reaped(proc, p) = [proc EXCEPT ![c] = NoProcess, ![p] = one]
  BY <1>1, ChildIs
<1>3. /\ pr \in Processes /\ Sound(pr) /\ pr.pc = "wait" /\ pr.fd \in Tables
      /\ p # MyShell => pr.job.is_background
  BY <1>2, ProcessFields DEF ShellInv, ProcInv, RolesInv, RunCode, WaitsFor
<1>4. /\ NoProcess.pc = "none" /\ \A n \in FdNumbers : NoProcess.fd[n] = Closed
  BY DEF NoProcess
<1> HIDE DEF c
<1>5. CASE WaitStage(p)
  <2> DEFINE new == [one EXCEPT !.pc = "loop", !.fd = CloseWriteEnd(pr), !.at = @ + 1]
  <2>1. /\ ~IsLast(pr) /\ data' = Kept(proc', data)
        /\ proc' = [Reaped(proc, p) EXCEPT ![p].pc = "loop",
                                           ![p].fd = CloseWriteEnd(pr), ![p].at = @ + 1]
    BY <1>5 DEF WaitStage
  <2>2. CloseWriteEnd(pr) \in Tables
    BY <1>3, CloseTyped DEF CloseWriteEnd
  <2>3. /\ new \in Processes /\ new.pc = "loop" /\ new.job = pr.job /\ new.at = pr.at + 1
        /\ new.fd = CloseWriteEnd(pr) /\ new.pipe_list = pr.pipe_list
    <3> DEFINE fd == CloseWriteEnd(pr)
               at == pr.at + 1
    <3>1. /\ one \in Processes /\ one.job = pr.job /\ one.at = pr.at
          /\ one.pipe_list = pr.pipe_list
      BY <1>3 DEF Processes
    <3>2. at \in Nat /\ fd \in Tables /\ new = [one EXCEPT !.pc = "loop", !.fd = fd, !.at = at]
      BY <1>3, <2>2, <3>1, ProcessFields
    <3> HIDE DEF one, fd, new, at
    <3>3. /\ new \in Processes /\ new.pc = "loop" /\ new.fd = fd
          /\ new.job = one.job /\ new.at = at /\ new.pipe_list = one.pipe_list
      BY <3>1, <3>2 DEF Processes, ShellCode, Tables
    <3> QED
      BY <3>1, <3>3 DEF fd, at
  <2>4. proc' = [proc EXCEPT ![c] = NoProcess, ![p] = new]
    BY <1>2, <2>1 DEF ShellInv, ProcInv
  <2> HIDE DEF new
  <2>5. Sound(new)
    BY <1>3, <2>1, <2>3, NextStageSound
  <2>6. InRole(p, new)
    BY <1>3, <2>3 DEF InRole, IdleCode
  <2>7. /\ proc'[p] = new /\ proc'[c] = NoProcess
        /\ \A q \in Pids \ {p, c} : proc'[q] = proc[q]
    BY <1>2, <2>4 DEF ShellInv, ProcInv
  <2>8. \A n \in FdNumbers : new.fd[n] # Closed => new.fd[n] = pr.fd[n]
    BY <1>3, <2>3 DEF CloseWriteEnd, Close, Tables
  <2>9. Reaps(p, c)
    BY <1>2, <1>4, <2>3, <2>7, <2>8 DEF Reaps
  <2>10. ProcsInv' /\ EndsFrom /\ FreshFrom
    BY <1>2, <2>3, <2>4, <2>5, <2>6, <2>9, ReapKeeps DEF ShellInv, ProcsInv
  <2>11. DataInv'
    BY <2>1, <2>10, DataKept DEF ShellInv
  <2> QED
    BY <1>1, <2>10, <2>11, LinesKept DEF ShellInv, ProcsInv
<1>6. CASE WaitLast(p)
  <2> DEFINE new == [one EXCEPT !.pc = "free"]
  <2>1. /\ IsLast(pr) /\ ~pr.job.is_background /\ UNCHANGED data
        /\ proc' = [Reaped(proc, p) EXCEPT ![p].pc = "free"]
    BY <1>6 DEF WaitLast, Leads
  <2>2. /\ new \in Processes /\ new.pc = "free" /\ new.job = pr.job
        /\ new.fd = pr.fd /\ new.pipe_list = pr.pipe_list
    BY <1>3 DEF Processes, ShellCode
  <2>3. proc' = [proc EXCEPT ![c] = NoProcess, ![p] = new]
    BY <1>2, <2>1 DEF ShellInv, ProcInv
  <2> HIDE DEF new
  <2>4. p = MyShell
    BY <1>3, <2>1
  <2>5. Sound(new)
    <3>1. Standard(pr) /\ \A n \in FdNumbers : pr.fd[n][1] # "write"
      BY <1>3, <2>1, NoWrites DEF Sound, ShellCode
    <3> QED
      BY <1>3, <2>2, <3>1, IdleSound
  <2>6. InRole(p, new)
    BY <2>2, <2>4 DEF InRole
  <2>7. /\ proc'[p] = new /\ proc'[c] = NoProcess
        /\ \A q \in Pids \ {p, c} : proc'[q] = proc[q]
    BY <1>2, <2>3 DEF ShellInv, ProcInv
  <2>8. Reaps(p, c)
    BY <1>2, <1>4, <2>2, <2>4, <2>7 DEF Reaps
  <2>9. ProcsInv' /\ EndsFrom /\ FreshFrom
    BY <1>2, <2>2, <2>3, <2>5, <2>6, <2>8, ReapKeeps DEF ShellInv, ProcsInv
  <2>10. EndsStay
    <3>1. \A n \in FdNumbers : proc[c].fd[n] = Closed
      BY <1>2 DEF ShellInv, ProcInv, Sound
    <3> QED
      BY <2>2, <2>7, <3>1, Kinds DEF EndsStay
  <2>11. DataInv'
    BY <2>1, <2>9, <2>10, DataUnchanged DEF ShellInv
  <2> QED
    BY <1>1, <2>9, <2>11, LinesKept DEF ShellInv, ProcsInv
<1> QED
  BY <1>5, <1>6

\* A leader that has waited for its last stage ends, and that does nothing but what
\* any end does.
LEMMA LeaderExits ==
  ASSUME ShellInv, NEW p \in Pids, LeaderEnds(p)
  PROVE  Exit(p)
<1> DEFINE c == proc[p].child
           reaped == Reaped(proc, p)
<1>1. ChildEnded(p) /\ UNCHANGED <<input, line>> /\ Alive(p) /\ proc \in [Pids -> Processes]
  BY DEF LeaderEnds, ChildEnded, Alive, ShellInv, ProcInv
<1>2. /\ c \in Pids \ {p} /\ proc[c].pc = "zombie" /\ proc[c].parent = p
      /\ reaped = [proc EXCEPT ![c] = NoProcess,
                               ![p] = [proc[p] EXCEPT !.child = NoPid]]
  BY <1>1, ChildIs
<1>3. NoProcess.parent = NoPid
  BY DEF NoProcess
<1> HIDE DEF c, reaped
<1>4. /\ reaped[c] = NoProcess /\ reaped[p].parent = proc[p].parent
      /\ reaped[p].job = proc[p].job
      /\ \A q \in Pids \ {p, c} : reaped[q] = proc[q]
  BY <1>1, <1>2 DEF Processes
<1>5. Zombie(reaped[p]) = Zombie(proc[p])
  BY <1>4 DEF Zombie
<1>6. \A q \in Pids : Exited(reaped, p)[q] = Exited(proc, p)[q]
  <2> SUFFICES ASSUME NEW q \in Pids PROVE Exited(reaped, p)[q] = Exited(proc, p)[q]
    OBVIOUS
  <2>1. CASE q = p
    BY <1>4, <1>5, <2>1 DEF Exited
  <2>2. CASE q = c
    <3>1. Exited(proc, p)[q] = NoProcess
      BY <1>2, <2>2 DEF Exited
    <3>2. Exited(reaped, p)[q] = NoProcess
      BY <1>2, <1>3, <1>4, <2>2, ShellPid DEF Exited
    <3> QED
      BY <3>1, <3>2
  <2>3. CASE q \notin {p, c}
    BY <1>4, <2>3 DEF Exited
  <2> QED
    BY <2>1, <2>2, <2>3
<1>7. Exited(reaped, p) = Exited(proc, p)
  BY <1>6 DEF Exited
<1> QED
  BY <1>7 DEF LeaderEnds, Exit, reaped

\* So the invariant is kept.
LEMMA LeaderEndsInv ==
  ASSUME ShellInv, NEW p \in Pids, LeaderEnds(p)
  PROVE  ShellInv'
<1>1. UNCHANGED <<input, line>> /\ Alive(p)
  BY DEF LeaderEnds, ChildEnded, Alive
<1>2. ProcsInv' /\ DataInv'
  BY <1>1, LeaderExits, ExitInv DEF ShellInv, ProcsInv
<1> QED
  BY <1>1, <1>2, LinesKept DEF ShellInv, ProcsInv

-----------------------------------------------------------------------------
(* The invariant holds.                                                    *)

\* The shell starts alone, with the standard descriptors.
LEMMA InitInv ==
  ASSUME Init
  PROVE  ShellInv
<1> DEFINE first == [NoProcess EXCEPT !.pc = "prompt", !.fd = Initially]
<1>1. NoProcess \in Processes /\ Sound(NoProcess)
  <2>1. NoJob \in Jobs
    BY DEF NoJob, Jobs
  <2>2. [n \in FdNumbers |-> Closed] \in Tables
    BY Descriptors DEF Tables
  <2>3. NoProcess \in Processes
    BY <2>1, <2>2 DEF NoProcess, Processes, Tables
  <2> QED
    BY <2>3, GoneSound
<1>2. /\ NoProcess.pc = "none" /\ NoProcess.at = 0 /\ NoProcess.pipe_list = <<>>
      /\ NoProcess.job = NoJob /\ \A n \in FdNumbers : NoProcess.fd[n] = Closed
  BY DEF NoProcess
<1>3. Initially \in Tables /\ \A n \in FdNumbers : Initially[n] \in {Terminal, Closed}
  BY Descriptors DEF Initially, Tables
<1>4. /\ first \in Processes /\ first.pc = "prompt" /\ first.at = 0
      /\ first.pipe_list = <<>> /\ first.fd = Initially /\ first.job = NoJob
  BY <1>1, <1>2, <1>3 DEF Processes, ShellCode, Tables
<1>5. \A p \in Pids : proc[p] = IF p = MyShell THEN first ELSE NoProcess
  BY DEF Init
<1> HIDE DEF first
<1>6. Sound(first)
  <2>1. \A n \in {STDIN, STDOUT, STDERR} : Initially[n] = Terminal
    BY Descriptors DEF Initially, STDIN, STDOUT, STDERR
  <2>2. Standard(first) /\ \A n \in FdNumbers : first.fd[n][1] # "write"
    BY <1>3, <1>4, <2>1, Kinds DEF Standard
  <2> QED
    BY <1>4, <2>2, IdleSound DEF IdleCode
<1>7. ProcInv
  <2>1. proc = [p \in Pids |-> IF p = MyShell THEN first ELSE NoProcess]
    BY DEF Init, first
  <2> QED
    BY <1>1, <1>4, <1>6, <2>1 DEF ProcInv
<1>8. LinesInv
  <2>1. Len(<<>>) = 0 /\ <<>> \in Seq(Characters) /\ 0 < MaxLine /\ DOMAIN <<>> = {}
    BY MaxLineAssumption
  <2>2. /\ input \in Seq(Seq(Characters)) /\ line = <<>>
        /\ \A i \in DOMAIN input : Len(input[i]) < MaxLine /\ Whole(input[i])
    BY ScriptsAssumption DEF Init, Whole
  <2>3. Whole(<<>>)
    BY <2>1 DEF Whole
  <2> QED
    BY <2>1, <2>2, <2>3 DEF LinesInv
<1>9. RolesInv
  BY <1>2, <1>4, <1>5, ShellPid DEF RolesInv, IdleCode, RunCode
<1>10. \A p \in Pids : proc[p].pc # "none" => p = MyShell
  BY <1>2, <1>5
<1>11. \A p \in Pids : \A n \in FdNumbers : proc[p].fd[n][1] \notin {"read", "write"}
  BY <1>2, <1>3, <1>4, <1>5, Kinds
<1>12. TogetherInv
  <2>1. \A p \in Pids : proc[p].pc # "wait"
    BY <1>2, <1>4, <1>5
  <2>2. WaitInv
    BY <2>1 DEF WaitInv, WaitsFor
  <2>3. ForegroundInv
    BY <1>10 DEF ForegroundInv
  <2>4. NumberInv
    <3>1. Number(MyShell) \in Nat
      BY <1>7, ProcessFields, ShellPid DEF ProcInv, Number
    <3> QED
      BY <1>10, <3>1 DEF NumberInv, Alive
  <2>5. ReadsInv
    BY <1>11 DEF ReadsInv, HasPipe
  <2> QED
    BY <2>2, <2>3, <2>4, <2>5 DEF TogetherInv
<1>13. DataInv
  <2>1. Ends(proc, "read") = {} /\ Ends(proc, "write") = {}
    BY <1>11, EndsAre
  <2>2. FreshInv
    BY <1>11 DEF FreshInv, HasPipe
  <2>3. DOMAIN data = {}
    BY DEF Init
  <2> QED
    BY <2>1, <2>2, <2>3 DEF DataInv
<1> QED
  BY <1>7, <1>8, <1>9, <1>12, <1>13 DEF ShellInv

\* Where nothing changes, nothing is lost.
LEMMA StutterInv ==
  ASSUME ShellInv, UNCHANGED vars
  PROVE  ShellInv'
<1>1. proc' = proc /\ data' = data /\ UNCHANGED <<input, line>>
  BY DEF vars
<1>2. ProcInv' /\ RolesInv'
  BY <1>1 DEF ShellInv, ProcInv, RolesInv
<1>3. TogetherInv'
  BY <1>1 DEF ShellInv, TogetherInv, WaitInv, ForegroundInv, NumberInv, ReadsInv,
              ReadEndKnown, HasPipe, WaitsFor, Alive, Number, Alone
<1>4. DataInv'
  BY <1>1 DEF ShellInv, DataInv, FreshInv, HasPipe
<1>5. LinesInv'
  BY <1>1, LinesKept DEF ShellInv
<1> QED
  BY <1>2, <1>3, <1>4, <1>5 DEF ShellInv

\* Every step keeps the invariant.
LEMMA StepInv ==
  ASSUME ShellInv, [Next]_vars
  PROVE  ShellInv'
<1>1. CASE ReadLine
  BY <1>1, ReadLineInv
<1>2. CASE EndOfInput
  BY <1>2, ShellEndsInv
<1>3. CASE LineStep
  BY <1>3, ParseLineInv, NothingToRunInv, ForkLeaderInv, FreePipelineInv, ShellEndsInv
     DEF LineStep
<1>4. ASSUME NEW p \in Pids, Step(p) \/ StartWrite(p) \/ StartRead(p) \/ Finish(p)
      PROVE  ShellInv'
  BY <1>4, MakePipeInv, ForkStageInv, WaitInvKept, LeaderEndsInv, RedirectInv,
     ProcessEndsInv, StartInv, ExecFailsInv, TransferInv DEF Step
<1>5. CASE Stopped \/ UNCHANGED vars
  BY <1>5, StutterInv DEF Stopped
<1> QED
  BY <1>1, <1>2, <1>3, <1>4, <1>5 DEF Next

\* Every state has the shape, the roles, the relations between processes and the
\* contents of pipes that ShellInv says.
THEOREM ShellInvariant == Spec => []ShellInv
BY InitInv, StepInv, PTL DEF Spec

-----------------------------------------------------------------------------
(* What follows from it.                                                   *)

\* Every variable has its type, and the pipes in data are those that somebody has a
\* descriptor of, none above its capacity.
THEOREM ShellTypeCorrect == Spec => []ShellTypeOK
<1>1. ShellInv => ShellTypeOK
  BY DEF ShellInv, LinesInv, ProcInv, DataInv, ShellTypeOK
<1> QED
  BY <1>1, ShellInvariant, PTL

\* Each stage reads what the stage before it wrote and writes to the pipe of the
\* stage after it (myshell.c 187-251).
THEOREM PlumbedHolds == Spec => []Plumbed
<1>1. ShellInv => Plumbed
  BY DEF ShellInv, ProcInv, Sound, Connected, Plumbed
<1> QED
  BY <1>1, ShellInvariant, PTL

\* Who runs a pipeline holds the read ends so far and no write end but that of the
\* stage being run (myshell.c 180, 190).
THEOREM HoldsReadEndsHolds == Spec => []HoldsReadEnds
<1>1. ASSUME ShellInv, NEW p \in Pids
      PROVE  LET pr == proc[p]
                 j  == pr.job.number
             IN  /\ pr.pc \in {"loop", "fork", "wait"} =>
                      \A k \in 1 .. pr.at : \E n \in FdNumbers : pr.fd[n] = ReadEnd(j, k)
                 /\ pr.pc \in ShellCode =>
                      WriteEndsOf(pr) = IF pr.pc = "fork" \/ (pr.pc = "wait" /\ ~IsLast(pr))
                                        THEN {WriteEnd(j, pr.at + 1)} ELSE {}
  <2> DEFINE pr == proc[p]
             j  == pr.job.number
             list == pr.pipe_list
  <2>1. pr \in Processes /\ Sound(pr)
    BY <1>1 DEF ShellInv, ProcInv
  <2>2. /\ pr.at \in Nat /\ list \in Seq(FdNumbers \X FdNumbers)
    BY <2>1, ProcessFields
  <2>3. ASSUME pr.pc \in {"loop", "fork", "wait"}, NEW k \in 1 .. pr.at
        PROVE  \E n \in FdNumbers : pr.fd[n] = ReadEnd(j, k)
    <3>1. PipeShape(pr)
      BY <2>1, <2>3 DEF Sound, RunCode
    <3>2. k \in 1 .. Len(list)
      BY SMTT(30), <2>2, <3>1 DEF PipeShape
    <3>3. list[k][1] \in FdNumbers
      BY <2>2, <3>2
    <3> QED
      BY <3>1, <3>2, <3>3 DEF PipeShape
  <2>4. ASSUME pr.pc \in ShellCode, pr.pc = "fork" \/ (pr.pc = "wait" /\ ~IsLast(pr))
        PROVE  WriteEndsOf(pr) = {WriteEnd(j, pr.at + 1)}
    <3>1. PipeShape(pr) /\ Owns(pr) /\ Writes(pr)
      BY <2>1, <2>4 DEF Sound, Owns, RunCode
    <3>2. Len(list) = pr.at + 1 /\ pr.at + 1 \in 1 .. Len(list)
      BY SMTT(30), <2>2, <3>1 DEF PipeShape
    <3>3. list[pr.at + 1][2] \in FdNumbers
      BY <2>2, <3>2
    <3>4. pr.fd[list[pr.at + 1][2]] = WriteEnd(j, pr.at + 1)
      BY <3>1 DEF PipeShape
    <3>5. WriteEnd(j, pr.at + 1)[1] = "write"
      BY Kinds
    <3> QED
      BY <3>1, <3>3, <3>4, <3>5 DEF WriteEndsOf, Writes
  <2>5. ASSUME pr.pc \in ShellCode, ~(pr.pc = "fork" \/ (pr.pc = "wait" /\ ~IsLast(pr)))
        PROVE  WriteEndsOf(pr) = {}
    <3>1. \A n \in FdNumbers : pr.fd[n][1] # "write"
      BY <2>1, <2>5, NoWrites DEF ShellCode, IdleCode
    <3> QED
      BY <3>1 DEF WriteEndsOf
  <2> QED
    BY <2>3, <2>4, <2>5
<1>2. ShellInv => HoldsReadEnds
  BY <1>1 DEF HoldsReadEnds
<1> QED
  BY <1>2, ShellInvariant, PTL

\* The pipe a program reads from is that of the stage before it.
LEMMA ReadsFromPrevious ==
  ASSUME NEW pr \in Processes, Sound(pr), pr.pc \in Programs, pr.fd[STDIN][1] = "read"
  PROVE  /\ pr.at \in Nat /\ pr.at > 0
         /\ pr.fd[STDIN] = ReadEnd(pr.job.number, pr.at)
<1>1. pr.at \in Nat
  BY ProcessFields
<1>2. InFile(pr.job.number)[1] # "read" /\ Terminal[1] # "read"
  BY Kinds
<1>3. Connected(pr)
  BY DEF Sound
<1>4. pr.at > 0
  BY <1>1, <1>2, <1>3 DEF Connected
<1>5. pr.at + 1 - 1 = pr.at /\ pr.at + 1 > 1
  BY <1>1, <1>4
<1> QED
  BY <1>1, <1>3, <1>4, <1>5 DEF Connected

\* Nobody is left who could write to the pipe a program reads (myshell.c 179-180).
THEOREM ReaderSeesEndHolds == Spec => []ReaderSeesEnd
<1>1. ASSUME ShellInv, NEW p \in Pids, proc[p].pc \in Programs, HasPipe(p, STDIN, "read"),
             NEW q \in Pids, NEW n \in FdNumbers, proc[q].fd[n][1] = "write",
             StdinPipe(p) = PipeOf(proc[q].fd[n])
      PROVE  FALSE
  <2>1. /\ proc[p] \in Processes /\ Sound(proc[p]) /\ proc[q] \in Processes /\ Sound(proc[q])
    BY <1>1 DEF ShellInv, ProcInv
  <2>2. proc[p].at \in Nat /\ proc[q].at \in Nat
    BY <2>1, ProcessFields
  <2>3. proc[p].at > 0 /\ proc[p].fd[STDIN] = ReadEnd(Number(p), proc[p].at)
    BY <1>1, <2>1, ReadsFromPrevious DEF HasPipe, Number
  <2>4. /\ proc[q].fd[n] = WriteEnd(Number(q), proc[q].at + 1)
        /\ proc[q].pc \in {"fork", "wait"} \cup StageCode
    BY <1>1, <2>1 DEF Sound, Writes, Number
  <2>5. StdinPipe(p) = <<Number(p), proc[p].at>>
    BY <2>3, Kinds DEF StdinPipe
  <2>6. PipeOf(proc[q].fd[n]) = <<Number(q), proc[q].at + 1>>
    BY <2>4, Kinds
  <2>7. Number(p) = Number(q) /\ proc[p].at = proc[q].at + 1
    <3>1. <<Number(p), proc[p].at>> = <<Number(q), proc[q].at + 1>>
      BY <1>1, <2>5, <2>6
    <3>2. Number(p) = Number(q) /\ proc[p].at = proc[q].at + 1
      BY <3>1
    <3> QED
      BY <2>2, <3>2
  <2>8. q # p /\ Alive(p) /\ Alive(q)
    BY <1>1, <2>2, <2>4, <2>7 DEF Alive, StageCode, Programs
  <2>9. ~(MyShell \in {p, q} /\ proc[MyShell].pc \in {"free", "prompt"}) /\ ~WaitsFor(p, q)
    BY <1>1, <2>4 DEF StageCode, Programs, WaitsFor
  <2>10. WaitsFor(q, p)
    BY <1>1, <2>7, <2>8, <2>9 DEF ShellInv, TogetherInv, NumberInv
  <2>11. proc[p].at = proc[q].at
    BY <1>1, <2>8, <2>10 DEF ShellInv, TogetherInv, WaitInv
  <2> QED
    BY <2>2, <2>7, <2>11
<1>2. ShellInv => ReaderSeesEnd
  <2> SUFFICES ASSUME ShellInv, NEW p \in Pids, proc[p].pc \in Programs,
                      HasPipe(p, STDIN, "read"), StdinPipe(p) \in Ends(proc, "write")
               PROVE  FALSE
    BY DEF ReaderSeesEnd
  <2>1. PICK q \in Pids : \E n \in FdNumbers :
          proc[q].fd[n][1] = "write" /\ StdinPipe(p) = PipeOf(proc[q].fd[n])
    BY EndsAre
  <2> QED
    BY <1>1, <2>1
<1> QED
  BY <1>2, ShellInvariant, PTL

\* At the prompt nothing of a pipeline in the foreground is left (myshell.c 179, 221).
THEOREM PromptMeansDoneHolds == Spec => []PromptMeansDone
<1>1. ShellInv => PromptMeansDone
  BY DEF ShellInv, TogetherInv, ForegroundInv, PromptMeansDone, ShellCode, WaitsFor
<1> QED
  BY <1>1, ShellInvariant, PTL

-----------------------------------------------------------------------------
(* The line just read.                                                     *)

\* pipeline_build scans the line read, strictly.
LEMMA BuildIsScan ==
  ASSUME LinesInv, line # <<>>
  PROVE  /\ PipelineBuild(line) = Scanned(TRUE, line)
         /\ PipelineBuildFirst(line).status # "none" =>
              PipelineBuildFirst(line) = Scanned(FALSE, line)
         /\ line # <<"newline">> => PipelineBuildFirst(line) = Scanned(FALSE, line)
<1>1. PipelineBuild(line) = Scanned(TRUE, line)
  BY DEF PipelineBuild
<1>2. PipelineBuildFirst(line) \in {NoPipeline, Scanned(FALSE, line)}
  BY DEF PipelineBuildFirst
<1>3. NoPipeline.status = "none"
  BY DEF NoPipeline, Start
<1>4. ASSUME line # <<"newline">> PROVE PipelineBuildFirst(line) = Scanned(FALSE, line)
  <2>1. CASE line[1] = "newline"
    <3>1. Len(line) \in Nat /\ Len(line) > 0 /\ DOMAIN line = 1 .. Len(line)
      BY DEF LinesInv
    <3>2. Len(line) = 1
      BY <2>1, <3>1 DEF LinesInv, Whole
    <3>3. line = <<line[1]>>
      BY <3>2 DEF LinesInv
    <3> QED
      BY <1>4, <2>1, <3>3
  <2>2. CASE line[1] # "newline"
    BY <2>2 DEF PipelineBuildFirst
  <2> QED
    BY <2>1, <2>2
<1> QED
  BY <1>1, <1>2, <1>3, <1>4

\* The words of a command leave room for the NULL behind them, however long a line is.
LEMMA ArgumentsLeaveRoom ==
  ASSUME LinesInv, line # <<>>, NEW k \in DOMAIN PipelineBuild(line).commands
  PROVE  /\ Len(PipelineBuild(line).commands[k].args) \in Nat
         /\ Len(PipelineBuild(line).commands[k].args) < MaxArgv
         /\ MaxArgv \in Nat
<1> DEFINE s == PipelineBuild(line)
           a == s.commands[k].args
           n == Len(line)
<1>1. s \in ScansTo(n)
  BY ScannedTyped DEF PipelineBuild, LinesInv
<1>2. /\ s \in Scans /\ n \in Nat /\ n < MaxLine
      /\ \/ s.current_index = n /\ Fits(s, s.begin_index) /\ s.begin_index <= s.current_index
         \/ Fits(s, n)
  BY <1>1 DEF ScansTo, LinesInv
<1> HIDE DEF s
<1>3. s.commands \in Seq(Commands) /\ s.begin_index \in Nat
  BY <1>2 DEF Scans
<1>4. Len(a) \in Nat
  BY <1>3 DEF Commands, s
<1>5. 2 * Len(a) <= n
  BY <1>2, <1>3, <1>4 DEF Fits, s
<1> HIDE DEF a, n
<1>6. Len(a) < (MaxLine \div 2) + 1 /\ MaxLine \div 2 \in Nat
  BY <1>2, <1>4, <1>5, MaxLineAssumption
<1> QED
  BY <1>4, <1>6 DEF MaxArgv, a, s

\* In the arguments of every command NULL follows the last word, inside the array, and
\* all entries behind it are NULL (myshell_parser.h 10-13, 19-25, myshell_parser.c
\* 136-139, 335-338, 358-369).
THEOREM ArgumentsFitHolds == Spec => []ArgumentsFit
<1>1. ASSUME ShellInv, At(line, "newline") # {}, PipelineBuild(line).status = "ended",
             NEW k \in DOMAIN PipelineBuild(line).commands
      PROVE  \E n \in 0 .. MaxArgv - 1 :
               \A i \in 0 .. MaxArgv - 1 :
                 IF i < n
                 THEN CommandArgs(PipelineBuild(line), k)[i] \in Words(line)
                 ELSE CommandArgs(PipelineBuild(line), k)[i] = NoWord
  <2> DEFINE s == PipelineBuild(line)
             a == s.commands[k].args
             n == Len(a)
  <2>1. line # <<>>
    BY <1>1 DEF At
  <2>2. LinesInv /\ s = Scanned(TRUE, line)
    BY <1>1, <2>1, BuildIsScan DEF ShellInv
  <2>3. n \in Nat /\ n < MaxArgv /\ MaxArgv \in Nat
    BY <1>1, <2>1, <2>2, ArgumentsLeaveRoom
  <2>4. Built(line, s)
    BY <1>1, <2>2, LineIsBuilt DEF LinesInv
  <2>5. s \in Scans
    BY <2>2, ScannedTyped DEF LinesInv, ScansTo
  <2> HIDE DEF s
  <2>6. k \in 1 .. Len(s.commands) /\ a \in Seq(Places)
    <3>1. s.commands \in Seq(Commands)
      BY <2>5 DEF Scans
    <3>2. k \in DOMAIN s.commands
      BY DEF s
    <3>3. k \in 1 .. Len(s.commands) /\ s.commands[k] \in Commands
      BY <3>1, <3>2
    <3> QED
      BY <3>3 DEF Commands
  <2>7. InPlace(a, DoneAs(line, Len(line), k, "arg"))
    BY <2>4, <2>6 DEF Built, Contents
  <2>8. \A i \in 0 .. n - 1 : a[i + 1] \in Words(line)
    BY <2>3, <2>6, <2>7 DEF InPlace, DoneAs, Done
  <2>9. FilledUp(s, k)
    BY <1>1 DEF FilledUp, s
  <2> HIDE DEF n, a
  <2>10. ASSUME NEW i \in 0 .. MaxArgv - 1
         PROVE  IF i < n THEN CommandArgs(s, k)[i] \in Words(line)
                ELSE CommandArgs(s, k)[i] = NoWord
    BY <2>3, <2>8, <2>9 DEF CommandArgs, n, a
  <2>11. n \in 0 .. MaxArgv - 1
    BY <2>3
  <2> SUFFICES \E m \in 0 .. MaxArgv - 1 :
                 \A i \in 0 .. MaxArgv - 1 :
                   IF i < m THEN CommandArgs(s, k)[i] \in Words(line)
                   ELSE CommandArgs(s, k)[i] = NoWord
    BY DEF s
  <2> QED
    BY <2>10, <2>11
<1>2. ShellInv => ArgumentsFit
  BY <1>1 DEF ArgumentsFit
<1> QED
  BY <1>2, ShellInvariant, PTL

\* A line that ends in a newline is refused if it redirects what it may not, and of every
\* other one pipeline_build makes what it says (myshell_parser.h 54-80, myshell_parser.c
\* 26-341).
THEOREM BuildIsMeaningHolds == Spec => []BuildIsMeaning
<1>1. ASSUME ShellInv, At(line, "newline") # {} PROVE MadeAsMeant
  <2>1. line # <<>>
    BY <1>1 DEF At
  <2>2. LinesInv /\ PipelineBuild(line) = Scanned(TRUE, line)
    BY <1>1, <2>1, BuildIsScan DEF ShellInv
  <2>3. Said(line) = Meaning(line)
    BY <1>1, <2>2, SaidIsMeaning DEF LinesInv
  <2>4. /\ PipelineBuild(line).status = "refused" <=> Refused(line)
        /\ PipelineBuild(line).status # "refused" =>
             /\ PipelineBuild(line).commands = Meaning(line)
             /\ PipelineBuild(line).is_background = (At(line, "&") # {})
    BY <1>1, <2>2, <2>3, LineIsBuilt DEF LinesInv
  <2> QED
    BY <2>4 DEF MadeAsMeant
<1>2. ShellInv => BuildIsMeaning
  BY <1>1 DEF BuildIsMeaning
<1> QED
  BY <1>2, ShellInvariant, PTL

\* Of a line that both accept, the two parsers make the same pipeline
\* (challenge_0 and challenge_1 myshell_parser.c 5-345).
THEOREM ParsersAgreeHolds == Spec => []ParsersAgree
<1>1. ASSUME ShellInv, line \notin {<<>>, <<"newline">>}, ~Refused(line)
      PROVE  LET now == PipelineBuild(line)  then == PipelineBuildFirst(line)
             IN  /\ now.status = then.status
                 /\ now.commands = then.commands
                 /\ now.is_background = then.is_background
  <2>1. /\ LinesInv /\ PipelineBuild(line) = Scanned(TRUE, line)
        /\ PipelineBuildFirst(line) = Scanned(FALSE, line)
    BY <1>1, BuildIsScan DEF ShellInv
  <2>2. ASSUME NEW strict \in BOOLEAN
        PROVE  LET built == Scanned(strict, line)
               IN  /\ built.status = (IF At(line, "newline") # {} THEN "ended" ELSE "scanning")
                   /\ built.commands = Said(line)
                   /\ built.is_background = (At(line, "&") # {})
    BY <1>1, <2>1, LineIsBuilt DEF LinesInv
  <2> QED
    BY <2>1, <2>2
<1>2. ShellInv => ParsersAgree
  BY <1>1 DEF ParsersAgree
<1> QED
  BY <1>2, ShellInvariant, PTL

\* pipeline_free gives back every block that pipeline_build allocated, also of a
\* pipeline that is refused half-way (challenge_1 myshell_parser.c 347-376).
THEOREM BlocksGivenBackHolds == Spec => []BlocksGivenBack
<1>1. ASSUME ShellInv, line # <<>>
      PROVE  PipelineBuild(line).heap = PipelineFree(PipelineBuild(line))
  <2>1. LinesInv /\ PipelineBuild(line) = Scanned(TRUE, line)
    BY <1>1, BuildIsScan DEF ShellInv
  <2> QED
    BY <2>1, LineIsBuilt DEF LinesInv
<1>2. ShellInv => BlocksGivenBack
  BY <1>1 DEF BlocksGivenBack
<1> QED
  BY <1>2, ShellInvariant, PTL

-----------------------------------------------------------------------------
(* A stage that has filled its pipe.                                       *)

\* p does something.
Acts(p) ==
  \/ Step(p) \/ StartWrite(p) \/ StartRead(p) \/ Finish(p)
  \/ p = MyShell /\ (ReadLine \/ EndOfInput \/ LineStep)

\* Nobody else who is there is moved by it, or loses a descriptor.
OthersStay(p) ==
  \A q \in Pids \ {p} : Alive(q) => proc'[q].pc = proc[q].pc /\ proc'[q].fd = proc[q].fd

\* In every step somebody acts or nothing changes.
LEMMA SomebodyActs ==
  ASSUME [Next]_vars
  PROVE  (\E p \in Pids : Acts(p)) \/ UNCHANGED vars
BY ShellPid DEF Next, Acts, Stopped

\* Who waits for a child that has not ended, or writes to a full pipe, does nothing.
LEMMA ActsOnlyIf ==
  ASSUME NEW p \in Pids, Acts(p)
  PROVE  /\ ~Stuck(p) /\ Alive(p)
         /\ proc[p].pc = "wait" => ChildEnded(p)
         /\ proc[p].pc = "writing" => Write(p) \/ BrokenPipe(p)
<1>1. CASE ReadLine \/ EndOfInput \/ LineStep
  <2>1. p = MyShell \/ Step(p) \/ StartWrite(p) \/ StartRead(p) \/ Finish(p)
    BY DEF Acts
  <2>2. proc[MyShell].pc \in {"prompt", "parse", "fork_leader", "free"}
    BY <1>1 DEF ReadLine, EndOfInput, LineStep, ParseLine, NothingToRun, ForkLeader,
                FreePipeline, FreeUnset
  <2>3. CASE p = MyShell
    BY <2>2, <2>3 DEF Stuck, Alive
  <2>4. CASE Step(p) \/ StartWrite(p) \/ StartRead(p) \/ Finish(p)
    BY <2>4 DEF Step, StartWrite, StartRead, Finish, MakePipe, PipeFails, ForkStage,
                WaitStage, WaitLast, LeaderEnds, ChildEnded, Redirect, OpenFails, Exec,
                ExecFails, Write, BrokenPipe, ReadPipe, ReadTerminal, ReadNothing, Stuck,
                Alive
  <2> QED
    BY <2>1, <2>3, <2>4
<1>2. CASE Step(p) \/ StartWrite(p) \/ StartRead(p) \/ Finish(p)
  BY <1>2 DEF Step, StartWrite, StartRead, Finish, MakePipe, PipeFails, ForkStage,
              WaitStage, WaitLast, LeaderEnds, ChildEnded, Redirect, OpenFails, Exec,
              ExecFails, Write, BrokenPipe, ReadPipe, ReadTerminal, ReadNothing, Stuck,
              Alive
<1> QED
  BY <1>1, <1>2 DEF Acts

\* Whoever acts leaves the others where they are.
LEMMA ActsAlone ==
  ASSUME ShellInv, NEW p \in Pids, Acts(p)
  PROVE  OthersStay(p)
<1>1. proc \in [Pids -> Processes] /\ Alive(p) /\ MyShell \in Pids
  BY ActsOnlyIf, ShellPid DEF ShellInv, ProcInv
<1>2. ASSUME \A q \in Pids \ {p} : proc'[q] = proc[q]
      PROVE  OthersStay(p)
  BY <1>2 DEF OthersStay
<1>3. ASSUME Ended(p)
      PROVE  OthersStay(p)
  BY <1>3 DEF OthersStay, Ended, Alive
<1>4. CASE p = MyShell /\ (ReadLine \/ ParseLine \/ NothingToRun \/ FreePipeline)
  <2>1. \A q \in Pids \ {p} : proc'[q] = proc[q]
    BY <1>1, <1>4 DEF ReadLine, ParseLine, NothingToRun, FreePipeline
  <2> QED
    BY <1>2, <2>1
<1>5. CASE \/ MakePipe(p) \/ Redirect(p) \/ Exec(p) \/ StartWrite(p) \/ StartRead(p)
           \/ Write(p) \/ ReadPipe(p) \/ ReadTerminal(p) \/ ReadNothing(p)
  <2>1. \A q \in Pids \ {p} : proc'[q] = proc[q]
    BY <1>1, <1>5 DEF MakePipe, Redirect, Exec, StartWrite, StartRead, Write, ReadPipe,
                      ReadTerminal, ReadNothing
  <2> QED
    BY <1>2, <2>1
<1>6. CASE Exit(p)
  <2>1. Ended(p)
    BY <1>1, <1>6, ExitInv DEF ShellInv, ProcsInv
  <2> QED
    BY <1>3, <2>1
<1>7. CASE ExecFails(p)
  <2>1. Ended(p)
    BY <1>1, <1>7, ExitKeeps DEF ExecFails, ShellInv
  <2> QED
    BY <1>3, <2>1
<1>8. ASSUME NEW x, NEW y, Fork(p, x, y)
      PROVE  OthersStay(p)
  <2>1. \/ ForkFails(p, y) \/ \E c \in Pids \ {p} : ForkMakes(p, c, x, y)
    BY <1>1, <1>8, ForkCases DEF ShellInv
  <2>2. CASE ForkFails(p, y)
    BY <1>1, <1>2, <2>2 DEF ForkFails
  <2>3. ASSUME NEW c \in Pids \ {p}, ForkMakes(p, c, x, y)
        PROVE  OthersStay(p)
    BY <1>1, <2>3 DEF ForkMakes, OthersStay, Alive
  <2> QED
    BY <2>1, <2>2, <2>3
<1>9. CASE WaitStage(p) \/ WaitLast(p)
  <2> DEFINE c == proc[p].child
             new == [proc[p] EXCEPT !.child = NoPid]
  <2>1. ChildEnded(p)
    BY <1>9 DEF WaitStage, WaitLast
  <2>2. /\ c \in Pids \ {p} /\ proc[c].pc = "zombie"
        /\ Reaped(proc, p) = [proc EXCEPT ![c] = NoProcess, ![p] = new]
    BY <2>1, ChildIs
  <2> HIDE DEF c, new
  <2>3. \A q \in Pids \ {p, c} : proc'[q] = proc[q]
    BY <1>1, <1>9, <2>2 DEF WaitStage, WaitLast
  <2> QED
    BY <2>2, <2>3 DEF OthersStay, Alive
<1>10. CASE p = MyShell /\ (ReadLine \/ EndOfInput \/ LineStep)
  <2>1. CASE EndOfInput \/ FreeUnset
    BY <1>6, <1>10, <2>1 DEF EndOfInput, FreeUnset
  <2>2. CASE ForkLeader
    BY <1>8, <1>10, <2>2 DEF ForkLeader
  <2> QED
    BY <1>4, <1>10, <2>1, <2>2 DEF LineStep
<1>11. CASE Step(p) \/ StartWrite(p) \/ StartRead(p) \/ Finish(p)
  <2>1. CASE PipeFails(p) \/ OpenFails(p) \/ BrokenPipe(p) \/ Finish(p)
    BY <1>6, <2>1 DEF PipeFails, OpenFails, BrokenPipe, Finish
  <2>2. CASE LeaderEnds(p)
    BY <1>6, <2>2, LeaderExits
  <2>3. CASE ForkStage(p)
    BY <1>8, <2>3 DEF ForkStage
  <2> QED
    BY <1>5, <1>7, <1>9, <1>11, <2>1, <2>2, <2>3 DEF Step
<1> QED
  BY <1>10, <1>11 DEF Acts

\* The pipe a stage writes to is its own, and nobody but who waits for it can read
\* from it.
LEMMA ReadersOfWriter ==
  ASSUME ShellInv, NEW p \in Pids, proc[p].pc = "writing"
  PROVE  /\ StdoutPipe(p) = <<Number(p), proc[p].at + 1>>
         /\ \A q \in Pids \ {p} : Alive(q) /\ Number(q) = Number(p) =>
              WaitsFor(q, p) \/ (q = MyShell /\ proc[q].pc \in {"free", "prompt"})
         /\ \A q \in Pids \ {p} : \A n \in FdNumbers :
              HasPipe(q, n, "read") /\ PipeOf(proc[q].fd[n]) = StdoutPipe(p) => WaitsFor(q, p)
<1>1. proc[p] \in Processes /\ Sound(proc[p]) /\ STDOUT \in FdNumbers /\ Alive(p)
  BY Descriptors DEF ShellInv, ProcInv, Alive
<1>2. proc[p].fd[STDOUT] = WriteEnd(Number(p), proc[p].at + 1)
  BY <1>1 DEF Sound, Directed, Writes, Number
<1>3. StdoutPipe(p) = <<Number(p), proc[p].at + 1>>
  BY <1>2, Kinds DEF StdoutPipe
<1>4. ASSUME NEW q \in Pids \ {p}, Alive(q), Number(q) = Number(p)
      PROVE  WaitsFor(q, p) \/ (q = MyShell /\ proc[q].pc \in {"free", "prompt"})
  <2>1. \/ WaitsFor(p, q) \/ WaitsFor(q, p)
        \/ MyShell \in {p, q} /\ proc[MyShell].pc \in {"free", "prompt"}
    BY <1>1, <1>4 DEF ShellInv, TogetherInv, NumberInv
  <2> QED
    BY <2>1 DEF WaitsFor
<1>5. ASSUME NEW q \in Pids \ {p}, NEW n \in FdNumbers,
             HasPipe(q, n, "read"), PipeOf(proc[q].fd[n]) = StdoutPipe(p)
      PROVE  WaitsFor(q, p)
  <2> DEFINE j == proc[q].fd[n][2]
  <2>1. j = Number(p)
    BY <1>3, <1>5 DEF PipeOf
  <2>2. /\ proc[q] \in Processes /\ Sound(proc[q]) /\ proc[q].fd[n] # Closed
    BY <1>5, Kinds DEF ShellInv, ProcInv, HasPipe
  <2>3. Alive(q)
    BY <2>2 DEF Sound, Alive
  <2>4. /\ j <= Number(q)
        /\ j < Number(q) => \A r \in Pids : Alive(r) => Number(r) # j
        /\ j = Number(q) /\ proc[q].pc \in {"free", "prompt"} => Alone(q)
    BY <1>5 DEF ShellInv, TogetherInv, ReadsInv, ReadEndKnown
  <2>5. Number(q) \in Nat /\ Number(p) \in Nat
    BY <1>1, <2>2, ProcessFields DEF Number
  <2> HIDE DEF j
  <2>6. j = Number(q)
    BY <1>1, <2>1, <2>4, <2>5
  <2>7. ~Alone(q)
    BY <1>1, <2>1, <2>6 DEF Alone
  <2> QED
    BY <1>4, <2>1, <2>3, <2>4, <2>6, <2>7
<1> QED
  BY <1>3, <1>4, <1>5

\* What is in the pipe of a stage that is stuck stays there, whoever acts, while
\* somebody has its read end.
LEMMA ContentsStay ==
  ASSUME ShellInv, NEW p \in Pids, Stuck(p), NEW a \in Pids, Acts(a),
         StdoutPipe(p) \in Ends(proc', "read")
  PROVE  data'[StdoutPipe(p)] = data[StdoutPipe(p)]
<1> DEFINE x == StdoutPipe(p)
<1>1. /\ x \in DOMAIN data /\ x \in Ends(proc, "read") /\ ~(data[x] < Capacity)
      /\ proc[p].pc = "writing" /\ Capacity \in Nat /\ data[x] \in 0 .. Capacity
  BY CapacityAssumption DEF Stuck, HasRoom, ShellInv, DataInv
<1>2. a # p /\ (proc[a].pc = "wait" => ChildEnded(a)) /\ Alive(a)
  BY ActsOnlyIf
<1>3. ~WaitsFor(a, p)
  BY <1>1, <1>2 DEF WaitsFor, ChildEnded
<1>4. ASSUME NEW d, data' = Kept(proc', d), x \in DOMAIN d
      PROVE  data'[x] = d[x]
  BY <1>4 DEF Kept
<1> HIDE DEF x
<1>5. CASE UNCHANGED data
  BY <1>5 DEF x
<1>6. CASE data' = Kept(proc', data)
  BY <1>1, <1>4, <1>6 DEF x
<1>7. CASE MakePipe(a)
  <2>1. Number(a) = Number(p) => FALSE
    BY <1>1, <1>2, <1>3, <1>7, ReadersOfWriter DEF MakePipe
  <2>2. x = <<Number(p), proc[p].at + 1>>
    BY <1>1, ReadersOfWriter DEF x
  <2>3. x # <<Number(a), proc[a].at + 1>>
    BY <2>1, <2>2
  <2>4. data' = [q \in DOMAIN data \cup {<<Number(a), proc[a].at + 1>>} |->
                   IF q = <<Number(a), proc[a].at + 1>> THEN 0 ELSE data[q]]
    BY <1>7 DEF MakePipe, Number
  <2> QED
    BY <1>1, <2>3, <2>4 DEF x
<1>8. CASE Write(a)
  <2>1. StdoutPipe(a) # x
    BY <1>1, <1>8 DEF Write, HasRoom
  <2> QED
    BY <1>1, <1>8, <2>1 DEF Write, x
<1>9. CASE ReadPipe(a)
  <2>1. HasPipe(a, STDIN, "read") /\ STDIN \in FdNumbers
    BY <1>9, Descriptors DEF ReadPipe
  <2>2. StdinPipe(a) # x
    BY <1>1, <1>2, <1>3, <2>1, ReadersOfWriter DEF StdinPipe, x
  <2> QED
    BY <1>1, <1>9, <2>2 DEF ReadPipe, x
<1>10. CASE ExecFails(a)
  <2> DEFINE q     == PipeOf(proc[a].fd[STDERR])
             heard == HasPipe(a, STDERR, "write") /\ q \in Ends(proc, "read")
             d     == IF heard THEN [data EXCEPT ![q] = @ + 1] ELSE data
  <2>1. STDERR \in FdNumbers /\ proc[a].pc = "exec" /\ data' = Kept(proc', d)
    BY <1>10, Descriptors DEF ExecFails
  <2>2. heard => data[q] = 0
    BY <2>1 DEF ShellInv, DataInv, FreshInv
  <2>3. heard => q # x
    BY <1>1, <2>2, CapacityAssumption
  <2> HIDE DEF heard, q
  <2>4. x \in DOMAIN d /\ d[x] = data[x]
    BY <1>1, <2>3
  <2> HIDE DEF d
  <2> QED
    BY <1>4, <2>1, <2>4 DEF x
<1>11. CASE a = MyShell /\ (ReadLine \/ EndOfInput \/ LineStep)
  BY <1>5, <1>6, <1>11 DEF ReadLine, EndOfInput, LineStep, ParseLine, NothingToRun,
     ForkLeader, FreePipeline, FreeUnset, Exit
<1>12. CASE Step(a) \/ StartWrite(a) \/ StartRead(a) \/ Finish(a)
  <2>1. CASE \/ PipeFails(a) \/ ForkStage(a) \/ WaitStage(a) \/ WaitLast(a)
             \/ LeaderEnds(a) \/ Redirect(a) \/ OpenFails(a) \/ Exec(a) \/ BrokenPipe(a)
             \/ ReadTerminal(a) \/ ReadNothing(a)
    BY <1>5, <1>6, <2>1 DEF PipeFails, ForkStage, WaitStage, WaitLast, LeaderEnds,
       Redirect, OpenFails, Exec, BrokenPipe, ReadTerminal, ReadNothing, Exit
  <2>2. CASE StartWrite(a) \/ StartRead(a) \/ Finish(a)
    BY <1>5, <1>6, <2>2 DEF StartWrite, StartRead, Finish, Exit
  <2> QED
    BY <1>7, <1>8, <1>9, <1>10, <1>12, <2>1, <2>2 DEF Step
<1> QED
  BY <1>11, <1>12 DEF Acts

\* So it stays stuck.
LEMMA StuckStays ==
  ASSUME ShellInv, ShellInv', [Next]_vars, NEW p \in Pids, Stuck(p)
  PROVE  Stuck(p)'
<1>1. CASE UNCHANGED vars
  BY <1>1 DEF vars, Stuck, HasRoom, StdoutPipe
<1>2. ASSUME NEW a \in Pids, Acts(a)
      PROVE  Stuck(p)'
  <2> DEFINE x == StdoutPipe(p)
  <2>1. /\ proc[p].pc = "writing" /\ Alive(p) /\ x \in Ends(proc, "read")
        /\ ~(data[x] < Capacity) /\ STDOUT \in FdNumbers
    BY Descriptors DEF Stuck, HasRoom, Alive
  <2>2. a # p /\ (proc[a].pc = "wait" => ChildEnded(a)) /\ OthersStay(a)
    BY <1>2, ActsOnlyIf, ActsAlone
  <2>3. proc'[p].pc = "writing" /\ proc'[p].fd = proc[p].fd /\ StdoutPipe(p)' = x
    BY <2>1, <2>2 DEF OthersStay, StdoutPipe
  <2>4. PICK h \in Pids : \E n \in FdNumbers :
          proc[h].fd[n][1] = "read" /\ x = PipeOf(proc[h].fd[n])
    BY <2>1, EndsAre
  <2>5. PICK n \in FdNumbers : proc[h].fd[n][1] = "read" /\ x = PipeOf(proc[h].fd[n])
    BY <2>4
  <2>6. proc'[h].fd = proc[h].fd
    <3>1. CASE h = p
      BY <2>3, <3>1
    <3>2. CASE h # p
      <4>1. WaitsFor(h, p)
        BY <2>1, <2>5, <3>2, ReadersOfWriter DEF HasPipe
      <4>2. h # a /\ Alive(h)
        BY <2>1, <2>2, <4>1 DEF WaitsFor, ChildEnded, Alive
      <4> QED
        BY <2>2, <4>2 DEF OthersStay
    <3> QED
      BY <3>1, <3>2
  <2>7. x \in Ends(proc', "read")
    BY <2>5, <2>6, EndsAre
  <2>8. data'[x] = data[x]
    BY <1>2, <2>7, ContentsStay
  <2> HIDE DEF x
  <2> QED
    BY <2>1, <2>3, <2>7, <2>8 DEF Stuck, HasRoom
<1> QED
  BY <1>1, <1>2, SomebodyActs

\* A stage that has filled its pipe stays where it is: whoever would read is only
\* started when it has ended (myshell.c 78, 179).
THEOREM FullPipeStaysHolds == Spec => FullPipeStays
<1>1. ShellInv /\ ShellInv' /\ [Next]_vars => [\A p \in Pids : Stuck(p) => Stuck(p)']_vars
  BY StuckStays
<1> QED
  BY <1>1, ShellInvariant, PTL DEF Spec, FullPipeStays
=============================================================================
