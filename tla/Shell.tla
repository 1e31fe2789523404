------------------------------- MODULE Shell --------------------------------
(***************************************************************************)
(* myshell.c: the shell's loop over the lines it reads, and the processes, *)
(* descriptors and pipes of the pipelines it runs.  The shell runs a       *)
(* pipeline itself; for one in the background it forks a leader that runs  *)
(* the same code and then ends.  Every stage is waited for before the next *)
(* is started.                                                             *)
(*                                                                         *)
(* The kernel is modelled as far as it is used: process and descriptor     *)
(* tables, both of which may be full, pipes that hold Capacity units, and  *)
(* programs that read, write and end as they like.                         *)
(***************************************************************************)
EXTENDS Parser

CONSTANTS
  Scripts,   \* the sequences of lines that may be typed
  MaxProcs,  \* how many processes there can be
  MaxFd,     \* how many descriptors a process can have
  Capacity   \* what a pipe holds

\* What fgets gives: less than a buffer, and nothing after a newline.
ASSUME ScriptsAssumption ==
  \A s \in Scripts :
    /\ s \in Seq(Seq(Characters))
    /\ \A i \in DOMAIN s :
         /\ Len(s[i]) < MaxLine
         /\ \A k \in DOMAIN s[i] : s[i][k] = "newline" => k = Len(s[i])
ASSUME MaxProcsAssumption == MaxProcs \in Nat \ {0}
ASSUME MaxFdAssumption    == MaxFd \in Nat /\ MaxFd > 2
ASSUME CapacityAssumption == Capacity \in Nat \ {0}

VARIABLES
  input,  \* the lines not read yet
  line,   \* user_input, from when it is read until it is parsed
  proc,   \* process table
  data    \* units in each pipe that somebody has a descriptor of

vars == <<input, line, proc, data>>

Pids    == 0 .. MaxProcs - 1
MyShell == 0
NoPid   == -1   \* no child; as a parent, a process outside the model

STDIN  == 0
STDOUT == 1
STDERR == 2

-----------------------------------------------------------------------------
(* Descriptors.  What one stands for is a kind, and the pipeline and stage  *)
(* of the pipe or file.                                                     *)

Closed        == <<"closed", 0, 0>>
Terminal      == <<"terminal", 0, 0>>
ReadEnd(j, k)  == <<"read", j, k>>
WriteEnd(j, k) == <<"write", j, k>>
InFile(j)     == <<"in", j, 0>>
OutFile(j)    == <<"out", j, 0>>

FdNumbers == 0 .. MaxFd - 1

Initially == [n \in FdNumbers |-> IF n <= STDERR THEN Terminal ELSE Closed]

Unused(fd) == {n \in FdNumbers : fd[n] = Closed}

Close(fd, n) == [fd EXCEPT ![n] = Closed]

OpenAs(fd, object) == [fd EXCEPT ![Min(Unused(fd))] = object]

Dup(fd, n) == IF fd[n] = Closed THEN fd ELSE OpenAs(fd, fd[n])

\* A pipe is named by what its write end has in common with its read end.
PipeOf(object) == <<object[2], object[3]>>

EndsOf(pr, kind) == {PipeOf(pr.fd[n]) : n \in {m \in FdNumbers : pr.fd[m][1] = kind}}

Ends(procs, kind) == UNION {EndsOf(procs[p], kind) : p \in Pids}

\* A pipe lasts as long as a descriptor of it.
Kept(procs, d) ==
  [q \in DOMAIN d \cap (Ends(procs, "read") \cup Ends(procs, "write")) |-> d[q]]

-----------------------------------------------------------------------------
(* Processes.  at is pipe_current_index, with which current_cmd moves, and  *)
(* pipe_used is at > 0; child is the pid waited for.                        *)

NoJob == [number |-> 0, commands |-> <<>>, is_background |-> FALSE, unset |-> FALSE]

NoProcess ==
  [pc |-> "none", parent |-> NoPid, child |-> NoPid, job |-> NoJob, at |-> 0,
   fd |-> [n \in FdNumbers |-> Closed], pipe_list |-> <<>>]

Zombie(pr) == [NoProcess EXCEPT !.pc = "zombie", !.parent = pr.parent, !.job = pr.job]

Stages(pr)  == Len(pr.job.commands)
Command(pr) == pr.job.commands[pr.at + 1]
IsLast(pr)  == pr.at + 1 = Stages(pr)

\* A process ends: its children lose their parent, and its own parent, while it
\* has one, can wait for it.
Exited(procs, p) ==
  [q \in Pids |->
     CASE q = p ->
            IF procs[p].parent = NoPid THEN NoProcess ELSE Zombie(procs[p])
       [] q # p /\ procs[q].parent = p ->
            IF procs[q].pc = "zombie" THEN NoProcess ELSE [procs[q] EXCEPT !.parent = NoPid]
       [] OTHER -> procs[q]]

Exit(p) == proc' = Exited(proc, p) /\ data' = Kept(proc', data)

FreePids == {p \in Pids : proc[p].pc = "none"}

\* Defect: a fork that fails is tried again.
ForkRetried(p, parent_pc, child_pc) ==
  IF FreePids = {}
  THEN UNCHANGED proc
  ELSE LET c == Min(FreePids)
       IN  proc' = [proc EXCEPT ![p].pc = parent_pc, ![p].child = c,
                                ![c] = [proc[p] EXCEPT !.pc = child_pc, !.parent = p]]

\* fork() > 0 tells the parent from the child; when fork fails, the parent takes
\* the branch of the child.
Fork(p, parent_pc, child_pc) ==
  IF FreePids = {}
  THEN proc' = [proc EXCEPT ![p].pc = child_pc]
  ELSE LET c == Min(FreePids)
       IN  proc' = [proc EXCEPT ![p].pc = parent_pc, ![p].child = c,
                                ![c] = [proc[p] EXCEPT !.pc = child_pc, !.parent = p]]

-----------------------------------------------------------------------------
(* The shell's main loop.                                                  *)

Init ==
  /\ input \in Scripts
  /\ line = <<>>
  /\ proc = [p \in Pids |-> IF p = MyShell
                            THEN [NoProcess EXCEPT !.pc = "prompt", !.fd = Initially]
                            ELSE NoProcess]
  /\ data = <<>>

ReadLine ==
  /\ proc[MyShell].pc = "prompt"
  /\ input # <<>>
  /\ line' = Head(input)
  /\ input' = Tail(input)
  /\ proc' = [proc EXCEPT ![MyShell].pc = "parse", ![MyShell].job.number = @ + 1]
  /\ UNCHANGED data

EndOfInput ==
  /\ proc[MyShell].pc = "prompt"
  /\ input = <<>>
  /\ Exit(MyShell)
  /\ UNCHANGED <<input, line>>

\* What a pipeline is run by: of a command, whether it names a program and which
\* files it is redirected to.
JobOf(built, number) ==
  [number |-> number,
   commands |-> [k \in DOMAIN built.commands |->
                   [program |-> built.commands[k].args # <<>>,
                    in      |-> built.commands[k].in # NoWord,
                    out     |-> built.commands[k].out # NoWord]],
   is_background |-> built.is_background,
   unset |-> FreesUnset(built)]

Reset(pr, pc) ==
  [pr EXCEPT !.pc = pc, !.job = [NoJob EXCEPT !.number = pr.job.number],
             !.child = NoPid, !.at = 0, !.pipe_list = <<>>]

\* pipe_list and pipe_current_index are written again before they are read.
ParseLine ==
  /\ proc[MyShell].pc = "parse"
  /\ LET built == PipelineBuild(line)
         job   == JobOf(built, proc[MyShell].job.number)
     IN  /\ built.status \in {"ended", "scanning"}
         /\ proc' = [proc EXCEPT ![MyShell].pc =
                                   IF job.is_background THEN "fork_leader" ELSE "loop",
                                 ![MyShell].job = job]
  /\ line' = <<>>
  /\ UNCHANGED <<input, data>>

NothingToRun ==
  /\ proc[MyShell].pc = "parse"
  /\ PipelineBuild(line).status \in {"none", "refused"}
  /\ proc' = [proc EXCEPT ![MyShell].pc = "prompt"]
  /\ line' = <<>>
  /\ UNCHANGED <<input, data>>

ForkLeader ==
  /\ proc[MyShell].pc = "fork_leader"
  /\ Fork(MyShell, "free", "loop")
  /\ UNCHANGED <<input, line, data>>

FreePipeline ==
  /\ proc[MyShell].pc = "free"
  /\ proc' = [proc EXCEPT ![MyShell] = Reset(@, "prompt")]
  /\ UNCHANGED <<input, line, data>>

\* Freeing pointers that were never set may end the shell, or do nothing.
FreeUnset ==
  /\ \/ proc[MyShell].pc = "parse" /\ PipelineBuild(line).status = "refused"
     \/ proc[MyShell].pc = "free" /\ proc[MyShell].job.unset
  /\ Exit(MyShell)
  /\ line' = <<>>
  /\ UNCHANGED input

-----------------------------------------------------------------------------
(* The loop over the commands of a pipeline, by the shell or a leader.     *)

MakePipe(p) ==
  /\ proc[p].pc = "loop"
  /\ ~IsLast(proc[p])
  /\ Cardinality(Unused(proc[p].fd)) >= 2
  /\ LET j  == proc[p].job.number
         k  == proc[p].at + 1
         r  == Min(Unused(proc[p].fd))
         w  == Min(Unused(proc[p].fd) \ {r})
     IN  /\ proc' = [proc EXCEPT ![p].pc = "fork",
                                 ![p].fd[r] = ReadEnd(j, k),
                                 ![p].fd[w] = WriteEnd(j, k),
                                 ![p].pipe_list = Append(@, <<r, w>>)]
         /\ data' = [q \in DOMAIN data \cup {<<j, k>>} |->
                       IF q = <<j, k>> THEN 0 ELSE data[q]]
  /\ UNCHANGED <<input, line>>

PipeFails(p) ==
  /\ proc[p].pc = "loop"
  /\ ~IsLast(proc[p])
  /\ Cardinality(Unused(proc[p].fd)) < 2
  /\ Exit(p)
  /\ UNCHANGED <<input, line>>

ForkStage(p) ==
  /\ \/ proc[p].pc = "fork"
     \/ proc[p].pc = "loop" /\ IsLast(proc[p])
  /\ Fork(p, "wait", "redirect")
  /\ UNCHANGED <<input, line, data>>

\* waitpid takes away the child's entry, if the child has ended.
Reaped(procs, p) ==
  [procs EXCEPT ![procs[p].child] = IF @.pc = "zombie" THEN NoProcess ELSE @,
                ![p].child = NoPid]

\* Defect: the write end stays open.
KeepWriteEnd(pr) == pr.fd

\* Defect: the read end is closed instead.
CloseReadEnd(pr) == Close(pr.fd, pr.pipe_list[pr.at + 1][1])

CloseWriteEnd(pr) == Close(pr.fd, pr.pipe_list[pr.at + 1][2])

\* Defect: the parent goes on without waiting.
ChildForked(p) == proc[p].pc = "wait"

ChildEnded(p) == proc[p].pc = "wait" /\ proc[proc[p].child].pc = "zombie"

Leads(pr) == pr.job.is_background

WaitStage(p) ==
  /\ ChildEnded(p)
  /\ ~IsLast(proc[p])
  /\ proc' = [Reaped(proc, p) EXCEPT ![p].pc = "loop",
                                     ![p].fd = CloseWriteEnd(proc[p]),
                                     ![p].at = @ + 1]
  /\ data' = Kept(proc', data)
  /\ UNCHANGED <<input, line>>

WaitLast(p) ==
  /\ ChildEnded(p)
  /\ IsLast(proc[p])
  /\ ~Leads(proc[p])
  /\ proc' = [Reaped(proc, p) EXCEPT ![p].pc = "free"]
  /\ UNCHANGED <<input, line, data>>

LeaderEnds(p) ==
  /\ ChildEnded(p)
  /\ IsLast(proc[p])
  /\ Leads(proc[p])
  /\ proc' = Exited(Reaped(proc, p), p)
  /\ data' = Kept(proc', data)
  /\ UNCHANGED <<input, line>>

-----------------------------------------------------------------------------
(* A stage between fork and execvp.  The numbers closed here need not be    *)
(* what the program believes: the parent has closed the previous write end, *)
(* whose number the next pipe was given.                                    *)

InputPipe(pr) == pr.pipe_list[pr.at]

\* Defect: dup is called while STDIN is still open.
FromPipeBeside(pr) ==
  Dup(Close(pr.fd, InputPipe(pr)[2]), InputPipe(pr)[1])

FromPipe(pr) ==
  Dup(Close(Close(pr.fd, InputPipe(pr)[2]), STDIN), InputPipe(pr)[1])

FromFile(pr) ==
  LET n == Min(Unused(pr.fd))
  IN  Dup(Close(OpenAs(pr.fd, InFile(pr.job.number)), STDIN), n)

\* The descriptor tables there may be after "Changing Redirect In".
Inputs(pr) ==
  IF pr.at > 0 THEN {FromPipe(pr)}
  ELSE IF ~Command(pr).in THEN {pr.fd}
  ELSE IF Unused(pr.fd) = {} THEN {} ELSE {FromFile(pr)}

OutAndErr(fd, n) == Dup(Close(Dup(Close(fd, STDOUT), n), STDERR), n)

ToPipe(pr, fd) ==
  LET own == pr.pipe_list[pr.at + 1]
  IN  OutAndErr(Close(fd, own[1]), own[2])

\* When creat fails, so do the calls of dup.
ToFile(pr, fd) ==
  {Close(Close(fd, STDOUT), STDERR)} \cup
  (IF Unused(fd) = {} THEN {}
   ELSE {OutAndErr(OpenAs(fd, OutFile(pr.job.number)), Min(Unused(fd)))})

Outputs(pr, fd) ==
  IF ~IsLast(pr) THEN {ToPipe(pr, fd)}
  ELSE IF Command(pr).out THEN ToFile(pr, fd) ELSE {fd}

Redirect(p) ==
  /\ proc[p].pc = "redirect"
  /\ \E in \in Inputs(proc[p]) : \E out \in Outputs(proc[p], in) :
       proc' = [proc EXCEPT ![p].pc = "exec", ![p].fd = out]
  /\ data' = Kept(proc', data)
  /\ UNCHANGED <<input, line>>

OpenFails(p) ==
  /\ proc[p].pc = "redirect"
  /\ proc[p].at = 0
  /\ Command(proc[p]).in
  /\ Exit(p)
  /\ UNCHANGED <<input, line>>

\* Arguments that were never set may be anything.
Exec(p) ==
  /\ proc[p].pc = "exec"
  /\ Command(proc[p]).program \/ (proc[p].job.unset /\ IsLast(proc[p]))
  /\ proc' = [proc EXCEPT ![p].pc = "program"]
  /\ UNCHANGED <<input, line, data>>

HasPipe(p, n, kind) == proc[p].fd[n][1] = kind

\* execvp fails: perror writes a line to what STDERR is by now.
ExecFails(p) ==
  /\ proc[p].pc = "exec"
  /\ proc' = Exited(proc, p)
  /\ LET q     == PipeOf(proc[p].fd[STDERR])
         heard == HasPipe(p, STDERR, "write") /\ q \in Ends(proc, "read")
     IN  data' = Kept(proc', IF heard THEN [data EXCEPT ![q] = @ + 1] ELSE data)
  /\ UNCHANGED <<input, line>>

-----------------------------------------------------------------------------
(* Programs.  What they do with files is seen by nobody here.  A program    *)
(* that reads the shell's own input takes lines away from the shell.        *)

StartWrite(p) ==
  /\ proc[p].pc = "program"
  /\ HasPipe(p, STDOUT, "write")
  /\ proc' = [proc EXCEPT ![p].pc = "writing"]
  /\ UNCHANGED <<input, line, data>>

StdinPipe(p)  == PipeOf(proc[p].fd[STDIN])
StdoutPipe(p) == PipeOf(proc[p].fd[STDOUT])

\* Defect: one unit too many.
HasRoomPastEnd(p) == data[StdoutPipe(p)] <= Capacity

HasRoom(p) == data[StdoutPipe(p)] < Capacity

Write(p) ==
  /\ proc[p].pc = "writing"
  /\ StdoutPipe(p) \in Ends(proc, "read")
  /\ HasRoom(p)
  /\ data' = [data EXCEPT ![StdoutPipe(p)] = @ + 1]
  /\ proc' = [proc EXCEPT ![p].pc = "program"]
  /\ UNCHANGED <<input, line>>

BrokenPipe(p) ==
  /\ proc[p].pc = "writing"
  /\ StdoutPipe(p) \notin Ends(proc, "read")
  /\ Exit(p)
  /\ UNCHANGED <<input, line>>

StartRead(p) ==
  /\ proc[p].pc = "program"
  /\ HasPipe(p, STDIN, "read") \/ HasPipe(p, STDIN, "terminal")
  /\ proc' = [proc EXCEPT ![p].pc = "reading"]
  /\ UNCHANGED <<input, line, data>>

ReadPipe(p) ==
  /\ proc[p].pc = "reading"
  /\ HasPipe(p, STDIN, "read")
  /\ data[StdinPipe(p)] > 0
  /\ data' = [data EXCEPT ![StdinPipe(p)] = @ - 1]
  /\ proc' = [proc EXCEPT ![p].pc = "program"]
  /\ UNCHANGED <<input, line>>

ReadTerminal(p) ==
  /\ proc[p].pc = "reading"
  /\ HasPipe(p, STDIN, "terminal")
  /\ input # <<>>
  /\ input' = Tail(input)
  /\ proc' = [proc EXCEPT ![p].pc = "program"]
  /\ UNCHANGED <<line, data>>

AtEnd(p) ==
  IF HasPipe(p, STDIN, "terminal")
  THEN input = <<>>
  ELSE data[StdinPipe(p)] = 0 /\ StdinPipe(p) \notin Ends(proc, "write")

ReadNothing(p) ==
  /\ proc[p].pc = "reading"
  /\ AtEnd(p)
  /\ proc' = [proc EXCEPT ![p].pc = "program"]
  /\ UNCHANGED <<input, line, data>>

Finish(p) ==
  /\ proc[p].pc = "program"
  /\ Exit(p)
  /\ UNCHANGED <<input, line>>

-----------------------------------------------------------------------------

Stuck(p) ==
  /\ proc[p].pc = "writing"
  /\ StdoutPipe(p) \in Ends(proc, "read")
  /\ ~HasRoom(p)

\* Nothing is left to do: every process has ended, writes to a full pipe, or
\* waits for a child that has not ended.
Stopped ==
  /\ \A p \in Pids : \/ proc[p].pc \in {"none", "zombie"}
                     \/ Stuck(p)
                     \/ proc[p].pc = "wait" /\ ~ChildEnded(p)
  /\ UNCHANGED vars

\* What a process does without anybody's choice.
Step(p) ==
  \/ MakePipe(p) \/ PipeFails(p) \/ ForkStage(p)
  \/ WaitStage(p) \/ WaitLast(p) \/ LeaderEnds(p)
  \/ Redirect(p) \/ OpenFails(p) \/ Exec(p) \/ ExecFails(p)
  \/ Write(p) \/ BrokenPipe(p)
  \/ ReadPipe(p) \/ ReadTerminal(p) \/ ReadNothing(p)

LineStep == ParseLine \/ NothingToRun \/ ForkLeader \/ FreePipeline \/ FreeUnset

Next ==
  \/ ReadLine \/ EndOfInput \/ LineStep
  \/ \E p \in Pids : Step(p) \/ StartWrite(p) \/ StartRead(p) \/ Finish(p)
  \/ Stopped

Spec == Init /\ [][Next]_vars

\* Every process gets its turn, and programs come to their end.
FairSpec ==
  /\ Spec
  /\ WF_vars(\E p \in Pids : Step(p))
  /\ SF_vars(\E p \in Pids : Finish(p))

-----------------------------------------------------------------------------
(* Properties of the parser, of the line just read.                        *)

\* pipeline_build refuses the lines that are to be refused, and of every other line
\* makes what the line says.
MadeAsMeant ==
  LET built == PipelineBuild(line)
  IN  IF Refused(line)
      THEN built.status = "refused"
      ELSE /\ built.status # "refused"
           /\ built.commands = Meaning(line)
           /\ built.is_background = (At(line, "&") # {})

\* A line that ends in a newline, as fgets gives it, is refused if it redirects the
\* input of a later command, the output of an earlier one, or either twice; of every
\* other line pipeline_build makes what the line says (myshell_parser.h 54-80,
\* myshell_parser.c 26-341).
BuildIsMeaning ==
  At(line, "newline") # {} => MadeAsMeant

\* A line that does not end in a newline, as in the examples of the header, means the
\* same: "ls -al" is "ls", "-al" and NULL (myshell_parser.h 19-25, 54-80).
UnendedIsMeaning ==
  line # <<>> /\ At(line, "newline") = {} => MadeAsMeant

\* In the arguments of every command NULL follows the last word, inside the array
\* and however many words the line has, as execvp needs it; where NULL ends them,
\* all entries behind it are NULL too, which pipeline_free relies on
\* (myshell_parser.h 10-13, 19-25, myshell_parser.c 136-139, 335-338, 358-369).
ArgumentsFit ==
  At(line, "newline") # {} =>
    LET built == PipelineBuild(line)
    IN  built.status = "ended" =>
          \A k \in DOMAIN built.commands :
            \E n \in 0 .. MaxArgv - 1 :
              \A i \in 0 .. MaxArgv - 1 :
                IF i < n
                THEN CommandArgs(built, k)[i] \in Words(line)
                ELSE CommandArgs(built, k)[i] = NoWord

\* pipeline_free gives back every block that pipeline_build allocated, also of a
\* pipeline that is refused half-way (challenge_1 myshell_parser.c 347-376).
BlocksGivenBack ==
  line # <<>> =>
    LET built == PipelineBuild(line) IN built.heap = PipelineFree(built)

\* The same of their first versions: "The created structure must be freed by
\* pipeline_free()" (challenge_0 myshell_parser.h 56, myshell_parser.c 280-305).
FirstBlocksGivenBack ==
  line # <<>> =>
    LET first == PipelineBuildFirst(line)
    IN  first.status = "ended" => first.heap = PipelineFreeFirst(first)

\* pipeline_free, which frees all arguments of all commands, meets no pointer that was
\* never set: "Frees a pipeline structure that was created with pipeline_build()"
\* (myshell_parser.h 46-52, myshell_parser.c 347-376).
FreedIsSet ==
  line # <<>> =>
    LET built == PipelineBuild(line)
    IN  \A k \in DOMAIN built.commands, i \in 0 .. MaxArgv - 1 :
          CommandArgs(built, k)[i] # Unset

\* Of a line that both accept, the two parsers make the same pipeline
\* (challenge_0 and challenge_1 myshell_parser.c 5-345).
ParsersAgree ==
  line \notin {<<>>, <<"newline">>} /\ ~Refused(line) =>
    LET now == PipelineBuild(line)  then == PipelineBuildFirst(line)
    IN  /\ now.status = then.status
        /\ now.commands = then.commands
        /\ now.is_background = then.is_background

-----------------------------------------------------------------------------
(* Properties of the shell.                                                *)

ShellCode == {"prompt", "parse", "fork_leader", "loop", "fork", "wait", "free"}

Programs == {"program", "reading", "writing"}

Objects == {"closed", "terminal", "read", "write", "in", "out"} \X Nat \X Nat

Jobs == [number : Nat,
         commands : Seq([program : BOOLEAN, in : BOOLEAN, out : BOOLEAN]),
         is_background : BOOLEAN, unset : BOOLEAN]

Processes ==
  [pc : ShellCode \cup Programs \cup {"none", "zombie", "redirect", "exec"},
   parent : Pids \cup {NoPid}, child : Pids \cup {NoPid}, job : Jobs, at : Nat,
   fd : [FdNumbers -> Objects], pipe_list : Seq(FdNumbers \X FdNumbers)]

ShellTypeOK ==
  /\ input \in Seq(Seq(Characters))
  /\ line \in Seq(Characters)
  /\ proc \in [Pids -> Processes]
  /\ DOMAIN data = Ends(proc, "read") \cup Ends(proc, "write")
  /\ \A q \in DOMAIN data : data[q] \in 0 .. Capacity

\* Each stage reads what the stage before it wrote and writes to the pipe of the
\* stage after it, the ends of the pipeline to the files named or the terminal,
\* whatever numbers the descriptors have been given again (myshell.c 187-251).
Plumbed ==
  \A p \in Pids :
    proc[p].pc \in Programs \cup {"exec"} =>
      LET j  == proc[p].job.number
          k  == proc[p].at + 1
          fd == proc[p].fd
      IN  /\ fd[STDIN] = IF k > 1 THEN ReadEnd(j, k - 1)
                         ELSE IF Command(proc[p]).in THEN InFile(j) ELSE Terminal
          /\ fd[STDERR] = fd[STDOUT]
          /\ fd[STDOUT] \in IF ~IsLast(proc[p]) THEN {WriteEnd(j, k)}
                            ELSE IF Command(proc[p]).out THEN {OutFile(j), Closed}
                            ELSE {Terminal}

\* A program that reads from a pipe sees its end: nobody is left who could write
\* to it, neither the writer nor the shell (myshell.c 179-180).
ReaderSeesEnd ==
  \A p \in Pids :
    proc[p].pc \in Programs /\ HasPipe(p, STDIN, "read")
      => StdinPipe(p) \notin Ends(proc, "write")

WriteEndsOf(pr) == {pr.fd[n] : n \in {m \in FdNumbers : pr.fd[m][1] = "write"}}

\* Who runs a pipeline holds the read end of each pipe so far, which the next
\* stage needs, and no write end but that of the stage being run
\* (myshell.c 180, 190).
HoldsReadEnds ==
  \A p \in Pids :
    LET pr == proc[p]
        j  == pr.job.number
    IN  /\ pr.pc \in {"loop", "fork", "wait"} =>
             \A k \in 1 .. pr.at : \E n \in FdNumbers : pr.fd[n] = ReadEnd(j, k)
        /\ pr.pc \in ShellCode =>
             WriteEndsOf(pr) = IF pr.pc = "fork" \/ (pr.pc = "wait" /\ ~IsLast(pr))
                               THEN {WriteEnd(j, pr.at + 1)} ELSE {}

\* When the shell asks for the next line, nothing of a pipeline in the foreground
\* is left, not even to be waited for (myshell.c 179, 221).
PromptMeansDone ==
  proc[MyShell].pc = "prompt" =>
    \A p \in Pids \ {MyShell} : proc[p].pc # "none" => proc[p].job.is_background

\* A stage that has filled its pipe stays where it is: whoever would read is only
\* started when it has ended (myshell.c 78, 179).
FullPipeStays == [][\A p \in Pids : Stuck(p) => Stuck(p)']_vars

\* A pipeline that is to run in the background is not run by the shell itself, if all
\* those before it have ended: "True if this pipeline should execute in the background"
\* (myshell_parser.h 42-43, myshell.c 54-60).
BackgroundBesideShell ==
  [][proc[MyShell].pc = "fork_leader"
         /\ (\A p \in Pids \ {MyShell} : proc[p].pc \in {"none", "zombie"})
       => proc'[MyShell].pc # "loop"]_vars

StuckIn(number) == \E p \in Pids : proc[p].job.number = number /\ Stuck(p)

\* Pipelines come to their end when their programs do, unless one of these fills
\* its pipe: nobody stays in the loop over the commands (myshell.c 64-122, 165-222).
PipelinesEnd ==
  <>[](\A p \in Pids : proc[p].pc \in {"loop", "fork", "wait"}
                         => StuckIn(proc[p].job.number))
=============================================================================
