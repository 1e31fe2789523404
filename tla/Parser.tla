------------------------------- MODULE Parser -------------------------------
(***************************************************************************)
(* myshell_parser.c: pipeline_build and pipeline_free of challenge_1, and  *)
(* their earlier versions in challenge_0, which refuse nothing (strict is  *)
(* FALSE).  A line is a sequence of characters, "w" standing for any that  *)
(* is not special; a word is the pair of indices <<begin_index,            *)
(* current_index>> between which the program copies it out of the line.    *)
(***************************************************************************)
EXTENDS Integers, Sequences, FiniteSets, FiniteSetsExt, SequencesExt

CONSTANT MaxLine   \* MAX_LINE_LENGTH: fgets takes at most MaxLine - 1 characters

ASSUME MaxLineAssumption == MaxLine \in Nat /\ MaxLine > 1

Characters == {"w", " ", "|", "&", "<", ">", "newline"}

MaxArgv == MaxLine \div 2 + 1

NoWord == <<0, 0>>   \* NULL
Unset  == <<-1, -1>> \* a pointer that malloc gave and nobody wrote

EmptyCommand == [args |-> <<>>, in |-> NoWord, out |-> NoWord]

\* heap: the blocks allocated so far, words by their place in the line.
Word(w) == <<"word", w[1], w[2]>>

Start ==
  [current_index |-> 0, begin_index |-> 0, redirect_mode |-> "arg",
   commands |-> <<EmptyCommand>>, is_background |-> FALSE,
   contain_in |-> FALSE, contain_out |-> FALSE, status |-> "scanning",
   heap |-> {<<"pipeline", 0, 0>>, <<"command", 1, 0>>}]

LastCommand(s) == Len(s.commands)

-----------------------------------------------------------------------------
(* One turn of the loop over the characters.                               *)

Refuse(s) == [s EXCEPT !.status = "refused"]

Past(s) == [s EXCEPT !.begin_index = s.current_index + 1]

Copied(s) == <<s.begin_index, s.current_index>>

Allocate(s) == [s EXCEPT !.heap = @ \cup {Word(Copied(s))}]

\* (challenge_0 aborts instead; no line has as many words.)
AddArgument(s) ==
  IF Len(s.commands[LastCommand(s)].args) >= MaxArgv
  THEN Refuse(s)
  ELSE [Allocate(s) EXCEPT !.commands[LastCommand(s)].args = Append(@, Copied(s))]

SetRedirectIn(strict, s) ==
  IF strict /\ LastCommand(s) > 1
  THEN Refuse(s)
  ELSE [Allocate(s) EXCEPT !.commands[LastCommand(s)].in = Copied(s), !.redirect_mode = "arg"]

\* Defect: the mode outlives the file name it was for.
SetRedirectOutForGood(s) ==
  [Allocate(s) EXCEPT !.commands[LastCommand(s)].out = Copied(s)]

SetRedirectOut(s) ==
  [Allocate(s) EXCEPT !.commands[LastCommand(s)].out = Copied(s), !.redirect_mode = "arg"]

\* A delimiter ends the word before it, if there is one.  The branches for <
\* and > have no case for the mode they set.
EndWord(strict, s, modes) ==
  IF s.current_index = s.begin_index \/ s.redirect_mode \notin modes
  THEN s
  ELSE CASE s.redirect_mode = "arg" -> AddArgument(s)
         [] s.redirect_mode = "in"  -> SetRedirectIn(strict, s)
         [] s.redirect_mode = "out" -> SetRedirectOut(s)

AddCommand(s) ==
  IF s.status = "refused"
  THEN s
  ELSE [s EXCEPT !.commands = Append(@, EmptyCommand),
                 !.heap = @ \cup {<<"command", LastCommand(s) + 1, 0>>}]

AnyMode == {"arg", "in", "out"}

Blank(strict, s) == Past(EndWord(strict, s, AnyMode))

\* Defect: a bar at the very beginning adds a command, but only here.
BarAnywhere(strict, s) ==
  IF strict /\ s.contain_out THEN Refuse(s)
  ELSE IF s.current_index = 0 /\ ~strict THEN Past(s)
  ELSE Past(AddCommand(EndWord(strict, s, AnyMode)))

Bar(strict, s) ==
  IF strict /\ s.contain_out THEN Refuse(s)
  ELSE IF s.current_index = 0 THEN Past(s)
  ELSE Past(AddCommand(EndWord(strict, s, AnyMode)))

Ampersand(strict, s) ==
  Past([EndWord(strict, s, AnyMode) EXCEPT !.is_background = TRUE])

Less(strict, s) ==
  IF strict /\ s.contain_in
  THEN Refuse(s)
  ELSE Past([EndWord(strict, s, {"arg", "out"}) EXCEPT
               !.redirect_mode = "in", !.contain_in = TRUE])

Greater(strict, s) ==
  IF strict /\ s.contain_out
  THEN Refuse(s)
  ELSE Past([EndWord(strict, s, {"arg", "in"}) EXCEPT
               !.redirect_mode = "out", !.contain_out = TRUE])

Newline(strict, s) ==
  LET e == EndWord(strict, s, AnyMode)
  IN  IF e.status = "refused" THEN e ELSE [e EXCEPT !.status = "ended"]

Advance(s) == [s EXCEPT !.current_index = @ + 1]

Scan(strict, s, c) ==
  IF s.status # "scanning"
  THEN s
  ELSE Advance(CASE c = " "       -> Blank(strict, s)
                 [] c = "|"       -> Bar(strict, s)
                 [] c = "&"       -> Ampersand(strict, s)
                 [] c = "<"       -> Less(strict, s)
                 [] c = ">"       -> Greater(strict, s)
                 [] c = "newline" -> Newline(strict, s)
                 [] c = "w"       -> s)

Scanned(strict, line) ==
  FoldLeft(LAMBDA s, c : Scan(strict, s, c), Start, line)

NoPipeline == [Start EXCEPT !.status = "none", !.commands = <<>>, !.heap = {}]

\* status "ended": the newline was reached and the arguments of every command
\* are filled up with NULL; "scanning": the line ended without one, the word at
\* its end is dropped and the arguments of the last command are not filled up;
\* "refused": an error was reported and the pipeline freed.
PipelineBuild(line) ==
  IF line = <<>> THEN NoPipeline ELSE Scanned(TRUE, line)

\* challenge_0: an empty line is no pipeline, and nothing is refused.
PipelineBuildFirst(line) ==
  IF line = <<>> \/ line[1] = "newline" THEN NoPipeline ELSE Scanned(FALSE, line)

\* A bar or the newline fills up the arguments of the command before it.
FilledUp(s, k) == k < LastCommand(s) \/ s.status = "ended"

\* Defect: the entry behind the last word is left out.
CommandArgsFilledLate(s, k) ==
  LET words == s.commands[k].args
  IN  [i \in 0 .. MaxArgv - 1 |->
         IF i < Len(words) THEN words[i + 1]
         ELSE IF FilledUp(s, k) /\ i > Len(words) THEN NoWord ELSE Unset]

\* command_args: the words, then NULL from command_counter up to MAX_ARGV_LENGTH.
CommandArgs(s, k) ==
  LET words == s.commands[k].args
  IN  [i \in 0 .. MaxArgv - 1 |->
         IF i < Len(words) THEN words[i + 1]
         ELSE IF FilledUp(s, k) THEN NoWord ELSE Unset]

-----------------------------------------------------------------------------
(* The blocks pipeline_free gives back, apart from what it makes of         *)
(* pointers that were never set.                                            *)

CommandBlocks(s) == {<<"command", k, 0>> : k \in 1 .. LastCommand(s)}

ArgumentBlocks(s) ==
  UNION {{Word(w) : w \in ToSet(s.commands[k].args)} : k \in 1 .. LastCommand(s)}

\* Defect: both paths are taken from the last command.
PathBlocksOfLast(s) ==
  {Word(w) : w \in {s.commands[LastCommand(s)].in, s.commands[LastCommand(s)].out} \ {NoWord}}

\* Only the first command's input and the last command's output are looked at.
PathBlocks(s) ==
  {Word(w) : w \in {s.commands[1].in, s.commands[LastCommand(s)].out} \ {NoWord}}

PipelineFree(s) ==
  {<<"pipeline", 0, 0>>} \cup CommandBlocks(s) \cup ArgumentBlocks(s) \cup PathBlocks(s)

\* challenge_0 keeps the paths, the last command and the pipeline itself.
PipelineFreeFirst(s) ==
  (CommandBlocks(s) \ {<<"command", LastCommand(s), 0>>}) \cup ArgumentBlocks(s)

\* pipeline_free frees all MAX_ARGV_LENGTH arguments, set or not.
FreesUnset(s) == s.status \in {"refused", "scanning"}

-----------------------------------------------------------------------------
(* What a line means, without scanning it.                                 *)

Char(line, i) == line[i + 1]

At(line, c) == {i \in 0 .. Len(line) - 1 : Char(line, i) = c}

\* The longest runs of ordinary characters.
Words(line) ==
  {w \in (0 .. Len(line) - 1) \X (1 .. Len(line)) :
     /\ w[1] < w[2]
     /\ w[1] .. w[2] - 1 \subseteq At(line, "w")
     /\ w[2] \notin At(line, "w")
     /\ w[1] - 1 \notin At(line, "w")}

\* A word names a file when a redirection comes before it with no other word
\* between them, and which one is up to the last such redirection.
Redirections(line, w) ==
  {i \in At(line, "<") \cup At(line, ">") :
     i < w[1] /\ \A v \in Words(line) : ~(i < v[1] /\ v[1] < w[1])}

Role(line, w) ==
  IF Redirections(line, w) = {} THEN "arg"
  ELSE IF Char(line, Max(Redirections(line, w))) = "<" THEN "in" ELSE "out"

\* The bars that separate commands: all but one at the very beginning.
Bars(line) == At(line, "|") \ {0}

CommandOf(line, w) == 1 + Cardinality({i \in Bars(line) : i < w[1]})

WordsAs(line, k, role) ==
  {w \in Words(line) : CommandOf(line, w) = k /\ Role(line, w) = role}

\* At most one redirection each way, the input's in the first command and the
\* output's in the last.
Refused(line) ==
  \/ Cardinality(At(line, "<")) > 1
  \/ Cardinality(At(line, ">")) > 1
  \/ \E i \in At(line, ">"), j \in At(line, "|") : i < j
  \/ \E w \in Words(line) : Role(line, w) = "in" /\ CommandOf(line, w) > 1

Only(S) == IF S = {} THEN NoWord ELSE CHOOSE w \in S : TRUE

\* The words of S in the order in which they stand.
InOrder(S) ==
  CHOOSE a \in [1 .. Cardinality(S) -> S] :
    \A i, j \in DOMAIN a : i < j => a[i][1] < a[j][1]

Meaning(line) ==
  [k \in 1 .. 1 + Cardinality(Bars(line)) |->
     [args |-> InOrder(WordsAs(line, k, "arg")),
      in   |-> Only(WordsAs(line, k, "in")),
      out  |-> Only(WordsAs(line, k, "out"))]]

=============================================================================
