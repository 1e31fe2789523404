------------------------------ MODULE MCShell -------------------------------
(* An instance of Shell for TLC: what is typed.                            *)
EXTENDS Shell

Bodies(n) == UNION {[1 .. k -> Characters \ {"newline"}] : k \in 0 .. n}

Ended(body) == Append(body, "newline")

\* Any single line of up to five characters, with or without a newline.
AnyLine == {<<Ended(body)>> : body \in Bodies(5)} \cup {<<body>> : body \in Bodies(5) \ {<<>>}}

\* The lines w & , w|w & and w<w|w|w>w .
Alone    == Ended(<<"w", "&">>)
Behind   == Ended(<<"w", "|", "w", "&">>)
InFront  == Ended(<<"w", "<", "w", "|", "w", "|", "w", ">", "w">>)

\* Two pipelines in the background and in the foreground in any order, and
\* enough of them in the background to use up the processes.
Sequences == [1 .. 2 -> {Alone, Behind, InFront}]
               \cup {<<Alone, Behind, InFront>>}

\* As many words as a line can have.
Longest == Ended(<<"w", " ", "w", " ", "w", " ", "w", " ", "w">>)

\* Pipelines in the background, one after the other.
Background == {<<Alone, Alone, Alone>>}

SomeScripts == AnyLine \cup Sequences \cup {<<Longest, Longest>>}
=============================================================================
