----------------------------- MODULE FlatFiles ------------------------------
(***************************************************************************)
(* What the file system promises to its clients: named files that are      *)
(* sequences of bytes, and descriptors with a position in a file.          *)
(***************************************************************************)
EXTENDS Integers, Sequences, FiniteSetsExt

CONSTANTS
  Names, Fds,
  Data,       \* the byte sequences clients write
  Lengths,    \* the numbers of bytes they ask for
  Offsets,    \* the offsets they seek and truncate to
  NoFile, Closed, Nobody, Nothing, Failed

VARIABLES
  files,   \* name -> NoFile, or the bytes of the file
  open,    \* descriptor -> Closed, or the name of its file and its position
  mounted,
  full,    \* there is no space left
  asked,   \* Nobody, or the descriptor a client is asking the size for
  call,    \* the last call, with its arguments
  result   \* what it handed back, or Nothing

vars == <<files, open, mounted, full, asked, call, result>>

AllClosed == [d \in Fds |-> Closed]

Init ==
  /\ files = [n \in Names |-> NoFile]
  /\ open = AllClosed
  /\ mounted = FALSE
  /\ full \in BOOLEAN
  /\ asked = Nobody
  /\ call = << >>
  /\ result = Nothing

\* The call ends and hands back r.
Returns(c, r) == call' = c /\ result' = r

Bytes(d)  == files[open[d].name]
IsOpen(d) == mounted /\ open[d] # Closed

\* Formatting is refused when the file system is mounted.
Format ==
  /\ \/ /\ ~mounted
        /\ Returns(<<"make">>, Nothing)
        /\ files' = [n \in Names |-> NoFile]
     \/ /\ mounted
        /\ Returns(<<"make">>, Failed)
        /\ UNCHANGED files
  /\ UNCHANGED <<open, mounted, asked>>

Mount ==
  /\ Returns(<<"mount">>, Nothing)
  /\ ~mounted
  /\ mounted' = TRUE
  /\ UNCHANGED <<files, open, asked>>

Unmount ==
  /\ Returns(<<"umount">>, Nothing)
  /\ mounted
  /\ mounted' = FALSE
  /\ open' = AllClosed
  /\ UNCHANGED <<files, asked>>

Create(n) ==
  /\ Returns(<<"create", n>>, Nothing)
  /\ mounted
  /\ files[n] = NoFile
  /\ files' = [files EXCEPT ![n] = << >>]
  /\ UNCHANGED <<open, mounted, asked>>

Delete(n) ==
  /\ Returns(<<"delete", n>>, Nothing)
  /\ mounted
  /\ files[n] # NoFile
  /\ \A d \in Fds : open[d] # Closed => open[d].name # n
  /\ files' = [files EXCEPT ![n] = NoFile]
  /\ UNCHANGED <<open, mounted, asked>>

Open(n, d) ==
  /\ Returns(<<"open", n>>, d)
  /\ mounted
  /\ files[n] # NoFile
  /\ open[d] = Closed
  /\ open' = [open EXCEPT ![d] = [name |-> n, pos |-> 0]]
  /\ UNCHANGED <<files, mounted, asked>>

Close(d) ==
  /\ Returns(<<"close", d>>, Nothing)
  /\ IsOpen(d)
  /\ open' = [open EXCEPT ![d] = Closed]
  /\ UNCHANGED <<files, mounted, asked>>

\* A read hands back the bytes from the position on, up to the end of the file.
Read(d, n) ==
  /\ call' = <<"read", d, n>>
  /\ IsOpen(d)
  /\ LET from == open[d].pos
         to   == Min({from + n, Len(Bytes(d))})
     IN /\ result' = SubSeq(Bytes(d), from + 1, to)
        /\ open' = [open EXCEPT ![d].pos = Max({from, to})]
  /\ UNCHANGED <<files, mounted, asked>>

\* A file with new bytes from a position on, and zeros up to there if need be.
Overlaid(old, from, new) ==
  [i \in 1 .. Max({Len(old), from + Len(new)}) |->
     IF i - from \in DOMAIN new THEN new[i - from]
     ELSE IF i <= Len(old) THEN old[i] ELSE 0]

\* A write puts its bytes over those at the position, extends the file if they go
\* beyond its end, and moves the position behind the last byte written.  Only the
\* lack of space cuts it short.
Write(d, data) ==
  /\ Returns(<<"write", d, data>>, Nothing)
  /\ IsOpen(d)
  /\ \E k \in 0 .. Len(data) :
       /\ files' = [files EXCEPT ![open[d].name] =
                      Overlaid(@, open[d].pos, SubSeq(data, 1, k))]
       /\ open' = [open EXCEPT ![d].pos = @ + k]
       /\ k < Len(data) => full'
  /\ UNCHANGED <<mounted, asked>>

Seek(d, p) ==
  /\ Returns(<<"lseek", d, p>>, Nothing)
  /\ IsOpen(d)
  /\ p <= Len(Bytes(d))
  /\ open' = [open EXCEPT ![d].pos = p]
  /\ UNCHANGED <<files, mounted, asked>>

Truncate(d, n) ==
  /\ Returns(<<"truncate", d, n>>, Nothing)
  /\ IsOpen(d)
  /\ n <= Len(Bytes(d))
  /\ files' = [files EXCEPT ![open[d].name] = SubSeq(@, 1, n)]
  /\ open' = [open EXCEPT ![d].pos = Min({@, n})]
  /\ UNCHANGED <<mounted, asked>>

List ==
  /\ Returns(<<"listfiles">>, {n \in Names : files[n] # NoFile})
  /\ mounted
  /\ UNCHANGED <<files, open, mounted, asked>>

\* Asking for a size: the answer is that of the moment it is given.
Ask(d) ==
  /\ Returns(<<"get_filesize", d>>, Nothing)
  /\ IsOpen(d)
  /\ asked = Nobody
  /\ asked' = d
  /\ UNCHANGED <<files, open, mounted>>

Answer ==
  /\ Returns(<<"answer">>, Len(Bytes(asked)))
  /\ asked # Nobody
  /\ IsOpen(asked)
  /\ asked' = Nobody
  /\ UNCHANGED <<files, open, mounted>>

Next ==
  \/ Format \/ Mount \/ Unmount \/ List \/ Answer
  \/ \E n \in Names : Create(n) \/ Delete(n) \/ \E d \in Fds : Open(n, d)
  \/ \E d \in Fds :
       \/ Close(d) \/ Ask(d)
       \/ \E n \in Lengths : Read(d, n)
       \/ \E n \in Offsets : Seek(d, n) \/ Truncate(d, n)
       \/ \E data \in Data : Write(d, data)

Spec == Init /\ [][Next]_vars
=============================================================================
