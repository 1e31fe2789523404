------------------------------- MODULE MCTLS --------------------------------
(* Instances of TLS for TLC.                                                *)
EXTENDS TLS, TLC

\* Nothing tells one pthread from another.
ThreadSymmetry == Permutations(Threads)

\* Both cross a page boundary; the second ends a byte before one, where the loop
\* over whole pages copies a byte more than asked for.  The third is refused, and
\* the last asks for nothing, at the end.
SomeRequests == {<<2, 2>>, <<1, 4>>, <<3, 3>>, <<5, 0>>}

\* Requests that end inside a page.
InsideRequests == {<<2, 2>>, <<0, 1>>}

\* Requests of which one is empty.
EmptyRequests == {<<2, 2>>, <<1, 0>>}

\* Clients that serialise their calls but for those that do not disturb each
\* other: clones, and a read while another thread destroys its storage.
Serialised == {{"clone"}, {"read", "destroy"}}

\* Clients that also read at the same time.
ReadersOverlap == {{"clone"}, {"read"}}
=============================================================================
