----------------------------- MODULE MCThreads ------------------------------
(* Instances of Threads for TLC: where the signal may land.                *)
EXTENDS Threads

AllLabels == SchedLabels \cup CallLabels

\* Everywhere but in the windows of ThreadSched, between emptying and filling
\* new_set, and between finding a mutex free and taking it.
SafePoints == {"user", "schedule", "exit0", "block", "barrier_return",
               "first_test", "elem_test"}

\* Also between finding a mutex free and taking it.
LockPoints == SafePoints \cup {"first_set", "elem_set"}

\* Also between emptying new_set and filling it.
FillPoints == SafePoints \cup {"fill"}
=============================================================================
