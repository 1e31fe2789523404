--------------------------- MODULE MCThreadSched ---------------------------
(* Instances of ThreadSched for TLC: where the signal may land.            *)
EXTENDS ThreadSched

\* Only where the library is not in the middle of an update.
QuietPoints == {"user", "schedule", "exit0"}

\* Also between claiming an id and initialising its control block.
CreatePoints == QuietPoints \cup {"claimed"}

\* Also between finding a free id and claiming it.
PickPoints == QuietPoints \cup {"picked"}

\* Also between current_running_thread = newIndex and setjmp.
SwitchPoints == QuietPoints \cup {"switch"}
=============================================================================
