----------------------------- MODULE RoundRobin -----------------------------
(* How long a runnable thread waits under schedule()'s rotation.  ThreadSched *)
(* with a history variable: turns[t] is the number of times the processor   *)
(* has been handed over since t last had it or became runnable.             *)
EXTENDS ThreadSched

VARIABLE turns

rrVars == <<schedVars, turns>>

Waiting(t) == Runnable(t) /\ t # current_running_thread

RRInit == SchedInit /\ turns = [t \in Tid |-> 0]

Dispatches == IF current_running_thread' # current_running_thread THEN 1 ELSE 0

\* Counting stops at MaxThreads, beyond what the bound below allows.
Advance(n) == IF n < MaxThreads THEN n + Dispatches ELSE n

RRNext ==
  /\ SchedNext
  /\ turns' = [t \in Tid |-> IF Waiting(t) /\ Waiting(t)'
                             THEN Advance(turns[t]) ELSE 0]

RRSpec == RRInit /\ [][RRNext]_rrVars

RRFiniteSpec == RRSpec /\ SchedFairness /\ FiniteUserCode

\* The rotation of schedule() (threads.c 142-170) passes a runnable thread by at
\* most MaxThreads - 2 times before its turn, whichever threads are created
\* or exit meanwhile.
BoundedWait == \A t \in Tid : Waiting(t) => turns[t] <= MaxThreads - 2
=============================================================================
