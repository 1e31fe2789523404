------------------------------ MODULE Barrier -------------------------------
(***************************************************************************)
(* pthread_barrier_init, _destroy and _wait of threads.c (the third        *)
(* design).  Every successful pthread_barrier_init appends an entry to     *)
(* four parallel arrays, here one sequence of slots, and stores its index  *)
(* in the pthread_barrier_t.  Entries are never removed.                   *)
(*                                                                         *)
(* The code asks malloc for one byte more than the entries so far, not for *)
(* one entry more (1193-1196).  Here the new entry has room, as it has in  *)
(* the program: malloc on x86-64 rounds sizes up to a multiple of 8, and   *)
(* entries are 1, 4 or 8 bytes long.                                       *)
(***************************************************************************)
EXTENDS CriticalSection, Sequences, FiniteSets

CONSTANTS
  Barriers,         \* the pthread_barrier_t objects of the program
  Counts,           \* the counts a client passes to pthread_barrier_init
  MaxBarrierInits,  \* bound on the number of successful pthread_barrier_init
  TouchInUse        \* may a client init or destroy a barrier threads wait on?

ASSUME CountsAssumption     == Counts \subseteq Nat
ASSUME InitsAssumption      == MaxBarrierInits \in Nat
ASSUME TouchInUseAssumption == TouchInUse \in BOOLEAN

VARIABLES
  slots,   \* the arrays: original count, waiting threads, destroyed flag
  handle   \* barrier -> its index into slots, 0 before its first init

barrierVars == <<slots, handle>>

Slot == [orig : Nat \ {0}, waiting : Seq(Tid), destroyed : BOOLEAN]

BarrierTypeOK ==
  /\ slots \in Seq(Slot)
  /\ handle \in [Barriers -> 0 .. Len(slots)]

BarrierVarsInit ==
  /\ slots = << >>
  /\ handle = [b \in Barriers |-> 0]

Registered(t) == {s \in 1 .. Len(slots) :
                    \E i \in 1 .. Len(slots[s].waiting) : slots[s].waiting[i] = t}

-----------------------------------------------------------------------------
(* The calls a client makes, on barriers it has initialised.                *)

InUse(b) == \/ \E t \in Tid : call[t] # NoCall /\ call[t].obj = b
            \/ handle[b] # 0 /\ slots[handle[b]].waiting # << >>

Inits == Len(slots) + Cardinality({t \in Tid : call[t] # NoCall
                                               /\ call[t].op = "barrier_init"})

\* A count of 0 is refused (EINVAL) before anything is done.
CallBarrierInit ==
  \E b \in Barriers :
    /\ Inits < MaxBarrierInits
    /\ TouchInUse \/ ~InUse(b)
    /\ Enter("barrier_init", b)

CallBarrierDestroy ==
  \E b \in Barriers :
    /\ handle[b] # 0
    /\ TouchInUse \/ ~InUse(b)
    /\ Enter("barrier_destroy", b)

CallBarrierWait ==
  \E b \in Barriers :
    /\ handle[b] # 0
    /\ TouchInUse \/ InCall("barrier_init", b) \cup InCall("barrier_destroy", b) = {}
    /\ Enter("barrier_wait", b)

-----------------------------------------------------------------------------
(* The bodies of the calls, with SIGALRM blocked (see BlockAlarm).          *)

BarrierInit ==
  /\ Running("barrier_init")
  /\ \E count \in Counts \ {0} :
       slots' = Append(slots, [orig |-> count, waiting |-> << >>,
                               destroyed |-> FALSE])
  /\ handle' = [handle EXCEPT ![Target] = Len(slots) + 1]
  /\ Leave
  /\ UNCHANGED <<status, blocked>>

BarrierDestroy ==
  /\ Running("barrier_destroy")
  /\ slots' = [slots EXCEPT ![handle[Target]].destroyed = TRUE]
  /\ Leave
  /\ UNCHANGED <<status, blocked, handle>>

\* -1, which is also the value of PTHREAD_BARRIER_SERIAL_THREAD
WaitDestroyed ==
  /\ Running("barrier_wait")
  /\ slots[handle[Target]].destroyed
  /\ Leave
  /\ UNCHANGED <<status, blocked, barrierVars>>

\* Defect: the party is complete one thread too late.
CompleteLate(s, arrived) == Len(arrived) = slots[s].orig + 1

Complete(s, arrived) == Len(arrived) = slots[s].orig

\* Defect: the release loop starts at 1.
ReleasedButFirst(arrived) == {arrived[i] : i \in 2 .. Len(arrived)}

Released(arrived) == {arrived[i] : i \in 1 .. Len(arrived)}

\* The thread is blocked and recorded; if it is the last one of the party all
\* recorded threads are released and it returns at once; if not it yields.
BarrierWait ==
  /\ Running("barrier_wait")
  /\ ~slots[handle[Target]].destroyed
  /\ LET s       == handle[Target]
         arrived == Append(slots[s].waiting, current_running_thread)
     IN \/ /\ Complete(s, arrived)
           /\ slots' = [slots EXCEPT ![s].waiting = << >>]
           /\ blocked' = [t \in Tid |-> blocked[t] /\ t \notin Released(arrived)]
           /\ status' = [t \in Tid |-> IF t \in Released(arrived) THEN "TS_READY"
                                   ELSE status[t]]
           /\ Leave
        \/ /\ ~Complete(s, arrived)
           /\ slots' = [slots EXCEPT ![s].waiting = arrived]
           /\ blocked' = [blocked EXCEPT ![current_running_thread] = TRUE]
           /\ LeaveAndYield("barrier_return")
           /\ UNCHANGED status
  /\ UNCHANGED handle

BarrierReturn == ReturnFromYield("barrier_return") /\ UNCHANGED barrierVars

BarrierCall == CallBarrierInit \/ CallBarrierDestroy \/ CallBarrierWait

BarrierStep == BarrierInit \/ BarrierDestroy \/ WaitDestroyed \/ BarrierWait
               \/ BarrierReturn
=============================================================================
