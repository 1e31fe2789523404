------------------------------ MODULE Threads -------------------------------
(***************************************************************************)
(* The whole library of threads.c: the scheduler, mutexes and barriers     *)
(* acting on one process, with the properties that need more than one of   *)
(* them.                                                                   *)
(***************************************************************************)
EXTENDS Mutex, Barrier

VARIABLE
  alone  \* history: a thread has come back from schedule(0) although it is
         \* blocked, because no other thread could run

\* The labels of the calls on top of those of the scheduler.
CallLabels ==
  {"fill", "block", "mutex_init", "mutex_destroy", "mutex_lock", "first_test",
   "first_set", "elem_test", "elem_set", "mutex_unlock", "barrier_init",
   "barrier_destroy", "barrier_wait", "barrier_return"}

ASSUME CallLabelsAssumption == CallLabels \subseteq Labels
ASSUME NoCallAssumption     == NoCall \notin [op : Labels, obj : Mutexes \cup Barriers]

vars == <<schedVars, csVars, mutexVars, barrierVars, alone>>

Init == SchedInit /\ CSInit /\ MutexVarsInit /\ BarrierVarsInit
        /\ alone = FALSE

\* A client does not exit with a mutex held.
ThreadStep == LibraryStep \/ Alarm \/ CreatePick \/ (Exit /\ HoldsNothing)
              \/ ProcessExit \/ Stopped

NoteAlone == alone' = IF ScheduleReturn /\ blocked[run.own] THEN TRUE ELSE alone

Next ==
  \/ ThreadStep /\ NoteAlone /\ UNCHANGED <<csVars, mutexVars, barrierVars>>
  \/ (FillSet \/ BlockAlarm) /\ UNCHANGED <<mutexVars, barrierVars, alone>>
  \/ MutexCall /\ UNCHANGED <<mutexVars, barrierVars, alone>>
  \/ MutexStep /\ UNCHANGED <<barrierVars, alone>>
  \/ BarrierCall /\ UNCHANGED <<mutexVars, barrierVars, alone>>
  \/ BarrierStep /\ UNCHANGED <<mutexVars, alone>>

Spec == Init /\ [][Next]_vars

TypeOK ==
  /\ SchedTypeOK
  /\ MutexTypeOK
  /\ BarrierTypeOK
  /\ alone \in BOOLEAN
  /\ new_set \in BOOLEAN
  /\ old_set \in BOOLEAN
  /\ \A t \in Tid : call[t] # NoCall =>
       call[t] \in [op : Labels, obj : Mutexes \cup Barriers]

-----------------------------------------------------------------------------
(* Safety.                                                                  *)

\* At most one thread at a time is between a pthread_mutex_lock that returned 0
\* and its pthread_mutex_unlock (threads.c 596-736; lock_test_1.c 11-15), if
\* the signal keeps out of the windows and mutexes are initialised while nobody
\* is locking one.
MutualExclusion ==
  \A m \in Mutexes : \A t, u \in holds[m] : t = u

\* A mutex somebody holds is in the list and marked in use, so that another
\* lock waits and a destroy is refused (threads.c 506-520, 622-627).
HeldIsInUse ==
  \A m \in Mutexes : holds[m] # {} => Listed(m) /\ mutex_inUse[m]

\* The bodies of the mutex and barrier calls run with SIGALRM blocked (threads.c
\* 394-396), which is how threads "pause" the scheduler (test_busy_threads.c
\* 45-49).  As new_set is global, the code does otherwise when the signal lands
\* between sigemptyset and sigaddset.
CriticalSectionMasked ==
  run.pc \in {"mutex_init", "mutex_destroy", "mutex_lock", "mutex_unlock",
              "barrier_init", "barrier_destroy", "barrier_wait"}
    => sigalrm_blocked

\* A waiting array never holds as many threads as its barrier's count outside
\* of pthread_barrier_wait: the next entry lies within the allocation
\* (threads.c 1205, 1268-1271).
WithinCapacity == \A s \in 1 .. Len(slots) : Len(slots[s].waiting) < slots[s].orig

\* Some wait will release a blocked thread: it is recorded in one waiting array
\* only, that of a barrier as it was last initialised, and the barrier has not
\* been destroyed, unless a thread came back early before.  "error on destroying
\* barrier in use" (threads.c 1226, 1267-1282).
BlockedIsReleasable ==
  alone \/ \A t \in Tid :
    Exists(t) /\ blocked[t] /\ ~(run.pc = "claimed" /\ run.id = t)
      => \E b \in Barriers : /\ handle[b] # 0
                             /\ Registered(t) = {handle[b]}
                             /\ ~slots[handle[b]].destroyed

\* pthread_barrier_wait comes back only after the party was complete and
\* released: "When they reach their half-way point, they will wait on the
\* barrier" (barrier_test_1.c 10; threads.c 1287-1289).
WaitsForParty ==
  run.pc = "barrier_return" => Registered(run.own) = {} /\ ~blocked[run.own]

\* The same as long as whoever yields finds somebody else to run: nobody is let
\* through early by signals, other barriers, or inits and destroys in between.
ReturnsReleased == alone \/ WaitsForParty

-----------------------------------------------------------------------------
(* Liveness.  A thread that is given the processor again and again gets on  *)
(* with the library call it is in: the 50 ms between two signals outlast    *)
(* any step of it.  User code is finite: a thread that keeps running comes  *)
(* to release what it holds and to exit.                                    *)

OnlyThreads == NoteAlone /\ UNCHANGED <<csVars, mutexVars, barrierVars>>

InsideStep ==
  \/ (LibraryStep \/ LastExit) /\ OnlyThreads
  \/ (FillSet \/ BlockAlarm) /\ UNCHANGED <<mutexVars, barrierVars, alone>>
  \/ MutexStep /\ UNCHANGED <<barrierVars, alone>>
  \/ BarrierStep /\ UNCHANGED <<mutexVars, alone>>

ExitStep == Exit /\ HoldsNothing /\ OnlyThreads

UnlockStep == CallMutexUnlock /\ UNCHANGED <<mutexVars, barrierVars, alone>>

FairSpec ==
  /\ Spec
  /\ \A t \in Tid : SF_vars(run.own = t /\ InsideStep)
  /\ SF_vars(Alarm /\ OnlyThreads)
  /\ SF_vars(ExitStep)
  /\ SF_vars(UnlockStep)

\* A mutex that is free while a thread is trying to lock it does not stay free:
\* polling loses no wake-up (threads.c 622-627, 647-652).
FreeMutexIsTaken ==
  \A m \in Mutexes :
    InCall("mutex_lock", m) # {} /\ Listed(m) /\ ~mutex_inUse[m]
      ~> mutex_inUse[m] \/ process # "running"

\* A thread released from a barrier does come back from pthread_barrier_wait
\* (threads.c 1278-1289).
ReleasedThreadReturns ==
  \A t \in Tid :
    (\E b \in Barriers : call[t] = [op |-> "barrier_wait", obj |-> b])
      /\ Exists(t) /\ ~blocked[t]
      ~> call[t] = NoCall \/ blocked[t] \/ process # "running"
=============================================================================
