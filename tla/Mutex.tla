------------------------------- MODULE Mutex --------------------------------
(***************************************************************************)
(* pthread_mutex_init, _destroy, _lock and _unlock of threads.c: a linked  *)
(* list of the initialised mutexes, newest first, each with an in-use      *)
(* flag.  pthread_mutex_lock polls: while the flag is set it unblocks      *)
(* SIGALRM and calls schedule(0).                                          *)
(*                                                                         *)
(* A mutex is its own key: the random bytes that serve as a key in the     *)
(* pthread_mutex_t are taken to differ between mutexes.                    *)
(***************************************************************************)
EXTENDS CriticalSection, SequencesExt

CONSTANTS
  Mutexes,           \* the pthread_mutex_t objects of the program
  InitWhileLocking   \* may pthread_mutex_init be called during somebody's lock?

ASSUME InitWhileLockingAssumption == InitWhileLocking \in BOOLEAN

VARIABLES
  mutex_list,   \* the list from mutex_list_first on
  mutex_inUse,  \* the flag of a mutex's list element
  holds         \* history: the threads whose lock returned 0 and not yet unlocked

mutexVars == <<mutex_list, mutex_inUse, holds>>

MutexTypeOK ==
  /\ mutex_list \in Seq(Mutexes)
  /\ mutex_inUse \in [Mutexes -> BOOLEAN]
  /\ holds \in [Mutexes -> SUBSET Tid]

MutexVarsInit ==
  /\ mutex_list = << >>
  /\ mutex_inUse = [m \in Mutexes |-> FALSE]
  /\ holds = [m \in Mutexes |-> {}]

Listed(m) == \E i \in 1 .. Len(mutex_list) : mutex_list[i] = m

\* Defect: the in-use flag is not looked at.
RemovableInUse(m) == Listed(m)

Removable(m) == Listed(m) /\ ~mutex_inUse[m]

-----------------------------------------------------------------------------
(* The calls a client makes.  It unlocks what it has locked, does not lock  *)
(* what it holds, does not exit with a mutex held and does not destroy a    *)
(* mutex another thread is using in a call.                                 *)

Idle(m)  == \A t \in Tid : call[t] # NoCall => call[t].obj # m
Alive(m) == InCall("mutex_destroy", m) = {}

CallMutexInit ==
  \E m \in Mutexes :
    /\ Alive(m)
    /\ InitWhileLocking \/ \A l \in Mutexes : InCall("mutex_lock", l) = {}
    /\ Enter("mutex_init", m)

CallMutexDestroy == \E m \in Mutexes : Idle(m) /\ Enter("mutex_destroy", m)

CallMutexLock ==
  \E m \in Mutexes :
    /\ Alive(m)
    /\ run.own \notin holds[m]
    /\ InitWhileLocking \/ \A l \in Mutexes : InCall("mutex_init", l) = {}
    /\ Enter("mutex_lock", m)

CallMutexUnlock ==
  \E m \in Mutexes : run.own \in holds[m] /\ Enter("mutex_unlock", m)

HoldsNothing == \A m \in Mutexes : run.own \notin holds[m]

-----------------------------------------------------------------------------
(* The bodies of the calls, with SIGALRM blocked (see BlockAlarm).          *)

\* A mutex already in the list is refused (-1); a new one becomes the first.
MutexInit ==
  /\ Running("mutex_init")
  /\ \/ /\ Listed(Target)
        /\ UNCHANGED mutexVars
     \/ /\ ~Listed(Target)
        /\ mutex_list' = <<Target>> \o mutex_list
        /\ mutex_inUse' = [mutex_inUse EXCEPT ![Target] = FALSE]
        /\ UNCHANGED holds
  /\ Leave
  /\ UNCHANGED <<status, blocked>>

\* A mutex not in the list, or in use, is refused (-1).
MutexDestroy ==
  /\ Running("mutex_destroy")
  /\ \/ /\ ~Removable(Target)
        /\ UNCHANGED mutex_list
     \/ /\ Removable(Target)
        /\ \E i \in 1 .. Len(mutex_list) :
             /\ mutex_list[i] = Target
             /\ mutex_list' = RemoveAt(mutex_list, i)
  /\ Leave
  /\ UNCHANGED <<status, blocked, mutex_inUse, holds>>

\* The search of pthread_mutex_lock: the first element is handled by code of
\* its own, which goes on reading mutex_list_first; any other by its address.
MutexLock ==
  /\ Running("mutex_lock")
  /\ \/ /\ ~Listed(Target)
        /\ Leave
     \/ /\ Listed(Target)
        /\ run' = [run EXCEPT !.pc = IF Head(mutex_list) = Target
                                     THEN "first_test" ELSE "elem_test"]
        /\ UNCHANGED <<sameThreads, sigalrm_blocked, csVars>>
  /\ UNCHANGED <<status, blocked, mutexVars>>

\* Defect: if (inUse) { restore the mask; schedule(0); }
LockTestOnce(element, test, set) ==
  /\ Running(test)
  /\ \/ /\ mutex_inUse[element]
        /\ LeaveAndYield(set)
     \/ /\ ~mutex_inUse[element]
        /\ run' = [run EXCEPT !.pc = set]
        /\ UNCHANGED <<sameThreads, sigalrm_blocked, csVars>>
  /\ UNCHANGED <<status, blocked, mutexVars>>

\* while (inUse) { restore the mask; schedule(0); }
LockTest(element, test, set) ==
  /\ Running(test)
  /\ \/ /\ mutex_inUse[element]
        /\ LeaveAndYield(test)
     \/ /\ ~mutex_inUse[element]
        /\ run' = [run EXCEPT !.pc = set]
        /\ UNCHANGED <<sameThreads, sigalrm_blocked, csVars>>
  /\ UNCHANGED <<status, blocked, mutexVars>>

\* inUse = true; return 0
LockSet(element, set) ==
  /\ Running(set)
  /\ mutex_inUse' = [mutex_inUse EXCEPT ![element] = TRUE]
  /\ holds' = [holds EXCEPT ![Target] = @ \cup {run.own}]
  /\ Leave
  /\ UNCHANGED <<status, blocked, mutex_list>>

LockFirst == LockTest(Head(mutex_list), "first_test", "first_set")
             \/ LockSet(Head(mutex_list), "first_set")
LockElem  == LockTest(Target, "elem_test", "elem_set")
             \/ LockSet(Target, "elem_set")

\* No check that the caller holds the mutex.
MutexUnlock ==
  /\ Running("mutex_unlock")
  /\ \/ /\ Listed(Target)
        /\ mutex_inUse' = [mutex_inUse EXCEPT ![Target] = FALSE]
     \/ /\ ~Listed(Target)
        /\ UNCHANGED mutex_inUse
  /\ holds' = [holds EXCEPT ![Target] = @ \ {run.own}]
  /\ Leave
  /\ UNCHANGED <<status, blocked, mutex_list>>

MutexCall == CallMutexInit \/ CallMutexDestroy \/ CallMutexLock \/ CallMutexUnlock

MutexStep == MutexInit \/ MutexDestroy \/ MutexLock \/ LockFirst \/ LockElem
             \/ MutexUnlock
=============================================================================
