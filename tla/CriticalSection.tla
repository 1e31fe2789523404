--------------------------- MODULE CriticalSection --------------------------
(***************************************************************************)
(* How every mutex and barrier call of threads.c enters and leaves its     *)
(* critical section: it fills new_set with SIGALRM, blocks new_set while   *)
(* saving the previous mask in old_set, and finally sets the mask to       *)
(* old_set.  Both sets are global, shared by all threads.  A set is        *)
(* represented by whether it contains SIGALRM, the only signal ever put    *)
(* into one.                                                               *)
(***************************************************************************)
EXTENDS ThreadSched

CONSTANT NoCall  \* a thread in no mutex or barrier call

VARIABLES
  new_set, old_set,  \* the two global signal sets
  call               \* thread -> operation and argument of the call it is in

csVars == <<new_set, old_set, call>>

CSInit ==
  /\ new_set = FALSE
  /\ old_set = FALSE
  /\ call = [t \in Tid |-> NoCall]

InCall(op, o) == {t \in Tid : call[t] = [op |-> op, obj |-> o]}

Target == call[run.own].obj

\* Scheduler variables a step inside a call leaves alone.
sameThreads == <<thread_id_available, jump_buf, current_running_thread, process>>

\* A call starts with sigemptyset(&new_set).
Enter(op, o) ==
  /\ Running("user")
  /\ call' = [call EXCEPT ![run.own] = [op |-> op, obj |-> o]]
  /\ new_set' = FALSE
  /\ run' = [run EXCEPT !.pc = "fill"]
  /\ UNCHANGED <<sameThreads, status, blocked, sigalrm_blocked, old_set>>

\* sigaddset(&new_set, SIGALRM)
FillSet ==
  /\ Running("fill")
  /\ new_set' = TRUE
  /\ run' = [run EXCEPT !.pc = "block"]
  /\ UNCHANGED <<sameThreads, status, blocked, sigalrm_blocked, old_set, call>>

\* sigprocmask(SIG_BLOCK, &new_set, &old_set), and on to the body of the call
BlockAlarm ==
  /\ Running("block")
  /\ old_set' = sigalrm_blocked
  /\ sigalrm_blocked' = (sigalrm_blocked \/ new_set)
  /\ run' = [run EXCEPT !.pc = call[run.own].op]
  /\ UNCHANGED <<sameThreads, status, blocked, new_set, call>>

\* sigprocmask(SIG_SETMASK, &old_set, NULL) and return to the caller
Leave ==
  /\ sigalrm_blocked' = old_set
  /\ run' = At(run.own, "user")
  /\ call' = [call EXCEPT ![run.own] = NoCall]
  /\ UNCHANGED <<sameThreads, new_set, old_set>>

\* The same, followed by schedule(0); execution continues at label afterwards.
LeaveAndYield(label) ==
  /\ sigalrm_blocked' = old_set
  /\ run' = [run EXCEPT !.pc = "schedule", !.ret = label]
  /\ UNCHANGED <<sameThreads, new_set, old_set, call>>

\* The end of a call that went through schedule(0) and leaves the mask alone.
ReturnFromYield(label) ==
  /\ Running(label)
  /\ run' = At(run.own, "user")
  /\ call' = [call EXCEPT ![run.own] = NoCall]
  /\ UNCHANGED <<sameThreads, status, blocked, sigalrm_blocked, new_set, old_set>>
=============================================================================
