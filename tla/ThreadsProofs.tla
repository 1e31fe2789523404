--------------------------- MODULE ThreadsProofs -----------------------------
(***************************************************************************)
(* Proofs about the mutexes and the barriers of Threads, for every number  *)
(* of threads, mutexes, barriers and counts and every client: where each   *)
(* thread stands in the call it is in; that the bodies of the calls are    *)
(* not preempted; mutual exclusion; that what is held is in the list; that *)
(* the waiting arrays never overflow; and that the blocked threads are     *)
(* exactly the recorded ones.                                              *)
(***************************************************************************)
EXTENDS Threads, ThreadSchedProofs, FiniteSetTheorems

-----------------------------------------------------------------------------
(* Calls.                                                                  *)

\* The signal stays out of the windows of the scheduler, and out of the moment
\* between emptying and filling new_set.
Calm == Quiet /\ "fill" \notin AlarmPoints

MutexOps   == {"mutex_init", "mutex_destroy", "mutex_lock", "mutex_unlock"}
BarrierOps == {"barrier_init", "barrier_destroy", "barrier_wait"}
Bodies     == MutexOps \cup BarrierOps

LockLoop   == {"first_test", "first_set", "elem_test", "elem_set"}
Outside    == {"user", "picked", "claimed"}
InSchedule == {"schedule", "assign", "switch"}

\* Where the signal or schedule(0) may leave a thread that exists.
Suspendable == {"user", "block", "barrier_return"} \cup LockLoop

Calls == [op : MutexOps, obj : Mutexes] \cup [op : BarrierOps, obj : Barriers]

\* An id that pthread_create has claimed is no thread yet.
Fresh(t)  == run.pc = "claimed" /\ run.id = t
Active(t) == Exists(t) /\ ~Fresh(t)

\* Thread t is in a call of op on o.
Doing(t, op, o) == call[t] = [op |-> op, obj |-> o]

\* Where a thread stands, schedule() being left out.
PlaceOf(c) == IF c.pc \in InSchedule THEN c.ret ELSE c.pc
Place(t)   == PlaceOf(IF t = run.own THEN run ELSE jump_buf[t])

\* What is known of the call of a thread that stands at w.
PlaceOK(w, c) ==
  /\ w \in Outside \cup CallLabels
  /\ w \in Outside <=> c = NoCall
  /\ w \in Bodies => c.op = w
  /\ w \in LockLoop => c.op = "mutex_lock"
  /\ w = "barrier_return" => c.op = "barrier_wait"

PlaceInv ==
  \A t \in Tid :
    /\ ~Active(t) => call[t] = NoCall
    /\ Active(t) => PlaceOK(Place(t), call[t])
    /\ Active(t) /\ t # run.own => Place(t) \in Suspendable

\* A thread that has called schedule() and still exists may stay there.
YieldInv == Exists(run.own) /\ run.pc \in InSchedule => run.ret \in Suspendable

\* new_set contains SIGALRM while anybody may block it.
MaskInv ==
  /\ run.pc \in Bodies => sigalrm_blocked
  /\ new_set \/ run.pc = "fill" \/ \A t \in Tid : call[t] = NoCall

CSTypeOK ==
  /\ new_set \in BOOLEAN
  /\ old_set \in BOOLEAN
  /\ call \in [Tid -> Calls \cup {NoCall}]

CallsInv == SchedInv /\ CSTypeOK /\ PlaceInv /\ YieldInv /\ MaskInv

-----------------------------------------------------------------------------
(* The operators.                                                          *)

\* The labels of the calls can be named in a continuation.
LEMMA CallLabelsIn ==
  /\ CallLabels \subseteq Labels
  /\ Bodies \subseteq CallLabels /\ LockLoop \subseteq CallLabels
  /\ CallLabels \cap (Windows \cup InSchedule \cup Outside \cup {"exit0"}) = {}
BY CallLabelsAssumption DEF CallLabels, Bodies, MutexOps, BarrierOps, LockLoop,
   Windows, InSchedule, Outside

\* A thread in a call is told from one in none, and its call is well formed.
LEMMA CallType ==
  ASSUME NEW c \in Calls
  PROVE  /\ c # NoCall
         /\ c.op \in Bodies
         /\ c.op \in MutexOps => c.obj \in Mutexes
         /\ c.op \in BarrierOps => c.obj \in Barriers
<1>1. c \in [op : Labels, obj : Mutexes \cup Barriers]
  BY CallLabelsIn DEF Calls, Bodies
<1> QED
  BY <1>1, NoCallAssumption DEF Calls, Bodies, MutexOps, BarrierOps
-----------------------------------------------------------------------------
(* Scheduling.                                                             *)

Scheduling == ScheduleScan \/ ScheduleReturn \/ ScheduleAssign
              \/ ScheduleSwitch \/ Alarm

\* A context is not taken from its place by being saved and resumed.
LEMMA LongJmpPlace ==
  ASSUME SchedInv, NEW n \in Tid, n # run.own, Exists(n), ~Fresh(n),
         NEW c \in Continuation, c.own = run.own, Resumable(c),
         PlaceOf(c) = PlaceOf(run), NEW mask,
         LongJmp(SetJmp(run.own, c), n, mask),
         UNCHANGED thread_id_available
  PROVE  /\ run'.own = n
         /\ \A t \in Tid : Exists(t) => Place(t)' = Place(t)
<1> DEFINE buf == SetJmp(run.own, c)
<1>0. run.own \in Tid /\ c # NoCtx
  BY NoCtxAssumption DEF SchedInv, SchedTypeOK, Continuation
<1>1. /\ buf \in [Tid -> Continuation \cup {NoCtx}]
      /\ \A t \in Tid : t # run.own => buf[t] = jump_buf[t]
      /\ Exists(run.own) => buf[run.own] = c
  BY <1>0 DEF SetJmp, SchedInv, SchedTypeOK
<1>2. buf[n] # NoCtx /\ buf[n] \in Continuation /\ buf[n].own = n
  BY <1>1 DEF SchedInv, SavedInv, Fresh
<1>3. /\ run' = [buf[n] EXCEPT !.hnd = FALSE]
      /\ jump_buf' = [buf EXCEPT ![n] = NoCtx]
  BY <1>2 DEF LongJmp
<1>4. run'.own = n /\ PlaceOf(run') = PlaceOf(buf[n])
  BY <1>2, <1>3 DEF Continuation, PlaceOf
<1>5. ASSUME NEW t \in Tid, Exists(t)
      PROVE  Place(t)' = Place(t)
  <2>1. CASE t = n
    BY <1>1, <1>4, <2>1 DEF Place, PlaceOf
  <2>2. CASE t = run.own
    BY <1>1, <1>3, <1>4, <1>5, <2>2 DEF Place, PlaceOf
  <2>3. CASE t # n /\ t # run.own
    BY <1>1, <1>3, <1>4, <2>3 DEF Place, PlaceOf
  <2> QED
    BY <2>1, <2>2, <2>3
<1> QED
  BY <1>4, <1>5

\* Scheduling moves nobody: a thread that exists stands where it stood.  Only the
\* thread that executed may have become one that does not.
LEMMA SchedulingMovesNobody ==
  ASSUME CallsInv, Quiet, Scheduling
  PROVE  /\ UNCHANGED thread_id_available
         /\ \A t \in Tid : ~Fresh(t) /\ ~Fresh(t)'
         /\ \A t \in Tid : Exists(t) => Place(t)' = Place(t)
         /\ \/ (ScheduleScan \/ ScheduleReturn \/ ScheduleAssign) /\ run'.own = run.own
            \/ UNCHANGED <<run, sigalrm_blocked>>
            \/ (ScheduleSwitch \/ Alarm) /\ run'.own # run.own /\ Exists(run'.own)
<1> USE DEF CallsInv
<1>0. /\ run \in Continuation /\ run.own \in Tid /\ run.ret \in Labels
      /\ run.ret \notin Windows
      /\ current_running_thread \in Tid
  BY DEF SchedInv, SchedTypeOK, Continuation, RunningInv
<1>1. CASE ScheduleScan
  <2>1. run'.own = run.own /\ run'.ret = run.ret /\ run'.pc = "assign"
        /\ UNCHANGED <<thread_id_available, jump_buf>>
    BY <1>0, <1>1 DEF ScheduleScan, Continuation
  <2> QED
    BY <1>1, <2>1 DEF ScheduleScan, Running, Fresh, Place, PlaceOf, InSchedule
<1>2. CASE ScheduleReturn
  <2>1. run'.own = run.own /\ run'.pc = run.ret /\ run'.ret = run.ret
        /\ UNCHANGED <<thread_id_available, jump_buf>>
    BY <1>0, <1>2, AtType DEF ScheduleReturn
  <2> QED
    BY <1>0, <1>2, <2>1 DEF ScheduleReturn, Running, Fresh, Place, PlaceOf,
       InSchedule, Windows
<1>3. CASE ScheduleAssign
  <2>1. run'.own = run.own /\ run'.ret = run.ret /\ run'.pc = "switch"
        /\ UNCHANGED <<thread_id_available, jump_buf>>
    BY <1>0, <1>3 DEF ScheduleAssign, Continuation
  <2> QED
    BY <1>3, <2>1 DEF ScheduleAssign, Running, Fresh, Place, PlaceOf, InSchedule
<1>4. CASE ScheduleSwitch
  <2> DEFINE c == At(run.own, run.ret)
  <2>1. c \in Continuation /\ c.own = run.own /\ c.pc = run.ret /\ c.ret = run.ret
    BY <1>0, AtType
  <2>2. Resumable(c) /\ PlaceOf(c) = PlaceOf(run)
    BY <1>0, <1>4, <2>1 DEF Resumable, PlaceOf, ScheduleSwitch, Running, InSchedule
  <2>3. /\ run.old = run.own
        /\ current_running_thread # run.own
        /\ Exists(current_running_thread)
        /\ \A t \in Tid : ~Fresh(t)
    BY <1>4 DEF ScheduleSwitch, Running, SchedInv, SwitchInv, Fresh
  <2>4. LongJmp(SetJmp(run.own, c), current_running_thread, sigalrm_blocked)
    BY <1>4, <2>3 DEF ScheduleSwitch
  <2>5. UNCHANGED thread_id_available
    BY <1>4 DEF ScheduleSwitch
  <2>6. run'.pc \notin Windows
    BY <1>4, SwitchStepInv
  <2> HIDE DEF c, CallsInv
  <2>7. SchedInv
    BY DEF CallsInv
  <2>8. /\ run'.own = current_running_thread
        /\ \A t \in Tid : Exists(t) => Place(t)' = Place(t)
    BY <1>0, <2>1, <2>2, <2>3, <2>4, <2>5, <2>7, LongJmpPlace
  <2> QED
    BY <1>4, <2>3, <2>5, <2>6, <2>8 DEF Fresh, Windows
<1>5. CASE Alarm
  <2>1. run'.pc \notin Windows /\ run.pc \notin Windows
    BY <1>5, AlarmInv DEF Alarm, Quiet
  <2>2. /\ UNCHANGED thread_id_available
        /\ \A t \in Tid : ~Fresh(t) /\ ~Fresh(t)'
    BY <1>5, <2>1 DEF Alarm, Fresh, Windows
  <2>3. CASE UNCHANGED <<jump_buf, run, sigalrm_blocked>>
    BY <1>5, <2>2, <2>3 DEF Place, PlaceOf
  <2>4. CASE \E n \in Tid :
               /\ IsNext(n)
               /\ LongJmp(SetJmp(current_running_thread,
                                 [run EXCEPT !.hnd = TRUE]), n, TRUE)
    <3> DEFINE c == [run EXCEPT !.hnd = TRUE]
    <3>1. PICK n \in Tid : IsNext(n) /\ LongJmp(SetJmp(current_running_thread, c), n, TRUE)
      BY <2>4
    <3>2. current_running_thread = run.own
      BY <2>1 DEF SchedInv, RunningInv, Windows
    <3>3. n # run.own /\ Exists(n)
      BY <3>1, <3>2 DEF IsNext, Candidates, Runnable
    <3>4. /\ c \in Continuation /\ c.own = run.own /\ Resumable(c)
          /\ PlaceOf(c) = PlaceOf(run)
      BY <1>0, <2>1 DEF Continuation, Resumable, PlaceOf
    <3>5. LongJmp(SetJmp(run.own, c), n, TRUE)
      BY <3>1, <3>2
    <3> HIDE DEF c, CallsInv
    <3>6. SchedInv
      BY DEF CallsInv
    <3>7. run'.own = n /\ \A t \in Tid : Exists(t) => Place(t)' = Place(t)
      BY <2>2, <3>3, <3>4, <3>5, <3>6, LongJmpPlace
    <3> QED
      BY <1>5, <2>2, <3>3, <3>7
  <2> QED
    BY <1>5, <2>3, <2>4 DEF Alarm
<1> QED
  BY <1>1, <1>2, <1>3, <1>4, <1>5 DEF Scheduling

\* Where the thread that schedule() or the signal takes the processor from stands.
LEMMA LeavesSuspendable ==
  ASSUME CallsInv, Calm, ScheduleSwitch \/ Alarm, Exists(run.own)
  PROVE  Place(run.own) \in Suspendable
<1>1. Active(run.own)
  BY DEF Active, Fresh, CallsInv, SchedInv, CreateInv
<1>2. PlaceOK(PlaceOf(run), call[run.own]) /\ run.own \in Tid
  BY <1>1 DEF CallsInv, PlaceInv, Place, SchedInv, SchedTypeOK, Continuation
<1>3. CASE run.pc \in InSchedule
  BY <1>3 DEF CallsInv, YieldInv, Place, PlaceOf
<1>4. CASE run.pc \notin InSchedule
  <2>1. Alarm /\ run.pc \notin Windows \cup {"fill"} \cup Bodies
    BY <1>4 DEF Calm, Quiet, Alarm, ScheduleSwitch, Running, InSchedule, CallsInv,
       MaskInv
  <2>2. run.pc \in (Outside \cup CallLabels) \ (Windows \cup {"fill"} \cup Bodies)
    BY <1>2, <1>4, <2>1 DEF PlaceOK, PlaceOf
  <2>3. run.pc \in Suspendable
    BY <2>2 DEF Outside, CallLabels, Windows, Bodies, MutexOps, BarrierOps,
       Suspendable, LockLoop
  <2> QED
    BY <1>4, <2>3 DEF Place, PlaceOf
<1> QED
  BY <1>3, <1>4

\* Who is resumed does not stand in the body of a call.
LEMMA SchedulingCallsInv ==
  ASSUME CallsInv, Calm, Scheduling, UNCHANGED csVars
  PROVE  CallsInv'
<1>0. Quiet /\ SchedNext
  BY DEF Calm, Scheduling, SchedNext, LibraryStep
<1>1. SchedInv'
  BY <1>0, SchedStepInv DEF CallsInv
<1>2. CSTypeOK'
  BY DEF CallsInv, CSTypeOK, csVars
<1>3. /\ UNCHANGED thread_id_available
      /\ \A t \in Tid : ~Fresh(t) /\ ~Fresh(t)'
      /\ \A t \in Tid : Exists(t) => Place(t)' = Place(t)
      /\ \/ (ScheduleScan \/ ScheduleReturn \/ ScheduleAssign) /\ run'.own = run.own
         \/ UNCHANGED <<run, sigalrm_blocked>>
         \/ (ScheduleSwitch \/ Alarm) /\ run'.own # run.own /\ Exists(run'.own)
  BY <1>0, SchedulingMovesNobody
<1>4. \A t \in Tid : /\ Active(t) <=> Exists(t)
                     /\ Active(t)' <=> Exists(t)
                     /\ Exists(t)' <=> Exists(t)
  BY <1>3 DEF Active, Exists
<1>5. PlaceInv'
  <2> SUFFICES ASSUME NEW t \in Tid
               PROVE  /\ ~Exists(t) => call[t] = NoCall
                      /\ Exists(t) => PlaceOK(Place(t), call[t])
                      /\ Exists(t) /\ t # run'.own => Place(t) \in Suspendable
    BY <1>3, <1>4 DEF PlaceInv, PlaceOK, csVars
  <2>1. CASE t = run.own
    BY <1>3, <1>4, <2>1, LeavesSuspendable DEF CallsInv, PlaceInv
  <2>2. CASE t # run.own
    BY <1>4, <2>2 DEF CallsInv, PlaceInv
  <2> QED
    BY <2>1, <2>2
<1>6. run.own \in Tid /\ run'.own \in Tid
  BY <1>1 DEF CallsInv, SchedInv, SchedTypeOK, Continuation
<1>7. YieldInv' /\ MaskInv'
  <2>1. CASE ScheduleScan \/ ScheduleAssign
    <3>1. /\ run'.own = run.own /\ run'.ret = run.ret
          /\ run.pc \in InSchedule /\ run'.pc \in InSchedule
      BY <2>1 DEF ScheduleScan, ScheduleAssign, Running, InSchedule, CallsInv, SchedInv,
         SchedTypeOK, Continuation
    <3> QED
      BY <1>3, <3>1 DEF CallsInv, YieldInv, MaskInv, Exists, csVars, InSchedule,
         Bodies, MutexOps, BarrierOps
  <2>2. CASE ScheduleReturn
    <3>1. run'.own = run.own /\ run'.pc = run.ret /\ run.pc \in InSchedule
      BY <2>2 DEF ScheduleReturn, Running, At, InSchedule
    <3>2. run.ret \in Suspendable \cup {"exit0"}
      BY <3>1 DEF CallsInv, YieldInv, SchedInv, RunningInv, Suspendable
    <3> QED
      BY <1>3, <3>1, <3>2 DEF CallsInv, YieldInv, MaskInv, Exists, csVars, Suspendable,
         LockLoop, InSchedule, Bodies, MutexOps, BarrierOps
  <2>3. CASE (ScheduleSwitch \/ Alarm) /\ run'.own # run.own /\ Exists(run'.own)
    <3>1. PlaceOf(run') \in Suspendable
      BY <1>3, <1>4, <1>6, <2>3 DEF CallsInv, PlaceInv, Place
    <3>2. run.pc # "fill"
      BY <2>3 DEF Calm, ScheduleSwitch, Running, Alarm
    <3> QED
      BY <3>1, <3>2 DEF CallsInv, YieldInv, MaskInv, csVars, Suspendable,
         PlaceOf, LockLoop, InSchedule, Bodies, MutexOps, BarrierOps
  <2>4. CASE UNCHANGED <<run, sigalrm_blocked>>
    BY <1>3, <2>4 DEF CallsInv, YieldInv, MaskInv, csVars, Exists
  <2> QED
    BY <1>3, <2>1, <2>2, <2>3, <2>4
<1> QED
  BY <1>1, <1>2, <1>5, <1>7 DEF CallsInv

-----------------------------------------------------------------------------
(* The steps of a call.                                                    *)

StatusType == [Tid -> {"TS_READY", "TS_RUNNING", "TS_EXITED"}]

\* Whoever executes a call, or is about to, is a thread.
LEMMA CallerIsActive ==
  ASSUME CallsInv, run.pc \in {"user"} \cup CallLabels
  PROVE  /\ run.own \in Tid /\ Exists(run.own) /\ Active(run.own)
         /\ run.pc \notin Windows \cup InSchedule \cup {"exit0"}
         /\ current_running_thread = run.own
         /\ PlaceOK(run.pc, call[run.own])
         /\ \A t \in Tid : ~Fresh(t)
<1>1. run.pc \notin Windows \cup InSchedule \cup {"exit0"}
  BY CallLabelsIn DEF Windows, InSchedule, Outside
<1>2. run.own \in Tid /\ Exists(run.own) /\ current_running_thread = run.own
  BY <1>1 DEF CallsInv, SchedInv, SchedTypeOK, Continuation, RunningInv, Windows,
     InSchedule
<1>3. \A t \in Tid : ~Fresh(t)
  BY <1>1 DEF Fresh, Windows
<1>4. PlaceOK(run.pc, call[run.own])
  BY <1>1, <1>2, <1>3 DEF CallsInv, PlaceInv, Place, PlaceOf, Active
<1> QED
  BY <1>1, <1>2, <1>3, <1>4 DEF Active

\* The thread that executes goes from one place to another, in a call or at its
\* edge, and touches nothing of what the scheduler keeps of the others.
LEMMA StepInCall ==
  ASSUME CallsInv, run.pc \in {"user"} \cup CallLabels,
         UNCHANGED sameThreads, status' \in StatusType, blocked' \in [Tid -> BOOLEAN],
         sigalrm_blocked' \in BOOLEAN, new_set' \in BOOLEAN, old_set' \in BOOLEAN,
         run' \in Continuation, run'.own = run.own,
         run'.pc \notin Windows \cup {"exit0"}, run'.ret \notin Windows,
         NEW c \in Calls \cup {NoCall}, call' = [call EXCEPT ![run.own] = c],
         PlaceOK(PlaceOf(run'), c), YieldInv', MaskInv'
  PROVE  CallsInv'
<1> USE CallerIsActive
<1>1. SchedInv'
  <2>1. SchedTypeOK'
    BY DEF CallsInv, SchedInv, SchedTypeOK, sameThreads, StatusType
  <2>2. RunningInv' /\ SwitchInv' /\ CreateInv'
    BY DEF CallsInv, SchedInv, RunningInv, SwitchInv, CreateInv, sameThreads, Exists,
       Windows, InSchedule
  <2>3. SavedInv'
    BY DEF CallsInv, SchedInv, SavedInv, sameThreads, Exists, Resumable, Windows
  <2> QED
    BY <2>1, <2>2, <2>3 DEF SchedInv
<1>2. CSTypeOK'
  BY DEF CallsInv, CSTypeOK
<1>3. ASSUME NEW t \in Tid
      PROVE  /\ Active(t)' <=> Active(t)
             /\ t # run.own => Place(t)' = Place(t) /\ call'[t] = call[t]
  BY DEF Active, Exists, Fresh, sameThreads, Windows, Place, PlaceOf
<1>4. Place(run.own)' = PlaceOf(run') /\ call'[run.own] = c
  BY DEF Place, PlaceOf, CallsInv, CSTypeOK
<1>5. PlaceInv'
  <2> SUFFICES ASSUME NEW t \in Tid
               PROVE  /\ ~Active(t) => call'[t] = NoCall
                      /\ Active(t) => PlaceOK(Place(t)', call'[t])
                      /\ Active(t) /\ t # run.own => Place(t)' \in Suspendable
    BY <1>3 DEF PlaceInv, PlaceOK
  <2>1. CASE t = run.own
    BY <1>4, <2>1
  <2>2. CASE t # run.own
    BY <1>3, <2>2 DEF CallsInv, PlaceInv
  <2> QED
    BY <2>1, <2>2
<1> QED
  BY <1>1, <1>2, <1>5 DEF CallsInv

\* A call is entered.
LEMMA EnterInv ==
  ASSUME CallsInv, NEW op, NEW o, [op |-> op, obj |-> o] \in Calls, Enter(op, o)
  PROVE  CallsInv'
<1>1. run.pc = "user" /\ run \in Continuation
  BY DEF Enter, Running, CallsInv, SchedInv, SchedTypeOK
<1>2. run' \in Continuation /\ run'.own = run.own /\ run'.pc = "fill"
      /\ run'.ret = run.ret
  BY <1>1, CallLabelsIn DEF Enter, Continuation, CallLabels
<1>3. PlaceOK(PlaceOf(run'), [op |-> op, obj |-> o])
  BY <1>2, CallType DEF PlaceOK, PlaceOf, InSchedule, Outside, CallLabels, Bodies,
     MutexOps, BarrierOps, LockLoop
<1>4. run'.ret \notin Windows
  BY <1>2 DEF CallsInv, SchedInv, RunningInv
<1>5. YieldInv' /\ MaskInv'
  BY <1>2 DEF YieldInv, MaskInv, InSchedule, Bodies, MutexOps, BarrierOps
<1>6. /\ UNCHANGED <<sameThreads, status, blocked, sigalrm_blocked, old_set>>
      /\ new_set' = FALSE
      /\ call' = [call EXCEPT ![run.own] = [op |-> op, obj |-> o]]
  BY DEF Enter
<1>7. /\ status' \in StatusType /\ blocked' \in [Tid -> BOOLEAN]
      /\ sigalrm_blocked' \in BOOLEAN /\ new_set' \in BOOLEAN /\ old_set' \in BOOLEAN
  BY <1>6 DEF CallsInv, SchedInv, SchedTypeOK, StatusType, CSTypeOK
<1>8. run'.pc \notin Windows \cup {"exit0"}
  BY <1>2 DEF Windows
<1> QED
  BY <1>1, <1>2, <1>3, <1>4, <1>5, <1>6, <1>7, <1>8, StepInCall

\* The set is filled, and the signal blocked.
LEMMA FillAndBlockInv ==
  ASSUME CallsInv, FillSet \/ BlockAlarm
  PROVE  CallsInv'
<1>1. run.pc \in {"fill", "block"} /\ run \in Continuation
  BY DEF FillSet, BlockAlarm, Running, CallsInv, SchedInv, SchedTypeOK
<1>2. run.pc \in CallLabels
  BY <1>1 DEF CallLabels
<1>3. /\ PlaceOK(run.pc, call[run.own]) /\ run.own \in Tid
  BY <1>2, CallerIsActive
<1>4. call[run.own] \in Calls
  BY <1>1, <1>3 DEF PlaceOK, Outside, CallsInv, CSTypeOK
<1>5. call[run.own].op \in Bodies /\ call[run.own] # NoCall
  BY <1>4, CallType
<1>6. /\ run' \in Continuation /\ run'.own = run.own /\ run'.ret = run.ret
      /\ run'.pc \in {"block", call[run.own].op}
  BY <1>1, <1>5, CallLabelsIn DEF FillSet, BlockAlarm, Continuation, CallLabels
<1>7. PlaceOK(PlaceOf(run'), call[run.own])
  BY <1>5, <1>6 DEF PlaceOK, PlaceOf, InSchedule, Outside, CallLabels, Bodies,
     MutexOps, BarrierOps, LockLoop
<1>8. run'.pc \notin Windows \cup {"exit0"} \cup InSchedule /\ run'.ret \notin Windows
  BY <1>5, <1>6 DEF Windows, InSchedule, Bodies, MutexOps, BarrierOps, CallsInv,
     SchedInv, RunningInv
<1>9. UNCHANGED <<sameThreads, status, blocked, call>>
  BY DEF FillSet, BlockAlarm
<1>10. call' = [call EXCEPT ![run.own] = call[run.own]]
  BY <1>9 DEF CallsInv, CSTypeOK
<1>11. /\ status' \in StatusType /\ blocked' \in [Tid -> BOOLEAN]
       /\ sigalrm_blocked' \in BOOLEAN /\ new_set' \in BOOLEAN /\ old_set' \in BOOLEAN
  BY <1>9 DEF CallsInv, SchedInv, SchedTypeOK, StatusType, CSTypeOK, FillSet, BlockAlarm
<1>12. YieldInv'
  BY <1>8 DEF YieldInv
<1>13. MaskInv'
  <2>1. CASE FillSet
    BY <2>1 DEF FillSet, MaskInv, Bodies, MutexOps, BarrierOps
  <2>2. CASE BlockAlarm
    <3>1. new_set
      BY <1>3, <1>5, <2>2 DEF BlockAlarm, Running, CallsInv, MaskInv
    <3> QED
      BY <2>2, <3>1 DEF BlockAlarm, MaskInv
  <2> QED
    BY <2>1, <2>2
<1> QED
  BY <1>2, <1>4, <1>6, <1>7, <1>8, <1>9, <1>10, <1>11, <1>12, <1>13, StepInCall

\* A call returns to its client.
LEMMA LeaveInv ==
  ASSUME CallsInv, run.pc \in CallLabels \ {"fill"},
         status' \in StatusType, blocked' \in [Tid -> BOOLEAN],
         \/ Leave
         \/ \E label : ReturnFromYield(label)
  PROVE  CallsInv'
<1>1. /\ run' = At(run.own, "user") /\ call' = [call EXCEPT ![run.own] = NoCall]
      /\ UNCHANGED <<sameThreads, new_set, old_set>>
      /\ sigalrm_blocked' \in {old_set, sigalrm_blocked}
  BY DEF Leave, ReturnFromYield
<1>2. /\ run' \in Continuation /\ run'.own = run.own
      /\ run'.pc = "user" /\ run'.ret = "user"
  BY <1>1, CallerIsActive, AtType, LabelsIn
<1>3. PlaceOK(PlaceOf(run'), NoCall)
  BY <1>2 DEF PlaceOK, PlaceOf, InSchedule, Outside, Bodies, MutexOps, BarrierOps,
     LockLoop
<1>4. /\ sigalrm_blocked' \in BOOLEAN /\ new_set' \in BOOLEAN /\ old_set' \in BOOLEAN
      /\ run'.pc \notin Windows \cup {"exit0"} \cup InSchedule
      /\ run'.ret \notin Windows
  BY <1>1, <1>2 DEF CallsInv, CSTypeOK, SchedInv, SchedTypeOK, Windows, InSchedule
<1>5. new_set \/ \A t \in Tid : call[t] = NoCall
  BY DEF CallsInv, MaskInv
<1>6. YieldInv' /\ MaskInv'
  BY <1>1, <1>2, <1>4, <1>5 DEF YieldInv, MaskInv, Bodies, MutexOps, BarrierOps,
     CallsInv, CSTypeOK
<1> QED
  BY <1>1, <1>2, <1>3, <1>4, <1>6, StepInCall

\* A call goes on to label, at once or after schedule(0).
LEMMA GoOnInv ==
  ASSUME CallsInv, run.pc \in CallLabels \ {"fill"},
         status' \in StatusType, blocked' \in [Tid -> BOOLEAN],
         NEW label \in LockLoop \cup {"barrier_return"}, PlaceOK(label, call[run.own]),
         \/ LeaveAndYield(label)
         \/ /\ run' = [run EXCEPT !.pc = label]
            /\ UNCHANGED <<sameThreads, sigalrm_blocked, csVars>>
  PROVE  CallsInv'
<1>1. /\ UNCHANGED <<sameThreads, new_set, old_set, call>>
      /\ sigalrm_blocked' \in {old_set, sigalrm_blocked}
  BY DEF LeaveAndYield, csVars
<1>2. label \in Labels /\ "schedule" \in Labels /\ run \in Continuation
  BY CallLabelsIn, LabelsIn DEF CallLabels, LockLoop, CallsInv, SchedInv, SchedTypeOK
<1>3. /\ run' \in Continuation /\ run'.own = run.own
      /\ \/ run'.pc = "schedule" /\ run'.ret = label
         \/ run'.pc = label /\ run'.ret = run.ret
  BY <1>2 DEF LeaveAndYield, Continuation
<1>4. PlaceOf(run') = label
  BY <1>3 DEF PlaceOf, InSchedule, LockLoop
<1>5. /\ sigalrm_blocked' \in BOOLEAN /\ new_set' \in BOOLEAN /\ old_set' \in BOOLEAN
      /\ run'.pc \notin Windows \cup {"exit0"}
      /\ run'.ret \notin Windows
  BY <1>1, <1>3 DEF CallsInv, CSTypeOK, SchedInv, SchedTypeOK, RunningInv, Windows,
     LockLoop
<1>6. call[run.own] \in Calls \cup {NoCall}
      /\ call' = [call EXCEPT ![run.own] = call[run.own]]
  BY <1>1, CallerIsActive DEF CallsInv, CSTypeOK
<1>7. YieldInv'
  BY <1>3 DEF YieldInv, InSchedule, LockLoop, Suspendable
<1>8. MaskInv'
  BY <1>1, <1>3 DEF CallsInv, MaskInv, LockLoop, Bodies, MutexOps, BarrierOps
<1> QED
  BY <1>1, <1>3, <1>4, <1>5, <1>6, <1>7, <1>8, StepInCall

-----------------------------------------------------------------------------
(* The steps outside of calls.                                             *)

\* Creating a thread, ending one, and ending the process.
LEMMA OutsideInv ==
  ASSUME CallsInv, Calm, UNCHANGED csVars,
         CreatePick \/ CreateClaim \/ CreatePublish \/ Exit \/ ProcessExit \/ Stopped
  PROVE  CallsInv'
<1>0. Quiet /\ SchedNext
  BY DEF Calm, SchedNext, LibraryStep
<1>1. SchedInv'
  BY <1>0, SchedStepInv DEF CallsInv
<1>2. CSTypeOK'
  BY DEF CallsInv, CSTypeOK, csVars
<1>3. /\ run \in Continuation /\ run.own \in Tid /\ run.id \in Tid
      /\ current_running_thread \in Tid
      /\ thread_id_available \in [Tid -> BOOLEAN]
      /\ jump_buf \in [Tid -> Continuation \cup {NoCtx}]
  BY DEF CallsInv, SchedInv, SchedTypeOK, Continuation
<1>4. CASE CreatePick
  <2>1. /\ run.pc = "user" /\ run'.own = run.own /\ run'.pc = "picked"
        /\ UNCHANGED <<thread_id_available, jump_buf>>
    BY <1>3, <1>4 DEF CreatePick, Running, Continuation
  <2>2. ASSUME NEW t \in Tid
        PROVE  /\ Active(t)' <=> Active(t)
               /\ Place(t)' = IF t = run.own THEN "picked" ELSE Place(t)
    BY <2>1 DEF Active, Exists, Fresh, Place, PlaceOf, InSchedule
  <2>3. PlaceOK(Place(run.own), call[run.own]) => PlaceOK("picked", call[run.own])
    BY <2>1 DEF PlaceOK, Place, PlaceOf, InSchedule, Outside, Bodies, MutexOps,
       BarrierOps, LockLoop
  <2>5. PlaceInv'
    <3> SUFFICES ASSUME NEW t \in Tid
                 PROVE  /\ ~Active(t) => call[t] = NoCall
                        /\ Active(t) => PlaceOK(Place(t)', call[t])
                        /\ Active(t) /\ t # run.own => Place(t)' \in Suspendable
      BY <2>1, <2>2 DEF PlaceInv, PlaceOK, csVars
    <3> QED
      BY <2>2, <2>3 DEF CallsInv, PlaceInv
  <2>6. YieldInv' /\ MaskInv'
    BY <2>1 DEF CallsInv, YieldInv, MaskInv, InSchedule, Bodies, MutexOps, BarrierOps,
       csVars
  <2> QED
    BY <1>1, <1>2, <2>5, <2>6 DEF CallsInv
<1>5. CASE CreateClaim
  <2>1. /\ run.pc = "picked" /\ run'.own = run.own /\ run'.pc = "claimed"
        /\ run'.id = run.id
        /\ thread_id_available' = [thread_id_available EXCEPT ![run.id] = ~@]
        /\ UNCHANGED jump_buf
    BY <1>3, <1>5 DEF CreateClaim, Running, Continuation
  <2>2. ~Exists(run.id) /\ Exists(run.own)
    BY <2>1 DEF CallsInv, SchedInv, CreateInv, RunningInv
  <2>3. ASSUME NEW t \in Tid
        PROVE  /\ Active(t)' <=> Active(t)
               /\ Place(t)' = IF t = run.own THEN "claimed" ELSE Place(t)
    BY <1>3, <2>1, <2>2 DEF Active, Exists, Fresh, Place, PlaceOf, InSchedule
  <2>4. PlaceOK(Place(run.own), call[run.own]) => PlaceOK("claimed", call[run.own])
    BY <2>1 DEF PlaceOK, Place, PlaceOf, InSchedule, Outside, Bodies, MutexOps,
       BarrierOps, LockLoop
  <2>5. PlaceInv'
    <3> SUFFICES ASSUME NEW t \in Tid
                 PROVE  /\ ~Active(t) => call[t] = NoCall
                        /\ Active(t) => PlaceOK(Place(t)', call[t])
                        /\ Active(t) /\ t # run.own => Place(t)' \in Suspendable
      BY <2>1, <2>3 DEF PlaceInv, PlaceOK, csVars
    <3> QED
      BY <2>3, <2>4 DEF CallsInv, PlaceInv
  <2>6. YieldInv' /\ MaskInv'
    BY <2>1 DEF CallsInv, YieldInv, MaskInv, InSchedule, Bodies, MutexOps, BarrierOps,
       csVars
  <2> QED
    BY <1>1, <1>2, <2>5, <2>6 DEF CallsInv
<1>6. CASE CreatePublish
  <2>1. /\ run.pc = "claimed" /\ run' = At(run.own, "user")
        /\ jump_buf' = [jump_buf EXCEPT ![run.id] = At(run.id, "user")]
        /\ UNCHANGED thread_id_available
    BY <1>6 DEF CreatePublish, Running
  <2>2. /\ run'.own = run.own /\ run'.pc = "user"
        /\ jump_buf'[run.id] = At(run.id, "user") /\ jump_buf'[run.id].pc = "user"
    BY <1>3, <2>1 DEF At
  <2>3. Exists(run.id) /\ run.id # run.own /\ Exists(run.own) /\ Active(run.own)
    BY <2>1 DEF CallsInv, SchedInv, CreateInv, RunningInv, Active, Fresh
  <2>4. ASSUME NEW t \in Tid, t # run.id
        PROVE  /\ Active(t)' <=> Active(t)
               /\ t # run.own => Place(t)' = Place(t)
    BY <1>3, <2>1, <2>2, <2>4 DEF Active, Exists, Fresh, Place, PlaceOf
  <2>5. /\ ~Active(run.id) /\ Place(run.own) = "claimed"
        /\ \A t \in Tid : t \in {run.id, run.own} => Place(t)' = "user"
    BY <2>1, <2>2, <2>3 DEF Active, Fresh, Place, PlaceOf, InSchedule
  <2>6. PlaceOK("user", NoCall)
    BY DEF PlaceOK, Outside, Bodies, MutexOps, BarrierOps, LockLoop
  <2>7. call[run.id] = NoCall /\ call[run.own] = NoCall
    BY <1>3, <2>3, <2>5 DEF CallsInv, PlaceInv, PlaceOK, Outside
  <2>8. PlaceInv'
    <3> SUFFICES ASSUME NEW t \in Tid
                 PROVE  /\ ~Active(t)' => call[t] = NoCall
                        /\ Active(t)' => PlaceOK(Place(t)', call[t])
                        /\ Active(t)' /\ t # run.own => Place(t)' \in Suspendable
      BY <2>2 DEF PlaceInv, PlaceOK, csVars
    <3>1. CASE t = run.id
      BY <2>1, <2>2, <2>3, <2>5, <2>6, <2>7, <3>1 DEF Suspendable, Active, Exists, Fresh
    <3>2. CASE t = run.own
      BY <2>3, <2>4, <2>5, <2>6, <2>7, <3>2
    <3>3. CASE t # run.id /\ t # run.own
      BY <2>4, <3>3 DEF CallsInv, PlaceInv
    <3> QED
      BY <3>1, <3>2, <3>3
  <2>9. YieldInv' /\ MaskInv'
    BY <2>1, <2>2 DEF CallsInv, YieldInv, MaskInv, InSchedule, Bodies, MutexOps,
       BarrierOps, csVars
  <2> QED
    BY <1>1, <1>2, <2>8, <2>9 DEF CallsInv
<1>7. CASE Exit
  <2>1. run.pc = "user"
    BY <1>7 DEF Exit, Running
  <2>2. /\ current_running_thread = run.own /\ Exists(run.own) /\ Active(run.own)
        /\ PlaceOK("user", call[run.own])
    BY <2>1, CallerIsActive
  <2>3. /\ run'.own = run.own /\ run'.pc = "schedule"
        /\ thread_id_available' = [thread_id_available EXCEPT ![run.own] = ~@]
        /\ UNCHANGED jump_buf
    BY <1>3, <1>7, <2>2 DEF Exit, Continuation
  <2>4. ASSUME NEW t \in Tid
        PROVE  /\ t # run.own => Place(t)' = Place(t)
               /\ Active(t)' <=> Active(t) /\ t # run.own
    BY <1>3, <2>1, <2>2, <2>3 DEF Active, Exists, Fresh, Place, PlaceOf
  <2>5. call[run.own] = NoCall
    BY <2>2 DEF PlaceOK, Outside
  <2>6. PlaceInv'
    <3> SUFFICES ASSUME NEW t \in Tid
                 PROVE  /\ ~Active(t)' => call[t] = NoCall
                        /\ Active(t)' => PlaceOK(Place(t)', call[t])
                        /\ Active(t)' /\ t # run.own => Place(t)' \in Suspendable
      BY <2>3 DEF PlaceInv, PlaceOK, csVars
    <3> QED
      BY <2>4, <2>5 DEF CallsInv, PlaceInv
  <2>7. YieldInv' /\ MaskInv'
    BY <1>3, <2>1, <2>2, <2>3 DEF CallsInv, YieldInv, MaskInv, InSchedule, Bodies,
       MutexOps, BarrierOps, csVars, Exists
  <2> QED
    BY <1>1, <1>2, <2>6, <2>7 DEF CallsInv
<1>8. CASE ProcessExit \/ Stopped
  <2>1. UNCHANGED <<run, thread_id_available, jump_buf, sigalrm_blocked>>
    BY <1>8 DEF ProcessExit, Stopped, schedVars
  <2>2. PlaceInv'
    BY <2>1 DEF CallsInv, PlaceInv, Active, Fresh, Exists, Place, PlaceOf, PlaceOK,
       csVars
  <2>3. YieldInv' /\ MaskInv'
    BY <2>1 DEF CallsInv, YieldInv, MaskInv, csVars, Exists
  <2> QED
    BY <1>1, <1>2, <2>2, <2>3 DEF CallsInv
<1> QED
  BY <1>4, <1>5, <1>6, <1>7, <1>8

-----------------------------------------------------------------------------
(* The calls on mutexes and barriers.                                      *)

\* Whatever call the client makes is well formed.
LEMMA CallInv ==
  ASSUME CallsInv, MutexCall \/ BarrierCall
  PROVE  CallsInv'
<1>1. CASE MutexCall
  <2>1. PICK op \in MutexOps, m \in Mutexes : Enter(op, m)
    BY <1>1 DEF MutexCall, CallMutexInit, CallMutexDestroy, CallMutexLock,
       CallMutexUnlock, MutexOps
  <2>2. [op |-> op, obj |-> m] \in Calls
    BY DEF Calls
  <2> QED
    BY <2>1, <2>2, EnterInv
<1>2. CASE BarrierCall
  <2>1. PICK op \in BarrierOps, b \in Barriers : Enter(op, b)
    BY <1>2 DEF BarrierCall, CallBarrierInit, CallBarrierDestroy, CallBarrierWait,
       BarrierOps
  <2>2. [op |-> op, obj |-> b] \in Calls
    BY DEF Calls
  <2> QED
    BY <2>1, <2>2, EnterInv
<1> QED
  BY <1>1, <1>2

\* status and blocked have their types.
LEMMA StatusTypes ==
  CallsInv => status \in StatusType /\ blocked \in [Tid -> BOOLEAN]
BY DEF CallsInv, SchedInv, SchedTypeOK, StatusType

\* The bodies of the mutex calls, and the waiting loop of lock.
LEMMA MutexStepCallsInv ==
  ASSUME CallsInv, MutexStep
  PROVE  CallsInv'
<1>1. /\ UNCHANGED <<status, blocked>>
      /\ status' \in StatusType /\ blocked' \in [Tid -> BOOLEAN]
  BY StatusTypes DEF MutexStep, MutexInit, MutexDestroy, MutexLock, LockFirst, LockElem,
     LockTest, LockSet, MutexUnlock
<1>2. run.pc \in {"mutex_lock"} \cup LockLoop =>
        \A label \in LockLoop : PlaceOK(label, call[run.own])
  <2> SUFFICES ASSUME run.pc \in {"mutex_lock"} \cup LockLoop, NEW label \in LockLoop
               PROVE  PlaceOK(label, call[run.own])
    OBVIOUS
  <2>1. PlaceOK(run.pc, call[run.own])
    BY CallerIsActive DEF CallLabels, LockLoop
  <2> QED
    BY <2>1 DEF PlaceOK, LockLoop, Outside, CallLabels, Bodies, MutexOps, BarrierOps
<1>3. CASE /\ run.pc \in {"mutex_init", "mutex_destroy", "mutex_lock", "mutex_unlock"}
                           \cup LockLoop
           /\ Leave
  BY <1>1, <1>3, LeaveInv DEF CallLabels, LockLoop
<1>4. CASE /\ run.pc \in {"mutex_lock"} \cup LockLoop
           /\ \E label \in LockLoop :
                \/ LeaveAndYield(label)
                \/ /\ run' = [run EXCEPT !.pc = label]
                   /\ UNCHANGED <<sameThreads, sigalrm_blocked, csVars>>
  BY <1>1, <1>2, <1>4, GoOnInv DEF CallLabels, LockLoop
<1> QED
  BY <1>3, <1>4 DEF MutexStep, MutexInit, MutexDestroy, MutexLock, LockFirst, LockElem,
     LockTest, LockSet, MutexUnlock, Running, LockLoop

\* The bodies of the barrier calls.
LEMMA BarrierStepCallsInv ==
  ASSUME CallsInv, BarrierStep
  PROVE  CallsInv'
<1>1. /\ status' \in StatusType /\ blocked' \in [Tid -> BOOLEAN]
      /\ run.pc \in BarrierOps \cup {"barrier_return"}
  <2>1. CASE BarrierWait
    <3>1. current_running_thread \in Tid
      BY DEF CallsInv, SchedInv, SchedTypeOK
    <3> QED
      BY <2>1, <3>1, StatusTypes DEF BarrierWait, Running, BarrierOps, StatusType
  <2>2. CASE BarrierInit \/ BarrierDestroy \/ WaitDestroyed \/ BarrierReturn
    BY <2>2, StatusTypes DEF BarrierInit, BarrierDestroy, WaitDestroyed, BarrierReturn,
       ReturnFromYield, Running, BarrierOps
  <2> QED
    BY <2>1, <2>2 DEF BarrierStep
<1>2. run.pc \in CallLabels \ {"fill"}
  BY <1>1 DEF BarrierOps, CallLabels
<1>3. CASE Leave \/ ReturnFromYield("barrier_return")
  BY <1>1, <1>2, <1>3, LeaveInv
<1>4. CASE run.pc = "barrier_wait" /\ LeaveAndYield("barrier_return")
  <2>1. PlaceOK("barrier_wait", call[run.own])
    BY <1>2, <1>4, CallerIsActive
  <2>2. PlaceOK("barrier_return", call[run.own])
    BY <2>1 DEF PlaceOK, LockLoop, Outside, CallLabels, Bodies, MutexOps, BarrierOps
  <2> QED
    BY <1>1, <1>2, <1>4, <2>2, GoOnInv
<1> QED
  BY <1>3, <1>4 DEF BarrierStep, BarrierInit, BarrierDestroy, WaitDestroyed, BarrierWait,
     BarrierReturn, Running

\* CallsInv holds at the start.
LEMMA InitCallsInv == Init => CallsInv
<1> SUFFICES ASSUME Init PROVE CallsInv
  OBVIOUS
<1>1. SchedInv
  BY SchedInitInv DEF Init
<1>2. run = At(0, "user") /\ run.own = 0 /\ run.pc = "user"
  BY DEF Init, SchedInit, At
<1>3. CSTypeOK
  BY DEF Init, CSInit, CSTypeOK
<1>4. PlaceOK("user", NoCall)
  BY DEF PlaceOK, Outside, Bodies, MutexOps, BarrierOps, LockLoop
<1>5. PlaceInv
  BY <1>2, <1>4 DEF PlaceInv, Init, CSInit, SchedInit, Active, Exists, Place, PlaceOf,
     InSchedule
<1>6. YieldInv /\ MaskInv
  BY <1>2 DEF YieldInv, MaskInv, InSchedule, Bodies, MutexOps, BarrierOps, Init, CSInit
<1> QED
  BY <1>1, <1>3, <1>5, <1>6 DEF CallsInv

\* Every step keeps CallsInv.
LEMMA StepCallsInv ==
  ASSUME CallsInv, Calm, [Next]_vars
  PROVE  CallsInv'
<1>1. CASE Scheduling /\ UNCHANGED csVars
  BY <1>1, SchedulingCallsInv
<1>2. CASE /\ CreatePick \/ CreateClaim \/ CreatePublish \/ Exit \/ ProcessExit \/ Stopped
           /\ UNCHANGED csVars
  BY <1>2, OutsideInv
<1>3. CASE FillSet \/ BlockAlarm
  BY <1>3, FillAndBlockInv
<1>4. CASE MutexCall \/ BarrierCall
  BY <1>4, CallInv
<1>5. CASE MutexStep
  BY <1>5, MutexStepCallsInv
<1>6. CASE BarrierStep
  BY <1>6, BarrierStepCallsInv
<1>7. CASE UNCHANGED vars
  BY <1>7 DEF vars, schedVars, csVars, CallsInv, SchedInv, SchedTypeOK, RunningInv,
     SwitchInv, CreateInv, SavedInv, Resumable, CSTypeOK, PlaceInv, PlaceOK, Active,
     Fresh, Place, PlaceOf, YieldInv, MaskInv, Exists
<1> QED
  BY <1>1, <1>2, <1>3, <1>4, <1>5, <1>6, <1>7 DEF Next, ThreadStep, LibraryStep,
     Scheduling

-----------------------------------------------------------------------------
(* The data of mutexes and barriers.                                       *)

\* The argument of the call in progress.
LEMMA TargetType ==
  ASSUME CallsInv
  PROVE  /\ run.pc \in MutexOps \cup LockLoop =>
              Target \in Mutexes /\ call[run.own] \in Calls
         /\ run.pc \in BarrierOps \cup {"barrier_return"} =>
              Target \in Barriers /\ call[run.own] \in Calls
<1> SUFFICES ASSUME run.pc \in MutexOps \cup LockLoop \cup BarrierOps \cup {"barrier_return"}
             PROVE  /\ call[run.own] \in Calls
                    /\ run.pc \in MutexOps \cup LockLoop => Target \in Mutexes
                    /\ run.pc \in BarrierOps \cup {"barrier_return"} => Target \in Barriers
  OBVIOUS
<1>1. run.pc \in CallLabels
  BY DEF MutexOps, BarrierOps, LockLoop, CallLabels
<1>2. PlaceOK(run.pc, call[run.own]) /\ run.own \in Tid
  BY <1>1, CallerIsActive
<1>3. run.pc \notin Outside
  BY <1>1, CallLabelsIn
<1>4. call[run.own] \in Calls
  BY <1>2, <1>3 DEF PlaceOK, CallsInv, CSTypeOK
<1>5. /\ run.pc \in MutexOps \cup LockLoop => call[run.own].op \in MutexOps
      /\ run.pc \in BarrierOps \cup {"barrier_return"} => call[run.own].op \in BarrierOps
  BY <1>2 DEF PlaceOK, Bodies, MutexOps, BarrierOps, LockLoop
<1> QED
  BY <1>4, <1>5, CallType DEF Target

\* A sequence with one element taken out is a sequence over the same set.
LEMMA RemoveAtType ==
  ASSUME NEW S, NEW s \in Seq(S), NEW i \in 1 .. Len(s)
  PROVE  RemoveAt(s, i) \in Seq(S)
BY DEF RemoveAt

\* The list, the flags and the holders keep their types.
LEMMA MutexStepType ==
  ASSUME CallsInv, MutexTypeOK, MutexStep
  PROVE  MutexTypeOK'
<1>1. run.own \in Tid
  BY DEF CallsInv, SchedInv, SchedTypeOK, Continuation
<1>2. CASE MutexInit
  <2>1. Target \in Mutexes
    BY <1>2, TargetType DEF MutexInit, Running, MutexOps
  <2>2. CASE UNCHANGED mutexVars
    BY <2>2 DEF MutexTypeOK, mutexVars
  <2>3. CASE /\ mutex_list' = <<Target>> \o mutex_list
             /\ mutex_inUse' = [mutex_inUse EXCEPT ![Target] = FALSE]
             /\ UNCHANGED holds
    <3>1. mutex_list' \in Seq(Mutexes)
      BY <2>1, <2>3 DEF MutexTypeOK
    <3> QED
      BY <2>3, <3>1 DEF MutexTypeOK
  <2> QED
    BY <1>2, <2>2, <2>3 DEF MutexInit
<1>3. CASE MutexDestroy
  BY <1>3, RemoveAtType DEF MutexDestroy, MutexTypeOK
<1>4. CASE MutexLock \/ (\E e, test, set : LockTest(e, test, set))
  BY <1>4 DEF MutexLock, LockTest, MutexTypeOK, mutexVars
<1>5. CASE LockSet(Head(mutex_list), "first_set") \/ LockSet(Target, "elem_set")
  <2>1. Target \in Mutexes
    BY <1>5, TargetType DEF LockSet, Running, LockLoop
  <2>2. /\ UNCHANGED mutex_list
        /\ \E e : mutex_inUse' = [mutex_inUse EXCEPT ![e] = TRUE]
        /\ holds' = [holds EXCEPT ![Target] = @ \cup {run.own}]
    BY <1>5 DEF LockSet
  <2>3. mutex_inUse' \in [Mutexes -> BOOLEAN]
    BY <2>2 DEF MutexTypeOK
  <2>4. holds' \in [Mutexes -> SUBSET Tid]
    BY <1>1, <2>1, <2>2 DEF MutexTypeOK
  <2> QED
    BY <2>2, <2>3, <2>4 DEF MutexTypeOK
<1>6. CASE MutexUnlock
  BY <1>6 DEF MutexUnlock, MutexTypeOK
<1> QED
  BY <1>2, <1>3, <1>4, <1>5, <1>6 DEF MutexStep, LockFirst, LockElem

\* One element of a sequence changes: its length and the others do not.
LEMMA ElementChange ==
  ASSUME NEW S, NEW s \in Seq(S), NEW i \in 1 .. Len(s), NEW e \in S
  PROVE  /\ [s EXCEPT ![i] = e] \in Seq(S)
         /\ Len([s EXCEPT ![i] = e]) = Len(s)
OBVIOUS

\* The slot of the barrier in use, once it has been initialised.
LEMMA BarrierStepType ==
  ASSUME CallsInv, BarrierTypeOK, BarrierStep
  PROVE  BarrierTypeOK' /\ Len(slots) <= Len(slots')
<1>1. current_running_thread \in Tid
  BY DEF CallsInv, SchedInv, SchedTypeOK
<1>2. CASE BarrierInit
  <2>1. PICK count \in Counts \ {0} :
          slots' = Append(slots, [orig |-> count, waiting |-> << >>, destroyed |-> FALSE])
    BY <1>2 DEF BarrierInit
  <2>2. [orig |-> count, waiting |-> << >>, destroyed |-> FALSE] \in Slot
    BY CountsAssumption DEF Slot
  <2>3. slots' \in Seq(Slot) /\ Len(slots') = Len(slots) + 1
    BY <2>1, <2>2 DEF BarrierTypeOK
  <2>4. handle' = [handle EXCEPT ![Target] = Len(slots) + 1]
    BY <1>2 DEF BarrierInit
  <2>5. Len(slots) \in Nat /\ Len(slots) + 1 \in 0 .. Len(slots')
    BY <2>3 DEF BarrierTypeOK
  <2>6. handle' \in [Barriers -> 0 .. Len(slots')]
    <3>1. handle \in [Barriers -> 0 .. Len(slots')]
      BY <2>3, <2>5 DEF BarrierTypeOK
    <3> QED
      BY <2>4, <2>5, <3>1
  <2> QED
    BY <2>3, <2>5, <2>6 DEF BarrierTypeOK
<1>3. CASE BarrierDestroy \/ BarrierWait
  <2>1. Target \in Barriers
    BY <1>3, TargetType DEF BarrierDestroy, BarrierWait, Running, BarrierOps
  <2>2. handle[Target] \in 0 .. Len(slots) /\ Len(slots) \in Nat /\ UNCHANGED handle
    BY <1>3, <2>1 DEF BarrierTypeOK, BarrierDestroy, BarrierWait
  <2>3. CASE handle[Target] = 0
    <3>1. slots' = slots
      BY <1>3, <2>2, <2>3 DEF BarrierDestroy, BarrierWait, BarrierTypeOK
    <3> QED
      BY <2>2, <3>1 DEF BarrierTypeOK
  <2>4. CASE handle[Target] \in 1 .. Len(slots)
    <3>1. slots[handle[Target]] \in Slot
      BY <2>4 DEF BarrierTypeOK
    <3>2. Append(slots[handle[Target]].waiting, current_running_thread) \in Seq(Tid)
      BY <1>1, <3>1 DEF Slot
    <3> DEFINE i       == handle[Target]
               arrived == Append(slots[i].waiting, current_running_thread)
    <3>3. \/ slots' = [slots EXCEPT ![i] = [slots[i] EXCEPT !.destroyed = TRUE]]
          \/ slots' = [slots EXCEPT ![i] = [slots[i] EXCEPT !.waiting = << >>]]
          \/ slots' = [slots EXCEPT ![i] = [slots[i] EXCEPT !.waiting = arrived]]
      BY <1>3 DEF BarrierDestroy, BarrierWait
    <3>4. i \in 1 .. Len(slots) /\ arrived \in Seq(Tid) /\ << >> \in Seq(Tid)
      BY <2>4, <3>2
    <3> HIDE DEF i, arrived
    <3>5. \E e \in Slot : slots' = [slots EXCEPT ![i] = e]
      <4>1. /\ [slots[i] EXCEPT !.destroyed = TRUE] \in Slot
            /\ [slots[i] EXCEPT !.waiting = << >>] \in Slot
            /\ [slots[i] EXCEPT !.waiting = arrived] \in Slot
        BY <3>1, <3>4 DEF Slot, i
      <4> QED
        BY <3>3, <4>1
    <3>6. slots' \in Seq(Slot) /\ Len(slots') = Len(slots)
      BY <3>4, <3>5, ElementChange DEF BarrierTypeOK
    <3> QED
      BY <2>2, <3>6 DEF BarrierTypeOK
  <2> QED
    BY <2>2, <2>3, <2>4
<1>4. CASE WaitDestroyed \/ BarrierReturn
  BY <1>4 DEF WaitDestroyed, BarrierReturn, BarrierTypeOK, barrierVars
<1> QED
  BY <1>2, <1>3, <1>4 DEF BarrierStep

-----------------------------------------------------------------------------
(* What the other threads notice.                                          *)

OutsideStep == CreatePick \/ CreateClaim \/ CreatePublish \/ Exit \/ ProcessExit

CallStep == FillSet \/ BlockAlarm \/ MutexCall \/ BarrierCall \/ MutexStep
            \/ BarrierStep

\* When nothing runs any more, nothing is noted either.
LEMMA StoppedStays ==
  ASSUME Stopped, NoteAlone, UNCHANGED <<csVars, mutexVars, barrierVars>>
  PROVE  UNCHANGED vars
<1>1. ~ScheduleReturn
  BY DEF Stopped, ScheduleReturn, Running
<1>2. UNCHANGED schedVars /\ UNCHANGED alone
  BY <1>1 DEF Stopped, NoteAlone
<1> QED
  BY <1>2 DEF vars

\* Every step is one of scheduling, one outside of calls or one of a call.
LEMMA StepKinds ==
  ASSUME [Next]_vars
  PROVE  \/ Scheduling /\ UNCHANGED <<csVars, mutexVars, barrierVars>>
         \/ OutsideStep /\ UNCHANGED <<csVars, mutexVars, barrierVars>>
         \/ CallStep
         \/ UNCHANGED vars
<1>1. CASE Stopped /\ NoteAlone /\ UNCHANGED <<csVars, mutexVars, barrierVars>>
  BY <1>1, StoppedStays
<1>2. CASE ~(Stopped /\ NoteAlone /\ UNCHANGED <<csVars, mutexVars, barrierVars>>)
  BY <1>2 DEF Next, ThreadStep, LibraryStep, Scheduling, OutsideStep, CallStep, vars
<1> QED
  BY <1>1, <1>2

\* A step of a call is one of the thread that executes and moves no other.
LEMMA CallStepStays ==
  ASSUME CallsInv, CallStep
  PROVE  /\ run.own \in Tid /\ run'.own = run.own
         /\ run.pc \in {"user"} \cup CallLabels
         /\ run'.pc \in {"user", "schedule"} \cup CallLabels
         /\ UNCHANGED sameThreads
         /\ \A t \in Tid : /\ Active(t)' <=> Active(t)
                           /\ t # run.own => Place(t)' = Place(t) /\ call'[t] = call[t]
         /\ Active(run.own)
<1>1. /\ run.pc \in {"user"} \cup CallLabels
      /\ UNCHANGED sameThreads
      /\ \/ run' = At(run.own, "user")
         \/ \E label \in CallLabels : run' = [run EXCEPT !.pc = label]
         \/ \E label : run' = [run EXCEPT !.pc = "schedule", !.ret = label]
         \/ BlockAlarm
      /\ \/ UNCHANGED call
         \/ \E c : call' = [call EXCEPT ![run.own] = c]
  <2>1. CASE FillSet \/ BlockAlarm \/ MutexCall \/ BarrierCall
    BY <2>1 DEF FillSet, BlockAlarm, MutexCall, BarrierCall, CallMutexInit,
       CallMutexDestroy, CallMutexLock, CallMutexUnlock, CallBarrierInit,
       CallBarrierDestroy, CallBarrierWait, Enter, Running, CallLabels
  <2>2. CASE MutexStep
    BY <2>2 DEF MutexStep, MutexInit, MutexDestroy, MutexLock, LockFirst, LockElem,
       LockTest, LockSet, MutexUnlock, Leave, LeaveAndYield, Running, CallLabels, csVars
  <2>3. CASE BarrierStep
    BY <2>3 DEF BarrierStep, BarrierInit, BarrierDestroy, WaitDestroyed, BarrierWait,
       BarrierReturn, ReturnFromYield, Leave, LeaveAndYield, Running, CallLabels, csVars
  <2> QED
    BY <2>1, <2>2, <2>3 DEF CallStep
<1>2. run.own \in Tid /\ run \in Continuation /\ Active(run.own)
  BY <1>1, CallerIsActive DEF CallsInv, SchedInv, SchedTypeOK
<1>3. run'.own = run.own /\ run'.pc \in {"user", "schedule"} \cup CallLabels
  <2>1. CASE BlockAlarm
    <3>1. CallsInv'
      BY <2>1, FillAndBlockInv
    <3>2. run.pc = "block" /\ run' = [run EXCEPT !.pc = call[run.own].op]
      BY <2>1 DEF BlockAlarm, Running
    <3>3. PlaceOK("block", call[run.own])
      BY <1>1, <3>2, CallerIsActive
    <3>4. call[run.own] \in Calls
      BY <1>2, <3>3 DEF PlaceOK, Outside, CallsInv, CSTypeOK
    <3> QED
      BY <1>2, <3>2, <3>4, CallType, CallLabelsIn DEF Continuation
  <2>2. CASE run' = At(run.own, "user")
    BY <2>2 DEF At
  <2>3. CASE \E label \in CallLabels : run' = [run EXCEPT !.pc = label]
    <3>1. PICK label \in CallLabels : run' = [run EXCEPT !.pc = label]
      BY <2>3
    <3>2. run'.own = run.own /\ run'.pc = label
      BY <1>2, <3>1 DEF Continuation
    <3> QED
      BY <3>2
  <2>4. CASE \E label : run' = [run EXCEPT !.pc = "schedule", !.ret = label]
    BY <1>2, <2>4 DEF Continuation
  <2> QED
    BY <1>1, <2>1, <2>2, <2>3, <2>4
<1>4. \A t \in Tid : t # run.own => call'[t] = call[t]
  BY <1>1, <1>2 DEF CallsInv, CSTypeOK
<1>5. \A t \in Tid : ~Fresh(t) /\ ~Fresh(t)'
  BY <1>1, <1>3, CallerIsActive DEF Fresh, CallLabels
<1> QED
  BY <1>1, <1>2, <1>3, <1>4, <1>5 DEF Active, Exists, sameThreads, Place, PlaceOf

\* Threads are created and end without moving a thread that is in a call.
LEMMA OutsideStays ==
  ASSUME CallsInv, OutsideStep, UNCHANGED csVars
  PROVE  /\ run'.own = run.own
         /\ run.pc \notin LockLoop
         /\ \A t \in Tid : call[t] # NoCall => /\ t # run.own
                                               /\ Active(t) /\ Active(t)'
                                               /\ Place(t)' = Place(t)
<1>1. /\ run \in Continuation /\ run.own \in Tid /\ run.id \in Tid
      /\ thread_id_available \in [Tid -> BOOLEAN]
      /\ jump_buf \in [Tid -> Continuation \cup {NoCtx}]
      /\ run.pc # "switch" => current_running_thread = run.own
      /\ run.pc = "picked" => ~Exists(run.id)
  BY DEF CallsInv, SchedInv, SchedTypeOK, Continuation, RunningInv, CreateInv
<1>2. run.pc \in Outside \cup {"exit0"} /\ run.pc \notin InSchedule
  BY DEF OutsideStep, CreatePick, CreateClaim, CreatePublish, Exit, ProcessExit,
     Running, Outside, InSchedule
<1>3. run'.own = run.own /\ run.pc \notin LockLoop
  <2>1. run.pc \notin LockLoop
    BY <1>2 DEF Outside, LockLoop
  <2>2. CASE CreatePick
    BY <1>1, <2>1, <2>2 DEF CreatePick, Continuation
  <2>3. CASE CreateClaim \/ Exit
    BY <1>1, <2>1, <2>3 DEF CreateClaim, Exit, Continuation
  <2>4. CASE CreatePublish \/ ProcessExit
    BY <2>1, <2>4 DEF CreatePublish, ProcessExit, At
  <2> QED
    BY <2>1, <2>2, <2>3, <2>4 DEF OutsideStep
<1>4. call[run.own] = NoCall
  <2>1. CASE ~Active(run.own)
    BY <1>1, <2>1 DEF CallsInv, PlaceInv
  <2>2. CASE Active(run.own)
    <3>1. PlaceOK(run.pc, call[run.own])
      BY <1>1, <1>2, <2>2 DEF CallsInv, PlaceInv, Place, PlaceOf
    <3>2. run.pc \in Outside
      BY <1>2, <3>1, CallLabelsIn DEF PlaceOK
    <3> QED
      BY <3>1, <3>2 DEF PlaceOK
  <2> QED
    BY <2>1, <2>2
<1>5. ASSUME NEW t \in Tid, call[t] # NoCall
      PROVE  t # run.own /\ Active(t) /\ Active(t)' /\ Place(t)' = Place(t)
  <2>1. t # run.own /\ Active(t)
    BY <1>4, <1>5 DEF CallsInv, PlaceInv
  <2>2. CASE CreatePick
    BY <1>1, <1>3, <2>1, <2>2 DEF CreatePick, Running, Active, Exists, Fresh, Place,
       Continuation
  <2>3. CASE CreateClaim
    <3>1. run'.pc = "claimed" /\ run'.id = run.id /\ run.pc = "picked"
          /\ thread_id_available' = [thread_id_available EXCEPT ![run.id] = ~@]
          /\ UNCHANGED jump_buf
      BY <1>1, <2>3 DEF CreateClaim, Running, Continuation
    <3> QED
      BY <1>1, <1>3, <2>1, <3>1 DEF Active, Exists, Fresh, Place
  <2>4. CASE CreatePublish
    <3>1. /\ jump_buf' = [jump_buf EXCEPT ![run.id] = At(run.id, "user")]
          /\ run.pc = "claimed" /\ run'.pc = "user"
          /\ UNCHANGED thread_id_available
      BY <2>4 DEF CreatePublish, Running, At
    <3> QED
      BY <1>1, <1>3, <2>1, <3>1 DEF Active, Exists, Fresh, Place
  <2>5. CASE Exit
    <3>1. run'.pc = "schedule" /\ run.pc = "user"
          /\ thread_id_available' =
               [thread_id_available EXCEPT ![current_running_thread] = ~@]
          /\ UNCHANGED jump_buf
      BY <1>1, <2>5 DEF Exit, Running, Continuation
    <3> QED
      BY <1>1, <1>3, <2>1, <3>1 DEF Active, Exists, Fresh, Place
  <2>6. CASE ProcessExit
    BY <2>1, <2>6 DEF ProcessExit, Active, Exists, Fresh, Place
  <2> QED
    BY <2>2, <2>3, <2>4, <2>5, <2>6 DEF OutsideStep
<1> QED
  BY <1>3, <1>5

-----------------------------------------------------------------------------
(* The theorems.                                                           *)

\* Whatever the client calls and wherever else the signal lands, every thread
\* that exists stands where the call it is in has brought it.
THEOREM CallsInvariant ==
  ASSUME Calm
  PROVE  Spec => []CallsInv
<1>1. Init => CallsInv
  BY InitCallsInv
<1>2. CallsInv /\ [Next]_vars => CallsInv'
  BY StepCallsInv
<1> QED
  BY <1>1, <1>2, PTL DEF Spec

\* Every variable of the library keeps its type.
THEOREM TypeCorrect ==
  ASSUME Calm
  PROVE  Spec => []TypeOK
<1> DEFINE Data == MutexTypeOK /\ BarrierTypeOK /\ alone \in BOOLEAN
<1>1. Init => Data
  <2> SUFFICES ASSUME Init PROVE Data
    OBVIOUS
  <2>1. MutexTypeOK /\ BarrierTypeOK
    BY DEF Init, MutexVarsInit, BarrierVarsInit, MutexTypeOK, BarrierTypeOK
  <2>2. alone \in BOOLEAN
    BY DEF Init
  <2> QED
    BY <2>1, <2>2
<1>2. CallsInv /\ Data /\ [Next]_vars => Data'
  <2> SUFFICES ASSUME CallsInv, Data, [Next]_vars PROVE Data'
    OBVIOUS
  <2>1. UNCHANGED mutexVars => MutexTypeOK'
    BY DEF mutexVars, MutexTypeOK
  <2>2. UNCHANGED barrierVars => BarrierTypeOK'
    BY DEF barrierVars, BarrierTypeOK
  <2> QED
    BY <2>1, <2>2, MutexStepType, BarrierStepType DEF Next, NoteAlone, vars
<1>3. CallsInv /\ Data => TypeOK
  BY CallLabelsIn DEF CallsInv, SchedInv, CSTypeOK, Calls, TypeOK, Bodies
<1> HIDE DEF Data
<1> QED
  BY <1>1, <1>2, <1>3, CallsInvariant, PTL DEF Spec

\* With mutexes and barriers calling schedule() as well, every existing thread
\* still can be resumed on its own stack.
THEOREM CallsKeepContextIntegrity ==
  ASSUME Calm
  PROVE  Spec => []ContextIntegrity
<1>1. CallsInv => ContextIntegrity
  BY DEF CallsInv, SchedInv, RunningInv, SavedInv, ContextIntegrity
<1> QED
  BY <1>1, CallsInvariant, PTL

-----------------------------------------------------------------------------
(* Mutexes.                                                                *)

TakePoints == {"first_set", "elem_set"}

\* The signal also stays out of the moment between finding a mutex free and
\* taking it, and no mutex is initialised during somebody's lock.
Careful == Calm /\ TakePoints \cap AlarmPoints = {} /\ ~InitWhileLocking

\* What the clients' calls have in common at any time.
RulesInv ==
  \A t, u \in Tid : \A m, l \in Mutexes :
    /\ Doing(t, "mutex_destroy", m) => /\ ~Doing(u, "mutex_init", m)
                                       /\ ~Doing(u, "mutex_lock", m)
    /\ Doing(t, "mutex_init", m) => ~Doing(u, "mutex_lock", l)
    /\ Doing(t, "mutex_unlock", m) => t \in holds[m]

\* A thread that has found its mutex in the list, t standing at w with m.
LockOK(t, w, m) ==
  /\ Listed(m)
  /\ w \in {"first_test", "first_set"} => mutex_list[1] = m
  /\ w \in TakePoints => t = run.own /\ run.pc = w /\ ~mutex_inUse[m]

LockInv ==
  \A t \in Tid : Active(t) /\ Place(t) \in LockLoop => LockOK(t, Place(t), call[t].obj)

HoldInv ==
  \A m \in Mutexes : /\ holds[m] # {} => Listed(m) /\ mutex_inUse[m]
                     /\ \A t, u \in holds[m] : t = u

MutexInv == CallsInv /\ MutexTypeOK /\ RulesInv /\ LockInv /\ HoldInv

-----------------------------------------------------------------------------
(* Steps that leave the mutexes alone.                                     *)

\* Scheduling keeps the place of everybody, and finds nobody about to take.
LEMMA SchedulingMutexInv ==
  ASSUME MutexInv, Careful, Scheduling, UNCHANGED <<csVars, mutexVars>>
  PROVE  MutexInv'
<1>1. CallsInv /\ Calm /\ Quiet
  BY DEF MutexInv, Careful, Calm
<1>2. CallsInv'
  BY <1>1, SchedulingCallsInv
<1>3. MutexTypeOK' /\ RulesInv' /\ HoldInv'
  BY DEF MutexInv, MutexTypeOK, RulesInv, HoldInv, Doing, Listed, csVars, mutexVars
<1>4. /\ \A t \in Tid : Active(t)' => Active(t)
      /\ \A t \in Tid : Active(t) => Place(t)' = Place(t)
  BY <1>1, SchedulingMovesNobody DEF Active, Exists
<1>5. run.pc \notin TakePoints
  BY DEF Scheduling, ScheduleScan, ScheduleReturn, ScheduleAssign, ScheduleSwitch,
     Running, Alarm, Careful, TakePoints
<1>6. ASSUME NEW t \in Tid, Active(t)', Place(t)' \in LockLoop
      PROVE  /\ Place(t)' = Place(t) /\ Place(t) \notin TakePoints
             /\ Listed(call[t].obj)
             /\ Place(t) \in {"first_test", "first_set"} => mutex_list[1] = call[t].obj
  BY <1>4, <1>5, <1>6 DEF MutexInv, LockInv, LockOK
<1>7. LockInv'
  BY <1>6 DEF LockInv, LockOK, Listed, csVars, mutexVars
<1> QED
  BY <1>2, <1>3, <1>7 DEF MutexInv

\* So do the creation and the end of threads.
LEMMA OutsideMutexInv ==
  ASSUME MutexInv, Careful, OutsideStep, UNCHANGED <<csVars, mutexVars>>
  PROVE  MutexInv'
<1>1. CallsInv /\ Calm /\ UNCHANGED csVars
  BY DEF MutexInv, Careful
<1>2. CallsInv'
  BY <1>1, OutsideInv DEF OutsideStep
<1>3. MutexTypeOK' /\ RulesInv' /\ HoldInv'
  BY DEF MutexInv, MutexTypeOK, RulesInv, HoldInv, Doing, Listed, csVars, mutexVars
<1>4. ASSUME NEW t \in Tid, Active(t)', Place(t)' \in LockLoop
      PROVE  Active(t) /\ Place(t)' = Place(t) /\ t # run.own
  <2>1. PlaceOK(Place(t), call[t])'
    BY <1>2, <1>4 DEF CallsInv, PlaceInv
  <2>2. call'[t] # NoCall
    BY <1>4, <2>1 DEF PlaceOK, Outside, LockLoop
  <2>3. call[t] # NoCall
    BY <1>1, <2>2 DEF csVars
  <2> QED
    BY <1>1, <2>3, OutsideStays
<1>5. ASSUME NEW t \in Tid, Active(t)', Place(t)' \in LockLoop
      PROVE  /\ Place(t)' = Place(t) /\ Place(t) \notin TakePoints
             /\ Listed(call[t].obj)
             /\ Place(t) \in {"first_test", "first_set"} => mutex_list[1] = call[t].obj
  BY <1>4, <1>5 DEF MutexInv, LockInv, LockOK
<1>6. LockInv'
  BY <1>5 DEF LockInv, LockOK, Listed, csVars, mutexVars
<1> QED
  BY <1>2, <1>3, <1>6 DEF MutexInv

-----------------------------------------------------------------------------
(* Steps of a call.                                                        *)

\* A thread in the loop of pthread_mutex_lock is in a call of it.
LEMMA InTheLoop ==
  ASSUME CallsInv, NEW t \in Tid, Active(t), Place(t) \in LockLoop
  PROVE  call[t].obj \in Mutexes /\ Doing(t, "mutex_lock", call[t].obj)
<1>1. PlaceOK(Place(t), call[t])
  BY DEF CallsInv, PlaceInv
<1>2. call[t] \in Calls /\ call[t].op = "mutex_lock"
  BY <1>1 DEF PlaceOK, Outside, LockLoop, CallsInv, CSTypeOK
<1> QED
  BY <1>2, CallType DEF Calls, Doing, MutexOps, BarrierOps

\* The thread that executes a mutex body or the loop of lock, and its mutex.
LEMMA TargetDoing ==
  ASSUME CallsInv, run.pc \in MutexOps \cup LockLoop
  PROVE  /\ run.own \in Tid /\ Active(run.own) /\ Place(run.own) = run.pc
         /\ Target \in Mutexes /\ Target = call[run.own].obj
         /\ Doing(run.own, call[run.own].op, Target)
         /\ run.pc \in MutexOps => Doing(run.own, run.pc, Target)
         /\ run.pc \in LockLoop => Doing(run.own, "mutex_lock", Target)
<1>1. run.pc \in CallLabels
  BY DEF MutexOps, LockLoop, CallLabels
<1>2. /\ PlaceOK(run.pc, call[run.own]) /\ run.own \in Tid /\ Active(run.own)
      /\ run.pc \notin InSchedule
  BY <1>1, CallerIsActive
<1>3. call[run.own] \in Calls /\ Target \in Mutexes
  BY TargetType
<1>4. call[run.own] = [op |-> call[run.own].op, obj |-> Target]
  BY <1>3 DEF Calls, Target
<1>5. /\ run.pc \in MutexOps => call[run.own].op = run.pc
      /\ run.pc \in LockLoop => call[run.own].op = "mutex_lock"
  BY <1>2 DEF PlaceOK, Bodies
<1> QED
  BY <1>2, <1>3, <1>4, <1>5 DEF Doing, Target, Place, PlaceOf

\* The threads in the loop of lock, after a step of a call: the others need
\* their mutexes in the list, and first if they were first.
LEMMA LockStepInv ==
  ASSUME MutexInv, CallStep,
         \A t \in Tid \ {run.own} : \A m \in Mutexes :
           Doing(t, "mutex_lock", m) /\ Listed(m)
             => Listed(m)' /\ (mutex_list[1] = m => mutex_list'[1] = m),
         PlaceOf(run') \in LockLoop
           => LockOK(run.own, PlaceOf(run), call[run.own].obj)'
  PROVE  LockInv'
<1>1. /\ run.own \in Tid /\ run'.own = run.own
      /\ \A t \in Tid : /\ Active(t)' => Active(t)
                        /\ t # run.own => Place(t)' = Place(t) /\ call'[t] = call[t]
  BY CallStepStays DEF MutexInv
<1> SUFFICES ASSUME NEW t \in Tid, Active(t)', Place(t)' \in LockLoop
             PROVE  LockOK(t, Place(t), call[t].obj)'
  BY DEF LockInv
<1>2. CASE t = run.own
  <2>1. Place(t)' = PlaceOf(run')
    BY <1>1, <1>2 DEF Place, PlaceOf
  <2> QED
    BY <1>1, <1>2, <2>1 DEF LockOK, PlaceOf
<1>3. CASE t # run.own
  <2>1. Active(t) /\ Place(t)' = Place(t) /\ call'[t] = call[t] /\ Place(t) \in LockLoop
    BY <1>1, <1>3
  <2>2. call[t].obj \in Mutexes /\ Doing(t, "mutex_lock", call[t].obj)
    BY <2>1, InTheLoop DEF MutexInv
  <2>3. LockOK(t, Place(t), call[t].obj)
    BY <2>1 DEF MutexInv, LockInv
  <2>4. /\ Place(t) \notin TakePoints /\ Listed(call[t].obj)
        /\ Place(t) \in {"first_test", "first_set"} => mutex_list[1] = call[t].obj
    BY <1>3, <2>3 DEF LockOK
  <2>5. /\ Listed(call[t].obj)'
        /\ Place(t) \in {"first_test", "first_set"} => mutex_list'[1] = call[t].obj
    BY <1>3, <2>1, <2>2, <2>4 DEF Listed
  <2> QED
    BY <2>1, <2>4, <2>5 DEF LockOK
<1> QED
  BY <1>2, <1>3

\* A call that ends, or goes on, keeps the rules.
LEMMA RulesStepInv ==
  ASSUME MutexInv, run.own \in Tid,
         \A m \in Mutexes : \A t \in holds[m] : t \in holds'[m] \/ t = run.own,
         \/ UNCHANGED <<call, holds>>
         \/ call' = [call EXCEPT ![run.own] = NoCall]
         \/ \E op \in BarrierOps : \E b : call' = [call EXCEPT ![run.own] = [op |-> op, obj |-> b]]
  PROVE  RulesInv'
<1>1. CASE UNCHANGED <<call, holds>>
  <2>1. \A t \in Tid : \A op \in MutexOps, m \in Mutexes :
          Doing(t, op, m)' <=> Doing(t, op, m)
    BY <1>1 DEF Doing
  <2> QED
    BY <1>1, <2>1 DEF MutexInv, RulesInv, MutexOps
<1>2. CASE ~UNCHANGED <<call, holds>>
  <2>1. \A op \in MutexOps, m \in Mutexes : NoCall # [op |-> op, obj |-> m]
    BY CallType DEF Calls
  <2>2. \A t \in Tid : t # run.own => call'[t] = call[t]
    BY DEF MutexInv, CallsInv, CSTypeOK
  <2>3. \/ call'[run.own] = NoCall
        \/ \E op \in BarrierOps : \E b : call'[run.own] = [op |-> op, obj |-> b]
    BY <1>2 DEF MutexInv, CallsInv, CSTypeOK
  <2>4. \A op \in MutexOps, m \in Mutexes : call'[run.own] # [op |-> op, obj |-> m]
    <3> SUFFICES ASSUME NEW op \in MutexOps, NEW m \in Mutexes,
                        call'[run.own] = [op |-> op, obj |-> m]
                 PROVE  FALSE
      OBVIOUS
    <3>1. PICK o \in BarrierOps : \E b : call'[run.own] = [op |-> o, obj |-> b]
      BY <2>1, <2>3
    <3>2. PICK b : call'[run.own] = [op |-> o, obj |-> b]
      BY <3>1
    <3>3. [op |-> op, obj |-> m].op = [op |-> o, obj |-> b].op
      BY <3>2
    <3> QED
      BY <3>3 DEF MutexOps, BarrierOps
  <2>5. \A t \in Tid : \A op \in MutexOps, m \in Mutexes :
          Doing(t, op, m)' => t # run.own /\ Doing(t, op, m)
    BY <2>2, <2>4 DEF Doing
  <2> QED
    BY <2>5 DEF MutexInv, RulesInv, MutexOps
<1> QED
  BY <1>1, <1>2

\* The calls on mutexes: where the client's discipline enters.
LEMMA MutexCallRules ==
  ASSUME MutexInv, Careful, MutexCall, UNCHANGED mutexVars
  PROVE  RulesInv'
<1>1. run.own \in Tid
  BY DEF MutexInv, CallsInv, SchedInv, SchedTypeOK, Continuation
<1>2. PICK op \in MutexOps, m \in Mutexes :
        /\ call' = [call EXCEPT ![run.own] = [op |-> op, obj |-> m]]
        /\ op = "mutex_init" => Alive(m) /\ \A l \in Mutexes : InCall("mutex_lock", l) = {}
        /\ op = "mutex_destroy" => Idle(m)
        /\ op = "mutex_lock" => Alive(m) /\ \A l \in Mutexes : InCall("mutex_init", l) = {}
        /\ op = "mutex_unlock" => run.own \in holds[m]
  BY DEF MutexCall, CallMutexInit, CallMutexDestroy, CallMutexLock, CallMutexUnlock,
     MutexOps, Enter, Careful
<1>3. \A t \in Tid : \A o \in MutexOps, l \in Mutexes :
        Doing(t, o, l)' => Doing(t, o, l) \/ (t = run.own /\ o = op /\ l = m)
  <2>1. /\ call'[run.own] = [op |-> op, obj |-> m]
        /\ \A t \in Tid : t # run.own => call'[t] = call[t]
    BY <1>1, <1>2 DEF MutexInv, CallsInv, CSTypeOK
  <2>2. ASSUME NEW o, NEW l, [op |-> op, obj |-> m] = [op |-> o, obj |-> l]
        PROVE  o = op /\ l = m
    <3>1. /\ [op |-> op, obj |-> m].op = [op |-> o, obj |-> l].op
          /\ [op |-> op, obj |-> m].obj = [op |-> o, obj |-> l].obj
      BY <2>2
    <3> QED
      BY <3>1
  <2> QED
    BY <2>1, <2>2 DEF Doing
<1>4. \A o \in MutexOps, l \in Mutexes :
        InCall(o, l) = {} <=> \A t \in Tid : ~Doing(t, o, l)
  BY DEF InCall, Doing
<1>5. op = "mutex_destroy" => \A t \in Tid, o \in MutexOps : ~Doing(t, o, m)
  <2> SUFFICES ASSUME op = "mutex_destroy", NEW t \in Tid, NEW o \in MutexOps, Doing(t, o, m)
               PROVE  FALSE
    OBVIOUS
  <2>1. call[t] # NoCall /\ call[t].obj = m
    BY CallType DEF Doing, Calls
  <2> QED
    BY <1>2, <2>1 DEF Idle
<1> QED
  BY <1>1, <1>2, <1>3, <1>4, <1>5 DEF MutexInv, RulesInv, MutexOps, Alive, mutexVars

\* A step of a call that leaves the mutexes alone.
LEMMA CallStepMutexInv ==
  ASSUME MutexInv, Careful, UNCHANGED mutexVars,
         FillSet \/ BlockAlarm \/ MutexCall \/ BarrierCall \/ BarrierStep
  PROVE  MutexTypeOK' /\ RulesInv' /\ LockInv' /\ HoldInv'
<1>1. CallStep /\ run.own \in Tid /\ CallsInv
  BY CallStepStays DEF CallStep, MutexInv
<1>2. MutexTypeOK' /\ HoldInv'
  BY DEF MutexInv, MutexTypeOK, HoldInv, Listed, mutexVars
<1>3. RulesInv'
  <2>1. CASE MutexCall
    BY <2>1, MutexCallRules
  <2>2. CASE FillSet \/ BlockAlarm \/ BarrierCall \/ BarrierStep
    <3>1. \/ UNCHANGED call
          \/ call' = [call EXCEPT ![run.own] = NoCall]
          \/ \E op \in BarrierOps : \E b : call' = [call EXCEPT ![run.own] = [op |-> op, obj |-> b]]
      BY <2>2 DEF FillSet, BlockAlarm, BarrierCall, CallBarrierInit, CallBarrierDestroy,
         CallBarrierWait, Enter, BarrierStep, BarrierInit, BarrierDestroy, WaitDestroyed,
         BarrierWait, BarrierReturn, ReturnFromYield, Leave, LeaveAndYield, BarrierOps
    <3> QED
      BY <1>1, <3>1, RulesStepInv DEF mutexVars
  <2> QED
    BY <2>1, <2>2
<1>4. PlaceOf(run') \notin LockLoop
  <2>1. run \in Continuation
    BY <1>1 DEF CallsInv, SchedInv, SchedTypeOK
  <2>2. CASE BlockAlarm
    <3>1. run.pc = "block"
      BY <2>2 DEF BlockAlarm, Running
    <3>2. call[run.own] \in Calls
      <4>1. PlaceOK("block", call[run.own])
        BY <1>1, <3>1, CallerIsActive DEF CallLabels
      <4> QED
        BY <1>1, <4>1 DEF PlaceOK, Outside, CallsInv, CSTypeOK
    <3>3. run'.pc = call[run.own].op
      BY <2>1, <2>2 DEF BlockAlarm, Continuation
    <3> QED
      BY <3>2, <3>3, CallType DEF PlaceOf, Bodies, MutexOps, BarrierOps, LockLoop, InSchedule
  <2>3. CASE FillSet \/ MutexCall \/ BarrierCall
    <3>1. run'.pc \in {"fill", "block"}
      BY <2>1, <2>3 DEF FillSet, MutexCall, CallMutexInit, CallMutexDestroy, CallMutexLock,
         CallMutexUnlock, BarrierCall, CallBarrierInit, CallBarrierDestroy,
         CallBarrierWait, Enter, Continuation
    <3> QED
      BY <3>1 DEF PlaceOf, LockLoop, InSchedule
  <2>4. CASE BarrierStep
    <3>1. \/ run' = At(run.own, "user")
          \/ run' = [run EXCEPT !.pc = "schedule", !.ret = "barrier_return"]
      BY <2>4 DEF BarrierStep, BarrierInit, BarrierDestroy, WaitDestroyed,
         BarrierWait, BarrierReturn, ReturnFromYield, Leave, LeaveAndYield
    <3>2. run'.pc = "user" \/ (run'.pc = "schedule" /\ run'.ret = "barrier_return")
      <4>1. CASE run' = At(run.own, "user")
        BY <4>1 DEF At
      <4>2. CASE run' = [run EXCEPT !.pc = "schedule", !.ret = "barrier_return"]
        BY <2>1, <4>2 DEF Continuation
      <4> QED
        BY <3>1, <4>1, <4>2
    <3> QED
      BY <3>2 DEF PlaceOf, LockLoop, InSchedule
  <2> QED
    BY <2>2, <2>3, <2>4
<1>5. LockInv'
  BY <1>1, <1>4, LockStepInv DEF mutexVars, Listed
<1> QED
  BY <1>2, <1>3, <1>5

-----------------------------------------------------------------------------
(* The bodies of the mutex calls and the loop of lock.                     *)

\* Taking an element out of a sequence leaves the other elements in it, and the
\* first one first.
LEMMA RemoveAtKeeps ==
  ASSUME NEW S, NEW s \in Seq(S), NEW i \in 1 .. Len(s), NEW e, e # s[i]
  PROVE  /\ (\E j \in 1 .. Len(s) : s[j] = e)
              => \E j \in 1 .. Len(RemoveAt(s, i)) : RemoveAt(s, i)[j] = e
         /\ s # << >> /\ s[1] = e => RemoveAt(s, i)[1] = e
<1> DEFINE r == RemoveAt(s, i)
<1>1. /\ Len(r) = Len(s) - 1
      /\ \A j \in 1 .. i - 1 : r[j] = s[j]
      /\ \A j \in i .. Len(s) - 1 : r[j] = s[j + 1]
  <2> DEFINE a == SubSeq(s, 1, i - 1)
             b == SubSeq(s, i + 1, Len(s))
  <2>1. /\ a \in Seq(S) /\ Len(a) = i - 1
        /\ \A j \in 1 .. i - 1 : a[j] = s[j]
    OBVIOUS
  <2>2. /\ b \in Seq(S) /\ Len(b) = Len(s) - i
        /\ \A j \in 1 .. Len(s) - i : b[j] = s[i + j]
    OBVIOUS
  <2>3. r = a \o b
    BY DEF RemoveAt
  <2> HIDE DEF a, b, r
  <2>4. Len(r) = Len(s) - 1 /\ \A j \in 1 .. i - 1 : r[j] = s[j]
    BY <2>1, <2>2, <2>3
  <2>5. ASSUME NEW j \in i .. Len(s) - 1
        PROVE  r[j] = s[j + 1]
    <3>1. j - (i - 1) \in 1 .. Len(s) - i /\ i + (j - (i - 1)) = j + 1
      OBVIOUS
    <3>2. r[j] = b[j - (i - 1)]
      BY <2>1, <2>2, <2>3
    <3> QED
      BY <2>2, <3>1, <3>2
  <2> QED
    BY <2>4, <2>5
<1> HIDE DEF r
<1>2. ASSUME NEW j \in 1 .. Len(s), s[j] = e
      PROVE  \E k \in 1 .. Len(r) : r[k] = e
  <2>1. CASE j < i
    BY <1>1, <1>2, <2>1
  <2>2. CASE j > i
    <3>1. j - 1 \in i .. Len(s) - 1 /\ j - 1 \in 1 .. Len(r) /\ (j - 1) + 1 = j
      BY <1>1, <2>2
    <3> QED
      BY <1>1, <1>2, <3>1
  <2> QED
    BY <1>2, <2>1, <2>2
<1>3. s # << >> /\ s[1] = e => r[1] = e
  BY <1>1
<1> QED
  BY <1>2, <1>3 DEF r

\* pthread_mutex_init puts a new mutex, which nobody holds or locks, in front.
LEMMA MutexInitInv ==
  ASSUME MutexInv, Careful, MutexInit
  PROVE  RulesInv' /\ LockInv' /\ HoldInv'
<1>1. run.pc = "mutex_init" /\ CallsInv
  BY DEF MutexInit, Running, MutexInv
<1>2. /\ run.own \in Tid /\ Target \in Mutexes
      /\ Doing(run.own, "mutex_init", Target)
  BY <1>1, TargetDoing DEF MutexOps
<1>3. /\ run' = At(run.own, "user") /\ call' = [call EXCEPT ![run.own] = NoCall]
      /\ UNCHANGED holds
  BY DEF MutexInit, Leave, mutexVars
<1>4. RulesInv'
  BY <1>2, <1>3, RulesStepInv
<1>5. CallStep /\ PlaceOf(run') \notin LockLoop
  BY <1>3 DEF CallStep, MutexStep, At, PlaceOf, LockLoop, InSchedule
<1>6. \A t \in Tid : \A l \in Mutexes : ~Doing(t, "mutex_lock", l)
  BY <1>2 DEF MutexInv, RulesInv
<1>7. LockInv'
  BY <1>5, <1>6, LockStepInv
<1>8. HoldInv'
  <2>1. CASE UNCHANGED mutexVars
    BY <2>1 DEF MutexInv, HoldInv, Listed, mutexVars
  <2>2. CASE /\ ~Listed(Target)
             /\ mutex_list' = <<Target>> \o mutex_list
             /\ mutex_inUse' = [mutex_inUse EXCEPT ![Target] = FALSE]
    <3>1. \A m \in Mutexes : Listed(m) => Listed(m)'
      <4> SUFFICES ASSUME NEW m \in Mutexes, NEW i \in 1 .. Len(mutex_list),
                          mutex_list[i] = m
                   PROVE  \E j \in 1 .. Len(mutex_list') : mutex_list'[j] = m
        BY DEF Listed
      <4>1. /\ i + 1 \in 1 .. Len(mutex_list')
            /\ mutex_list'[i + 1] = m
        BY <2>2 DEF MutexInv, MutexTypeOK
      <4> QED
        BY <4>1
    <3>2. \A m \in Mutexes : m # Target => mutex_inUse'[m] = mutex_inUse[m]
      BY <2>2 DEF MutexInv, MutexTypeOK
    <3> QED
      BY <1>3, <2>2, <3>1, <3>2 DEF MutexInv, HoldInv
  <2> QED
    BY <2>1, <2>2 DEF MutexInit
<1> QED
  BY <1>4, <1>7, <1>8

\* pthread_mutex_destroy takes out a mutex nobody holds or locks.
LEMMA MutexDestroyInv ==
  ASSUME MutexInv, Careful, MutexDestroy
  PROVE  RulesInv' /\ LockInv' /\ HoldInv'
<1>1. run.pc = "mutex_destroy" /\ CallsInv
  BY DEF MutexDestroy, Running, MutexInv
<1>2. /\ run.own \in Tid /\ Target \in Mutexes
      /\ Doing(run.own, "mutex_destroy", Target)
  BY <1>1, TargetDoing DEF MutexOps
<1>3. /\ run' = At(run.own, "user") /\ call' = [call EXCEPT ![run.own] = NoCall]
      /\ UNCHANGED <<mutex_inUse, holds>>
  BY DEF MutexDestroy, Leave
<1>4. RulesInv'
  BY <1>2, <1>3, RulesStepInv
<1>5. CallStep /\ PlaceOf(run') \notin LockLoop
  BY <1>3 DEF CallStep, MutexStep, At, PlaceOf, LockLoop, InSchedule
<1>6. \A t \in Tid : ~Doing(t, "mutex_lock", Target)
  BY <1>2 DEF MutexInv, RulesInv
<1>7. /\ UNCHANGED mutex_list \/ ~mutex_inUse[Target]
      /\ \A m \in Mutexes : m # Target /\ Listed(m) =>
           Listed(m)' /\ (mutex_list[1] = m => mutex_list'[1] = m)
  <2>1. CASE UNCHANGED mutex_list
    BY <2>1 DEF Listed
  <2>2. CASE Removable(Target) /\ \E i \in 1 .. Len(mutex_list) :
               /\ mutex_list[i] = Target
               /\ mutex_list' = RemoveAt(mutex_list, i)
    <3>1. PICK i \in 1 .. Len(mutex_list) :
                 /\ mutex_list[i] = Target
                 /\ mutex_list' = RemoveAt(mutex_list, i)
      BY <2>2
    <3>2. mutex_list \in Seq(Mutexes) /\ mutex_list # << >>
      BY <3>1 DEF MutexInv, MutexTypeOK
    <3>3. ~mutex_inUse[Target]
      BY <2>2 DEF Removable
    <3>4. \A m \in Mutexes : m # mutex_list[i] =>
            /\ Listed(m) => Listed(m)'
            /\ mutex_list[1] = m => mutex_list'[1] = m
      <4> SUFFICES ASSUME NEW m \in Mutexes, m # mutex_list[i]
                   PROVE  /\ Listed(m) => Listed(m)'
                          /\ mutex_list[1] = m => mutex_list'[1] = m
        OBVIOUS
      <4> DEFINE r == RemoveAt(mutex_list, i)
      <4>1. /\ (\E j \in 1 .. Len(mutex_list) : mutex_list[j] = m)
                 => \E j \in 1 .. Len(r) : r[j] = m
            /\ mutex_list[1] = m => r[1] = m
        BY <3>1, <3>2, RemoveAtKeeps
      <4> QED
        BY <3>1, <4>1 DEF Listed
    <3> QED
      BY <3>1, <3>3, <3>4
  <2> QED
    BY <2>1, <2>2 DEF MutexDestroy
<1>8. LockInv'
  BY <1>5, <1>6, <1>7, LockStepInv
<1>9. HoldInv'
  BY <1>2, <1>3, <1>7 DEF MutexInv, HoldInv, Listed
<1> QED
  BY <1>4, <1>8, <1>9

\* The search and the test of pthread_mutex_lock.
LEMMA LockTestInv ==
  ASSUME MutexInv, Careful,
         \/ MutexLock
         \/ LockTest(Head(mutex_list), "first_test", "first_set")
         \/ LockTest(Target, "elem_test", "elem_set")
  PROVE  RulesInv' /\ LockInv' /\ HoldInv'
<1>1. run.pc \in {"mutex_lock", "first_test", "elem_test"} /\ CallsInv
  BY DEF MutexLock, LockTest, Running, MutexInv
<1>2. /\ run.own \in Tid /\ Target \in Mutexes /\ Target = call[run.own].obj
      /\ Active(run.own) /\ Place(run.own) = run.pc
      /\ run \in Continuation
  BY <1>1, TargetDoing DEF MutexOps, LockLoop, CallsInv, SchedInv, SchedTypeOK
<1>3. UNCHANGED mutexVars
  BY DEF MutexLock, LockTest
<1>4. CallStep
  BY DEF CallStep, MutexStep, LockFirst, LockElem
<1>5. UNCHANGED call \/ call' = [call EXCEPT ![run.own] = NoCall]
  BY DEF MutexLock, LockTest, Leave, LeaveAndYield, csVars
<1>6. RulesInv'
  BY <1>2, <1>3, <1>5, RulesStepInv DEF mutexVars
<1>7. HoldInv'
  BY <1>3 DEF MutexInv, HoldInv, Listed, mutexVars
<1>8. run.pc \in {"first_test", "elem_test"} =>
        Listed(Target) /\ (run.pc = "first_test" => mutex_list[1] = Target)
  BY <1>2 DEF MutexInv, LockInv, LockOK, LockLoop
<1>9. \/ run' = At(run.own, "user")
      \/ /\ UNCHANGED call
         /\ Listed(Target)
         /\ \/ \E label \in {"first_test", "elem_test"} :
                 /\ label = "first_test" => mutex_list[1] = Target
                 /\ \/ run' = [run EXCEPT !.pc = label]
                    \/ run' = [run EXCEPT !.pc = "schedule", !.ret = label]
            \/ \E label \in TakePoints :
                 /\ label = "first_set" => mutex_list[1] = Target
                 /\ ~mutex_inUse[Target]
                 /\ run' = [run EXCEPT !.pc = label]
  <2>1. CASE MutexLock
    BY <2>1 DEF MutexLock, Leave, csVars
  <2>2. CASE LockTest(Head(mutex_list), "first_test", "first_set")
    <3>1. run.pc = "first_test"
      BY <2>2 DEF LockTest, Running
    <3>2. Head(mutex_list) = Target
      BY <1>8, <3>1 DEF Head
    <3> QED
      BY <1>8, <2>2, <3>1, <3>2 DEF LockTest, LeaveAndYield, csVars, TakePoints
  <2>3. CASE LockTest(Target, "elem_test", "elem_set")
    <3>1. run.pc = "elem_test"
      BY <2>3 DEF LockTest, Running
    <3> QED
      BY <1>8, <2>3, <3>1 DEF LockTest, LeaveAndYield, csVars, TakePoints
  <2> QED
    BY <2>1, <2>2, <2>3
<1>10. PlaceOf(run') \in LockLoop => LockOK(run.own, PlaceOf(run), call[run.own].obj)'
  <2>1. CASE run' = At(run.own, "user")
    BY <2>1 DEF PlaceOf, LockLoop, InSchedule, At
  <2>2. CASE run' # At(run.own, "user")
    <3>1. /\ Listed(Target)
          /\ UNCHANGED <<call, mutex_list, mutex_inUse>>
      BY <1>3, <1>9, <2>2 DEF mutexVars
    <3>2. /\ PlaceOf(run') = "first_set" \/ PlaceOf(run') = "first_test"
               => mutex_list[1] = Target
          /\ PlaceOf(run') \in TakePoints => run'.pc = PlaceOf(run') /\ ~mutex_inUse[Target]
          /\ run'.own = run.own
      BY <1>2, <1>9, <2>2 DEF PlaceOf, InSchedule, TakePoints, Continuation
    <3> QED
      BY <1>2, <3>1, <3>2 DEF LockOK, PlaceOf, Listed
  <2> QED
    BY <2>1, <2>2
<1>11. LockInv'
  BY <1>3, <1>4, <1>10, LockStepInv DEF mutexVars, Listed
<1> QED
  BY <1>6, <1>7, <1>11

\* Taking a mutex, which nobody holds as it is free, and giving it back.
LEMMA LockSetInv ==
  ASSUME MutexInv, Careful, NEW element, NEW set \in TakePoints,
         element = (IF set = "first_set" THEN Head(mutex_list) ELSE Target),
         LockSet(element, set)
  PROVE  RulesInv' /\ LockInv' /\ HoldInv'
<1>1. run.pc = set /\ run.pc \in LockLoop /\ CallsInv
  BY DEF LockSet, Running, MutexInv, TakePoints, LockLoop
<1>2. /\ run.own \in Tid /\ Target \in Mutexes /\ Target = call[run.own].obj
      /\ Active(run.own) /\ Place(run.own) = run.pc
  BY <1>1, TargetDoing
<1>3. /\ Listed(Target) /\ ~mutex_inUse[Target]
      /\ set = "first_set" => mutex_list[1] = Target
  BY <1>1, <1>2 DEF MutexInv, LockInv, LockOK
<1>4. element = Target
  BY <1>3 DEF Head
<1>5. /\ run' = At(run.own, "user") /\ call' = [call EXCEPT ![run.own] = NoCall]
      /\ mutex_inUse' = [mutex_inUse EXCEPT ![Target] = TRUE]
      /\ holds' = [holds EXCEPT ![Target] = @ \cup {run.own}]
      /\ UNCHANGED mutex_list
  BY <1>4 DEF LockSet, Leave
<1>6. /\ holds[Target] = {} /\ holds'[Target] = {run.own} /\ mutex_inUse'[Target]
      /\ \A m \in Mutexes : m # Target => holds'[m] = holds[m]
                                          /\ mutex_inUse'[m] = mutex_inUse[m]
  BY <1>2, <1>3, <1>5 DEF MutexInv, MutexTypeOK, HoldInv
<1>7. RulesInv'
  BY <1>2, <1>5, <1>6, RulesStepInv
<1>8. CallStep /\ PlaceOf(run') \notin LockLoop
  <2>1. LockFirst \/ LockElem
    BY DEF TakePoints, LockFirst, LockElem
  <2> QED
    BY <1>5, <2>1 DEF CallStep, MutexStep, At, PlaceOf, LockLoop, InSchedule
<1>9. LockInv'
  BY <1>5, <1>8, LockStepInv DEF Listed
<1>10. \A m \in Mutexes : Listed(m)' <=> Listed(m)
  BY <1>5 DEF Listed
<1>11. HoldInv'
  BY <1>2, <1>3, <1>6, <1>10 DEF MutexInv, HoldInv
<1> QED
  BY <1>7, <1>9, <1>11

\* Only the holder gives a mutex back, and nobody holds it then.
LEMMA MutexUnlockInv ==
  ASSUME MutexInv, Careful, MutexUnlock
  PROVE  RulesInv' /\ LockInv' /\ HoldInv'
<1>1. run.pc = "mutex_unlock" /\ CallsInv
  BY DEF MutexUnlock, Running, MutexInv
<1>2. /\ run.own \in Tid /\ Target \in Mutexes
      /\ Doing(run.own, "mutex_unlock", Target)
  BY <1>1, TargetDoing DEF MutexOps
<1>3. run.own \in holds[Target]
  BY <1>2 DEF MutexInv, RulesInv
<1>4. /\ run' = At(run.own, "user") /\ call' = [call EXCEPT ![run.own] = NoCall]
      /\ \A m \in Mutexes : m # Target => mutex_inUse'[m] = mutex_inUse[m]
      /\ holds' = [holds EXCEPT ![Target] = @ \ {run.own}]
      /\ UNCHANGED mutex_list
  BY DEF MutexUnlock, Leave, MutexInv, MutexTypeOK
<1>5. /\ holds'[Target] = {}
      /\ \A m \in Mutexes : m # Target => holds'[m] = holds[m]
  BY <1>2, <1>3, <1>4 DEF MutexInv, MutexTypeOK, HoldInv
<1>6. \A m \in Mutexes : \A t \in holds[m] : t \in holds'[m] \/ t = run.own
  BY <1>2, <1>3, <1>5 DEF MutexInv, HoldInv
<1>7. RulesInv'
  BY <1>2, <1>4, <1>6, RulesStepInv
<1>8. CallStep /\ PlaceOf(run') \notin LockLoop
  BY <1>4 DEF CallStep, MutexStep, At, PlaceOf, LockLoop, InSchedule
<1>9. LockInv'
  BY <1>4, <1>8, LockStepInv DEF Listed
<1>10. \A m \in Mutexes : Listed(m)' <=> Listed(m)
  BY <1>4 DEF Listed
<1>11. HoldInv'
  BY <1>4, <1>5, <1>10 DEF MutexInv, HoldInv
<1> QED
  BY <1>7, <1>9, <1>11

-----------------------------------------------------------------------------
(* The theorems.                                                           *)

\* MutexInv holds at the start.
LEMMA InitMutexInv == Init => MutexInv
<1> SUFFICES ASSUME Init PROVE MutexInv
  OBVIOUS
<1>1. CallsInv /\ \A t \in Tid : call[t] = NoCall
  BY InitCallsInv DEF Init, CSInit
<1>2. MutexTypeOK /\ HoldInv
  BY DEF Init, MutexVarsInit, MutexTypeOK, HoldInv
<1>3. RulesInv
  <2>1. \A op \in MutexOps, m \in Mutexes : NoCall # [op |-> op, obj |-> m]
    BY CallType DEF Calls
  <2>2. \A t \in Tid : \A op \in MutexOps, m \in Mutexes : ~Doing(t, op, m)
    BY <1>1, <2>1 DEF Doing
  <2> QED
    BY <2>2 DEF RulesInv, MutexOps
<1>4. LockInv
  BY <1>1 DEF LockInv, CallsInv, PlaceInv, PlaceOK, Outside, LockLoop
<1> QED
  BY <1>1, <1>2, <1>3, <1>4 DEF MutexInv

\* Every step keeps MutexInv.
LEMMA StepMutexInv ==
  ASSUME MutexInv, Careful, [Next]_vars
  PROVE  MutexInv'
<1>1. CallsInv'
  BY StepCallsInv DEF MutexInv, Careful
<1>2. CASE Scheduling /\ UNCHANGED <<csVars, mutexVars>>
  BY <1>2, SchedulingMutexInv
<1>3. CASE OutsideStep /\ UNCHANGED <<csVars, mutexVars>>
  BY <1>3, OutsideMutexInv
<1>4. CASE (FillSet \/ BlockAlarm \/ MutexCall \/ BarrierCall \/ BarrierStep)
           /\ UNCHANGED mutexVars
  BY <1>1, <1>4, CallStepMutexInv DEF MutexInv
<1>5. CASE MutexStep
  <2>1. MutexTypeOK'
    BY <1>5, MutexStepType DEF MutexInv
  <2>2. RulesInv' /\ LockInv' /\ HoldInv'
    <3>1. CASE MutexInit
      BY <3>1, MutexInitInv
    <3>2. CASE MutexDestroy
      BY <3>2, MutexDestroyInv
    <3>3. CASE \/ MutexLock
               \/ LockTest(Head(mutex_list), "first_test", "first_set")
               \/ LockTest(Target, "elem_test", "elem_set")
      BY <3>3, LockTestInv
    <3>4. CASE LockSet(Head(mutex_list), "first_set") \/ LockSet(Target, "elem_set")
      BY <3>4, LockSetInv DEF TakePoints
    <3>5. CASE MutexUnlock
      BY <3>5, MutexUnlockInv
    <3> QED
      BY <1>5, <3>1, <3>2, <3>3, <3>4, <3>5 DEF MutexStep, LockFirst, LockElem
  <2> QED
    BY <1>1, <2>1, <2>2 DEF MutexInv
<1>6. CASE UNCHANGED vars
  <2>1. MutexTypeOK' /\ HoldInv' /\ RulesInv'
    BY <1>6 DEF vars, csVars, mutexVars, MutexInv, MutexTypeOK, HoldInv, RulesInv, Doing,
       Listed
  <2>2. LockInv'
    BY <1>6 DEF vars, schedVars, csVars, mutexVars, MutexInv, LockInv, LockOK, Listed,
       Active, Exists, Fresh, Place, PlaceOf
  <2> QED
    BY <1>1, <2>1, <2>2 DEF MutexInv
<1> QED
  BY <1>2, <1>3, <1>4, <1>5, <1>6, StoppedStays DEF Next, ThreadStep, LibraryStep,
     Scheduling, OutsideStep, vars

\* A thread about to take a mutex has found it free and has not been preempted
\* since; whoever holds a mutex is the only one, and no other call breaks in.
THEOREM MutexInvariant ==
  ASSUME Careful
  PROVE  Spec => []MutexInv
<1>1. Init => MutexInv
  BY InitMutexInv
<1>2. MutexInv /\ [Next]_vars => MutexInv'
  BY StepMutexInv
<1> QED
  BY <1>1, <1>2, PTL DEF Spec

\* At most one thread holds a mutex.
THEOREM MutualExclusionHolds ==
  ASSUME Careful
  PROVE  Spec => []MutualExclusion
<1>1. MutexInv => MutualExclusion
  BY DEF MutexInv, HoldInv, MutualExclusion
<1> QED
  BY <1>1, MutexInvariant, PTL

\* A mutex that is held is in the list and marked in use.
THEOREM HeldIsInUseHolds ==
  ASSUME Careful
  PROVE  Spec => []HeldIsInUse
<1>1. MutexInv => HeldIsInUse
  BY DEF MutexInv, HoldInv, HeldIsInUse
<1> QED
  BY <1>1, MutexInvariant, PTL

-----------------------------------------------------------------------------
(* Barriers.                                                               *)

\* The barrier calls in progress are on initialised barriers.
WaitRules ==
  \A t \in Tid : \A b \in Barriers :
    Doing(t, "barrier_destroy", b) \/ Doing(t, "barrier_wait", b) => handle[b] # 0

\* A thread that is blocked executes only to get out of the way.
AwakeInv ==
  /\ run.pc \in {"assign", "switch"} => ~blocked[run.nxt]
  /\ blocked[run.own] => run.pc \in InSchedule /\ run.ret = "barrier_return"

\* The blocked threads are those recorded in a waiting array, and in one only.
RegisterInv ==
  \A t \in Tid : /\ Registered(t) # {} <=> Active(t) /\ blocked[t]
                 /\ \A r, s \in Registered(t) : r = s

BarrierInv == CallsInv /\ BarrierTypeOK /\ WaitRules /\ AwakeInv /\ RegisterInv

-----------------------------------------------------------------------------
(* The waiting arrays.                                                     *)

\* One waiting array is replaced.
LEMMA WaitingChange ==
  ASSUME BarrierTypeOK, NEW s \in 1 .. Len(slots), NEW w \in Seq(Tid),
         slots' = [slots EXCEPT ![s].waiting = w]
  PROVE  /\ Len(slots') = Len(slots)
         /\ slots'[s].waiting = w /\ slots'[s].orig = slots[s].orig
         /\ \A r \in 1 .. Len(slots) : r # s => slots'[r] = slots[r]
         /\ \A t \in Tid : Registered(t)' =
              (Registered(t) \ {s}) \cup {r \in {s} : \E i \in 1 .. Len(w) : w[i] = t}
<1>1. slots[s] \in Slot
  BY DEF BarrierTypeOK
<1>2. slots' = [slots EXCEPT ![s] = [slots[s] EXCEPT !.waiting = w]]
  OBVIOUS
<1>3. Len(slots') = Len(slots) /\ slots'[s] = [slots[s] EXCEPT !.waiting = w]
      /\ \A r \in 1 .. Len(slots) : r # s => slots'[r] = slots[r]
  BY <1>2 DEF BarrierTypeOK
<1>4. slots'[s].waiting = w /\ slots'[s].orig = slots[s].orig
  BY <1>1, <1>3 DEF Slot
<1>5. ASSUME NEW t \in Tid
      PROVE  Registered(t)' =
               (Registered(t) \ {s}) \cup {r \in {s} : \E i \in 1 .. Len(w) : w[i] = t}
  BY <1>3, <1>4 DEF Registered
<1> QED
  BY <1>3, <1>4, <1>5

\* The thread that executes the body of a barrier call, and its slot.
LEMMA BarrierTarget ==
  ASSUME CallsInv, BarrierTypeOK, run.pc \in BarrierOps
  PROVE  /\ run.own \in Tid /\ Active(run.own) /\ current_running_thread = run.own
         /\ Target \in Barriers /\ Doing(run.own, run.pc, Target)
         /\ handle[Target] # 0 => handle[Target] \in 1 .. Len(slots)
<1>1. run.pc \in CallLabels
  BY DEF BarrierOps, CallLabels
<1>2. /\ PlaceOK(run.pc, call[run.own]) /\ run.own \in Tid /\ Active(run.own)
      /\ current_running_thread = run.own
  BY <1>1, CallerIsActive
<1>3. call[run.own] \in Calls /\ Target \in Barriers
  BY TargetType
<1>4. call[run.own].op = run.pc
  BY <1>2 DEF PlaceOK, Bodies
<1>5. call[run.own] = [op |-> run.pc, obj |-> Target]
  BY <1>3, <1>4 DEF Calls, Target
<1>6. handle[Target] \in 0 .. Len(slots)
  BY <1>3 DEF BarrierTypeOK
<1> QED
  BY <1>2, <1>3, <1>5, <1>6 DEF Doing, BarrierTypeOK

-----------------------------------------------------------------------------
(* Capacity, whatever the client does.                                     *)

\* A wait that finds the last place taken completes the party instead.
LEMMA CapacityStep ==
  ASSUME CallsInv, BarrierTypeOK, WithinCapacity, BarrierStep
  PROVE  WithinCapacity'
<1>0. Len(slots) \in Nat
  BY DEF BarrierTypeOK
<1>1. CASE BarrierInit
  <2>1. PICK count \in Counts \ {0} :
          slots' = Append(slots, [orig |-> count, waiting |-> << >>, destroyed |-> FALSE])
    BY <1>1 DEF BarrierInit
  <2>2. /\ Len(slots') = Len(slots) + 1
        /\ \A r \in 1 .. Len(slots) : slots'[r] = slots[r]
        /\ slots'[Len(slots) + 1] = [orig |-> count, waiting |-> << >>, destroyed |-> FALSE]
    BY <2>1 DEF BarrierTypeOK
  <2>3. count \in Nat /\ count > 0
    BY CountsAssumption
  <2> QED
    BY <1>0, <2>2, <2>3 DEF WithinCapacity
<1>2. CASE BarrierDestroy
  <2>1. slots' = [slots EXCEPT ![handle[Target]].destroyed = TRUE]
    BY <1>2 DEF BarrierDestroy
  <2>2. /\ Len(slots') = Len(slots)
        /\ \A r \in 1 .. Len(slots) : /\ slots'[r].waiting = slots[r].waiting
                                      /\ slots'[r].orig = slots[r].orig
    BY <2>1 DEF BarrierTypeOK, Slot
  <2> QED
    BY <2>2 DEF WithinCapacity
<1>3. CASE WaitDestroyed \/ BarrierReturn
  BY <1>3 DEF WaitDestroyed, BarrierReturn, barrierVars, WithinCapacity
<1>4. CASE BarrierWait
  <2> DEFINE s       == handle[Target]
             arrived == Append(slots[s].waiting, current_running_thread)
  <2>1. run.pc \in BarrierOps
    BY <1>4 DEF BarrierWait, Running, BarrierOps
  <2>2. current_running_thread \in Tid /\ (s # 0 => s \in 1 .. Len(slots)) /\ s \in 0 .. Len(slots)
    BY <2>1, BarrierTarget DEF BarrierTypeOK
  <2>3. \/ slots' = [slots EXCEPT ![s].waiting = << >>]
        \/ slots' = [slots EXCEPT ![s].waiting = arrived] /\ Len(arrived) # slots[s].orig
    BY <1>4 DEF BarrierWait, Complete
  <2>4. CASE s = 0
    <3>1. slots' = slots
      BY <2>3, <2>4 DEF BarrierTypeOK
    <3> QED
      BY <3>1 DEF WithinCapacity
  <2>5. CASE s # 0
    <3>1. /\ s \in 1 .. Len(slots) /\ slots[s].waiting \in Seq(Tid)
          /\ slots[s].orig \in Nat \ {0}
          /\ Len(slots[s].waiting) < slots[s].orig
      <4>1. s \in 1 .. Len(slots)
        BY <2>2, <2>5
      <4> HIDE DEF s
      <4>2. slots[s] \in Slot
        BY <4>1 DEF BarrierTypeOK
      <4> QED
        BY <4>1, <4>2 DEF Slot, WithinCapacity
    <3>2. arrived \in Seq(Tid) /\ Len(arrived) = Len(slots[s].waiting) + 1
      BY <2>2, <3>1
    <3> HIDE DEF s, arrived
    <3>3. \E w \in Seq(Tid) : /\ slots' = [slots EXCEPT ![s].waiting = w]
                              /\ Len(w) < slots[s].orig
      <4>1. Len(slots[s].waiting) \in Nat /\ << >> \in Seq(Tid) /\ Len(<< >>) = 0
        BY <3>1
      <4>2. Len(arrived) # slots[s].orig => Len(arrived) < slots[s].orig
        BY <3>1, <3>2, <4>1
      <4>3. CASE slots' = [slots EXCEPT ![s].waiting = << >>]
        <5>1. 0 < slots[s].orig
          BY <3>1
        <5> WITNESS << >> \in Seq(Tid)
        <5> QED
          BY <4>1, <4>3, <5>1
      <4>4. CASE slots' = [slots EXCEPT ![s].waiting = arrived] /\ Len(arrived) # slots[s].orig
        BY <3>2, <4>2, <4>4
      <4> QED
        BY <2>3, <4>3, <4>4
    <3>4. /\ Len(slots') = Len(slots)
          /\ Len(slots'[s].waiting) < slots'[s].orig
          /\ \A r \in 1 .. Len(slots) : r # s => slots'[r] = slots[r]
      BY <3>1, <3>3, WaitingChange
    <3> QED
      BY <3>4 DEF WithinCapacity
  <2> QED
    BY <2>4, <2>5
<1> QED
  BY <1>1, <1>2, <1>3, <1>4 DEF BarrierStep

-----------------------------------------------------------------------------
(* Steps that leave the barriers alone.                                    *)

\* Who is chosen to run next is not blocked, and a blocked thread that finds
\* nobody to choose makes alone true.
LEMMA SchedulingAwake ==
  ASSUME BarrierInv, Calm, Scheduling, NoteAlone, ~alone'
  PROVE  AwakeInv'
<1>1. /\ CallsInv /\ Quiet /\ AwakeInv /\ run \in Continuation /\ run.own \in Tid
      /\ current_running_thread \in Tid /\ SchedInv /\ SchedNext
  BY DEF BarrierInv, Calm, CallsInv, SchedInv, SchedTypeOK, Continuation, Scheduling,
     SchedNext, LibraryStep
<1>2. SchedInv'
  BY <1>1, SchedStepInv
<1>3. /\ UNCHANGED <<thread_id_available, blocked>>
      /\ \A t \in Tid : ~Fresh(t)'
  BY <1>1, SchedulingMovesNobody DEF Scheduling, ScheduleScan, ScheduleReturn,
     ScheduleAssign, ScheduleSwitch, Alarm
<1>5. CASE ScheduleScan
  <2>1. PICK n \in Tid : /\ IsNext(n)
                         /\ run' = [run EXCEPT !.pc = "assign",
                                      !.old = current_running_thread, !.nxt = n]
    BY <1>5 DEF ScheduleScan
  <2>2. run'.own = run.own /\ run'.pc = "assign" /\ run'.ret = run.ret /\ run'.nxt = n
    BY <1>1, <2>1 DEF Continuation
  <2>3. ~blocked[n]
    BY <2>1 DEF IsNext, Candidates, Runnable
  <2> QED
    BY <1>1, <1>3, <2>2, <2>3 DEF AwakeInv, InSchedule
<1>6. CASE ScheduleReturn
  <2>1. current_running_thread = run.own /\ Candidates = {}
    BY <1>1, <1>6 DEF ScheduleReturn, Running, SchedInv, RunningInv
  <2>2. ~blocked'[run.own]
    BY <1>3, <1>6 DEF NoteAlone
  <2>3. run'.own = run.own /\ run'.pc = run.ret /\ run.ret \notin Windows
    BY <1>1, <1>6 DEF ScheduleReturn, At, SchedInv, RunningInv
  <2> QED
    BY <2>2, <2>3 DEF AwakeInv, Windows
<1>7. CASE ScheduleAssign
  <2>1. run'.own = run.own /\ run'.pc = "switch" /\ run'.ret = run.ret /\ run'.nxt = run.nxt
        /\ run.pc = "assign"
    BY <1>1, <1>7 DEF ScheduleAssign, Running, Continuation
  <2> QED
    BY <1>1, <1>3, <2>1 DEF AwakeInv, InSchedule
<1>8. CASE ScheduleSwitch
  <2>1. /\ run.pc = "switch" /\ UNCHANGED current_running_thread
        /\ run'.pc \notin Windows
    BY <1>1, <1>8, SwitchStepInv DEF ScheduleSwitch, Running
  <2>2. ~blocked[run'.own]
    BY <1>1, <1>2, <2>1 DEF SchedInv, SwitchInv, RunningInv, AwakeInv, Windows
  <2> QED
    BY <1>3, <2>1, <2>2 DEF AwakeInv, Windows
<1>9. CASE Alarm
  <2>1. run'.pc \notin Windows
    BY <1>1, <1>9, AlarmInv
  <2>2. CASE UNCHANGED run
    BY <1>1, <1>3, <2>2 DEF AwakeInv
  <2>3. CASE \E n \in Tid : IsNext(n) /\ current_running_thread' = n
    <3>1. ~blocked[current_running_thread']
      BY <2>3 DEF IsNext, Candidates, Runnable
    <3>2. ~blocked[run'.own]
      BY <1>2, <2>1, <3>1 DEF SchedInv, RunningInv, Windows
    <3> QED
      BY <1>3, <2>1, <3>2 DEF AwakeInv, Windows
  <2> QED
    BY <1>9, <2>2, <2>3 DEF Alarm
<1> QED
  BY <1>5, <1>6, <1>7, <1>8, <1>9 DEF Scheduling

\* Nothing else changes for the barriers.
LEMMA SchedulingBarrierInv ==
  ASSUME BarrierInv, Calm, Scheduling, NoteAlone, ~alone', UNCHANGED <<csVars, barrierVars>>
  PROVE  BarrierInv'
<1>1. CallsInv /\ Quiet
  BY DEF BarrierInv, Calm
<1>2. CallsInv' /\ AwakeInv'
  BY <1>1, SchedulingCallsInv, SchedulingAwake
<1>3. BarrierTypeOK' /\ WaitRules'
  BY DEF BarrierInv, BarrierTypeOK, WaitRules, Doing, csVars, barrierVars
<1>4. /\ UNCHANGED blocked
      /\ \A t \in Tid : Active(t)' <=> Active(t)
      /\ \A t \in Tid : Registered(t)' = Registered(t)
  BY <1>1, SchedulingMovesNobody DEF Active, Exists, Registered, barrierVars,
     Scheduling, ScheduleScan, ScheduleReturn, ScheduleAssign, ScheduleSwitch, Alarm
<1>5. RegisterInv'
  BY <1>4 DEF BarrierInv, RegisterInv
<1> QED
  BY <1>2, <1>3, <1>5 DEF BarrierInv

\* A new thread is not blocked, nor is one that exits.
LEMMA OutsideBarrierInv ==
  ASSUME BarrierInv, Calm, UNCHANGED <<csVars, barrierVars>>,
         CreatePick \/ CreateClaim \/ CreatePublish \/ (Exit /\ HoldsNothing) \/ ProcessExit
  PROVE  BarrierInv'
<1>0. OutsideStep
  BY DEF OutsideStep
<1>1. /\ CallsInv /\ AwakeInv /\ run \in Continuation /\ run.own \in Tid /\ run.id \in Tid
      /\ current_running_thread \in Tid
      /\ thread_id_available \in [Tid -> BOOLEAN]
      /\ blocked \in [Tid -> BOOLEAN]
      /\ run.pc # "switch" => current_running_thread = run.own
  BY DEF BarrierInv, CallsInv, SchedInv, SchedTypeOK, Continuation, RunningInv
<1>2. CallsInv'
  BY <1>0, <1>1, OutsideInv DEF OutsideStep
<1>3. BarrierTypeOK' /\ WaitRules'
  BY DEF BarrierInv, BarrierTypeOK, WaitRules, Doing, csVars, barrierVars
<1>4. run'.own = run.own
  BY <1>0, <1>1, OutsideStays
<1>5. run.pc \notin InSchedule /\ ~blocked[run.own]
  BY <1>0, <1>1 DEF AwakeInv, InSchedule, OutsideStep, CreatePick, CreateClaim, CreatePublish,
     Exit, ProcessExit, Running
<1>6. \A t \in Tid : Registered(t)' = Registered(t)
  BY DEF Registered, barrierVars
<1>7. CASE CreatePick
  <2>1. UNCHANGED <<thread_id_available, blocked>> /\ run.pc = "user" /\ run'.pc = "picked"
    BY <1>1, <1>7 DEF CreatePick, Running, Continuation
  <2>2. \A t \in Tid : Active(t)' <=> Active(t)
    BY <2>1 DEF Active, Exists, Fresh
  <2> QED
    BY <1>1, <1>2, <1>3, <1>4, <1>5, <1>6, <2>1, <2>2 DEF BarrierInv, AwakeInv,
       RegisterInv
<1>8. CASE CreateClaim
  <2>1. /\ UNCHANGED blocked /\ run.pc = "picked" /\ run'.pc = "claimed" /\ run'.id = run.id
        /\ thread_id_available' = [thread_id_available EXCEPT ![run.id] = ~@]
        /\ ~Exists(run.id)
    BY <1>1, <1>8 DEF CreateClaim, Running, Continuation, CallsInv, SchedInv, CreateInv
  <2>2. \A t \in Tid : Active(t)' <=> Active(t)
    BY <1>1, <2>1 DEF Active, Exists, Fresh
  <2> QED
    BY <1>1, <1>2, <1>3, <1>4, <1>5, <1>6, <2>1, <2>2 DEF BarrierInv, AwakeInv,
       RegisterInv
<1>9. CASE CreatePublish
  <2>1. /\ UNCHANGED thread_id_available /\ run.pc = "claimed" /\ run'.pc = "user"
        /\ blocked' = [blocked EXCEPT ![run.id] = FALSE]
    BY <1>9 DEF CreatePublish, Running, At
  <2>2. /\ ~Active(run.id)
        /\ \A t \in Tid : t # run.id => Active(t)' = Active(t) /\ blocked'[t] = blocked[t]
    BY <1>1, <2>1 DEF Active, Exists, Fresh
  <2>3. Registered(run.id) = {} /\ ~blocked'[run.id]
    BY <1>1, <2>1, <2>2 DEF BarrierInv, RegisterInv
  <2>4. RegisterInv'
    <3> SUFFICES ASSUME NEW t \in Tid
                 PROVE  /\ Registered(t) # {} <=> Active(t)' /\ blocked'[t]
                        /\ \A r, s \in Registered(t) : r = s
      BY <1>6 DEF RegisterInv
    <3>1. CASE t = run.id
      BY <2>3, <3>1
    <3>2. CASE t # run.id
      BY <2>2, <3>2 DEF BarrierInv, RegisterInv
    <3> QED
      BY <3>1, <3>2
  <2>5. AwakeInv'
    BY <1>1, <1>4, <1>5, <2>1, <2>2 DEF AwakeInv
  <2> QED
    BY <1>2, <1>3, <2>4, <2>5 DEF BarrierInv
<1>10. CASE Exit /\ HoldsNothing
  <2>1. /\ UNCHANGED blocked /\ run.pc = "user" /\ run'.pc = "schedule"
        /\ thread_id_available' = [thread_id_available EXCEPT ![run.own] = ~@]
    BY <1>1, <1>10 DEF Exit, Running, Continuation
  <2>2. Active(run.own)
    BY <1>1, <2>1, CallerIsActive
  <2>3. \A t \in Tid : /\ t # run.own => Active(t)' = Active(t)
                       /\ t = run.own => ~Active(t)'
    BY <1>1, <2>1, <2>2 DEF Active, Exists, Fresh
  <2>4. Registered(run.own) = {}
    BY <1>1, <1>5 DEF BarrierInv, RegisterInv
  <2>5. RegisterInv'
    <3> SUFFICES ASSUME NEW t \in Tid
                 PROVE  /\ Registered(t) # {} <=> Active(t)' /\ blocked'[t]
                        /\ \A r, s \in Registered(t) : r = s
      BY <1>6 DEF RegisterInv
    <3>1. CASE t = run.own
      BY <2>3, <2>4, <3>1
    <3>2. CASE t # run.own
      BY <2>1, <2>3, <3>2 DEF BarrierInv, RegisterInv
    <3> QED
      BY <3>1, <3>2
  <2>6. AwakeInv'
    BY <1>1, <1>4, <1>5, <2>1, <2>3 DEF AwakeInv
  <2> QED
    BY <1>2, <1>3, <2>5, <2>6 DEF BarrierInv
<1>11. CASE ProcessExit
  <2>1. UNCHANGED <<thread_id_available, blocked, run>>
    BY <1>11 DEF ProcessExit
  <2>2. \A t \in Tid : Active(t)' <=> Active(t)
    BY <2>1 DEF Active, Exists, Fresh
  <2> QED
    BY <1>1, <1>2, <1>3, <1>6, <2>1, <2>2 DEF BarrierInv, AwakeInv, RegisterInv
<1> QED
  BY <1>7, <1>8, <1>9, <1>10, <1>11

-----------------------------------------------------------------------------
(* Steps of a call.                                                        *)

\* A call ends or goes on, or one begins that the client may make.
LEMMA WaitRulesStep ==
  ASSUME BarrierInv, run.own \in Tid,
         \A b \in Barriers : handle[b] # 0 => handle'[b] # 0,
         \/ UNCHANGED call
         \/ \E c : /\ call' = [call EXCEPT ![run.own] = c]
                   /\ \A b \in Barriers :
                        /\ c = [op |-> "barrier_destroy", obj |-> b] => handle[b] # 0
                        /\ c = [op |-> "barrier_wait", obj |-> b] =>
                             handle[b] # 0
  PROVE  WaitRules'
<1>1. CASE UNCHANGED call
  BY <1>1 DEF BarrierInv, WaitRules, Doing
<1>2. CASE ~UNCHANGED call
  <2>1. PICK c : /\ call' = [call EXCEPT ![run.own] = c]
                 /\ \A b \in Barriers :
                      /\ c = [op |-> "barrier_destroy", obj |-> b] => handle[b] # 0
                      /\ c = [op |-> "barrier_wait", obj |-> b] =>
                           handle[b] # 0
    BY <1>2
  <2>2. call'[run.own] = c /\ \A t \in Tid : t # run.own => call'[t] = call[t]
    BY <2>1 DEF BarrierInv, CallsInv, CSTypeOK
  <2> SUFFICES ASSUME NEW t \in Tid, NEW b \in Barriers
               PROVE  /\ Doing(t, "barrier_destroy", b)' => handle'[b] # 0
                      /\ Doing(t, "barrier_wait", b)' => handle'[b] # 0
    BY DEF WaitRules
  <2>3. CASE t = run.own
    BY <2>1, <2>2, <2>3 DEF Doing
  <2>4. CASE t # run.own
    BY <2>2, <2>4 DEF Doing, BarrierInv, WaitRules
  <2> QED
    BY <2>3, <2>4
<1> QED
  BY <1>1, <1>2

\* What is left to show of a step of a call that blocks nobody.
LEMMA CallStepBarrierInv ==
  ASSUME BarrierInv, Calm, CallStep, CallsInv', BarrierTypeOK', WaitRules',
         \A t \in Tid : blocked'[t] => blocked[t],
         \A t \in Tid : /\ Registered(t)' # {} <=> Active(t) /\ blocked'[t]
                        /\ \A r, s \in Registered(t)' : r = s
  PROVE  BarrierInv'
<1>1. /\ run.own \in Tid /\ run'.own = run.own
      /\ run.pc \in {"user"} \cup CallLabels
      /\ run'.pc \in {"user", "schedule"} \cup CallLabels
      /\ \A t \in Tid : Active(t)' <=> Active(t)
  BY CallStepStays DEF BarrierInv
<1>2. run.pc \notin InSchedule /\ run'.pc \notin {"assign", "switch"}
  BY <1>1 DEF InSchedule, CallLabels
<1>3. ~blocked[run.own]
  BY <1>2 DEF BarrierInv, AwakeInv
<1>4. AwakeInv'
  BY <1>1, <1>2, <1>3 DEF BarrierInv, AwakeInv
<1>5. RegisterInv'
  BY <1>1 DEF RegisterInv
<1> QED
  BY <1>4, <1>5 DEF BarrierInv

\* The calls as such, and those on mutexes, do nothing to the barriers.
LEMMA OtherCallsBarrierInv ==
  ASSUME BarrierInv, Calm, UNCHANGED <<barrierVars, blocked>>, CallsInv',
         FillSet \/ BlockAlarm \/ MutexCall \/ MutexStep \/ BarrierCall \/ WaitDestroyed
           \/ BarrierReturn
  PROVE  BarrierInv'
<1>1. CallStep /\ run.own \in Tid
  BY CallStepStays DEF CallStep, BarrierStep, BarrierInv
<1>2. BarrierTypeOK'
  BY DEF BarrierInv, BarrierTypeOK, barrierVars
<1>3. \A t \in Tid : Registered(t)' = Registered(t)
  BY DEF Registered, barrierVars
<1>4. WaitRules'
  <2>1. CASE BarrierCall
    <3>1. PICK op \in BarrierOps, o \in Barriers :
            /\ call' = [call EXCEPT ![run.own] = [op |-> op, obj |-> o]]
            /\ op = "barrier_destroy" => handle[o] # 0
            /\ op = "barrier_wait" => handle[o] # 0
      BY <2>1 DEF BarrierCall, CallBarrierInit, CallBarrierDestroy, CallBarrierWait, Enter,
         BarrierOps
    <3> DEFINE c == [op |-> op, obj |-> o]
    <3>2. ASSUME NEW x, NEW b, c = [op |-> x, obj |-> b]
          PROVE  op = x /\ o = b
      <4>1. c.op = x /\ c.obj = b
        BY <3>2
      <4> QED
        BY <4>1
    <3>3. \A b \in Barriers :
            /\ c = [op |-> "barrier_destroy", obj |-> b] => handle[b] # 0
            /\ c = [op |-> "barrier_wait", obj |-> b] =>
                 handle[b] # 0
      BY <3>1, <3>2
    <3> HIDE DEF c
    <3> QED
      BY <1>1, <3>1, <3>3, WaitRulesStep DEF barrierVars, c
  <2>2. CASE \/ UNCHANGED call
             \/ call' = [call EXCEPT ![run.own] = NoCall]
    <3>1. \A op \in BarrierOps, b \in Barriers : NoCall # [op |-> op, obj |-> b]
      BY CallType DEF Calls
    <3> QED
      BY <1>1, <2>2, <3>1, WaitRulesStep DEF barrierVars, BarrierOps
  <2>3. CASE MutexCall
    <3>1. PICK op \in MutexOps : \E o : call' = [call EXCEPT ![run.own] = [op |-> op, obj |-> o]]
      BY <2>3 DEF MutexCall, CallMutexInit, CallMutexDestroy, CallMutexLock,
         CallMutexUnlock, Enter, MutexOps
    <3>2. PICK o : call' = [call EXCEPT ![run.own] = [op |-> op, obj |-> o]]
      BY <3>1
    <3> DEFINE c == [op |-> op, obj |-> o]
    <3>3. \A x \in BarrierOps : \A b : c # [op |-> x, obj |-> b]
      <4> SUFFICES ASSUME NEW x \in BarrierOps, NEW b, c = [op |-> x, obj |-> b]
                   PROVE  FALSE
        OBVIOUS
      <4>1. c.op = x
        OBVIOUS
      <4> QED
        BY <4>1 DEF MutexOps, BarrierOps
    <3> HIDE DEF c
    <3> QED
      BY <1>1, <3>2, <3>3, WaitRulesStep DEF barrierVars, BarrierOps, c
  <2> QED
    BY <2>1, <2>2, <2>3 DEF FillSet, BlockAlarm, MutexStep, MutexInit, MutexDestroy,
       MutexLock, LockFirst, LockElem, LockTest, LockSet, MutexUnlock, WaitDestroyed,
       BarrierReturn, ReturnFromYield, Leave, LeaveAndYield, csVars
<1> QED
  BY <1>1, <1>2, <1>3, <1>4, CallStepBarrierInv DEF BarrierInv, RegisterInv

\* The end of the body of a barrier call keeps the rules.
LEMMA BodyRules ==
  ASSUME BarrierInv, run.own \in Tid,
         \A b \in Barriers : handle[b] # 0 => handle'[b] # 0,
         UNCHANGED call \/ call' = [call EXCEPT ![run.own] = NoCall]
  PROVE  WaitRules'
<1>1. \A op \in BarrierOps, b \in Barriers : NoCall # [op |-> op, obj |-> b]
  BY CallType DEF Calls
<1> QED
  BY <1>1, WaitRulesStep DEF BarrierOps

\* A new slot is empty, and a destroyed one keeps its waiting array.
LEMMA InitDestroyInv ==
  ASSUME BarrierInv, Calm, CallsInv', BarrierTypeOK', BarrierInit \/ BarrierDestroy
  PROVE  BarrierInv'
<1>1. CallStep /\ run.own \in Tid /\ UNCHANGED blocked
  BY CallStepStays DEF CallStep, BarrierStep, BarrierInv, BarrierInit, BarrierDestroy
<1>2. call' = [call EXCEPT ![run.own] = NoCall]
  BY DEF BarrierInit, BarrierDestroy, Leave
<1>3. CASE BarrierInit
  <2>1. PICK count \in Counts \ {0} :
          slots' = Append(slots, [orig |-> count, waiting |-> << >>, destroyed |-> FALSE])
    BY <1>3 DEF BarrierInit
  <2>2. /\ Len(slots) \in Nat /\ Len(slots') = Len(slots) + 1
        /\ \A r \in 1 .. Len(slots) : slots'[r] = slots[r]
        /\ slots'[Len(slots) + 1].waiting = << >>
    BY <2>1 DEF BarrierInv, BarrierTypeOK
  <2>3. \A t \in Tid : Registered(t)' = Registered(t)
    BY <2>2 DEF Registered
  <2>4. \A b \in Barriers : handle[b] # 0 => handle'[b] # 0
    BY <1>3, <2>2 DEF BarrierInit, BarrierInv, BarrierTypeOK
  <2>5. WaitRules'
    BY <1>1, <1>2, <2>4, BodyRules
  <2> QED
    BY <1>1, <2>3, <2>5, CallStepBarrierInv DEF BarrierInv, RegisterInv
<1>4. CASE BarrierDestroy
  <2>1. slots' = [slots EXCEPT ![handle[Target]].destroyed = TRUE] /\ UNCHANGED handle
    BY <1>4 DEF BarrierDestroy
  <2>2. /\ Len(slots') = Len(slots)
        /\ \A r \in 1 .. Len(slots) : slots'[r].waiting = slots[r].waiting
    BY <2>1 DEF BarrierInv, BarrierTypeOK, Slot
  <2>3. \A t \in Tid : Registered(t)' = Registered(t)
    BY <2>2 DEF Registered
  <2>4. WaitRules'
    BY <1>1, <1>2, <2>1, BodyRules
  <2> QED
    BY <1>1, <2>3, <2>4, CallStepBarrierInv DEF BarrierInv, RegisterInv
<1> QED
  BY <1>3, <1>4

\* The last thread of the party releases everybody recorded; any other thread is
\* recorded and blocked, and yields.
LEMMA BarrierWaitInv ==
  ASSUME BarrierInv, Calm, CallsInv', BarrierTypeOK', BarrierWait
  PROVE  BarrierInv'
<1> DEFINE s       == handle[Target]
           arrived == Append(slots[s].waiting, run.own)
<1>1. run.pc = "barrier_wait" /\ CallsInv /\ BarrierTypeOK /\ run \in Continuation
  BY DEF BarrierWait, Running, BarrierInv, CallsInv, SchedInv, SchedTypeOK
<1>2. /\ run.own \in Tid /\ Active(run.own) /\ current_running_thread = run.own
      /\ Target \in Barriers /\ Doing(run.own, "barrier_wait", Target)
      /\ handle[Target] # 0 => handle[Target] \in 1 .. Len(slots)
  BY <1>1, BarrierTarget DEF BarrierOps
<1>3. s \in 1 .. Len(slots)
  BY <1>2 DEF BarrierInv, WaitRules
<1>4. CallStep /\ run'.own = run.own /\ (\A t \in Tid : Active(t)' <=> Active(t))
      /\ UNCHANGED handle
  BY CallStepStays DEF CallStep, BarrierStep, BarrierInv, BarrierWait
<1>5. ~blocked[run.own] /\ Registered(run.own) = {}
  BY <1>1, <1>2 DEF BarrierInv, AwakeInv, RegisterInv, InSchedule
<1>6. /\ slots[s].waiting \in Seq(Tid) /\ arrived \in Seq(Tid)
      /\ Len(arrived) = Len(slots[s].waiting) + 1
      /\ \A i \in 1 .. Len(slots[s].waiting) : arrived[i] = slots[s].waiting[i]
      /\ arrived[Len(arrived)] = run.own
  <2> HIDE DEF s
  <2>1. slots[s] \in Slot
    BY <1>1, <1>3 DEF BarrierTypeOK
  <2>2. slots[s].waiting \in Seq(Tid)
    BY <2>1 DEF Slot
  <2> QED
    BY <1>2, <2>2
<1>7. \A t \in Tid : t \in Released(arrived) <=> t = run.own \/ s \in Registered(t)
  <2>1. \A t \in Tid : s \in Registered(t) <=>
          \E i \in 1 .. Len(slots[s].waiting) : slots[s].waiting[i] = t
    BY <1>3 DEF Registered
  <2> HIDE DEF arrived, s
  <2>2. ASSUME NEW t \in Tid, t = run.own \/ s \in Registered(t)
        PROVE  \E i \in 1 .. Len(arrived) : arrived[i] = t
    <3>1. CASE t = run.own
      BY <1>6, <3>1
    <3>2. CASE s \in Registered(t)
      <4>1. PICK i \in 1 .. Len(slots[s].waiting) : slots[s].waiting[i] = t
        BY <2>1, <3>2
      <4>2. i \in 1 .. Len(arrived) /\ arrived[i] = t
        BY <1>6, <4>1
      <4> QED
        BY <4>2
    <3> QED
      BY <2>2, <3>1, <3>2
  <2>3. ASSUME NEW i \in 1 .. Len(arrived), arrived[i] # run.own
        PROVE  s \in Registered(arrived[i])
    <3>1. i \in 1 .. Len(slots[s].waiting) /\ arrived[i] \in Tid
      BY <1>6, <2>3
    <3> QED
      BY <1>6, <2>1, <3>1
  <2> QED
    BY <2>2, <2>3 DEF Released
<1> HIDE DEF s, arrived
<1>8. CASE /\ slots' = [slots EXCEPT ![s].waiting = << >>]
           /\ blocked' = [t \in Tid |-> blocked[t] /\ t \notin Released(arrived)]
           /\ Leave
  <2>1. << >> \in Seq(Tid) /\ Len(<< >>) = 0
    OBVIOUS
  <2>2. \A t \in Tid : Registered(t)' = Registered(t) \ {s}
    <3> DEFINE w == << >>
    <3>0. Len(w) = 0
      BY <2>1
    <3>1. w \in Seq(Tid) /\ slots' = [slots EXCEPT ![s].waiting = w]
      BY <1>8, <2>1
    <3> HIDE DEF w
    <3>2. \A t \in Tid : Registered(t)' =
            (Registered(t) \ {s}) \cup {r \in {s} : \E i \in 1 .. Len(w) : w[i] = t}
      BY <1>1, <1>3, <3>1, WaitingChange
    <3>3. \A t \in Tid : {r \in {s} : \E i \in 1 .. Len(w) : w[i] = t} = {}
      BY <3>0
    <3> QED
      BY <3>2, <3>3
  <2>3. ASSUME NEW t \in Tid
        PROVE  /\ Registered(t)' # {} <=> Active(t) /\ blocked'[t]
               /\ \A r, q \in Registered(t)' : r = q
    <3>1. CASE t \in Released(arrived)
      <4>1. Registered(t) \ {s} = {}
        BY <1>5, <1>7, <3>1 DEF BarrierInv, RegisterInv
      <4> QED
        BY <1>8, <2>2, <3>1, <4>1
    <3>2. CASE t \notin Released(arrived)
      <4>1. Registered(t) \ {s} = Registered(t)
        BY <1>7, <3>2
      <4> QED
        BY ZenonT(30), <1>8, <2>2, <3>2, <4>1 DEF BarrierInv, RegisterInv
    <3> QED
      BY <3>1, <3>2
  <2>4. WaitRules'
    BY <1>2, <1>4, <1>8, BodyRules DEF Leave
  <2> QED
    BY <1>4, <1>8, <2>3, <2>4, CallStepBarrierInv
<1>9. CASE /\ slots' = [slots EXCEPT ![s].waiting = arrived]
           /\ blocked' = [blocked EXCEPT ![run.own] = TRUE]
           /\ LeaveAndYield("barrier_return")
  <2>1. \A t \in Tid : Registered(t)' =
          (Registered(t) \ {s}) \cup {r \in {s} : \E i \in 1 .. Len(arrived) : arrived[i] = t}
    BY <1>1, <1>3, <1>6, <1>9, WaitingChange
  <2>2. blocked \in [Tid -> BOOLEAN]
    BY <1>1 DEF CallsInv, SchedInv, SchedTypeOK
  <2>3. ASSUME NEW t \in Tid
        PROVE  /\ Registered(t)' = IF t = run.own THEN {s} ELSE Registered(t)
               /\ blocked'[t] = IF t = run.own THEN TRUE ELSE blocked[t]
    <3>1. (\E i \in 1 .. Len(arrived) : arrived[i] = t) <=> t = run.own \/ s \in Registered(t)
      BY <1>7 DEF Released
    <3>2. blocked'[t] = IF t = run.own THEN TRUE ELSE blocked[t]
      BY <1>9, <2>2
    <3>3. CASE t = run.own
      BY <1>5, <2>1, <3>1, <3>2, <3>3
    <3>4. CASE t # run.own
      <4>1. Registered(t)' = (Registered(t) \ {s}) \cup {r \in {s} : s \in Registered(t)}
        BY <2>1, <3>1, <3>4
      <4>2. (Registered(t) \ {s}) \cup {r \in {s} : s \in Registered(t)} = Registered(t)
        OBVIOUS
      <4> QED
        BY <3>2, <3>4, <4>1, <4>2
    <3> QED
      BY <3>3, <3>4
  <2>4. RegisterInv'
    <3> SUFFICES ASSUME NEW t \in Tid
                 PROVE  /\ Registered(t)' # {} <=> Active(t) /\ blocked'[t]
                        /\ \A r, q \in Registered(t)' : r = q
      BY <1>4 DEF RegisterInv
    <3>1. CASE t = run.own
      BY <1>2, <2>3, <3>1
    <3>2. CASE t # run.own
      <4>1. Registered(t)' = Registered(t) /\ blocked'[t] = blocked[t]
        BY <2>3, <3>2
      <4>2. /\ Registered(t) # {} <=> Active(t) /\ blocked[t]
            /\ \A r, q \in Registered(t) : r = q
        BY DEF BarrierInv, RegisterInv
      <4> QED
        BY <4>1, <4>2
    <3> QED
      BY <3>1, <3>2
  <2>5. run'.pc = "schedule" /\ run'.ret = "barrier_return"
    BY <1>1, <1>9 DEF LeaveAndYield, Continuation
  <2>6. AwakeInv'
    BY <1>2, <1>3, <1>4, <2>3, <2>5 DEF BarrierInv, AwakeInv, InSchedule
  <2>7. WaitRules'
    BY <1>2, <1>4, <1>9, BodyRules DEF LeaveAndYield
  <2> QED
    BY <2>4, <2>6, <2>7 DEF BarrierInv
<1> QED
  BY <1>2, <1>8, <1>9 DEF BarrierWait, s, arrived

-----------------------------------------------------------------------------
(* The theorems.                                                           *)

\* BarrierInv holds at the start.
LEMMA InitBarrierInv == Init => BarrierInv
<1> SUFFICES ASSUME Init PROVE BarrierInv
  OBVIOUS
<1>1. CallsInv /\ \A t \in Tid : call[t] = NoCall
  BY InitCallsInv DEF Init, CSInit
<1>2. run.own = 0 /\ run.pc = "user"
  BY DEF Init, SchedInit, At
<1>3. BarrierTypeOK /\ \A t \in Tid : Registered(t) = {}
  BY DEF Init, BarrierVarsInit, BarrierTypeOK, Registered
<1>4. WaitRules
  <2>1. \A op \in BarrierOps, b \in Barriers : NoCall # [op |-> op, obj |-> b]
    BY CallType DEF Calls
  <2> QED
    BY <1>1, <2>1 DEF WaitRules, Doing, BarrierOps
<1>5. AwakeInv
  BY <1>2 DEF AwakeInv, Init, SchedInit, Active, Exists, Fresh
<1>6. RegisterInv
  BY <1>3 DEF RegisterInv, Active, Exists, Init, SchedInit
<1> QED
  BY <1>1, <1>3, <1>4, <1>5, <1>6 DEF BarrierInv

\* Every step keeps BarrierInv.
LEMMA StepBarrierInv ==
  ASSUME BarrierInv, Calm, ~alone', [Next]_vars
  PROVE  BarrierInv'
<1>1. CallsInv'
  BY StepCallsInv DEF BarrierInv
<1>2. CASE Scheduling /\ NoteAlone /\ UNCHANGED <<csVars, barrierVars>>
  BY <1>2, SchedulingBarrierInv
<1>3. CASE /\ CreatePick \/ CreateClaim \/ CreatePublish \/ (Exit /\ HoldsNothing) \/ ProcessExit
           /\ UNCHANGED <<csVars, barrierVars>>
  BY <1>3, OutsideBarrierInv
<1>4. CASE /\ UNCHANGED <<barrierVars, blocked>>
           /\ FillSet \/ BlockAlarm \/ MutexCall \/ MutexStep \/ BarrierCall
                \/ WaitDestroyed \/ BarrierReturn
  BY <1>1, <1>4, OtherCallsBarrierInv
<1>5. CASE BarrierInit \/ BarrierDestroy \/ BarrierWait
  <2>1. BarrierTypeOK'
    BY <1>5, BarrierStepType DEF BarrierInv, BarrierStep
  <2> QED
    BY <1>1, <1>5, <2>1, InitDestroyInv, BarrierWaitInv
<1>6. CASE UNCHANGED vars
  <2>1. BarrierTypeOK' /\ WaitRules'
    BY <1>6 DEF vars, csVars, barrierVars, BarrierInv, BarrierTypeOK, WaitRules, Doing
  <2>2. AwakeInv' /\ RegisterInv'
    BY <1>6 DEF vars, schedVars, barrierVars, BarrierInv, AwakeInv, RegisterInv,
       Registered, Active, Exists, Fresh
  <2> QED
    BY <1>1, <2>1, <2>2 DEF BarrierInv
<1>7. UNCHANGED blocked \/ ~(FillSet \/ BlockAlarm \/ MutexCall \/ MutexStep \/ BarrierCall
                             \/ WaitDestroyed \/ BarrierReturn)
  BY DEF FillSet, BlockAlarm, MutexCall, CallMutexInit, CallMutexDestroy, CallMutexLock,
     CallMutexUnlock, MutexStep, MutexInit, MutexDestroy, MutexLock, LockFirst, LockElem,
     LockTest, LockSet, MutexUnlock, BarrierCall, CallBarrierInit, CallBarrierDestroy,
     CallBarrierWait, Enter, WaitDestroyed, BarrierReturn, ReturnFromYield
<1>8. WaitDestroyed \/ BarrierReturn => UNCHANGED barrierVars
  BY DEF WaitDestroyed, BarrierReturn
<1>9. Next => \/ Scheduling /\ NoteAlone /\ UNCHANGED <<csVars, barrierVars>>
              \/ /\ UNCHANGED <<csVars, barrierVars>>
                 /\ CreatePick \/ CreateClaim \/ CreatePublish \/ (Exit /\ HoldsNothing)
                      \/ ProcessExit
              \/ UNCHANGED vars
              \/ /\ UNCHANGED barrierVars
                 /\ FillSet \/ BlockAlarm \/ MutexCall \/ MutexStep \/ BarrierCall
              \/ BarrierStep
  BY StoppedStays DEF Next, ThreadStep, LibraryStep, Scheduling, vars
<1> QED
  BY <1>2, <1>3, <1>4, <1>5, <1>6, <1>7, <1>8, <1>9 DEF BarrierStep

\* As long as no blocked thread has come back for want of another one to run, the
\* blocked threads are exactly those some waiting array holds.
THEOREM BarrierInvariant ==
  ASSUME Calm
  PROVE  Spec => [](alone \/ BarrierInv)
<1>1. Init => alone \/ BarrierInv
  BY InitBarrierInv
<1>2. (alone \/ BarrierInv) /\ [Next]_vars => (alone \/ BarrierInv)'
  <2>1. alone /\ [Next]_vars => alone'
    BY DEF Next, NoteAlone, vars
  <2> QED
    BY <2>1, StepBarrierInv
<1> QED
  BY <1>1, <1>2, PTL DEF Spec

\* The waiting array of a barrier always has room for the next thread, even for
\* a client that initialises and destroys barriers others are waiting on.
THEOREM WithinCapacityHolds ==
  ASSUME Calm
  PROVE  Spec => []WithinCapacity
<1> DEFINE Room == BarrierTypeOK /\ WithinCapacity
<1>1. Init => Room
  BY DEF Init, BarrierVarsInit, BarrierTypeOK, WithinCapacity
<1>2. CallsInv /\ Room /\ [Next]_vars => Room'
  <2> SUFFICES ASSUME CallsInv, Room, [Next]_vars PROVE Room'
    OBVIOUS
  <2>1. CASE UNCHANGED barrierVars
    BY <2>1 DEF barrierVars, BarrierTypeOK, WithinCapacity
  <2>2. CASE BarrierStep
    BY <2>2, BarrierStepType, CapacityStep
  <2> QED
    BY <2>1, <2>2 DEF Next, vars
<1>3. Room => WithinCapacity
  OBVIOUS
<1> HIDE DEF Room
<1> QED
  BY <1>1, <1>2, <1>3, CallsInvariant, PTL DEF Spec

\* A thread comes back from a wait only when its party has been released, unless
\* somebody has come back for want of another thread to run.
THEOREM ReturnsReleasedHolds ==
  ASSUME Calm
  PROVE  Spec => []ReturnsReleased
<1>1. BarrierInv => WaitsForParty
  <2> SUFFICES ASSUME BarrierInv, run.pc = "barrier_return"
               PROVE  Registered(run.own) = {} /\ ~blocked[run.own]
    BY DEF WaitsForParty
  <2>1. ~blocked[run.own] /\ run.own \in Tid
    BY DEF BarrierInv, AwakeInv, InSchedule, CallsInv, SchedInv, SchedTypeOK, Continuation
  <2> QED
    BY <2>1 DEF BarrierInv, RegisterInv
<1>2. alone \/ BarrierInv => ReturnsReleased
  BY <1>1 DEF ReturnsReleased
<1> QED
  BY <1>2, BarrierInvariant, PTL

-----------------------------------------------------------------------------
(* Who can release a blocked thread.                                       *)

\* While a barrier is being initialised or destroyed nobody else uses it.
UseRules ==
  \A t \in Tid, b \in Barriers :
    Doing(t, "barrier_init", b) \/ Doing(t, "barrier_destroy", b) =>
      /\ \A u \in Tid, op \in BarrierOps : Doing(u, op, b) => u = t
      /\ handle[b] # 0 => slots[handle[b]].waiting = << >>

\* No two barriers share a slot, and who waits does so at a barrier's present one.
SlotsInv ==
  /\ \A b, c \in Barriers : handle[b] # 0 /\ handle[b] = handle[c] => b = c
  /\ \A s \in 1 .. Len(slots) :
       slots[s].waiting # << >> =>
         \E b \in Barriers : handle[b] = s /\ ~slots[s].destroyed

HandlesInv == UseRules /\ SlotsInv

\* A step that begins no barrier call.
LEMMA NoNewUse ==
  ASSUME CallsInv, [Next]_vars, ~BarrierCall, NEW t \in Tid, NEW op \in BarrierOps,
         NEW b \in Barriers, Doing(t, op, b)'
  PROVE  Doing(t, op, b)
<1>1. run.own \in Tid /\ call \in [Tid -> Calls \cup {NoCall}]
  BY DEF CallsInv, SchedInv, SchedTypeOK, Continuation, CSTypeOK
<1>2. NoCall # [op |-> op, obj |-> b]
  BY CallType DEF Calls
<1>3. CASE UNCHANGED call
  BY <1>3 DEF Doing
<1>4. CASE call' = [call EXCEPT ![run.own] = NoCall]
  BY <1>1, <1>2, <1>4 DEF Doing
<1>5. CASE MutexCall
  <2>1. PICK x \in MutexOps : \E o : call' = [call EXCEPT ![run.own] = [op |-> x, obj |-> o]]
    BY <1>5 DEF MutexCall, CallMutexInit, CallMutexDestroy, CallMutexLock,
       CallMutexUnlock, Enter, MutexOps
  <2>2. PICK o : call' = [call EXCEPT ![run.own] = [op |-> x, obj |-> o]]
    BY <2>1
  <2> DEFINE c == [op |-> x, obj |-> o]
             d == [op |-> op, obj |-> b]
  <2>3. c # d
    <3>1. c.op = x /\ d.op = op /\ x # op
      BY DEF MutexOps, BarrierOps
    <3> QED
      BY <3>1
  <2> HIDE DEF c, d
  <2>4. call' = [call EXCEPT ![run.own] = c] /\ call'[t] = d
    BY <2>2 DEF Doing, c, d
  <2>5. t # run.own
    BY <1>1, <2>3, <2>4
  <2>6. call[t] = d
    BY <1>1, <2>4, <2>5
  <2> QED
    BY <2>6 DEF Doing, d
<1>6. \/ UNCHANGED call
      \/ call' = [call EXCEPT ![run.own] = NoCall]
      \/ MutexCall
  BY StepKinds DEF CallStep, csVars, vars, FillSet, BlockAlarm, MutexStep, MutexInit,
     MutexDestroy, MutexLock, LockFirst, LockElem, LockTest, LockSet, MutexUnlock,
     BarrierStep, BarrierInit, BarrierDestroy, BarrierWait, WaitDestroyed, BarrierReturn,
     ReturnFromYield, Leave, LeaveAndYield
<1> QED
  BY <1>3, <1>4, <1>5, <1>6

\* A barrier call begins under the rules for the clients.
LEMMA CallHandlesInv ==
  ASSUME CallsInv, BarrierTypeOK, ~TouchInUse, HandlesInv, BarrierCall,
         UNCHANGED barrierVars
  PROVE  HandlesInv'
<1>1. run.own \in Tid /\ call \in [Tid -> Calls \cup {NoCall}]
  BY DEF CallsInv, SchedInv, SchedTypeOK, Continuation, CSTypeOK
<1>2. PICK x \in BarrierOps, o \in Barriers :
        /\ call' = [call EXCEPT ![run.own] = [op |-> x, obj |-> o]]
        /\ x \in {"barrier_init", "barrier_destroy"} => ~InUse(o)
        /\ x = "barrier_wait" =>
             InCall("barrier_init", o) \cup InCall("barrier_destroy", o) = {}
  BY DEF BarrierCall, CallBarrierInit, CallBarrierDestroy, CallBarrierWait, Enter, BarrierOps
<1>3. \A y, z, p, q : [op |-> y, obj |-> p] = [op |-> z, obj |-> q] => y = z /\ p = q
  <2> SUFFICES ASSUME NEW y, NEW z, NEW p, NEW q, [op |-> y, obj |-> p] = [op |-> z, obj |-> q]
               PROVE  y = z /\ p = q
    OBVIOUS
  <2>1. [op |-> y, obj |-> p].op = [op |-> z, obj |-> q].op
        /\ [op |-> y, obj |-> p].obj = [op |-> z, obj |-> q].obj
    OBVIOUS
  <2> QED
    BY <2>1
<1>4. \A y \in BarrierOps, b \in Barriers : NoCall # [op |-> y, obj |-> b]
  BY CallType DEF Calls
<1>5. ASSUME NEW t \in Tid, NEW y \in BarrierOps, NEW b \in Barriers
      PROVE  Doing(t, y, b)' <=> IF t = run.own THEN y = x /\ b = o ELSE Doing(t, y, b)
  <2>1. CASE t = run.own
    <3>1. call'[t] = [op |-> x, obj |-> o]
      BY <1>1, <1>2, <2>1
    <3> QED
      BY <1>3, <2>1, <3>1 DEF Doing
  <2>2. CASE t # run.own
    BY <1>1, <1>2, <2>2 DEF Doing
  <2> QED
    BY <2>1, <2>2
<1>6. ASSUME x \in {"barrier_init", "barrier_destroy"}
      PROVE  /\ \A t \in Tid, y \in BarrierOps : ~Doing(t, y, o)
             /\ handle[o] # 0 => slots[handle[o]].waiting = << >>
  <2>1. ~InUse(o)
    BY <1>2, <1>6
  <2>2. \A t \in Tid : call[t] # NoCall => call[t].obj # o
    BY <2>1 DEF InUse
  <2>3. ASSUME NEW t \in Tid, NEW y \in BarrierOps, Doing(t, y, o)
        PROVE  FALSE
    <3>1. call[t] = [op |-> y, obj |-> o] /\ call[t] # NoCall
      BY <1>4, <2>3 DEF Doing
    <3>2. call[t].obj = o
      BY <3>1
    <3> QED
      BY <2>2, <3>1, <3>2
  <2> QED
    BY <2>1, <2>3 DEF InUse
<1>7. ASSUME x = "barrier_wait", NEW t \in Tid
      PROVE  ~Doing(t, "barrier_init", o) /\ ~Doing(t, "barrier_destroy", o)
  BY <1>2, <1>7 DEF InCall, Doing
<1>8. x \in {"barrier_init", "barrier_destroy"} \/ x = "barrier_wait"
  BY DEF BarrierOps
<1>9. UNCHANGED <<slots, handle>>
  BY DEF barrierVars
<1>10. UseRules'
  <2> SUFFICES ASSUME NEW t \in Tid, NEW b \in Barriers,
                      NEW z \in {"barrier_init", "barrier_destroy"}, Doing(t, z, b)'
               PROVE  /\ \A u \in Tid, op \in BarrierOps : Doing(u, op, b)' => u = t
                      /\ handle[b] # 0 => slots[handle[b]].waiting = << >>
    BY <1>9 DEF UseRules
  <2>1. z \in BarrierOps
    BY DEF BarrierOps
  <2>2. CASE t = run.own
    <3>1. z = x /\ b = o
      BY <1>5, <2>1, <2>2
    <3> QED
      BY <1>5, <1>6, <2>2, <3>1
  <2>3. CASE t # run.own
    <3>1. Doing(t, z, b)
      BY <1>5, <2>1, <2>3
    <3>2. /\ \A u \in Tid, op \in BarrierOps : Doing(u, op, b) => u = t
          /\ handle[b] # 0 => slots[handle[b]].waiting = << >>
      BY <3>1 DEF HandlesInv, UseRules
    <3>3. b # o
      BY <1>6, <1>7, <1>8, <2>1, <3>1
    <3> QED
      BY <1>5, <3>2, <3>3
  <2> QED
    BY <2>2, <2>3
<1> QED
  BY <1>9, <1>10 DEF HandlesInv, SlotsInv

\* The body of a barrier call acts on the slot of its own barrier only.
LEMMA BodyHandlesInv ==
  ASSUME CallsInv, BarrierTypeOK, HandlesInv, [Next]_vars,
         BarrierInit \/ BarrierDestroy \/ BarrierWait
  PROVE  HandlesInv'
<1>1. /\ run.pc \in BarrierOps
      /\ BarrierInit => run.pc = "barrier_init"
      /\ BarrierDestroy => run.pc = "barrier_destroy"
      /\ BarrierWait => run.pc = "barrier_wait"
  BY DEF BarrierInit, BarrierDestroy, BarrierWait, Running, BarrierOps
<1>2. /\ run.own \in Tid /\ Target \in Barriers /\ Doing(run.own, run.pc, Target)
      /\ handle[Target] # 0 => handle[Target] \in 1 .. Len(slots)
      /\ Len(slots) \in Nat /\ handle \in [Barriers -> 0 .. Len(slots)]
  BY <1>1, BarrierTarget DEF BarrierTypeOK
<1>3. ~BarrierCall
  BY <1>1 DEF BarrierCall, CallBarrierInit, CallBarrierDestroy, CallBarrierWait, Enter,
     Running, BarrierOps
<1>4. \A t \in Tid, op \in BarrierOps, b \in Barriers : Doing(t, op, b)' => Doing(t, op, b)
  BY <1>3, NoNewUse
<1>5. \A t \in Tid, b \in Barriers :
        Doing(t, "barrier_init", b)' \/ Doing(t, "barrier_destroy", b)' =>
          \A u \in Tid, op \in BarrierOps : Doing(u, op, b)' => u = t
  BY <1>4 DEF HandlesInv, UseRules, BarrierOps
<1>6. CASE BarrierInit
  <2>1. PICK count \in Counts \ {0} :
          slots' = Append(slots, [orig |-> count, waiting |-> << >>, destroyed |-> FALSE])
    BY <1>6 DEF BarrierInit
  <2>2. /\ Len(slots') = Len(slots) + 1
        /\ \A r \in 1 .. Len(slots) : slots'[r] = slots[r]
        /\ slots'[Len(slots) + 1].waiting = << >>
    BY <2>1 DEF BarrierTypeOK
  <2>3. \A b \in Barriers : handle'[b] = IF b = Target THEN Len(slots) + 1 ELSE handle[b]
    BY <1>2, <1>6 DEF BarrierInit
  <2>4. handle[Target] # 0 => slots[handle[Target]].waiting = << >>
    BY <1>1, <1>2, <1>6 DEF HandlesInv, UseRules
  <2>5. \A b \in Barriers : handle'[b] # 0 =>
          slots'[handle'[b]].waiting = IF b = Target THEN << >> ELSE slots[handle[b]].waiting
    BY <1>2, <2>2, <2>3
  <2>6. UseRules'
    BY <1>4, <1>5, <2>3, <2>5 DEF HandlesInv, UseRules, BarrierOps
  <2>7. \A b, c \in Barriers : handle'[b] # 0 /\ handle'[b] = handle'[c] => b = c
    BY <1>2, <2>3 DEF HandlesInv, SlotsInv
  <2>8. ASSUME NEW r \in 1 .. Len(slots'), slots'[r].waiting # << >>
        PROVE  \E b \in Barriers : handle'[b] = r /\ ~slots'[r].destroyed
    <3>1. r \in 1 .. Len(slots) /\ slots'[r] = slots[r]
      BY <1>2, <2>2, <2>8
    <3>2. PICK b \in Barriers : handle[b] = r /\ ~slots[r].destroyed
      BY <2>8, <3>1 DEF HandlesInv, SlotsInv
    <3>3. b # Target
      BY <1>2, <2>4, <2>8, <3>1, <3>2
    <3> QED
      BY <2>3, <3>1, <3>2, <3>3
  <2> QED
    BY <2>6, <2>7, <2>8 DEF HandlesInv, SlotsInv
<1>7. CASE BarrierDestroy
  <2>1. slots' = [slots EXCEPT ![handle[Target]].destroyed = TRUE] /\ UNCHANGED handle
    BY <1>7 DEF BarrierDestroy
  <2>2. /\ Len(slots') = Len(slots)
        /\ \A r \in 1 .. Len(slots) : slots'[r].waiting = slots[r].waiting
        /\ \A r \in 1 .. Len(slots) : r # handle[Target] => slots'[r] = slots[r]
    BY <2>1 DEF BarrierTypeOK, Slot
  <2>3. handle[Target] # 0 => slots[handle[Target]].waiting = << >>
    BY <1>1, <1>2, <1>7 DEF HandlesInv, UseRules
  <2>4. \A b \in Barriers : handle[b] # 0 => handle[b] \in 1 .. Len(slots)
    BY <1>2
  <2>5. UseRules'
    BY <1>4, <1>5, <2>1, <2>2, <2>4 DEF HandlesInv, UseRules, BarrierOps
  <2>6. SlotsInv'
    BY <1>2, <2>1, <2>2, <2>3 DEF HandlesInv, SlotsInv
  <2> QED
    BY <2>5, <2>6 DEF HandlesInv
<1>8. CASE BarrierWait
  <2> DEFINE s == handle[Target]
  <2>1. PICK w : slots' = [slots EXCEPT ![s].waiting = w]
    BY <1>8 DEF BarrierWait
  <2>2. UNCHANGED handle /\ ~slots[s].destroyed
    BY <1>8 DEF BarrierWait
  <2>3. /\ Len(slots') = Len(slots)
        /\ \A r \in 1 .. Len(slots) : slots'[r].destroyed = slots[r].destroyed
        /\ \A r \in 1 .. Len(slots) : r # s => slots'[r] = slots[r]
    BY <2>1 DEF BarrierTypeOK, Slot
  <2>0. PICK g \in Barriers : g = Target
    BY <1>2
  <2>4. \A t \in Tid : ~Doing(t, "barrier_init", g)' /\ ~Doing(t, "barrier_destroy", g)'
    <3> SUFFICES ASSUME NEW t \in Tid, NEW z \in {"barrier_init", "barrier_destroy"},
                        Doing(t, z, g)'
                 PROVE  FALSE
      OBVIOUS
    <3>1. Doing(t, z, g) /\ Doing(run.own, "barrier_wait", g)
      BY <1>1, <1>2, <1>4, <1>8, <2>0 DEF BarrierOps
    <3>2. t = run.own
      BY <1>2, <2>0, <3>1 DEF HandlesInv, UseRules, BarrierOps
    <3>3. call[t].op = z /\ call[t].op = "barrier_wait"
      BY <3>1, <3>2 DEF Doing
    <3> QED
      BY <3>3
  <2>5. \A b \in Barriers : b # g /\ handle[b] # 0 => slots'[handle[b]] = slots[handle[b]]
    BY <1>2, <2>0, <2>3 DEF HandlesInv, SlotsInv
  <2>6. UseRules'
    BY <1>2, <1>4, <1>5, <2>0, <2>2, <2>4, <2>5 DEF HandlesInv, UseRules, BarrierOps
  <2>7. SlotsInv'
    BY <1>2, <2>2, <2>3 DEF HandlesInv, SlotsInv
  <2> QED
    BY <2>6, <2>7 DEF HandlesInv
<1> QED
  BY <1>6, <1>7, <1>8

\* Every step keeps HandlesInv.
LEMMA StepHandlesInv ==
  ASSUME CallsInv, BarrierTypeOK, ~TouchInUse, HandlesInv, [Next]_vars
  PROVE  HandlesInv'
<1>1. CASE BarrierCall /\ UNCHANGED barrierVars
  BY <1>1, CallHandlesInv
<1>2. CASE BarrierInit \/ BarrierDestroy \/ BarrierWait
  BY <1>2, BodyHandlesInv
<1>3. CASE ~BarrierCall /\ UNCHANGED barrierVars
  <2>1. UNCHANGED <<slots, handle>>
    BY <1>3 DEF barrierVars
  <2>2. \A t \in Tid, op \in BarrierOps, b \in Barriers : Doing(t, op, b)' => Doing(t, op, b)
    BY <1>3, NoNewUse
  <2> QED
    BY <2>1, <2>2 DEF HandlesInv, UseRules, SlotsInv, BarrierOps
<1> QED
  BY <1>1, <1>2, <1>3 DEF Next, BarrierStep, WaitDestroyed, BarrierReturn, vars

\* As long as barriers in use are neither destroyed nor initialised again, and no
\* blocked thread has come back for want of another one to run, some wait can
\* still release every blocked thread.
THEOREM BlockedIsReleasableHolds ==
  ASSUME Calm, ~TouchInUse
  PROVE  Spec => []BlockedIsReleasable
<1>1. Init => HandlesInv
  <2> SUFFICES ASSUME Init PROVE HandlesInv
    OBVIOUS
  <2>1. slots = << >> /\ (\A b \in Barriers : handle[b] = 0) /\ \A t \in Tid : call[t] = NoCall
    BY DEF Init, BarrierVarsInit, CSInit
  <2>2. \A op \in BarrierOps, b \in Barriers : NoCall # [op |-> op, obj |-> b]
    BY CallType DEF Calls
  <2> QED
    BY <2>1, <2>2 DEF HandlesInv, UseRules, SlotsInv, Doing, BarrierOps
<1>2. CallsInv /\ TypeOK /\ HandlesInv /\ [Next]_vars => HandlesInv'
  BY StepHandlesInv DEF TypeOK
<1>3. TypeOK /\ HandlesInv /\ (alone \/ BarrierInv) => BlockedIsReleasable
  <2> SUFFICES ASSUME TypeOK, HandlesInv, BarrierInv,
                      NEW t \in Tid, Exists(t), blocked[t], ~Fresh(t)
               PROVE  \E b \in Barriers : /\ handle[b] # 0
                                          /\ Registered(t) = {handle[b]}
                                          /\ ~slots[handle[b]].destroyed
    BY DEF BlockedIsReleasable, Fresh
  <2>1. Registered(t) # {} /\ \A r, s \in Registered(t) : r = s
    BY DEF BarrierInv, RegisterInv, Active
  <2>2. PICK s \in Registered(t) : TRUE
    BY <2>1
  <2>3. s \in 1 .. Len(slots) /\ slots[s].waiting # << >>
    <3>1. s \in 1 .. Len(slots) /\ \E i \in 1 .. Len(slots[s].waiting) : TRUE
      BY <2>2 DEF Registered
    <3> QED
      BY <3>1
  <2>4. PICK b \in Barriers : handle[b] = s /\ ~slots[s].destroyed
    BY <2>3 DEF HandlesInv, SlotsInv
  <2>5. s # 0
    BY <2>3
  <2> QED
    BY <2>1, <2>2, <2>4, <2>5
<1> QED
  BY <1>1, <1>2, <1>3, CallsInvariant, TypeCorrect, BarrierInvariant, PTL DEF Spec
=============================================================================
