------------------------- MODULE ThreadSchedProofs --------------------------
(***************************************************************************)
(* Proofs about ThreadSched, for every number of threads, as long as the   *)
(* signal stays out of the windows of pthread_create and of a voluntary    *)
(* schedule().                                                             *)
(***************************************************************************)
EXTENDS ThreadSched, TLAPS

Windows == {"picked", "claimed", "assign", "switch"}

Quiet == AlarmPoints \cap Windows = {}

\* A context that may be suspended and resumed at any time.
Resumable(c) == c.pc \notin Windows /\ c.ret \notin Windows

\* Who executes: the current thread, which exists unless it is on its way out
\* of pthread_exit.
RunningInv ==
  /\ process # "undefined"
  /\ run.ret \notin Windows
  /\ run.pc # "switch" => current_running_thread = run.own
  /\ ~Exists(run.own) => /\ run.ret = "exit0"
                         /\ run.pc \in {"schedule", "assign", "switch", "exit0"}

\* A voluntary schedule() between its choice and its longjmp.
SwitchInv ==
  /\ run.pc \in {"assign", "switch"} =>
       run.old = run.own /\ run.nxt # run.own /\ Exists(run.nxt)
  /\ run.pc = "switch" => current_running_thread = run.nxt

\* A pthread_create between finding an id and publishing the thread.
CreateInv ==
  /\ run.pc = "picked" => ~Exists(run.id)
  /\ run.pc = "claimed" => Exists(run.id) /\ run.id # run.own

\* The contexts kept for the threads that do not execute.
SavedInv ==
  \A t \in Tid :
    /\ jump_buf[t] # NoCtx => jump_buf[t].own = t /\ Resumable(jump_buf[t])
    /\ Exists(t) /\ t # run.own /\ ~(run.pc = "claimed" /\ run.id = t)
         => jump_buf[t] # NoCtx

SchedInv == SchedTypeOK /\ RunningInv /\ SwitchInv /\ CreateInv /\ SavedInv

-----------------------------------------------------------------------------
(* The operators.                                                          *)

\* The context a thread gets at a label is a continuation of that thread.
LEMMA AtType ==
  ASSUME NEW t \in Tid, NEW label \in Labels
  PROVE  /\ At(t, label) \in Continuation
         /\ At(t, label).own = t
         /\ At(t, label).pc = label
         /\ At(t, label).ret = label
BY DEF At, Continuation

\* The labels of this module can be named in a continuation.
LEMMA LabelsIn ==
  /\ "user" \in Labels /\ "picked" \in Labels /\ "claimed" \in Labels
  /\ "schedule" \in Labels /\ "assign" \in Labels /\ "switch" \in Labels
  /\ "exit0" \in Labels
BY LabelsAssumption DEF SchedLabels

\* Thread 0 is one of the ids.
LEMMA ZeroTid == 0 \in Tid
BY MaxThreadsAssumption DEF Tid

-----------------------------------------------------------------------------
(* SchedInv is inductive.                                                  *)

\* The state scheduler_init() leaves satisfies the invariant.
LEMMA SchedInitInv == SchedInit => SchedInv
<1> SUFFICES ASSUME SchedInit PROVE SchedInv
  OBVIOUS
<1>1. run \in Continuation /\ run.own = 0 /\ run.pc = "user" /\ run.ret = "user"
  BY AtType, ZeroTid, LabelsIn DEF SchedInit
<1>2. SchedTypeOK
  BY <1>1, ZeroTid DEF SchedInit, SchedTypeOK
<1>3. RunningInv /\ SwitchInv /\ CreateInv
  BY <1>1, ZeroTid DEF SchedInit, RunningInv, SwitchInv, CreateInv, Exists, Windows
<1>4. SavedInv
  BY <1>1, ZeroTid DEF SchedInit, SavedInv, Exists
<1> QED
  BY <1>2, <1>3, <1>4 DEF SchedInv

\* Where schedule() is about to choose, or has found nobody to choose.
LEMMA ScanInv ==
  ASSUME SchedInv, ScheduleScan \/ ScheduleReturn
  PROVE  SchedInv'
<1> USE DEF SchedInv
<1>1. CASE ScheduleScan
  <2> PICK n \in Tid : /\ IsNext(n)
                       /\ run' = [run EXCEPT !.pc = "assign",
                                    !.old = current_running_thread, !.nxt = n]
    BY <1>1 DEF ScheduleScan
  <2>1. run' \in Continuation /\ run'.own = run.own /\ run'.pc = "assign"
        /\ run'.ret = run.ret /\ run'.old = run.own /\ run'.nxt = n
    BY <1>1, LabelsIn DEF ScheduleScan, Running, Continuation, SchedTypeOK, RunningInv
  <2>2. Exists(n) /\ n # run.own
    BY <1>1 DEF IsNext, Candidates, Runnable, ScheduleScan, Running, RunningInv
  <2>3. SchedTypeOK'
    BY <1>1, <2>1 DEF ScheduleScan, SchedTypeOK
  <2>4. RunningInv' /\ SwitchInv' /\ CreateInv'
    BY <1>1, <2>1, <2>2 DEF ScheduleScan, RunningInv, SwitchInv, CreateInv,
       Exists, Running
  <2>5. SavedInv'
    BY <1>1, <2>1 DEF ScheduleScan, SavedInv, Exists, Running, Resumable
  <2> QED
    BY <2>3, <2>4, <2>5
<1>2. CASE ScheduleReturn
  <2>1. run' \in Continuation /\ run'.own = run.own /\ run'.pc = run.ret
        /\ run'.ret = run.ret
    BY <1>2, AtType DEF ScheduleReturn, SchedTypeOK, Continuation
  <2>2. SchedTypeOK'
    BY <1>2, <2>1 DEF ScheduleReturn, SchedTypeOK
  <2>3. RunningInv' /\ SwitchInv' /\ CreateInv'
    BY <1>2, <2>1 DEF ScheduleReturn, RunningInv, SwitchInv, CreateInv,
       Exists, Running, Windows
  <2>4. SavedInv'
    BY <1>2, <2>1 DEF ScheduleReturn, SavedInv, RunningInv, Exists, Running,
       Resumable
  <2> QED
    BY <2>2, <2>3, <2>4
<1> QED
  BY <1>1, <1>2

\* current_running_thread takes its new value.
LEMMA AssignInv ==
  ASSUME SchedInv, ScheduleAssign
  PROVE  SchedInv'
<1> USE DEF SchedInv
<1>1. run' \in Continuation /\ run'.own = run.own /\ run'.pc = "switch"
      /\ run'.ret = run.ret /\ run'.old = run.old /\ run'.nxt = run.nxt
  BY LabelsIn DEF ScheduleAssign, Continuation, SchedTypeOK
<1>2. SchedTypeOK'
  BY <1>1 DEF ScheduleAssign, SchedTypeOK, Continuation
<1>3. RunningInv' /\ SwitchInv' /\ CreateInv'
  BY <1>1 DEF ScheduleAssign, RunningInv, SwitchInv, CreateInv, Exists, Running
<1>4. SavedInv'
  BY <1>1 DEF ScheduleAssign, SavedInv, Exists, Running, Resumable
<1> QED
  BY <1>2, <1>3, <1>4

\* A longjmp to a thread that exists and does not execute resumes that thread,
\* when the context of the executing one has been saved if it still exists.
LEMMA LongJmpInv ==
  ASSUME SchedInv,
         NEW n \in Tid, n # run.own, Exists(n), run.pc # "claimed",
         NEW c \in Continuation, c.own = run.own, Resumable(c),
         NEW mask \in BOOLEAN,
         LongJmp(SetJmp(run.own, c), n, mask),
         current_running_thread' = n,
         status' \in [Tid -> {"TS_READY", "TS_RUNNING", "TS_EXITED"}],
         UNCHANGED <<thread_id_available, blocked>>
  PROVE  SchedInv' /\ run'.pc \notin Windows
<1> USE DEF SchedInv
<1> DEFINE buf == SetJmp(run.own, c)
<1>0. run.own \in Tid /\ c # NoCtx
  BY NoCtxAssumption DEF SchedTypeOK, Continuation
<1>1. buf \in [Tid -> Continuation \cup {NoCtx}]
  BY <1>0 DEF SetJmp, SchedTypeOK
<1>2. \A t \in Tid :
        /\ buf[t] # NoCtx => buf[t].own = t /\ Resumable(buf[t])
        /\ Exists(t) => buf[t] # NoCtx
  BY <1>0 DEF SetJmp, SchedTypeOK, SavedInv
<1>3. /\ run' = [buf[n] EXCEPT !.hnd = FALSE]
      /\ jump_buf' = [buf EXCEPT ![n] = NoCtx]
      /\ sigalrm_blocked' = (mask /\ ~buf[n].hnd)
      /\ process' = process
  BY <1>2 DEF LongJmp
<1>4. buf[n] \in Continuation /\ buf[n].own = n /\ Resumable(buf[n])
  BY <1>1, <1>2
<1>5. run' \in Continuation /\ run'.own = n /\ run'.pc = buf[n].pc
      /\ run'.ret = buf[n].ret
  BY <1>3, <1>4 DEF Continuation
<1>6. SchedTypeOK'
  <2>1. jump_buf' \in [Tid -> Continuation \cup {NoCtx}]
    BY <1>1, <1>3
  <2>2. sigalrm_blocked' \in BOOLEAN
    BY <1>3
  <2> QED
    BY <1>3, <1>5, <2>1, <2>2 DEF SchedTypeOK
<1>7. RunningInv' /\ SwitchInv' /\ CreateInv'
  BY <1>3, <1>4, <1>5 DEF RunningInv, SwitchInv, CreateInv, Exists, Resumable,
     Windows
<1>8. SavedInv'
  <2> SUFFICES ASSUME NEW t \in Tid
               PROVE  /\ jump_buf'[t] # NoCtx =>
                           jump_buf'[t].own = t /\ Resumable(jump_buf'[t])
                      /\ Exists(t)' /\ t # run'.own => jump_buf'[t] # NoCtx
    BY DEF SavedInv, Resumable
  <2>1. CASE t = n
    BY <1>1, <1>3, <1>5, <2>1
  <2>2. CASE t # n
    BY <1>1, <1>2, <1>3, <2>2 DEF Exists
  <2> QED
    BY <2>1, <2>2
<1>9. run'.pc \notin Windows
  BY <1>4, <1>5 DEF Resumable
<1> QED
  BY <1>6, <1>7, <1>8, <1>9

\* The end of a voluntary schedule().
LEMMA SwitchStepInv ==
  ASSUME SchedInv, ScheduleSwitch
  PROVE  SchedInv' /\ run'.pc \notin Windows
<1> USE DEF SchedInv
<1> DEFINE c == At(run.own, run.ret)
<1>1. run.own \in Tid /\ run.ret \in Labels /\ run.ret \notin Windows
  BY DEF SchedTypeOK, Continuation, RunningInv
<1>2. c \in Continuation /\ c.own = run.own /\ Resumable(c)
  BY <1>1, AtType DEF Resumable
<1>3. /\ run.old = run.own
      /\ current_running_thread = run.nxt
      /\ run.nxt # run.own
      /\ Exists(run.nxt)
      /\ run.pc # "claimed"
  BY DEF ScheduleSwitch, Running, SwitchInv
<1>4. LongJmp(SetJmp(run.own, c), current_running_thread, sigalrm_blocked)
  BY <1>3 DEF ScheduleSwitch
<1>5. current_running_thread \in Tid /\ sigalrm_blocked \in BOOLEAN
  BY DEF SchedTypeOK
<1>6. /\ current_running_thread' = current_running_thread
      /\ status' \in [Tid -> {"TS_READY", "TS_RUNNING", "TS_EXITED"}]
      /\ UNCHANGED <<thread_id_available, blocked>>
  BY DEF ScheduleSwitch, SchedTypeOK
<1> HIDE DEF c, SchedInv
<1> QED
  BY <1>2, <1>3, <1>4, <1>5, <1>6, LongJmpInv

\* The signal handler.
LEMMA AlarmInv ==
  ASSUME SchedInv, Quiet, Alarm
  PROVE  SchedInv' /\ run'.pc \notin Windows
<1>1. /\ run \in Continuation
      /\ run.pc \notin Windows
      /\ run.ret \notin Windows
      /\ current_running_thread = run.own
      /\ run.own \in Tid
  BY DEF SchedInv, Alarm, Quiet, SchedTypeOK, RunningInv, Windows, Continuation
<1>2. CASE \E n \in Tid :
             /\ IsNext(n)
             /\ current_running_thread' = n
             /\ status' = [status EXCEPT ![current_running_thread] = "TS_READY",
                                         ![n] = "TS_RUNNING"]
             /\ LongJmp(SetJmp(current_running_thread,
                               [run EXCEPT !.hnd = TRUE]), n, TRUE)
  <2> DEFINE c == [run EXCEPT !.hnd = TRUE]
  <2>1. PICK n \in Tid :
             /\ IsNext(n)
             /\ current_running_thread' = n
             /\ status' = [status EXCEPT ![current_running_thread] = "TS_READY",
                                         ![n] = "TS_RUNNING"]
             /\ LongJmp(SetJmp(current_running_thread, c), n, TRUE)
    BY <1>2
  <2>2. n # run.own /\ Exists(n)
    BY <1>1, <2>1 DEF IsNext, Candidates, Runnable
  <2>3. c \in Continuation /\ c.own = run.own /\ c.pc = run.pc /\ c.ret = run.ret
    BY <1>1 DEF Continuation
  <2>4. Resumable(c)
    BY <1>1, <2>3 DEF Resumable
  <2>5. /\ status' \in [Tid -> {"TS_READY", "TS_RUNNING", "TS_EXITED"}]
        /\ UNCHANGED <<thread_id_available, blocked>>
    BY <2>1 DEF Alarm, SchedInv, SchedTypeOK
  <2>6. run.pc # "claimed"
    BY <1>1 DEF Windows
  <2>7. LongJmp(SetJmp(run.own, c), n, TRUE)
    BY <1>1, <2>1
  <2>8. current_running_thread' = n
    BY <2>1
  <2> HIDE DEF c
  <2> QED
    BY <2>2, <2>3, <2>4, <2>5, <2>6, <2>7, <2>8, LongJmpInv
<1>3. CASE UNCHANGED <<jump_buf, current_running_thread, run, sigalrm_blocked,
                       process>>
           /\ status' = [status EXCEPT ![current_running_thread] = "TS_RUNNING"]
  <2>1. UNCHANGED <<thread_id_available, blocked>>
    BY DEF Alarm
  <2>2. SchedTypeOK'
    BY <1>3, <2>1 DEF SchedInv, SchedTypeOK
  <2>3. RunningInv' /\ SwitchInv' /\ CreateInv'
    BY <1>3, <2>1 DEF SchedInv, RunningInv, SwitchInv, CreateInv, Exists
  <2>4. SavedInv'
    BY <1>3, <2>1 DEF SchedInv, SavedInv, Exists, Resumable
  <2> QED
    BY <1>1, <1>3, <2>2, <2>3, <2>4 DEF SchedInv
<1> QED
  BY <1>2, <1>3 DEF Alarm

\* The three steps of pthread_create.
LEMMA CreateStepInv ==
  ASSUME SchedInv, CreatePick \/ CreateClaim \/ CreatePublish
  PROVE  SchedInv'
<1> USE DEF SchedInv
<1>0. run.own \in Tid /\ run.id \in Tid
  BY DEF SchedTypeOK, Continuation
<1>1. CASE CreatePick
  <2> PICK t \in Tid : /\ IsLowestFree(t)
                       /\ run' = [run EXCEPT !.pc = "picked", !.id = t]
    BY <1>1 DEF CreatePick
  <2>1. run' \in Continuation /\ run'.own = run.own /\ run'.pc = "picked"
        /\ run'.ret = run.ret /\ run'.id = t
    BY LabelsIn DEF SchedTypeOK, Continuation
  <2>2. SchedTypeOK'
    BY <1>1, <2>1 DEF CreatePick, SchedTypeOK
  <2>3. RunningInv' /\ SwitchInv' /\ CreateInv'
    BY <1>1, <2>1 DEF CreatePick, RunningInv, SwitchInv, CreateInv, Exists,
       Running, IsLowestFree
  <2>4. SavedInv'
    BY <1>1, <2>1 DEF CreatePick, SavedInv, Exists, Running, Resumable
  <2> QED
    BY <2>2, <2>3, <2>4
<1>2. CASE CreateClaim
  <2>1. run' \in Continuation /\ run'.own = run.own /\ run'.pc = "claimed"
        /\ run'.ret = run.ret /\ run'.id = run.id
    BY <1>2, LabelsIn DEF CreateClaim, SchedTypeOK, Continuation
  <2>2. SchedTypeOK'
    BY <1>0, <1>2, <2>1 DEF CreateClaim, SchedTypeOK
  <2>3. \A t \in Tid : Exists(t)' <=> Exists(t) \/ t = run.id
    BY <1>0, <1>2 DEF CreateClaim, CreateInv, Running, Exists, SchedTypeOK
  <2>4. Exists(run.own) /\ run.id # run.own
    BY <1>0, <1>2 DEF CreateClaim, CreateInv, RunningInv, Running
  <2>5. RunningInv' /\ SwitchInv' /\ CreateInv'
    BY <1>0, <1>2, <2>1, <2>3, <2>4 DEF CreateClaim, RunningInv, SwitchInv,
       CreateInv, Running
  <2>6. SavedInv'
    BY <1>2, <2>1, <2>3 DEF CreateClaim, SavedInv, Running, Resumable
  <2> QED
    BY <2>2, <2>5, <2>6
<1>3. CASE CreatePublish
  <2>1. run' \in Continuation /\ run'.own = run.own /\ run'.pc = "user"
        /\ run'.ret = "user"
    BY <1>0, <1>3, AtType, LabelsIn DEF CreatePublish
  <2>2. /\ At(run.id, "user") \in Continuation
        /\ At(run.id, "user").own = run.id
        /\ Resumable(At(run.id, "user"))
    BY <1>0, AtType, LabelsIn DEF Resumable, Windows
  <2>3. SchedTypeOK'
    BY <1>0, <1>3, <2>1, <2>2 DEF CreatePublish, SchedTypeOK
  <2>4. RunningInv' /\ SwitchInv' /\ CreateInv'
    BY <1>0, <1>3, <2>1 DEF CreatePublish, RunningInv, SwitchInv, CreateInv,
       Running, Exists, Windows
  <2>5. SavedInv'
    BY <1>0, <1>3, <2>1, <2>2, NoCtxAssumption DEF CreatePublish, SavedInv,
       Running, Exists, Resumable, SchedTypeOK
  <2> QED
    BY <2>3, <2>4, <2>5
<1> QED
  BY <1>1, <1>2, <1>3

\* pthread_exit up to its call of schedule().
LEMMA ExitInv ==
  ASSUME SchedInv, Exit
  PROVE  SchedInv'
<1> USE DEF SchedInv
<1>1. run' \in Continuation /\ run'.own = run.own /\ run'.pc = "schedule"
      /\ run'.ret = "exit0"
  BY LabelsIn DEF Exit, SchedTypeOK, Continuation
<1>2. current_running_thread = run.own /\ run.own \in Tid
  BY DEF Exit, Running, RunningInv, SchedTypeOK
<1>3. SchedTypeOK'
  BY <1>1, <1>2 DEF Exit, SchedTypeOK
<1>4. RunningInv' /\ SwitchInv' /\ CreateInv'
  BY <1>1, <1>2 DEF Exit, RunningInv, SwitchInv, CreateInv, Running, Exists,
     Windows
<1>5. SavedInv'
  BY <1>1, <1>2 DEF Exit, SavedInv, Running, Exists, Resumable, SchedTypeOK
<1> QED
  BY <1>3, <1>4, <1>5

\* Every step of the library and its clients keeps the invariant.
LEMMA SchedStepInv ==
  ASSUME SchedInv, Quiet, SchedNext \/ UNCHANGED schedVars
  PROVE  SchedInv'
<1>1. CASE ScheduleScan \/ ScheduleReturn
  BY <1>1, ScanInv
<1>2. CASE ScheduleAssign
  BY <1>2, AssignInv
<1>3. CASE ScheduleSwitch
  BY <1>3, SwitchStepInv
<1>4. CASE Alarm
  BY <1>4, AlarmInv
<1>5. CASE CreatePick \/ CreateClaim \/ CreatePublish
  BY <1>5, CreateStepInv
<1>6. CASE Exit
  BY <1>6, ExitInv
<1>7. CASE ProcessExit
  BY <1>7 DEF ProcessExit, SchedInv, SchedTypeOK, RunningInv, SwitchInv,
     CreateInv, SavedInv, Exists, Resumable
<1>8. CASE Stopped \/ UNCHANGED schedVars
  BY <1>8 DEF Stopped, schedVars, SchedInv, SchedTypeOK, RunningInv, SwitchInv,
     CreateInv, SavedInv, Exists, Resumable
<1> QED
  BY <1>1, <1>2, <1>3, <1>4, <1>5, <1>6, <1>7, <1>8 DEF SchedNext, LibraryStep

-----------------------------------------------------------------------------
(* The results.                                                            *)

\* The invariant holds throughout, for any number of threads.
THEOREM SchedInvariant ==
  ASSUME Quiet
  PROVE  SchedSpec => []SchedInv
<1>1. SchedInit => SchedInv
  BY SchedInitInv
<1>2. SchedInv /\ [SchedNext]_schedVars => SchedInv'
  BY SchedStepInv
<1> QED
  BY <1>1, <1>2, PTL DEF SchedSpec

\* Every variable of the scheduler keeps its type.
THEOREM SchedTypeCorrect ==
  ASSUME Quiet
  PROVE  SchedSpec => []SchedTypeOK
<1>1. SchedInv => SchedTypeOK
  BY DEF SchedInv
<1> QED
  BY <1>1, SchedInvariant, PTL

\* With the signal out of the windows, every existing thread can be resumed on
\* its own stack and the process never jumps to an undefined context, however
\* threads are created, preempted and exit (threads.c 130-188, 269-370).
THEOREM ContextIntegrityHolds ==
  ASSUME Quiet
  PROVE  SchedSpec => []ContextIntegrity
<1>1. SchedInv => ContextIntegrity
  BY DEF SchedInv, RunningInv, SavedInv, ContextIntegrity
<1> QED
  BY <1>1, SchedInvariant, PTL
=============================================================================
