---------------------------- MODULE ThreadSched ----------------------------
(***************************************************************************)
(* The user-level thread library of threads.c: thread ids, contexts kept   *)
(* with setjmp/longjmp, the round-robin schedule() that is called by       *)
(* pthread_exit (and by mutexes and barriers) and is also the SIGALRM      *)
(* handler.                                                                *)
(*                                                                         *)
(* One kernel thread runs everything, so the state has one executing       *)
(* continuation, run, and one signal mask.  A continuation is what setjmp  *)
(* saves: whose stack it is, where it stands and the locals of the library *)
(* call in progress.  Voluntary calls of schedule() take three steps,      *)
(* because the signal may land between them; the handler is one step,      *)
(* because SIGALRM is blocked while it runs.                               *)
(***************************************************************************)
EXTENDS Naturals

CONSTANTS
  MaxThreads,   \* MAX_THREADS, the number of thread ids
  Labels,       \* where a continuation may stand: SchedLabels and what clients add
  AlarmPoints,  \* the labels at which SIGALRM may land while it is unblocked
  NoCtx         \* the content of a jmp_buf nobody may longjmp to

VARIABLES
  thread_id_available,     \* id -> no thread has it
  status,                  \* id -> TS_READY, TS_RUNNING or TS_EXITED
  blocked,                 \* id -> waits on a barrier
  jump_buf,                \* id -> the continuation to resume, or NoCtx
  current_running_thread,
  run,                     \* the continuation that has the processor
  sigalrm_blocked,         \* SIGALRM is in the process's signal mask
  process                  \* "running", "exited" or "undefined"

schedVars == <<thread_id_available, status, blocked, jump_buf,
               current_running_thread, run, sigalrm_blocked, process>>

Tid == 0 .. MaxThreads - 1

\* user: in client code; picked, claimed: in pthread_create; schedule, assign,
\* switch: in schedule(); exit0: at the exit(0) of pthread_exit.
SchedLabels == {"user", "picked", "claimed", "schedule", "assign", "switch",
                "exit0"}

\* own: whose stack; pc: where; ret: where schedule() returns to; id: the id
\* pthread_create has claimed; old, nxt: oldIndex and newIndex of schedule();
\* hnd: suspended inside the signal handler, so resuming it ends with sigreturn.
Continuation == [own : Tid, pc : Labels, ret : Labels, id : Tid,
                 old : Tid, nxt : Tid, hnd : BOOLEAN]

ASSUME MaxThreadsAssumption  == MaxThreads \in Nat \ {0}
ASSUME LabelsAssumption      == SchedLabels \subseteq Labels
ASSUME AlarmPointsAssumption == AlarmPoints \subseteq Labels
ASSUME NoCtxAssumption       == NoCtx \notin Continuation

At(t, label) == [own |-> t, pc |-> label, ret |-> label, id |-> t,
                 old |-> t, nxt |-> t, hnd |-> FALSE]

Exists(t)   == ~thread_id_available[t]
Runnable(t) == Exists(t) /\ ~blocked[t]

\* The loops of schedule() visit the ids after c and then those before it.
Distance(c, t) == IF t >= c THEN t - c ELSE (t + MaxThreads) - c

Candidates == {t \in Tid \ {current_running_thread} : Runnable(t)}

\* Defect: the search starts over at id 0 each time.
IsLowestCandidate(n) == n \in Candidates /\ \A t \in Candidates : n <= t

IsNext(n) ==
  /\ n \in Candidates
  /\ \A t \in Candidates : Distance(current_running_thread, n)
                             <= Distance(current_running_thread, t)

IsLowestFree(t) ==
  /\ thread_id_available[t]
  /\ \A u \in Tid : thread_id_available[u] => t <= u

SchedTypeOK ==
  /\ thread_id_available \in [Tid -> BOOLEAN]
  /\ status \in [Tid -> {"TS_READY", "TS_RUNNING", "TS_EXITED"}]
  /\ blocked \in [Tid -> BOOLEAN]
  /\ jump_buf \in [Tid -> Continuation \cup {NoCtx}]
  /\ current_running_thread \in Tid
  /\ run \in Continuation
  /\ sigalrm_blocked \in BOOLEAN
  /\ process \in {"running", "exited", "undefined"}

\* Right after scheduler_init(): main is thread 0, the timer is armed, and the
\* blocked flags of the other control blocks hold whatever malloc returned.
SchedInit ==
  /\ thread_id_available = [t \in Tid |-> t # 0]
  /\ status = [t \in Tid |-> IF t = 0 THEN "TS_READY" ELSE "TS_EXITED"]
  /\ blocked \in {b \in [Tid -> BOOLEAN] : ~b[0]}
  /\ jump_buf = [t \in Tid |-> NoCtx]
  /\ current_running_thread = 0
  /\ run = At(0, "user")
  /\ sigalrm_blocked = FALSE
  /\ process = "running"

Running(label) == process = "running" /\ run.pc = label

-----------------------------------------------------------------------------
(* Context switching.                                                      *)

\* longjmp to buf[t].  The mask is not part of a jmp_buf: it stays as it is,
\* unless the context was suspended in the handler, whose return unblocks
\* SIGALRM.  A context is spent when it is resumed; jumping to one that was
\* never saved, or was resumed before, is undefined.
LongJmp(buf, t, mask) ==
  \/ /\ buf[t] # NoCtx
     /\ run' = [buf[t] EXCEPT !.hnd = FALSE]
     /\ jump_buf' = [buf EXCEPT ![t] = NoCtx]
     /\ sigalrm_blocked' = (mask /\ ~buf[t].hnd)
     /\ UNCHANGED process
  \/ /\ buf[t] = NoCtx
     /\ process' = "undefined"
     /\ UNCHANGED <<run, jump_buf, sigalrm_blocked>>

\* Defect: the check whether the thread still exists is inverted.
SetJmpInverted(t, context) ==
  IF ~Exists(t) THEN [jump_buf EXCEPT ![t] = context] ELSE jump_buf

\* setjmp for thread t, skipped when its id has been given back.
SetJmp(t, context) ==
  IF Exists(t) THEN [jump_buf EXCEPT ![t] = context] ELSE jump_buf

\* The loops of schedule(): the next runnable id is chosen ...
ScheduleScan ==
  /\ Running("schedule")
  /\ \E n \in Tid :
       /\ IsNext(n)
       /\ run' = [run EXCEPT !.pc = "assign",
                             !.old = current_running_thread, !.nxt = n]
  /\ status' = [status EXCEPT ![current_running_thread] = "TS_READY"]
  /\ UNCHANGED <<thread_id_available, blocked, jump_buf,
                 current_running_thread, sigalrm_blocked, process>>

\* ... or there is none, and schedule() returns to its caller.
ScheduleReturn ==
  /\ Running("schedule")
  /\ Candidates = {}
  /\ run' = At(run.own, run.ret)
  /\ status' = [status EXCEPT ![current_running_thread] = "TS_RUNNING"]
  /\ UNCHANGED <<thread_id_available, blocked, jump_buf,
                 current_running_thread, sigalrm_blocked, process>>

\* Defect: the index chosen by the loop is advanced once too often.
AssignPastEnd ==
  /\ Running("assign")
  /\ current_running_thread' = run.nxt + 1
  /\ run' = [run EXCEPT !.pc = "switch"]
  /\ UNCHANGED <<thread_id_available, status, blocked, jump_buf,
                 sigalrm_blocked, process>>

ScheduleAssign ==
  /\ Running("assign")
  /\ current_running_thread' = run.nxt
  /\ status' = [status EXCEPT ![run.nxt] = "TS_RUNNING"]
  /\ run' = [run EXCEPT !.pc = "switch"]
  /\ UNCHANGED <<thread_id_available, blocked, jump_buf, sigalrm_blocked,
                 process>>

ScheduleSwitch ==
  /\ Running("switch")
  /\ LongJmp(SetJmp(run.old, At(run.own, run.ret)), current_running_thread,
             sigalrm_blocked)
  /\ UNCHANGED <<thread_id_available, status, blocked, current_running_thread>>

\* The timer expires and the handler, schedule(), runs from end to end with
\* SIGALRM blocked.  Without a candidate it returns and only status may change.
Alarm ==
  /\ process = "running"
  /\ ~sigalrm_blocked
  /\ run.pc \in AlarmPoints
  /\ \/ \E n \in Tid :
          /\ IsNext(n)
          /\ current_running_thread' = n
          /\ status' = [status EXCEPT ![current_running_thread] = "TS_READY",
                                      ![n] = "TS_RUNNING"]
          /\ LongJmp(SetJmp(current_running_thread, [run EXCEPT !.hnd = TRUE]),
                     n, TRUE)
     \/ /\ Candidates = {}
        /\ status' = [status EXCEPT ![current_running_thread] = "TS_RUNNING"]
        /\ UNCHANGED <<jump_buf, current_running_thread, run, sigalrm_blocked,
                       process>>
  /\ UNCHANGED <<thread_id_available, blocked>>

-----------------------------------------------------------------------------
(* The pthread calls.                                                      *)

\* pthread_create finds the lowest free id.  With none the call returns -1 and
\* changes nothing.
CreatePick ==
  /\ Running("user")
  /\ \E t \in Tid :
       /\ IsLowestFree(t)
       /\ run' = [run EXCEPT !.pc = "picked", !.id = t]
  /\ UNCHANGED <<thread_id_available, status, blocked, jump_buf,
                 current_running_thread, sigalrm_blocked, process>>

\* It claims the id by negating its flag: from here schedule() sees the thread,
\* whose control block is whatever was there before.
CreateClaim ==
  /\ Running("picked")
  /\ thread_id_available' = [thread_id_available EXCEPT ![run.id] = ~@]
  /\ run' = [run EXCEPT !.pc = "claimed"]
  /\ UNCHANGED <<status, blocked, jump_buf, current_running_thread,
                 sigalrm_blocked, process>>

\* ... and then builds the context of the thread and its control block, in steps
\* a thread resumed too early would find unfinished: here they are one.
CreatePublish ==
  /\ Running("claimed")
  /\ jump_buf' = [jump_buf EXCEPT ![run.id] = At(run.id, "user")]
  /\ status' = [status EXCEPT ![run.id] = "TS_READY"]
  /\ blocked' = [blocked EXCEPT ![run.id] = FALSE]
  /\ run' = At(run.own, "user")
  /\ UNCHANGED <<thread_id_available, current_running_thread, sigalrm_blocked,
                 process>>

\* pthread_exit, called or reached by returning from the start routine.
Exit ==
  /\ Running("user")
  /\ status' = [status EXCEPT ![current_running_thread] = "TS_EXITED"]
  /\ thread_id_available' =
       [thread_id_available EXCEPT ![current_running_thread] = ~@]
  /\ run' = [run EXCEPT !.pc = "schedule", !.ret = "exit0"]
  /\ UNCHANGED <<blocked, jump_buf, current_running_thread, sigalrm_blocked,
                 process>>

\* exit(): after the last runnable thread has left, or when main returns or
\* any thread calls it.
ProcessExit ==
  /\ Running("exit0") \/ Running("user")
  /\ process' = "exited"
  /\ UNCHANGED <<thread_id_available, status, blocked, jump_buf,
                 current_running_thread, run, sigalrm_blocked>>

\* The exit(0) of the last runnable thread is library code, not the client's.
LastExit == Running("exit0") /\ ProcessExit

\* Nothing runs any more.
Stopped == process # "running" /\ UNCHANGED schedVars

LibraryStep == \/ ScheduleScan \/ ScheduleReturn \/ ScheduleAssign
               \/ ScheduleSwitch \/ CreateClaim \/ CreatePublish

SchedNext ==
  \/ LibraryStep
  \/ Alarm
  \/ CreatePick
  \/ Exit
  \/ ProcessExit
  \/ Stopped

SchedSpec == SchedInit /\ [][SchedNext]_schedVars

-----------------------------------------------------------------------------
(* Properties.                                                             *)

\* Every thread that exists and is not the one executing can be resumed, and
\* what is resumed is that very thread: its control block holds a live context
\* on its own stack, and pthread_self() names the owner of the running stack.
\* The two ends of a window are excepted: an id claimed by the pthread_create
\* in progress, and schedule() between its choice and its longjmp.
\* (threads.c 171-185, 326-351)
ContextIntegrity ==
  /\ process # "undefined"
  /\ run.pc # "switch" => current_running_thread = run.own
  /\ \A t \in Tid :
       Exists(t) /\ t # run.own /\ ~(run.pc = "claimed" /\ run.id = t)
         => jump_buf[t] # NoCtx /\ jump_buf[t].own = t

\* No control block ever holds the context of a thread other than its own:
\* "Use setjmp() to update your currently-active thread's jmp_buf"
\* (threads.c 133).  The code does otherwise when the signal lands between
\* the new value of current_running_thread and setjmp (171-177).
OwnContextSaved ==
  \A t \in Tid : jump_buf[t] # NoCtx => jump_buf[t].own = t

\* An id is given back only by the pthread_exit of the thread that has it.  The
\* code does otherwise when two threads "find available thread id" (threads.c
\* 323) at the same time and both negate its flag (328-330, 364-365).
OnlyExitFreesId ==
  [][\A t \in Tid : Exists(t) /\ ~Exists(t)'
       => run.own = t /\ run.pc = "user"]_schedVars

-----------------------------------------------------------------------------
(* Fairness: the kernel delivers an unblocked, armed SIGALRM; code inside   *)
(* the library goes on; user code that never ends is not assumed to end.    *)

SchedFairness == WF_schedVars(LibraryStep \/ LastExit) /\ WF_schedVars(Alarm)

\* User code is finite: a thread that keeps the processor comes to its end.
FiniteUserCode == WF_schedVars(Exit)

SchedFairSpec == SchedSpec /\ SchedFairness

\* A thread that has been created runs, unless the process ends first
\* (threads.c 141-170; test_busy_threads.c 37-40).
EveryThreadRuns ==
  \A t \in Tid : Exists(t) ~> (run.own = t \/ process # "running")
=============================================================================
