-------------------------- MODULE RoundRobinProofs --------------------------
(* The bound on waiting of RoundRobin, for every number of threads.         *)
EXTENDS RoundRobin, ThreadSchedProofs

\* The turns a thread has waited and those still ahead of it, were every id in
\* between to come first, make less than a round; and what a voluntary
\* schedule() has chosen is still the next thread when it acts on the choice.
RRInv ==
  /\ turns \in [Tid -> Nat]
  /\ \A t \in Tid :
       Waiting(t) => turns[t] + Distance(current_running_thread, t)
                       <= MaxThreads - 1
  /\ run.pc = "assign" => IsNext(run.nxt)

\* Seen from c, another thread is between 1 and MaxThreads - 1 places ahead.
LEMMA DistanceRange ==
  ASSUME NEW c \in Tid, NEW t \in Tid, c # t
  PROVE  Distance(c, t) \in 1 .. MaxThreads - 1
BY MaxThreadsAssumption DEF Distance, Tid

\* Handing the processor to a thread no further away than t brings t nearer.
LEMMA DistanceShrinks ==
  ASSUME NEW c \in Tid, NEW n \in Tid, NEW t \in Tid, c # n, n # t, c # t,
         Distance(c, n) <= Distance(c, t)
  PROVE  Distance(n, t) + 1 <= Distance(c, t)
BY MaxThreadsAssumption DEF Distance, Tid

\* A hand-over to the next thread, and a step without one, keep the account.
LEMMA TurnsKept ==
  ASSUME SchedTypeOK, RRInv,
         \/ UNCHANGED current_running_thread
         \/ /\ current_running_thread' \in Tid
            /\ IsNext(current_running_thread'),
         turns' = [t \in Tid |-> IF Waiting(t) /\ Waiting(t)'
                                 THEN Advance(turns[t]) ELSE 0]
  PROVE  /\ turns' \in [Tid -> Nat]
         /\ \A t \in Tid :
              Waiting(t)' => turns'[t] + Distance(current_running_thread', t)
                               <= MaxThreads - 1
<1>1. current_running_thread \in Tid /\ current_running_thread' \in Tid
  BY DEF SchedTypeOK
<1>2. Dispatches \in {0, 1}
  BY DEF Dispatches
<1>3. turns' \in [Tid -> Nat]
  BY <1>2 DEF RRInv, Advance
<1>4. ASSUME NEW t \in Tid, Waiting(t)'
      PROVE  turns'[t] + Distance(current_running_thread', t) <= MaxThreads - 1
  <2>1. t # current_running_thread'
    BY <1>4 DEF Waiting
  <2>2. Distance(current_running_thread', t) \in 1 .. MaxThreads - 1
    BY <1>1, <2>1, DistanceRange
  <2>3. CASE ~Waiting(t)
    BY <2>2, <2>3, MaxThreadsAssumption
  <2>4. CASE Waiting(t) /\ UNCHANGED current_running_thread
    <3>1. turns'[t] = turns[t]
      BY <1>4, <2>4 DEF Advance, Dispatches, RRInv
    <3> QED
      BY <2>4, <3>1 DEF RRInv
  <2>5. CASE Waiting(t) /\ IsNext(current_running_thread')
    <3>1. current_running_thread' # current_running_thread
          /\ t # current_running_thread
          /\ Distance(current_running_thread, current_running_thread')
               <= Distance(current_running_thread, t)
      BY <2>5 DEF IsNext, Candidates, Waiting
    <3>2. Distance(current_running_thread', t) + 1
            <= Distance(current_running_thread, t)
      BY <1>1, <2>1, <3>1, DistanceShrinks
    <3>3. turns[t] + Distance(current_running_thread, t) <= MaxThreads - 1
      BY <2>5 DEF RRInv
    <3>4. Distance(current_running_thread, t) \in 1 .. MaxThreads - 1
      BY <1>1, <3>1, DistanceRange
    <3>5. turns[t] \in Nat /\ turns[t] < MaxThreads
      BY <3>3, <3>4, MaxThreadsAssumption DEF RRInv
    <3>6. turns'[t] = turns[t] + 1
      BY <1>4, <2>5, <3>1, <3>5 DEF Advance, Dispatches
    <3> QED
      BY <2>2, <3>2, <3>3, <3>4, <3>5, <3>6, MaxThreadsAssumption
  <2> QED
    BY <2>3, <2>4, <2>5
<1> QED
  BY <1>3, <1>4

\* Every step either keeps the current thread or hands over to the next one.
LEMMA HandOver ==
  ASSUME SchedInv, RRInv, Quiet, SchedNext
  PROVE  \/ UNCHANGED current_running_thread
         \/ /\ current_running_thread' \in Tid
            /\ IsNext(current_running_thread')
<1>1. CASE ScheduleAssign
  BY <1>1 DEF ScheduleAssign, RRInv, Running, SchedInv, SchedTypeOK, Continuation
<1>2. CASE Alarm
  BY <1>2 DEF Alarm
<1> QED
  BY <1>1, <1>2 DEF SchedNext, LibraryStep, ScheduleScan, ScheduleReturn,
     ScheduleSwitch, CreatePick, CreateClaim, CreatePublish, Exit, ProcessExit,
     Stopped, schedVars

\* A step that arrives between the choice and the assignment is the choice, or
\* leaves it alone.
LEMMA ChoiceKept ==
  ASSUME SchedInv, RRInv, Quiet, SchedNext, run'.pc = "assign"
  PROVE  IsNext(run.nxt)'
<1>1. CASE ScheduleScan
  <2> PICK n \in Tid : /\ IsNext(n)
                       /\ run' = [run EXCEPT !.pc = "assign",
                                    !.old = current_running_thread, !.nxt = n]
    BY <1>1 DEF ScheduleScan
  <2>1. run'.nxt = n
    BY DEF SchedInv, SchedTypeOK, Continuation
  <2> QED
    BY <1>1, <2>1 DEF ScheduleScan, IsNext, Candidates, Runnable, Exists
<1>2. CASE ProcessExit \/ Stopped
  BY <1>2 DEF ProcessExit, Stopped, schedVars, RRInv, IsNext, Candidates,
     Runnable, Exists
<1>3. CASE ScheduleReturn
  BY <1>3, AtType DEF ScheduleReturn, SchedInv, SchedTypeOK, RunningInv,
     Continuation, Windows
<1>4. CASE ScheduleAssign \/ CreatePick \/ CreateClaim \/ Exit
  BY <1>4 DEF ScheduleAssign, CreatePick, CreateClaim, Exit, SchedInv,
     SchedTypeOK, Continuation
<1>5. CASE CreatePublish
  BY <1>5, AtType, LabelsIn DEF CreatePublish, SchedInv, SchedTypeOK, Continuation
<1>6. CASE ScheduleSwitch \/ Alarm
  BY <1>6, SwitchStepInv, AlarmInv DEF Windows
<1> QED
  BY <1>1, <1>2, <1>3, <1>4, <1>5, <1>6 DEF SchedNext, LibraryStep

\* RRInv and SchedInv are kept by every step.
LEMMA RRStepInv ==
  ASSUME SchedInv, RRInv, Quiet, RRNext \/ UNCHANGED rrVars
  PROVE  RRInv'
<1>1. CASE RRNext
  <2>1. SchedTypeOK /\ SchedNext
    BY <1>1 DEF RRNext, SchedInv
  <2>2. \/ UNCHANGED current_running_thread
        \/ /\ current_running_thread' \in Tid
           /\ IsNext(current_running_thread')
    BY <2>1, HandOver
  <2>3. /\ turns' \in [Tid -> Nat]
        /\ \A t \in Tid :
             Waiting(t)' => turns'[t] + Distance(current_running_thread', t)
                              <= MaxThreads - 1
    BY <1>1, <2>1, <2>2, TurnsKept DEF RRNext
  <2>4. run'.pc = "assign" => IsNext(run.nxt)'
    BY <2>1, ChoiceKept
  <2> QED
    BY <2>3, <2>4 DEF RRInv, Distance
<1>2. CASE UNCHANGED rrVars
  BY <1>2 DEF rrVars, schedVars, RRInv, Waiting, Runnable, Exists, IsNext,
     Candidates, Distance
<1> QED
  BY <1>1, <1>2

\* No thread that can run is passed by MaxThreads - 1 times or more, for any
\* number of threads: schedule()'s two loops (threads.c 142-170) are a fair
\* rotation as long as the signal lands outside the windows.
THEOREM BoundedWaitHolds ==
  ASSUME Quiet
  PROVE  RRSpec => []BoundedWait
<1>1. RRInit => SchedInv /\ RRInv
  <2> SUFFICES ASSUME RRInit PROVE SchedInv /\ RRInv
    OBVIOUS
  <2>1. SchedInv
    BY SchedInitInv DEF RRInit
  <2>2. turns \in [Tid -> Nat]
    BY DEF RRInit
  <2>3. ASSUME NEW t \in Tid, Waiting(t)
        PROVE  turns[t] + Distance(current_running_thread, t) <= MaxThreads - 1
    <3>1. current_running_thread \in Tid /\ t # current_running_thread
      BY <2>1, <2>3 DEF SchedInv, SchedTypeOK, Waiting
    <3>2. Distance(current_running_thread, t) \in 1 .. MaxThreads - 1
      BY <3>1, DistanceRange
    <3> QED
      BY <3>2, MaxThreadsAssumption DEF RRInit
  <2>4. run.pc # "assign"
    BY AtType, LabelsIn, ZeroTid DEF RRInit, SchedInit
  <2> QED
    BY <2>1, <2>2, <2>3, <2>4 DEF RRInv
<1>2. SchedInv /\ RRInv /\ [RRNext]_rrVars => (SchedInv /\ RRInv)'
  BY SchedStepInv, RRStepInv DEF RRNext, rrVars
<1>3. SchedInv /\ RRInv => BoundedWait
  <2> SUFFICES ASSUME SchedInv, RRInv, NEW t \in Tid, Waiting(t)
               PROVE  turns[t] <= MaxThreads - 2
    BY DEF BoundedWait
  <2>1. Distance(current_running_thread, t) \in 1 .. MaxThreads - 1
    BY DistanceRange DEF SchedInv, SchedTypeOK, Waiting
  <2> QED
    BY <2>1, MaxThreadsAssumption DEF RRInv
<1> QED
  BY <1>1, <1>2, <1>3, PTL DEF RRSpec
=============================================================================
