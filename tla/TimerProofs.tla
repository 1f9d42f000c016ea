----------------------------- MODULE TimerProofs -----------------------------
(***************************************************************************)
(* What is proved of the timer, for any clients, tasks, delays and clock.  *)
(* Of any calls: the types, that Stop() returns only when the timer thread *)
(* is gone, and that nothing is fired after a stop.  Of clients that put   *)
(* tasks of their own: that no task is in the heap twice, that the timer   *)
(* thread oversleeps nothing, and that no task runs early.                 *)
(*                                                                         *)
(* That the timer uses tasks and its thread as their modules say, so that  *)
(* what is proved of them holds in the timer.                              *)
(*                                                                         *)
(* Then the arithmetic of the sleep: that the timeout of TimedWait() is    *)
(* exact, and that a timer thread which sleeps until it finds its task due.*)
(***************************************************************************)
EXTENDS Timer, Clock, TLAPS

StopOps == {"StopAsync", "Stop"}
PutOps == {"RunLater", "RunEvery"}
Putting == {"setDeadline", "setInterval", "push"}
Places == Putting \cup {"out", "clear", "cancelThread", "join"}

Jobs == [op : Ops \cup {"none"}, at : Places, task : Tasks \cup {NoTask},
         deadline : Nat, interval : Nat]

TypeOK ==
  /\ Task!TypeOK
  /\ Thread!TypeOK
  /\ m_deadline \in [Tasks -> Nat]
  /\ m_interval \in [Tasks -> Nat]
  /\ m_queue \in [Tasks -> Nat]
  /\ m_cond \in SUBSET {TimerThread}
  /\ wakeAt \in Nat
  /\ locked \in BOOLEAN
  /\ now \in Nat \ {0}
  /\ job \in [Clients -> Jobs]

(* The timer thread runs tasks, sleeps and holds m_queue_guard in its work *)
(* function only, one of them at a time.                                   *)
AtWork ==
  /\ run[TimerThread] # Task!Idle => at[TimerThread] = "work"
  /\ m_cond # {} => at[TimerThread] = "work" /\ run[TimerThread] = Task!Idle /\ ~ locked
  /\ locked => InLoop
  /\ thread_state[TimerThread] = "FINISHED" => at[TimerThread] = "exited"

(* Which method a client is in, from where it is in it.                    *)
OpInv ==
  \A c \in Clients :
    /\ job[c].at \in Putting =>
         job[c].op \in PutOps /\ job[c].task \in Tasks /\ job[c].deadline # 0
    /\ At(c, "clear") => job[c].op \in StopOps
    /\ job[c].at \in {"cancelThread", "join"} => job[c].op = "Stop"

(* A client has cleared the heap, to stop the timer.                       *)
Cleared(c) == job[c].op \in StopOps /\ job[c].at \in {"out", "cancelThread", "join"}

(* A stop that the timer thread may not see before it sleeps, or sleeps    *)
(* without having seen, has its Clear() still before it.                   *)
StopInv ==
  /\ \A c \in Clients :
       /\ At(c, "clear") \/ Cleared(c) => StopRequested
       /\ Cleared(c) => ~ locked
  /\ StopRequested /\ (locked \/ m_cond # {}) => \E c \in Clients : At(c, "clear")

AInv ==
  /\ TypeOK
  /\ AtWork
  /\ OpInv
  /\ StopInv
  /\ StopMeansOver

-----------------------------------------------------------------------------
(* The heap, when no two clients put the same task.                        *)

PutsAreDisjoint == \A c, d \in Clients : c # d => Puts[c] \cap Puts[d] = {}

(* A task that a client is about to push is neither in the heap nor run.   *)
PutInv ==
  \A c \in Clients : job[c].at \in Putting =>
    LET k == job[c].task IN
    /\ k \in Puts[c]
    /\ m_queue[k] = 0
    /\ run[TimerThread].task # k
    /\ ~ At(c, "setDeadline") => m_deadline[k] # 0

(* So is a task without a deadline.                                        *)
FreshInv ==
  \A k \in Tasks : m_deadline[k] = 0 => m_queue[k] = 0 /\ run[TimerThread].task # k

(* The first half of NoLostWakeup.                                         *)
SleepInv == m_cond # {} => \A k \in Queued : wakeAt # Untimed /\ wakeAt <= m_deadline[k]

(* What is fired is due, or is cancelled and will not execute.             *)
Due(k) == m_deadline[k] <= now + m_interval[k]
DueInv ==
  \A k \in Tasks : run[TimerThread].task = k =>
    /\ run[TimerThread].at \in {"setRunning", "doRun"} => Due(k)
    /\ run[TimerThread].at = "check" => Due(k) \/ task_isRequestCancel[k]

HInv ==
  /\ PutInv
  /\ FreshInv
  /\ PutOnce
  /\ SleepInv
  /\ DueInv

-----------------------------------------------------------------------------
(* What the steps of the task, of the thread and of the jobs do.           *)

LEMMA TaskRunEffect ==
  ASSUME TypeOK, Task!RunStep(TimerThread) \/ Task!DoRunThrows(TimerThread)
  PROVE  /\ Task!TypeOK'
         /\ run[TimerThread] # Task!Idle
         /\ run'[TimerThread] = Task!Idle \/ run'[TimerThread].task = run[TimerThread].task
         /\ UNCHANGED task_isRequestCancel
<1> USE DEF TypeOK, Task!TypeOK, Task!State, Task!InRun, Task!MoveTo, Task!SetState
<1>1. /\ run[TimerThread] \in [at : Task!InRun, task : Tasks]
      /\ run[TimerThread] # Task!Idle
  BY DEF Task!Idle, Task!RunStep, Task!CheckCancellation, Task!SetRunning,
     Task!DoRunReturns, Task!DoRunIsCancelled, Task!DoRunThrows, Task!SetFinished,
     Task!SetCancelled, Task!OnCancel, Task!NotifyCancellers
<1>2. CASE \/ Task!CheckCancellation(TimerThread) \/ Task!DoRunReturns(TimerThread)
           \/ Task!DoRunIsCancelled(TimerThread) \/ Task!DoRunThrows(TimerThread)
           \/ Task!OnCancel(TimerThread)
  BY <1>1, <1>2 DEF Task!CheckCancellation, Task!DoRunReturns, Task!DoRunIsCancelled,
     Task!DoRunThrows, Task!OnCancel
<1>3. CASE \/ Task!SetRunning(TimerThread) \/ Task!SetFinished(TimerThread)
           \/ Task!SetCancelled(TimerThread)
  BY <1>1, <1>3 DEF Task!SetRunning, Task!SetFinished, Task!SetCancelled
<1>4. CASE Task!NotifyCancellers(TimerThread)
  BY <1>1, <1>4 DEF Task!NotifyCancellers, Task!NotifyAllIf
<1> QED
  BY <1>2, <1>3, <1>4 DEF Task!RunStep

LEMMA RunEffect ==
  ASSUME TypeOK, NEW k \in Tasks, Task!Run(TimerThread, k)
  PROVE  /\ Task!TypeOK'
         /\ run'[TimerThread] = [at |-> "check", task |-> k]
         /\ UNCHANGED task_isRequestCancel
BY DEF TypeOK, Task!TypeOK, Task!Run, Task!InRun

LEMMA TaskCancelEffect ==
  ASSUME TypeOK, NEW c \in Clients,
         \/ \E k \in Tasks : Task!Cancel(c, k)
         \/ Task!CancelStep(c)
         \/ Task!WakeSpuriously(c)
  PROVE  /\ Task!TypeOK'
         /\ UNCHANGED run
         /\ \A k \in Tasks : task_isRequestCancel[k] => task_isRequestCancel'[k]
<1> USE DEF TypeOK, Task!TypeOK
<1>1. ASSUME NEW k \in Tasks, Task!Cancel(c, k)
      PROVE  /\ Task!TypeOK'
             /\ UNCHANGED run
             /\ \A j \in Tasks : task_isRequestCancel[j] => task_isRequestCancel'[j]
  <2>1. /\ task_isRequestCancel' \in [Tasks -> BOOLEAN]
        /\ \A j \in Tasks : task_isRequestCancel[j] => task_isRequestCancel'[j]
        /\ UNCHANGED <<task_state, task_condition, run>>
    BY <1>1 DEF Task!Cancel, Task!CancelAsync
  <2> QED
    BY <1>1, <2>1 DEF Task!Cancel
<1>2. CASE Task!CancelReturns(c)
  BY <1>2 DEF Task!CancelReturns
<1>3. CASE Task!CancelBlocks(c) \/ Task!WakeSpuriously(c)
  BY <1>3 DEF Task!CancelBlocks, Task!WakeSpuriously, Task!Wait, Task!SpuriousWakeup
<1> QED
  BY <1>1, <1>2, <1>3 DEF Task!CancelStep

LEMMA ThreadStepEffect ==
  ASSUME TypeOK, Thread!ThreadStep(TimerThread)
  PROVE  /\ Thread!TypeOK'
         /\ UNCHANGED <<thread_isRequestCancel, thread_cancel>>
         /\ thread_state'[TimerThread] = "FINISHED" =>
              \/ at'[TimerThread] = "exited"
              \/ thread_state[TimerThread] = "FINISHED"
         /\ at[TimerThread] # "exited"
BY DEF TypeOK, Thread!TypeOK, Thread!State, Thread!Places, Thread!ThreadStep, Thread!SetRunning,
   Thread!CheckCancellation, Thread!WorkPolls, Thread!WorkEnds, Thread!FinishAction,
   Thread!NotifyFinished, Thread!Go, Thread!NotifyAllIf

LEMMA CancelAsyncEffect ==
  ASSUME TypeOK, Thread!CancelAsync(TimerThread)
  PROVE  /\ thread_isRequestCancel' \in [{TimerThread} -> BOOLEAN]
         /\ StopRequested'
         /\ UNCHANGED <<thread_state, thread_stateGuard, at>>
BY DEF TypeOK, Thread!TypeOK, Thread!CancelAsync, StopRequested

LEMMA ThreadCancelEffect ==
  ASSUME TypeOK, NEW c \in Clients,
         Thread!Cancel(c, TimerThread) \/ Thread!CancelStep(c) \/ Thread!WakeSpuriously(c)
  PROVE  /\ Thread!TypeOK'
         /\ UNCHANGED <<at, thread_state>>
         /\ StopRequested => StopRequested'
         /\ UNCHANGED thread_isRequestCancel \/ StopRequested'
<1> USE DEF Thread!TypeOK, TypeOK
<1>1. CASE Thread!Cancel(c, TimerThread)
  <2>1. /\ thread_isRequestCancel' \in [{TimerThread} -> BOOLEAN]
        /\ StopRequested'
        /\ UNCHANGED <<thread_state, thread_stateGuard, at>>
    BY <1>1, CancelAsyncEffect DEF Thread!Cancel
  <2> QED
    BY <1>1, <2>1 DEF Thread!Cancel
<1>2. CASE Thread!CancelReturns(c)
  BY <1>2 DEF Thread!CancelReturns, StopRequested
<1>3. CASE Thread!CancelBlocks(c) \/ Thread!WakeSpuriously(c)
  BY <1>3 DEF Thread!CancelBlocks, Thread!WakeSpuriously, Thread!Wait, Thread!SpuriousWakeup,
     StopRequested
<1> QED
  BY <1>1, <1>2, <1>3 DEF Thread!CancelStep

(* A step of a client changes its own job.                                 *)
LEMMA JobMoves ==
  ASSUME job \in [Clients -> Jobs], NEW c \in Clients, NEW new \in Jobs,
         job' = [job EXCEPT ![c] = new]
  PROVE  /\ job' \in [Clients -> Jobs]
         /\ job'[c] = new
         /\ \A d \in Clients : d # c => job'[d] = job[d]
OBVIOUS

LEMMA ProceedEffect ==
  ASSUME job \in [Clients -> Jobs], NEW c \in Clients, NEW place \in Places, Proceed(c, place)
  PROVE  /\ job' \in [Clients -> Jobs]
         /\ job'[c].at = place
         /\ job'[c].op = job[c].op /\ job'[c].task = job[c].task
         /\ job'[c].deadline = job[c].deadline /\ job'[c].interval = job[c].interval
         /\ \A d \in Clients : d # c => job'[d] = job[d]
<1> DEFINE new == [job[c] EXCEPT !.at = place]
<1>1. /\ new \in Jobs
      /\ new.at = place
      /\ new.op = job[c].op /\ new.task = job[c].task
      /\ new.deadline = job[c].deadline /\ new.interval = job[c].interval
  BY DEF Jobs
<1>2. job' = [job EXCEPT ![c] = new]
  BY DEF Proceed
<1> HIDE DEF new
<1> QED
  BY <1>1, <1>2

(* Notify() wakes the timer thread, which is the only one that waits.      *)
LEMMA NotifyEffect ==
  ASSUME TypeOK, Notify
  PROVE  m_cond' = {} /\ wakeAt' = Untimed
BY DEF TypeOK, Notify, NotifyOne

LEMMA TypesKept ==
  /\ Task!TypeOK /\ UNCHANGED taskVars => Task!TypeOK'
  /\ Thread!TypeOK /\ UNCHANGED threadVars => Thread!TypeOK'
BY DEF taskVars, threadVars, Task!TypeOK, Thread!TypeOK

LEMMA PopMinType ==
  ASSUME TypeOK, NEW k \in Tasks, IsMin(k), PopMin(k)
  PROVE  /\ m_queue' \in [Tasks -> Nat]
         /\ m_queue'[k] = m_queue[k] - 1
         /\ \A j \in Tasks : j # k => m_queue'[j] = m_queue[j]
BY DEF TypeOK, IsMin, Queued, PopMin

LEMMA FiredType ==
  ASSUME TypeOK, NEW k \in Tasks, IsMin(k), Fired(k)
  PROVE  /\ m_queue' \in [Tasks -> Nat]
         /\ m_deadline' \in [Tasks -> Nat]
         /\ \A j \in Tasks : m_queue'[j] <= m_queue[j]
         /\ \A j \in Tasks : j # k => m_deadline'[j] = m_deadline[j]
         /\ \/ m_deadline'[k] = now + m_interval[k]
            \/ m_deadline'[k] = m_deadline[k]
<1>1. CASE m_interval[k] > 0
  BY <1>1 DEF TypeOK, Fired
<1>2. CASE ~ (m_interval[k] > 0)
  BY <1>2, PopMinType DEF TypeOK, Fired
<1> QED
  BY <1>1, <1>2

-----------------------------------------------------------------------------
(* The invariant of any calls.                                             *)

LEMMA InitAInv == Init => AInv
<1> SUFFICES ASSUME Init
             PROVE  AInv
  OBVIOUS
<1> USE DEF Init
<1>1. Task!TypeOK
  BY DEF Task!Init, Task!TypeOK, Task!State, Task!Idle
<1>2. Thread!TypeOK
  BY DEF Thread!Init, Thread!TypeOK, Thread!State, Thread!Places
<1>3. job \in [Clients -> Jobs]
  BY DEF Jobs, Places
<1>4. TypeOK
  <2>1. /\ m_deadline \in [Tasks -> Nat] /\ m_interval \in [Tasks -> Nat]
        /\ m_queue \in [Tasks -> Nat]
        /\ wakeAt \in Nat /\ now \in Nat \ {0}
    BY DEF Untimed
  <2>2. m_cond \in SUBSET {TimerThread} /\ locked \in BOOLEAN
    OBVIOUS
  <2> QED
    BY <1>1, <1>2, <1>3, <2>1, <2>2 DEF TypeOK
<1>5. AtWork
  BY DEF AtWork, Task!Init, Thread!Init, Task!Idle
<1>6. OpInv /\ StopInv /\ StopMeansOver
  BY DEF OpInv, StopInv, StopMeansOver, Cleared, At, Putting, StopOps
<1> QED
  BY <1>4, <1>5, <1>6 DEF AInv

(* What the steps of the timer thread have to respect.                     *)
LEMMA ThreadSideKeepsAInv ==
  ASSUME AInv, TypeOK', AtWork',
         UNCHANGED <<job, thread_isRequestCancel>>,
         locked' => locked \/ ~ StopRequested,
         m_cond' # {} => m_cond # {} \/ locked \/ ~ StopRequested,
         at[TimerThread] = "exited" => at'[TimerThread] = "exited"
  PROVE  AInv'
<1> USE DEF AInv
<1>1. StopRequested' = StopRequested
  BY DEF StopRequested
<1>2. OpInv'
  BY DEF OpInv, At
<1>3. StopInv'
  BY <1>1 DEF StopInv, At, Cleared
<1>4. StopMeansOver'
  BY DEF StopMeansOver, At, AtWork
<1> QED
  BY <1>2, <1>3, <1>4

LEMMA LoopKeepsAInv ==
  ASSUME AInv,
         \/ WaitForTask \/ CheckPasses
         \/ \E k \in Tasks : DropCancelled(k) \/ SleepUntil(k)
         \/ TimedOut \/ WakeTimerSpuriously
  PROVE  AInv'
<1>1. UNCHANGED <<taskVars, threadVars, m_deadline, m_interval, now, job>>
  BY DEF WaitForTask, CheckPasses, DropCancelled, SleepUntil, TimedOut, WakeTimerSpuriously, heapVars
<1>2. /\ m_queue' \in [Tasks -> Nat] /\ wakeAt' \in Nat
      /\ locked' \in BOOLEAN /\ m_cond' \in SUBSET {TimerThread}
      /\ locked' => locked \/ ~ StopRequested
      /\ m_cond' # {} => m_cond # {} \/ locked \/ ~ StopRequested
      /\ locked' => InLoop /\ m_cond' = {}
      /\ m_cond' # {} => InLoop \/ m_cond # {}
  <2> USE DEF AInv, TypeOK
  <2>1. CASE WaitForTask
    BY <2>1 DEF WaitForTask, Wait, Untimed, heapVars
  <2>2. CASE CheckPasses
    BY <2>2 DEF CheckPasses, heapVars, InLoop
  <2>3. ASSUME NEW k \in Tasks, DropCancelled(k)
        PROVE  /\ m_queue' \in [Tasks -> Nat]
               /\ locked' = FALSE /\ UNCHANGED <<m_cond, wakeAt>>
    BY <2>3, PopMinType DEF DropCancelled, Unlock
  <2>4. ASSUME NEW k \in Tasks, SleepUntil(k)
        PROVE  /\ InLoop /\ locked /\ locked' = FALSE
               /\ m_cond' = {TimerThread} /\ wakeAt' \in Nat /\ UNCHANGED m_queue
    BY <2>4 DEF SleepUntil, Unlock, InLoop, Wait, heapVars
  <2>5. CASE TimedOut \/ WakeTimerSpuriously
    BY <2>5 DEF TimedOut, WakeTimerSpuriously, SpuriousWakeup, Untimed, heapVars, AtWork
  <2> QED
    BY <2>1, <2>2, <2>3, <2>4, <2>5
<1>3. TypeOK'
  BY <1>1, <1>2, TypesKept DEF AInv, TypeOK
<1>4. AtWork'
  BY <1>1, <1>2 DEF AInv, TypeOK, AtWork, InLoop, taskVars, threadVars
<1> QED
  BY <1>1, <1>2, <1>3, <1>4, ThreadSideKeepsAInv DEF threadVars

LEMMA FireKeepsAInv ==
  ASSUME AInv, NEW k \in Tasks, FireCancelled(k) \/ FireDue(k)
  PROVE  AInv'
<1>1. /\ InLoop /\ locked /\ locked' = FALSE
      /\ Task!Run(TimerThread, k)
      /\ UNCHANGED <<threadVars, m_interval, m_cond, wakeAt, now, job>>
  BY DEF FireCancelled, FireDue, Unlock
<1>2. m_queue' \in [Tasks -> Nat] /\ m_deadline' \in [Tasks -> Nat]
  BY PopMinType, FiredType DEF FireCancelled, FireDue, AInv, TypeOK
<1>3. TypeOK'
  BY <1>1, <1>2, RunEffect, TypesKept DEF AInv, TypeOK
<1>4. AtWork'
  BY <1>1 DEF AInv, AtWork, InLoop, threadVars
<1> QED
  BY <1>1, <1>3, <1>4, ThreadSideKeepsAInv DEF threadVars

LEMMA WorkKeepsAInv ==
  ASSUME AInv, CheckThrows \/ RunTask \/ TaskThrows \/ ThreadFunction
  PROVE  AInv'
<1>1. /\ UNCHANGED <<heapVars, sleepVars, now, job>>
      /\ UNCHANGED taskVars \/ Task!RunStep(TimerThread) \/ Task!DoRunThrows(TimerThread)
      /\ UNCHANGED threadVars \/ Thread!ThreadStep(TimerThread)
  BY DEF CheckThrows, RunTask, TaskThrows, ThreadFunction, Thread!ThreadStep
<1>2. TypeOK'
  BY <1>1, TaskRunEffect, ThreadStepEffect, TypesKept DEF AInv, TypeOK, heapVars, sleepVars
<1>3. /\ UNCHANGED thread_isRequestCancel
      /\ at[TimerThread] = "exited" => at'[TimerThread] = "exited"
      /\ thread_state'[TimerThread] = "FINISHED" => at'[TimerThread] = "exited"
  BY <1>1, ThreadStepEffect DEF AInv, AtWork, threadVars
<1>4. AtWork'
  <2>1. CASE CheckThrows
    <3>1. InLoop /\ ~ locked /\ UNCHANGED <<run, m_cond, locked>>
      BY <2>1 DEF CheckThrows, taskVars, sleepVars
    <3> QED
      BY <1>3, <3>1 DEF AInv, AtWork, InLoop
  <2>2. CASE RunTask
    <3>1. run[TimerThread] # Task!Idle /\ UNCHANGED <<at, thread_state, m_cond, locked>>
      BY <2>2, TaskRunEffect DEF RunTask, threadVars, sleepVars, AInv
    <3> QED
      BY <3>1 DEF AInv, AtWork, InLoop
  <2>3. CASE TaskThrows
    <3>1. run[TimerThread] # Task!Idle /\ UNCHANGED <<m_cond, locked>>
      BY <2>3, TaskRunEffect DEF TaskThrows, sleepVars, AInv
    <3>2. run'[TimerThread] = Task!Idle
      BY <2>3 DEF TaskThrows, Task!DoRunThrows, AInv, TypeOK, Task!TypeOK
    <3> QED
      BY <1>3, <3>1, <3>2 DEF AInv, AtWork, InLoop
  <2>4. CASE ThreadFunction
    <3>1. at[TimerThread] # "work" /\ UNCHANGED <<run, m_cond, locked>>
      BY <2>4 DEF ThreadFunction, Thread!SetRunning, Thread!CheckCancellation,
                  Thread!FinishAction, Thread!NotifyFinished, Thread!Go, taskVars, sleepVars
    <3> QED
      BY <1>3, <3>1 DEF AInv, AtWork, InLoop
  <2> QED
    BY <2>1, <2>2, <2>3, <2>4
<1> QED
  BY <1>1, <1>2, <1>3, <1>4, ThreadSideKeepsAInv DEF sleepVars

LEMMA TickKeepsAInv == ASSUME AInv, Tick PROVE AInv'
<1>1. now' = now + 1 /\ UNCHANGED <<taskVars, threadVars, heapVars, sleepVars, job>>
  BY DEF Tick
<1>2. TypeOK'
  BY <1>1, TypesKept DEF AInv, TypeOK, heapVars, sleepVars
<1>3. AtWork'
  BY <1>1 DEF AInv, AtWork, InLoop, taskVars, threadVars, sleepVars
<1> QED
  BY <1>1, <1>2, <1>3, ThreadSideKeepsAInv DEF threadVars, sleepVars

(* What the steps of a client have to respect.                             *)
OpInvOf(c) ==
  /\ job[c].at \in Putting =>
       job[c].op \in PutOps /\ job[c].task \in Tasks /\ job[c].deadline # 0
  /\ At(c, "clear") => job[c].op \in StopOps
  /\ job[c].at \in {"cancelThread", "join"} => job[c].op = "Stop"

LEMMA ClientSideKeepsAInv ==
  ASSUME AInv, TypeOK', NEW c \in Clients,
         UNCHANGED <<at, thread_state, run, locked>>,
         UNCHANGED m_cond \/ m_cond' = {},
         \A d \in Clients : d # c => job'[d] = job[d],
         OpInvOf(c)',
         StopRequested => StopRequested',
         At(c, "clear")' \/ Cleared(c)' => StopRequested',
         Cleared(c)' => ~ locked,
         StopRequested' /\ (locked \/ m_cond' # {}) => \E d \in Clients : At(d, "clear")',
         job'[c].op = "Stop" /\ At(c, "out")' => at[TimerThread] = "exited"
  PROVE  AInv'
<1> USE DEF AInv
<1>1. AtWork'
  BY DEF AtWork, InLoop
<1>2. OpInv'
  BY DEF OpInv, OpInvOf, At
<1>3. StopInv'
  <2>1. ASSUME NEW d \in Clients
        PROVE  /\ (At(d, "clear") \/ Cleared(d) => StopRequested)'
               /\ (Cleared(d) => ~ locked)'
    BY <2>1 DEF StopInv, At, Cleared
  <2> QED
    BY <2>1 DEF StopInv
<1>4. StopMeansOver'
  BY DEF StopMeansOver, At, AtWork
<1> QED
  BY <1>1, <1>2, <1>3, <1>4

(* A step that leaves the stops alone.                                     *)
LEMMA QuietKeepsAInv ==
  ASSUME AInv, TypeOK', NEW c \in Clients,
         UNCHANGED <<at, thread_state, run, locked, thread_isRequestCancel>>,
         UNCHANGED m_cond \/ m_cond' = {},
         \A d \in Clients : d # c => job'[d] = job[d],
         OpInvOf(c)',
         ~ At(c, "clear"), ~ At(c, "clear")', ~ Cleared(c)'
  PROVE  AInv'
<1>1. StopRequested' = StopRequested
  BY DEF StopRequested
<1>2. StopRequested' /\ (locked \/ m_cond' # {}) => \E d \in Clients : At(d, "clear")'
  <2> SUFFICES ASSUME StopRequested', locked \/ m_cond' # {}
               PROVE  \E d \in Clients : At(d, "clear")'
    OBVIOUS
  <2>1. PICK d \in Clients : At(d, "clear")
    BY <1>1 DEF AInv, StopInv
  <2> QED
    BY <2>1 DEF At
<1>3. ~ (job'[c].op = "Stop" /\ At(c, "out")')
  BY DEF Cleared, At, StopOps
<1> QED
  BY <1>1, <1>2, <1>3, ClientSideKeepsAInv

(* The job of a push in the end.                                           *)
LEMMA PushEffect ==
  ASSUME TypeOK, NEW c \in Clients, PushTask(c)
  PROVE  /\ job' \in [Clients -> Jobs]
         /\ job'[c].op = job[c].op /\ job'[c].at = "out"
         /\ \A d \in Clients : d # c => job'[d] = job[d]
<1> DEFINE new == [job[c] EXCEPT !.at = "out", !.deadline = 0, !.interval = 0]
<1>1. new \in Jobs /\ new.op = job[c].op /\ new.at = "out"
  BY DEF TypeOK, Jobs, Places
<1>2. job' = [job EXCEPT ![c] = new]
  BY DEF PushTask
<1> HIDE DEF new
<1> QED
  BY <1>1, <1>2 DEF TypeOK

LEMMA CallPutEffect ==
  ASSUME TypeOK, NEW c \in Clients, NEW op \in PutOps, NEW k \in Tasks,
         NEW deadline \in Nat, NEW interval \in Nat, CallPut(c, op, k, deadline, interval)
  PROVE  /\ job' \in [Clients -> Jobs]
         /\ job'[c] = [op |-> op, at |-> "setDeadline", task |-> k,
                       deadline |-> deadline, interval |-> interval]
         /\ \A d \in Clients : d # c => job'[d] = job[d]
         /\ k \in Puts[c] /\ At(c, "out") /\ m_deadline[k] = 0
         /\ UNCHANGED <<taskVars, threadVars, heapVars, sleepVars, now>>
<1> DEFINE new == [op |-> op, at |-> "setDeadline", task |-> k,
                   deadline |-> deadline, interval |-> interval]
<1>1. new \in Jobs
  BY DEF Jobs, Places, Putting, PutOps, Ops
<1>2. job' = [job EXCEPT ![c] = new]
  BY DEF CallPut
<1> HIDE DEF new
<1>3. job' \in [Clients -> Jobs] /\ job'[c] = new /\ \A d \in Clients : d # c => job'[d] = job[d]
  BY <1>1, <1>2 DEF TypeOK
<1> QED
  BY <1>3 DEF new, CallPut, Idle

(* What RunLater() and RunEvery() hand to CallPut().                       *)
LEMMA PutsAreCallPuts ==
  ASSUME TypeOK, NEW c \in Clients, NEW k \in Tasks, NEW d \in Delays,
         RunLater(c, k, d) \/ \E is_run_now \in BOOLEAN : RunEvery(c, k, d, is_run_now)
  PROVE  \E op \in PutOps : \E deadline \in Nat \ {0} : \E interval \in Nat :
           CallPut(c, op, k, deadline, interval)
<1>1. d \in Nat /\ now \in Nat \ {0} /\ now + d \in Nat \ {0}
  BY TimerAssumption DEF TypeOK
<1>2. CASE RunLater(c, k, d)
  BY <1>1, <1>2 DEF RunLater, PutOps
<1>3. ASSUME NEW is_run_now \in BOOLEAN, RunEvery(c, k, d, is_run_now)
      PROVE  \E op \in PutOps : \E deadline \in Nat \ {0} : \E interval \in Nat :
               CallPut(c, op, k, deadline, interval)
  BY <1>1, <1>3 DEF RunEvery, PutOps
<1> QED
  BY <1>2, <1>3

LEMMA CallPutKeepsAInv ==
  ASSUME AInv, NEW c \in Clients, NEW op \in PutOps, NEW k \in Tasks,
         NEW deadline \in Nat \ {0}, NEW interval \in Nat, CallPut(c, op, k, deadline, interval)
  PROVE  AInv'
<1>1. /\ job' \in [Clients -> Jobs]
      /\ job'[c] = [op |-> op, at |-> "setDeadline", task |-> k,
                    deadline |-> deadline, interval |-> interval]
      /\ \A d \in Clients : d # c => job'[d] = job[d]
      /\ At(c, "out")
      /\ UNCHANGED <<taskVars, threadVars, heapVars, sleepVars, now>>
  BY CallPutEffect DEF AInv
<1>2. TypeOK'
  BY <1>1, TypesKept DEF AInv, TypeOK, heapVars, sleepVars
<1>3. OpInvOf(c)' /\ ~ At(c, "clear") /\ ~ At(c, "clear")' /\ ~ Cleared(c)'
  BY <1>1 DEF OpInvOf, At, Cleared, Putting
<1> QED
  BY <1>1, <1>2, <1>3, QuietKeepsAInv DEF taskVars, threadVars, sleepVars

LEMMA PutStepKeepsAInv ==
  ASSUME AInv, NEW c \in Clients, SetDeadline(c) \/ SetInterval(c) \/ PushTask(c)
  PROVE  AInv'
<1>1. /\ job[c].at \in Putting /\ job[c].op \in PutOps
      /\ job[c].task \in Tasks /\ job[c].deadline # 0
      /\ job[c].deadline \in Nat /\ job[c].interval \in Nat
  BY DEF SetDeadline, SetInterval, PushTask, At, Putting, AInv, OpInv, TypeOK, Jobs
<1>2. UNCHANGED <<taskVars, threadVars, locked, now>>
  BY DEF SetDeadline, SetInterval, PushTask, sleepVars
<1>3. /\ m_deadline' \in [Tasks -> Nat] /\ m_interval' \in [Tasks -> Nat]
      /\ m_queue' \in [Tasks -> Nat]
      /\ m_cond' \in SUBSET {TimerThread} /\ wakeAt' \in Nat
      /\ UNCHANGED m_cond \/ m_cond' = {}
  <2> USE DEF AInv, TypeOK
  <2>1. CASE SetDeadline(c)
    BY <1>1, <2>1 DEF SetDeadline, sleepVars
  <2>2. CASE SetInterval(c)
    BY <1>1, <2>2 DEF SetInterval, sleepVars
  <2>3. CASE PushTask(c)
    BY <1>1, <2>3, NotifyEffect DEF PushTask, Untimed
  <2> QED
    BY <2>1, <2>2, <2>3
<1>4. /\ job' \in [Clients -> Jobs]
      /\ job'[c].op = job[c].op
      /\ job'[c].at = "out" \/
           /\ job'[c].at \in {"setInterval", "push"}
           /\ job'[c].task = job[c].task /\ job'[c].deadline = job[c].deadline
      /\ \A d \in Clients : d # c => job'[d] = job[d]
  <2>1. CASE SetDeadline(c) \/ SetInterval(c)
    <3>1. PICK place \in {"setInterval", "push"} : Proceed(c, place)
      BY <2>1 DEF SetDeadline, SetInterval
    <3>2. place \in Places /\ job \in [Clients -> Jobs]
      BY DEF AInv, TypeOK, Places, Putting
    <3> QED
      BY <3>1, <3>2, ProceedEffect
  <2>2. CASE PushTask(c)
    BY <2>2, PushEffect DEF AInv
  <2> QED
    BY <2>1, <2>2
<1>5. TypeOK'
  BY <1>2, <1>3, <1>4, TypesKept DEF AInv, TypeOK
<1>6. OpInvOf(c)' /\ ~ At(c, "clear") /\ ~ At(c, "clear")' /\ ~ Cleared(c)'
  BY <1>1, <1>4 DEF OpInvOf, At, Cleared, Putting, PutOps, StopOps
<1> QED
  BY <1>2, <1>3, <1>4, <1>5, <1>6, QuietKeepsAInv DEF taskVars, threadVars

LEMMA CallStopEffect ==
  ASSUME TypeOK, NEW c \in Clients, NEW op \in Ops, CallStop(c, op)
  PROVE  /\ job' \in [Clients -> Jobs]
         /\ job'[c].op = op /\ job'[c].at = "clear"
         /\ \A d \in Clients : d # c => job'[d] = job[d]
<1> DEFINE new == [job[c] EXCEPT !.op = op, !.at = "clear"]
<1>1. new \in Jobs /\ new.op = op /\ new.at = "clear"
  BY DEF TypeOK, Jobs, Places, Ops
<1>2. job' = [job EXCEPT ![c] = new]
  BY DEF CallStop
<1> HIDE DEF new
<1> QED
  BY <1>1, <1>2 DEF TypeOK

LEMMA CallStopKeepsAInv ==
  ASSUME AInv, NEW c \in Clients, NEW op \in Ops, CallStop(c, op)
  PROVE  AInv'
<1>1. /\ op \in StopOps
      /\ Thread!CancelAsync(TimerThread)
      /\ UNCHANGED <<taskVars, thread_cancel, heapVars, sleepVars, now>>
  BY DEF CallStop, StopOps
<1>2. /\ job' \in [Clients -> Jobs]
      /\ job'[c].op = op /\ job'[c].at = "clear"
      /\ \A d \in Clients : d # c => job'[d] = job[d]
  BY CallStopEffect DEF AInv
<1>3. /\ thread_isRequestCancel' \in [{TimerThread} -> BOOLEAN]
      /\ StopRequested'
      /\ UNCHANGED <<thread_state, thread_stateGuard, at>>
  BY <1>1, CancelAsyncEffect DEF AInv
<1>4. Thread!TypeOK'
  BY <1>1, <1>3 DEF AInv, TypeOK, Thread!TypeOK
<1>5. TypeOK'
  BY <1>1, <1>2, <1>4, TypesKept DEF AInv, TypeOK, heapVars, sleepVars
<1>6. OpInvOf(c)' /\ At(c, "clear")' /\ ~ Cleared(c)'
  BY <1>1, <1>2 DEF OpInvOf, At, Cleared, Putting
<1>7. ~ At(c, "out")'
  BY <1>2 DEF At
<1> QED
  BY <1>1, <1>2, <1>3, <1>5, <1>6, <1>7, ClientSideKeepsAInv DEF taskVars, sleepVars

LEMMA ClearKeepsAInv ==
  ASSUME AInv, NEW c \in Clients, Clear(c)
  PROVE  AInv'
<1>1. /\ At(c, "clear") /\ ~ locked
      /\ m_cond' = {} /\ wakeAt' = Untimed
      /\ m_queue' = [k \in Tasks |-> 0]
      /\ UNCHANGED <<taskVars, threadVars, m_deadline, m_interval, locked, now>>
  BY NotifyEffect DEF Clear, AInv
<1>2. job[c].op \in StopOps /\ StopRequested
  BY <1>1 DEF AInv, OpInv, StopInv
<1>3. PICK place \in {"out", "cancelThread"} :
        Proceed(c, place) /\ (job[c].op = "Stop" => place = "cancelThread")
                          /\ (job[c].op # "Stop" => place = "out")
  BY DEF Clear
<1>4. place \in Places /\ job \in [Clients -> Jobs]
  BY DEF AInv, TypeOK, Places
<1>5. /\ job' \in [Clients -> Jobs]
      /\ job'[c].op = job[c].op /\ job'[c].at = place
      /\ \A d \in Clients : d # c => job'[d] = job[d]
  BY <1>3, <1>4, ProceedEffect
<1>6. TypeOK'
  BY <1>1, <1>5, TypesKept DEF AInv, TypeOK, Untimed
<1>7. OpInvOf(c)' /\ (job'[c].op = "Stop" => ~ At(c, "out")')
  BY <1>2, <1>3, <1>5 DEF OpInvOf, At, Putting, StopOps
<1>8. StopRequested'
  BY <1>1, <1>2 DEF threadVars, StopRequested
<1> QED
  BY <1>1, <1>5, <1>6, <1>7, <1>8, ClientSideKeepsAInv DEF taskVars, threadVars

(* Stop() after its Clear().                                               *)
LEMMA StopStepKeepsAInv ==
  ASSUME AInv, NEW c \in Clients, CancelThread(c) \/ Join(c)
  PROVE  AInv'
<1>1. /\ job[c].at \in {"cancelThread", "join"}
      /\ Thread!Cancel(c, TimerThread) \/ Thread!CancelStep(c)
      /\ UNCHANGED <<taskVars, heapVars, sleepVars, now>>
  BY DEF CancelThread, Join, At
<1>2. job[c].op = "Stop" /\ Cleared(c) /\ StopRequested /\ ~ locked
  BY <1>1 DEF AInv, OpInv, StopInv, Cleared, StopOps
<1>3. /\ Thread!TypeOK' /\ UNCHANGED <<at, thread_state>> /\ StopRequested'
  BY <1>1, <1>2, ThreadCancelEffect DEF AInv
<1>4. /\ job' \in [Clients -> Jobs]
      /\ job'[c].op = "Stop"
      /\ job'[c].at = "join" \/ (job'[c].at = "out" /\ at[TimerThread] = "exited")
      /\ \A d \in Clients : d # c => job'[d] = job[d]
  <2>1. CASE CancelThread(c)
    BY <1>2, <2>1, ProceedEffect DEF CancelThread, AInv, TypeOK, Places
  <2>2. CASE Join(c) /\ thread_cancel'[c].at # "out"
    <3>1. UNCHANGED job /\ job[c].at = "join"
      BY <2>2 DEF Join, At
    <3> QED
      BY <1>2, <3>1 DEF AInv, TypeOK
  <2>3. CASE Join(c) /\ thread_cancel'[c].at = "out"
    <3>1. Proceed(c, "out")
      BY <2>3 DEF Join
    <3>2. Thread!CancelReturns(c)
      BY <2>3 DEF Join, Thread!CancelStep, Thread!CancelBlocks
    <3>3. at[TimerThread] = "exited"
      <4>1. thread_cancel[c].thread = TimerThread
        BY <3>2 DEF Thread!CancelReturns, AInv, TypeOK, Thread!TypeOK
      <4> QED
        BY <3>2, <4>1 DEF Thread!CancelReturns, AInv, AtWork
    <3> QED
      BY <1>2, <3>1, <3>3, ProceedEffect DEF AInv, TypeOK, Places
  <2> QED
    BY <2>1, <2>2, <2>3
<1>5. TypeOK'
  BY <1>1, <1>3, <1>4, TypesKept DEF AInv, TypeOK, heapVars, sleepVars
<1>6. OpInvOf(c)' /\ (At(c, "out")' => at[TimerThread] = "exited")
  BY <1>4 DEF OpInvOf, At, Putting
<1>7. \E d \in Clients : At(d, "clear")' \/ ~ (StopRequested' /\ (locked \/ m_cond' # {}))
  <2>1. CASE locked \/ m_cond' # {}
    <3>1. PICK d \in Clients : At(d, "clear")
      BY <1>1, <1>2, <2>1 DEF AInv, StopInv, sleepVars
    <3> QED
      BY <1>1, <1>4, <3>1 DEF At
  <2> QED
    BY <2>1
<1> QED
  BY <1>1, <1>2, <1>3, <1>4, <1>5, <1>6, <1>7, ClientSideKeepsAInv DEF taskVars, sleepVars

(* The steps of Cancel() of a task, and the spurious wakeups of clients.   *)
LEMMA CancelKeepsAInv ==
  ASSUME AInv, NEW c \in Clients,
         CancelTaskStep(c) \/ (\E k \in Tasks : CallCancel(c, k)) \/ WakeClientSpuriously(c)
  PROVE  AInv'
<1>1. /\ UNCHANGED <<heapVars, sleepVars, now, job>>
      /\ \/ /\ \/ Task!CancelStep(c)
               \/ \E k \in Tasks : Task!Cancel(c, k)
               \/ Task!WakeSpuriously(c)
            /\ UNCHANGED threadVars
         \/ Thread!WakeSpuriously(c) /\ UNCHANGED taskVars
  BY DEF CancelTaskStep, CallCancel, WakeClientSpuriously
<1>2. UNCHANGED <<at, thread_state, run, thread_isRequestCancel>>
  BY <1>1, TaskCancelEffect DEF AInv, threadVars, taskVars, Thread!WakeSpuriously
<1>3. TypeOK'
  BY <1>1, TaskCancelEffect, ThreadCancelEffect, TypesKept DEF AInv, TypeOK, heapVars, sleepVars
<1>4. AtWork'
  BY <1>1, <1>2 DEF AInv, AtWork, InLoop, sleepVars
<1> QED
  BY <1>1, <1>2, <1>3, <1>4, ThreadSideKeepsAInv DEF sleepVars

LEMMA NextKeepsAInv == AInv /\ [Next]_vars => AInv'
<1> SUFFICES ASSUME AInv, [Next]_vars
             PROVE  AInv'
  OBVIOUS
<1>1. CASE UNCHANGED vars
  <2>1. TypeOK'
    BY <1>1, TypesKept DEF vars, AInv, TypeOK, heapVars, sleepVars
  <2>2. AtWork'
    BY <1>1 DEF vars, AInv, AtWork, InLoop, taskVars, threadVars, sleepVars
  <2> QED
    BY <1>1, <2>1, <2>2, ThreadSideKeepsAInv DEF vars, threadVars, sleepVars
<1>2. CASE TimerStep
  BY <1>2, LoopKeepsAInv, FireKeepsAInv, WorkKeepsAInv DEF TimerStep
<1>3. CASE WakeTimerSpuriously \/ Tick
  BY <1>3, LoopKeepsAInv, TickKeepsAInv
<1>4. ASSUME NEW c \in Clients,
             ClientStep(c) \/ ClientSection(c) \/ WakeClientSpuriously(c)
      PROVE  AInv'
  BY <1>4, PutStepKeepsAInv, StopStepKeepsAInv, CancelKeepsAInv, ClearKeepsAInv
     DEF ClientStep, ClientSection
<1>5. ASSUME NEW c \in Clients, Call(c)
      PROVE  AInv'
  <2>1. ASSUME NEW k \in Tasks, NEW d \in Delays,
               RunLater(c, k, d) \/ \E is_run_now \in BOOLEAN : RunEvery(c, k, d, is_run_now)
        PROVE  AInv'
    BY <2>1, PutsAreCallPuts, CallPutKeepsAInv DEF AInv
  <2> QED
    BY <1>5, <2>1, CallStopKeepsAInv, CancelKeepsAInv DEF Call
<1> QED
  BY <1>1, <1>2, <1>3, <1>4, <1>5 DEF Next

LEMMA AInvariant == Spec => []AInv
BY InitAInv, NextKeepsAInv, PTL DEF Spec

(* The timer keeps the types of its state.                                 *)
THEOREM TypeCorrect == Spec => []TypeOK
<1>1. AInv => TypeOK
  BY DEF AInv
<1> QED
  BY <1>1, AInvariant, PTL

(* When Stop() has returned the timer thread is gone and no task executes, *)
(* whoever else stops, puts or cancels (Timer.cpp:125-129).                *)
THEOREM StopOutlastsTheThread == Spec => []StopMeansOver
<1>1. AInv => StopMeansOver
  BY DEF AInv
<1> QED
  BY <1>1, AInvariant, PTL

(* Only a timer thread that holds the mutex after a checkFunc() that passed*)
(* fires a task.                                                           *)
LEMMA OnlyTheLockFires ==
  ASSUME AInv, [Next]_vars, ~ locked, run[TimerThread] = Task!Idle
  PROVE  run'[TimerThread] = Task!Idle
<1>1. CASE UNCHANGED vars
  BY <1>1 DEF vars, taskVars
<1>2. CASE ThreadFunction \/ WaitForTask \/ CheckThrows \/ CheckPasses \/ TimedOut
  BY <1>2 DEF ThreadFunction, WaitForTask, CheckThrows, CheckPasses, TimedOut, taskVars
<1>3. ASSUME NEW k \in Tasks,
             DropCancelled(k) \/ FireCancelled(k) \/ FireDue(k) \/ SleepUntil(k)
      PROVE  FALSE
  BY <1>3 DEF DropCancelled, FireCancelled, FireDue, SleepUntil, Unlock
<1>4. ~ (RunTask \/ TaskThrows)
  BY TaskRunEffect DEF RunTask, TaskThrows, AInv
<1>5. CASE WakeTimerSpuriously \/ Tick
  BY <1>5 DEF WakeTimerSpuriously, Tick, taskVars
<1>6. ASSUME NEW c \in Clients,
             ClientStep(c) \/ ClientSection(c) \/ Call(c) \/ WakeClientSpuriously(c)
      PROVE  UNCHANGED run
  <2>1. CASE CancelTaskStep(c) \/ (\E k \in Tasks : CallCancel(c, k)) \/ WakeClientSpuriously(c)
    BY <2>1, TaskCancelEffect
       DEF CancelTaskStep, CallCancel, WakeClientSpuriously, taskVars, AInv
  <2>2. CASE \/ SetDeadline(c) \/ SetInterval(c) \/ CancelThread(c) \/ Join(c) \/ ClientSection(c)
            \/ \E op \in Ops : CallStop(c, op)
    BY <2>2 DEF SetDeadline, SetInterval, CancelThread, Join, ClientSection, PushTask, Clear,
                CallStop, taskVars
  <2>3. ASSUME NEW k \in Tasks, NEW d \in Delays,
               RunLater(c, k, d) \/ \E is_run_now \in BOOLEAN : RunEvery(c, k, d, is_run_now)
        PROVE  UNCHANGED run
    BY <2>3, PutsAreCallPuts DEF CallPut, taskVars, AInv
  <2> QED
    BY <1>6, <2>1, <2>2, <2>3 DEF ClientStep, Call
<1> QED
  BY <1>1, <1>2, <1>3, <1>4, <1>5, <1>6 DEF Next, TimerStep

(* Once StopAsync() has returned, or Stop() has cleared the heap, no other *)
(* task is started, although other clients may still push tasks            *)
(* (Timer.cpp:119-123, 171-186).                                           *)
THEOREM StopFiresNothing == Spec => NothingFiresAfterStop
<1>1. AInv /\ [Next]_vars =>
        [\A c \in Clients :
           job[c].op \in {"StopAsync", "Stop"} /\ job[c].at \in {"out", "cancelThread", "join"}
             /\ run[TimerThread] = Task!Idle
           => run'[TimerThread] = Task!Idle]_vars
  BY OnlyTheLockFires DEF AInv, StopInv, Cleared, StopOps
<1> QED
  BY <1>1, AInvariant, PTL DEF Spec, NothingFiresAfterStop

-----------------------------------------------------------------------------
(* The invariant of the heap.                                              *)

LEMMA InitHInv == Init => HInv
<1> SUFFICES ASSUME Init
             PROVE  HInv
  OBVIOUS
<1>1. run[TimerThread].task = NoTask
  BY DEF Init, Task!Init, Task!Idle
<1>2. PutInv /\ SleepInv
  BY DEF Init, PutInv, SleepInv, Putting
<1>3. FreshInv /\ PutOnce
  BY <1>1, TimerAssumption DEF Init, FreshInv, PutOnce
<1>4. DueInv
  BY <1>1, TimerAssumption DEF DueInv
<1> QED
  BY <1>2, <1>3, <1>4 DEF HInv

HeapInv == PutInv /\ FreshInv /\ PutOnce

(* A step that puts nothing: the heap only shrinks, no deadline is taken   *)
(* back, and what is run was run before or in the heap.                    *)
LEMMA ShrinkingKeepsHeapInv ==
  ASSUME AInv, HeapInv,
         \A c \in Clients : job'[c].at \in Putting => job'[c] = job[c],
         \A j \in Tasks : /\ m_queue'[j] \in Nat /\ m_queue'[j] <= m_queue[j]
                          /\ m_deadline'[j] = 0 => m_deadline[j] = 0
                          /\ run'[TimerThread].task = j =>
                               run[TimerThread].task = j \/ m_queue[j] > 0
  PROVE  HeapInv'
<1> USE DEF HeapInv
<1>0. \A j \in Tasks : m_queue[j] \in Nat
  BY DEF AInv, TypeOK
<1>1. PutOnce'
  BY <1>0 DEF PutOnce
<1>2. FreshInv'
  BY <1>0 DEF FreshInv
<1>3. PutInv'
  <2> SUFFICES ASSUME NEW c \in Clients, job'[c].at \in Putting
               PROVE  LET k == job'[c].task IN
                      /\ k \in Puts[c]
                      /\ m_queue'[k] = 0
                      /\ run'[TimerThread].task # k
                      /\ ~ At(c, "setDeadline")' => m_deadline'[k] # 0
    BY DEF PutInv
  <2>1. job'[c] = job[c] /\ job[c].task \in Tasks
    BY DEF AInv, OpInv
  <2> QED
    BY <1>0, <2>1 DEF PutInv, At
<1> QED
  BY <1>1, <1>2, <1>3

(* RunLater() and RunEvery() take a task that nobody has put.              *)
LEMMA CallPutKeepsHeapInv ==
  ASSUME PutsAreDisjoint, AInv, HeapInv, NEW c \in Clients, NEW op \in PutOps, NEW k \in Tasks,
         NEW deadline \in Nat \ {0}, NEW interval \in Nat, CallPut(c, op, k, deadline, interval)
  PROVE  HeapInv'
<1>1. /\ job'[c] = [op |-> op, at |-> "setDeadline", task |-> k,
                    deadline |-> deadline, interval |-> interval]
      /\ \A d \in Clients : d # c => job'[d] = job[d]
      /\ k \in Puts[c] /\ m_deadline[k] = 0
      /\ UNCHANGED <<m_deadline, m_queue, run>>
  BY CallPutEffect DEF AInv, heapVars, taskVars
<1>2. FreshInv' /\ PutOnce'
  BY <1>1 DEF HeapInv, FreshInv, PutOnce
<1>3. ASSUME NEW d \in Clients, job'[d].at \in Putting
      PROVE  LET j == job'[d].task IN
             /\ j \in Puts[d]
             /\ m_queue'[j] = 0
             /\ run'[TimerThread].task # j
             /\ ~ At(d, "setDeadline")' => m_deadline'[j] # 0
  <2>1. CASE d = c
    BY <1>1, <2>1 DEF HeapInv, FreshInv, At
  <2>2. CASE d # c
    BY <1>1, <1>3, <2>2 DEF HeapInv, PutInv, At
  <2> QED
    BY <2>1, <2>2
<1> QED
  BY <1>2, <1>3 DEF HeapInv, PutInv

(* The steps of a put concern the task of one client.                      *)
LEMMA PutStepKeepsHeapInv ==
  ASSUME PutsAreDisjoint, AInv, HeapInv, NEW c \in Clients,
         SetDeadline(c) \/ SetInterval(c) \/ PushTask(c)
  PROVE  HeapInv'
<1> DEFINE k == job[c].task
<1>1. /\ job[c].at \in Putting /\ k \in Tasks /\ job[c].deadline # 0
      /\ k \in Puts[c] /\ m_queue[k] = 0 /\ run[TimerThread].task # k
  BY DEF SetDeadline, SetInterval, PushTask, At, Putting, AInv, OpInv, HeapInv, PutInv
<1>2. \A d \in Clients : d # c /\ job[d].at \in Putting => job[d].task # k
  BY <1>1 DEF HeapInv, PutInv, PutsAreDisjoint
<1>3. UNCHANGED run /\ \A d \in Clients : d # c => job'[d] = job[d]
  BY ProceedEffect, PushEffect DEF SetDeadline, SetInterval, PushTask, taskVars, Proceed, AInv, TypeOK
<1>4. /\ \A j \in Tasks : j # k => m_queue'[j] = m_queue[j] /\ m_deadline'[j] = m_deadline[j]
      /\ m_deadline'[k] # 0
      /\ job'[c].at = "out" => m_queue'[k] = 1
      /\ job'[c].at # "out" =>
           m_queue'[k] = 0 /\ job'[c].task = k /\ job'[c].at \in {"setInterval", "push"}
  <2> USE <1>1
  <2>1. CASE SetDeadline(c)
    <3>1. PICK place \in {"setInterval", "push"} : Proceed(c, place)
      BY <2>1 DEF SetDeadline
    <3>2. job'[c].at = place /\ job'[c].task = k
      BY <3>1, ProceedEffect DEF AInv, TypeOK, Places, Putting
    <3> QED
      BY <2>1, <3>2 DEF SetDeadline, AInv, TypeOK
  <2>2. CASE SetInterval(c)
    <3>1. job'[c].at = "push" /\ job'[c].task = k
      BY <2>2, ProceedEffect DEF SetInterval, AInv, TypeOK, Places, Putting
    <3>2. m_deadline[k] # 0
      BY <2>2 DEF SetInterval, At, HeapInv, PutInv
    <3> QED
      BY <2>2, <3>1, <3>2 DEF SetInterval
  <2>3. CASE PushTask(c)
    <3>1. job'[c].at = "out" /\ m_deadline[k] # 0
      BY <2>3, PushEffect DEF PushTask, At, HeapInv, PutInv, AInv
    <3> QED
      BY <2>3, <3>1 DEF PushTask, AInv, TypeOK
  <2> QED
    BY <2>1, <2>2, <2>3
<1> HIDE DEF k
<1>5. PutOnce' /\ FreshInv'
  BY <1>1, <1>3, <1>4 DEF HeapInv, PutOnce, FreshInv
<1>6. ASSUME NEW d \in Clients, job'[d].at \in Putting
      PROVE  LET j == job'[d].task IN
             /\ j \in Puts[d]
             /\ m_queue'[j] = 0
             /\ run'[TimerThread].task # j
             /\ ~ At(d, "setDeadline")' => m_deadline'[j] # 0
  <2>1. CASE d = c
    BY <1>1, <1>3, <1>4, <1>6, <2>1 DEF Putting, At
  <2>2. CASE d # c
    <3>1. job'[d] = job[d] /\ job[d].task \in Tasks /\ job[d].task # k
      BY <1>2, <1>3, <1>6, <2>2 DEF AInv, OpInv
    <3> QED
      BY <1>3, <1>4, <1>6, <3>1 DEF HeapInv, PutInv, At
  <2> QED
    BY <2>1, <2>2
<1> QED
  BY <1>5, <1>6 DEF HeapInv, PutInv

LEMMA DueInvKept ==
  ASSUME TypeOK, DueInv, UNCHANGED run, now' \in Nat, now <= now',
         \A k \in Tasks :
           /\ task_isRequestCancel[k] => task_isRequestCancel'[k]
           /\ run[TimerThread].task = k =>
                m_deadline'[k] = m_deadline[k] /\ m_interval'[k] = m_interval[k]
  PROVE  DueInv'
<1>1. \A k \in Tasks : run[TimerThread].task = k /\ Due(k) => Due(k)'
  BY DEF Due, TypeOK
<1> QED
  BY <1>1 DEF DueInv

LEMMA SleepInvKept ==
  ASSUME SleepInv, TypeOK,
         \/ m_cond' = {}
         \/ /\ UNCHANGED <<m_cond, wakeAt>>
            /\ \A k \in Tasks : m_queue'[k] > 0 => m_queue[k] > 0 /\ m_deadline'[k] = m_deadline[k]
  PROVE  SleepInv'
BY DEF SleepInv, Queued

LEMMA LoopKeepsHInv ==
  ASSUME AInv, HInv,
         \/ WaitForTask \/ CheckPasses
         \/ \E k \in Tasks : DropCancelled(k) \/ SleepUntil(k)
         \/ TimedOut \/ WakeTimerSpuriously
  PROVE  HInv'
<1>1. UNCHANGED <<taskVars, m_deadline, m_interval, now, job>>
  BY DEF WaitForTask, CheckPasses, DropCancelled, SleepUntil, TimedOut, WakeTimerSpuriously, heapVars
<1>2. \A j \in Tasks : m_queue'[j] \in Nat /\ m_queue'[j] <= m_queue[j]
  <2>1. CASE \E k \in Tasks : DropCancelled(k)
    BY <2>1, PopMinType DEF DropCancelled, AInv, TypeOK
  <2>2. CASE ~ \E k \in Tasks : DropCancelled(k)
    BY <2>2 DEF WaitForTask, CheckPasses, SleepUntil, TimedOut, WakeTimerSpuriously, heapVars,
                AInv, TypeOK
  <2> QED
    BY <2>1, <2>2
<1>3. HeapInv'
  BY <1>1, <1>2, ShrinkingKeepsHeapInv DEF HInv, HeapInv, taskVars
<1>4. DueInv'
  BY <1>1, DueInvKept DEF HInv, AInv, TypeOK, taskVars
<1>5. SleepInv'
  <2>1. CASE WaitForTask
    BY <2>1 DEF WaitForTask, heapVars, Queued, SleepInv
  <2>2. ASSUME NEW k \in Tasks, SleepUntil(k)
        PROVE  SleepInv'
    <3>1. /\ wakeAt' = m_deadline[k] /\ m_deadline[k] > now
          /\ \A j \in Queued : m_deadline[k] <= m_deadline[j]
          /\ UNCHANGED <<m_deadline, m_queue>>
      BY <2>2 DEF SleepUntil, IsMin, heapVars
    <3>2. wakeAt' # Untimed
      BY <3>1 DEF Untimed, AInv, TypeOK
    <3> QED
      BY <3>1, <3>2 DEF SleepInv, Queued
  <2>3. CASE CheckPasses \/ (\E k \in Tasks : DropCancelled(k)) \/ TimedOut \/ WakeTimerSpuriously
    <3>1. m_cond' = {}
      BY <2>3 DEF CheckPasses, DropCancelled, TimedOut, WakeTimerSpuriously, InLoop, SpuriousWakeup,
                  AInv, TypeOK
    <3> QED
      BY <3>1, SleepInvKept DEF HInv, AInv
  <2> QED
    BY <2>1, <2>2, <2>3
<1> QED
  BY <1>3, <1>4, <1>5 DEF HInv, HeapInv

LEMMA FireKeepsHInv ==
  ASSUME AInv, HInv, NEW k \in Tasks, FireCancelled(k) \/ FireDue(k)
  PROVE  HInv'
<1>1. /\ m_cond' = {} /\ m_queue[k] > 0
      /\ run'[TimerThread] = [at |-> "check", task |-> k]
      /\ UNCHANGED <<m_interval, now, job, task_isRequestCancel>>
  BY RunEffect DEF FireCancelled, FireDue, InLoop, IsMin, Queued, AInv
<1>2. /\ \A j \in Tasks : m_queue'[j] \in Nat /\ m_queue'[j] <= m_queue[j]
      /\ m_deadline' \in [Tasks -> Nat]
      /\ \A j \in Tasks : j # k => m_deadline'[j] = m_deadline[j]
      /\ \/ m_deadline'[k] = now + m_interval[k]
         \/ m_deadline'[k] = m_deadline[k]
  BY PopMinType, FiredType DEF FireCancelled, FireDue, AInv, TypeOK
<1>3. HeapInv'
  <2>1. m_deadline'[k] # 0
    BY <1>1, <1>2 DEF HInv, FreshInv, AInv, TypeOK
  <2>2. \A j \in Tasks : m_deadline'[j] = 0 => m_deadline[j] = 0
    BY <1>2, <2>1
  <2> QED
    BY <1>1, <1>2, <2>2, ShrinkingKeepsHeapInv DEF HInv, HeapInv
<1>4. DueInv'
  <2>1. CASE FireCancelled(k)
    BY <1>1, <2>1 DEF FireCancelled, DueInv
  <2>2. CASE FireDue(k)
    BY <1>1, <1>2, <2>2 DEF FireDue, DueInv, Due, AInv, TypeOK
  <2> QED
    BY <2>1, <2>2
<1>5. SleepInv'
  BY <1>1 DEF SleepInv
<1> QED
  BY <1>3, <1>4, <1>5 DEF HInv, HeapInv

(* Run() keeps a run that is due so, and lets no other execute.            *)
LEMMA RunKeepsDueInv ==
  ASSUME TypeOK, DueInv, UNCHANGED <<m_deadline, m_interval, now>>,
         Task!RunStep(TimerThread) \/ Task!DoRunThrows(TimerThread)
  PROVE  DueInv'
<1>1. /\ UNCHANGED task_isRequestCancel
      /\ run'[TimerThread] = Task!Idle \/ run'[TimerThread].task = run[TimerThread].task
  BY TaskRunEffect
<1>2. run' \in [{TimerThread} -> {Task!Idle} \cup [at : Task!InRun, task : Tasks]]
  BY TaskRunEffect DEF Task!TypeOK
<1>3. /\ run'[TimerThread].at # "check"
      /\ run'[TimerThread].at \in {"setRunning", "doRun"} =>
           \/ run[TimerThread].at = "check" /\ ~ task_isRequestCancel[run[TimerThread].task]
           \/ run[TimerThread].at = "setRunning"
  BY DEF TypeOK, Task!TypeOK, Task!Idle, Task!MoveTo, Task!RunStep, Task!CheckCancellation,
     Task!SetRunning, Task!DoRunReturns, Task!DoRunIsCancelled, Task!DoRunThrows, Task!SetFinished,
     Task!SetCancelled, Task!OnCancel, Task!NotifyCancellers
<1>4. Task!Idle.at = "idle"
  BY DEF Task!Idle
<1> QED
  BY <1>1, <1>3, <1>4 DEF DueInv, Due

LEMMA WorkKeepsHInv ==
  ASSUME AInv, HInv, CheckThrows \/ RunTask \/ TaskThrows \/ ThreadFunction
  PROVE  HInv'
<1>1. /\ UNCHANGED <<heapVars, sleepVars, now, job>>
      /\ UNCHANGED taskVars \/ Task!RunStep(TimerThread) \/ Task!DoRunThrows(TimerThread)
  BY DEF CheckThrows, RunTask, TaskThrows, ThreadFunction
<1>2. HeapInv'
  <2>1. ASSUME NEW j \in Tasks, run'[TimerThread].task = j
        PROVE  run[TimerThread].task = j
    BY <1>1, <2>1, TaskRunEffect, TimerAssumption DEF AInv, taskVars, Task!Idle
  <2> QED
    BY <1>1, <2>1, ShrinkingKeepsHeapInv DEF HInv, HeapInv, heapVars, AInv, TypeOK
<1>3. DueInv'
  BY <1>1, RunKeepsDueInv, DueInvKept DEF HInv, AInv, TypeOK, taskVars, heapVars
<1>4. SleepInv'
  BY <1>1, SleepInvKept DEF HInv, AInv, heapVars, sleepVars
<1> QED
  BY <1>2, <1>3, <1>4 DEF HInv, HeapInv

LEMMA PutKeepsHInv ==
  ASSUME PutsAreDisjoint, AInv, HInv, NEW c \in Clients,
         \/ SetDeadline(c) \/ SetInterval(c) \/ PushTask(c)
         \/ \E op \in PutOps : \E k \in Tasks : \E deadline \in Nat \ {0} : \E interval \in Nat :
              CallPut(c, op, k, deadline, interval)
  PROVE  HInv'
<1>1. HeapInv'
  BY CallPutKeepsHeapInv, PutStepKeepsHeapInv DEF HInv, HeapInv
<1>2. /\ UNCHANGED <<taskVars, now>>
      /\ \A k \in Tasks : m_queue[k] > 0 \/ run[TimerThread].task = k =>
           m_deadline'[k] = m_deadline[k] /\ m_interval'[k] = m_interval[k]
      /\ m_cond' = {} \/ UNCHANGED <<m_cond, wakeAt, m_queue>>
  <2>1. ASSUME NEW op \in PutOps, NEW k \in Tasks, NEW deadline \in Nat \ {0}, NEW interval \in Nat,
               CallPut(c, op, k, deadline, interval)
        PROVE  UNCHANGED <<taskVars, now, heapVars, sleepVars>>
    BY <2>1, CallPutEffect DEF AInv
  <2>2. CASE SetDeadline(c) \/ SetInterval(c)
    <3>1. LET k == job[c].task IN k \in Tasks /\ m_queue[k] = 0 /\ run[TimerThread].task # k
      BY <2>2 DEF SetDeadline, SetInterval, At, Putting, HInv, PutInv, AInv, OpInv
    <3> QED
      BY <2>2, <3>1 DEF SetDeadline, SetInterval, sleepVars, AInv, TypeOK
  <2>3. CASE PushTask(c)
    BY <2>3, NotifyEffect DEF PushTask, AInv
  <2> QED
    BY <2>1, <2>2, <2>3 DEF heapVars, sleepVars
<1>3. DueInv'
  BY <1>2, DueInvKept DEF HInv, AInv, TypeOK, taskVars
<1>4. SleepInv'
  BY <1>2, SleepInvKept DEF HInv, AInv, TypeOK
<1> QED
  BY <1>1, <1>3, <1>4 DEF HInv, HeapInv

LEMMA StopKeepsHInv ==
  ASSUME AInv, HInv, NEW c \in Clients,
         Clear(c) \/ CancelThread(c) \/ Join(c) \/ \E op \in Ops : CallStop(c, op)
  PROVE  HInv'
<1>1. UNCHANGED <<taskVars, m_deadline, m_interval, now>>
  BY DEF Clear, CancelThread, Join, CallStop, heapVars
<1>2. \A d \in Clients : job'[d].at \in Putting => job'[d] = job[d]
  <2>1. ASSUME NEW place \in {"out", "cancelThread", "join"}, Proceed(c, place)
        PROVE  \A d \in Clients : job'[d].at \in Putting => job'[d] = job[d]
    BY <2>1, ProceedEffect DEF AInv, TypeOK, Places, Putting
  <2>2. CASE \E op \in Ops : CallStop(c, op)
    BY <2>2, CallStopEffect DEF AInv, Putting
  <2>3. CASE Clear(c) \/ CancelThread(c) \/ Join(c)
    BY <2>1, <2>3 DEF Clear, CancelThread, Join
  <2> QED
    BY <2>2, <2>3
<1>3. /\ \A j \in Tasks : m_queue'[j] \in Nat /\ m_queue'[j] <= m_queue[j]
      /\ m_cond' = {} \/ UNCHANGED <<m_cond, wakeAt>>
  <2>1. CASE Clear(c)
    BY <2>1, NotifyEffect DEF Clear, AInv, TypeOK
  <2>2. CASE ~ Clear(c)
    <3>1. UNCHANGED <<m_queue, m_cond, wakeAt>>
      BY <2>2 DEF CancelThread, Join, CallStop, heapVars, sleepVars
    <3> QED
      BY <3>1 DEF AInv, TypeOK
  <2> QED
    BY <2>1, <2>2
<1>4. HeapInv'
  BY <1>1, <1>2, <1>3, ShrinkingKeepsHeapInv DEF HInv, HeapInv, taskVars
<1>5. DueInv'
  BY <1>1, DueInvKept DEF HInv, AInv, TypeOK, taskVars
<1>6. SleepInv'
  BY <1>1, <1>3, SleepInvKept DEF HInv, AInv, TypeOK
<1> QED
  BY <1>4, <1>5, <1>6 DEF HInv, HeapInv

LEMMA CancelKeepsHInv ==
  ASSUME AInv, HInv, NEW c \in Clients,
         CancelTaskStep(c) \/ (\E k \in Tasks : CallCancel(c, k)) \/ WakeClientSpuriously(c)
  PROVE  HInv'
<1>1. /\ UNCHANGED <<heapVars, sleepVars, now, job>>
      /\ \/ Task!CancelStep(c)
         \/ \E k \in Tasks : Task!Cancel(c, k)
         \/ Task!WakeSpuriously(c)
         \/ UNCHANGED taskVars
  BY DEF CancelTaskStep, CallCancel, WakeClientSpuriously
<1>2. /\ UNCHANGED run
      /\ \A k \in Tasks : task_isRequestCancel[k] => task_isRequestCancel'[k]
  BY <1>1, TaskCancelEffect DEF AInv, taskVars
<1>3. HeapInv'
  BY <1>1, <1>2, ShrinkingKeepsHeapInv DEF HInv, HeapInv, heapVars, AInv, TypeOK
<1>4. DueInv'
  BY <1>1, <1>2, DueInvKept DEF HInv, AInv, TypeOK, heapVars
<1>5. SleepInv'
  BY <1>1, SleepInvKept DEF HInv, AInv, heapVars, sleepVars
<1> QED
  BY <1>3, <1>4, <1>5 DEF HInv, HeapInv

LEMMA NextKeepsHInv ==
  ASSUME PutsAreDisjoint
  PROVE  AInv /\ HInv /\ [Next]_vars => HInv'
<1> SUFFICES ASSUME AInv, HInv, [Next]_vars
             PROVE  HInv'
  OBVIOUS
<1>1. CASE UNCHANGED vars \/ Tick
  <2>1. /\ UNCHANGED <<taskVars, heapVars, sleepVars, job>>
        /\ now' \in Nat /\ now <= now'
    BY <1>1 DEF vars, Tick, AInv, TypeOK
  <2>2. HeapInv'
    BY <2>1, ShrinkingKeepsHeapInv DEF HInv, HeapInv, heapVars, taskVars, AInv, TypeOK
  <2>3. DueInv'
    BY <2>1, DueInvKept DEF HInv, AInv, taskVars, heapVars
  <2>4. SleepInv'
    BY <2>1, SleepInvKept DEF HInv, AInv, heapVars, sleepVars
  <2> QED
    BY <2>2, <2>3, <2>4 DEF HInv, HeapInv
<1>2. CASE TimerStep \/ WakeTimerSpuriously
  BY <1>2, LoopKeepsHInv, FireKeepsHInv, WorkKeepsHInv DEF TimerStep
<1>3. ASSUME NEW c \in Clients,
             ClientStep(c) \/ ClientSection(c) \/ WakeClientSpuriously(c)
      PROVE  HInv'
  BY <1>3, PutKeepsHInv, StopKeepsHInv, CancelKeepsHInv DEF ClientStep, ClientSection
<1>4. ASSUME NEW c \in Clients, Call(c)
      PROVE  HInv'
  <2>1. ASSUME NEW k \in Tasks, NEW d \in Delays,
               RunLater(c, k, d) \/ \E is_run_now \in BOOLEAN : RunEvery(c, k, d, is_run_now)
        PROVE  HInv'
    BY <2>1, PutsAreCallPuts, PutKeepsHInv DEF AInv
  <2> QED
    BY <1>4, <2>1, StopKeepsHInv, CancelKeepsHInv DEF Call
<1> QED
  BY <1>1, <1>2, <1>3, <1>4 DEF Next

LEMMA HInvariant ==
  ASSUME PutsAreDisjoint
  PROVE  Spec => []HInv
BY InitHInv, NextKeepsHInv, AInvariant, PTL DEF Spec

(* No task is in the heap twice when no two clients put the same task: the *)
(* test of the deadline, made outside the mutex, is enough then            *)
(* (Timer.cpp:239, 261).                                                   *)
THEOREM OwnTasksArePutOnce ==
  ASSUME PutsAreDisjoint
  PROVE  Spec => []PutOnce
<1>1. HInv => PutOnce
  BY DEF HInv
<1> QED
  BY <1>1, HInvariant, PTL

(* The timer thread oversleeps no deadline and no stop                     *)
(* (Timer.cpp:84-91, 119-126, 171-208).                                    *)
THEOREM NoWakeupIsLost ==
  ASSUME PutsAreDisjoint
  PROVE  Spec => []NoLostWakeup
<1>1. AInv /\ HInv => NoLostWakeup
  BY DEF AInv, StopInv, HInv, SleepInv, NoLostWakeup
<1> QED
  BY <1>1, AInvariant, HInvariant, PTL

(* No task executes before its time, for any delays (Timer.cpp:191-203).   *)
THEOREM NothingRunsEarly ==
  ASSUME PutsAreDisjoint
  PROVE  Spec => []NoEarlyRun
<1>1. HInv => NoEarlyRun
  BY DEF HInv, DueInv, Due, NoEarlyRun, Task!Running
<1> QED
  BY <1>1, HInvariant, PTL

-----------------------------------------------------------------------------
(* The parts of the timer are used as their modules say, so that what is   *)
(* proved of CancelableThread and of TaskBase holds in the timer.  A timer *)
(* has no futures.                                                         *)

Cancelable == INSTANCE CancelableThreadProofs WITH
  Threads <- {TimerThread}, Cancellers <- Clients,
  m_state <- thread_state, m_isRequestCancel <- thread_isRequestCancel,
  m_stateGuard <- thread_stateGuard, cancel <- thread_cancel

NoRunner == CHOOSE r : r \notin {TimerThread}

RunAgain == INSTANCE TaskProofs WITH
  Runners <- {TimerThread}, Cancellers <- Clients, Periodic <- Tasks,
  m_state <- task_state, m_isRequestCancel <- task_isRequestCancel,
  m_cancelCondition <- task_condition, cancel <- task_cancel,
  Futures <- {}, Getters <- {}, Nobody <- NoRunner,
  m_isResultReturned <- <<>>, m_resultCondition <- <<>>, resultMutex <- <<>>, get <- <<>>

LEMMA PartsAssumptions ==
  Cancelable!ThreadAssumption /\ RunAgain!TaskAssumption /\ RunAgain!FutureAssumption
<1>1. \E r : r \notin {TimerThread}
  BY NoSetContainsEverything
<1> QED
  BY <1>1, TimerAssumption DEF Cancelable!ThreadAssumption, RunAgain!TaskAssumption,
     RunAgain!FutureAssumption, NoRunner

LEMMA ThreadNextAgrees ==
  /\ Thread!Init => Cancelable!Init
  /\ [Thread!Next]_(Thread!vars) => [Cancelable!Next]_(Cancelable!vars)
<1>1. Thread!Init => Cancelable!Init
  BY DEF Thread!Init, Cancelable!Init
<1>2. Thread!Next => Cancelable!Next
  BY DEF Thread!Next, Cancelable!Next, Thread!ThreadStep, Cancelable!ThreadStep,
     Thread!SetRunning, Cancelable!SetRunning, Thread!CheckCancellation,
     Cancelable!CheckCancellation, Thread!WorkPolls, Cancelable!WorkPolls, Thread!WorkEnds,
     Cancelable!WorkEnds, Thread!FinishAction, Cancelable!FinishAction,
     Thread!NotifyFinished, Cancelable!NotifyFinished, Thread!Go, Cancelable!Go,
     Thread!CancelStep, Cancelable!CancelStep, Thread!CancelBlocks, Cancelable!CancelBlocks,
     Thread!CancelReturns, Cancelable!CancelReturns, Thread!WakeSpuriously,
     Cancelable!WakeSpuriously, Thread!Cancel, Cancelable!Cancel, Thread!CancelAsync,
     Cancelable!CancelAsync, Thread!NotifyAllIf, Cancelable!NotifyAllIf, Thread!Wait,
     Cancelable!Wait, Thread!SpuriousWakeup, Cancelable!SpuriousWakeup
<1>3. UNCHANGED Thread!vars <=> UNCHANGED Cancelable!vars
  BY DEF Thread!vars, Cancelable!vars
<1> QED
  BY <1>1, <1>2, <1>3

LEMMA TaskNextAgrees ==
  /\ Task!Init => RunAgain!Init
  /\ [Task!Next]_(Task!vars) => [RunAgain!Next]_(RunAgain!vars)
<1>1. Task!Init => RunAgain!Init
  BY DEF Task!Init, Task!Idle, RunAgain!Init, RunAgain!Idle
<1>2. /\ Task!RunStep(TimerThread) => RunAgain!RunStep(TimerThread)
      /\ Task!DoRunThrows(TimerThread) => RunAgain!DoRunThrows(TimerThread)
      /\ \A k \in Tasks : Task!Run(TimerThread, k) => RunAgain!Run(TimerThread, k)
  BY DEF Task!RunStep, RunAgain!RunStep, Task!CheckCancellation, RunAgain!CheckCancellation,
     Task!SetRunning, RunAgain!SetRunning, Task!DoRunReturns, RunAgain!DoRunReturns,
     Task!DoRunIsCancelled, RunAgain!DoRunIsCancelled, Task!SetFinished, RunAgain!SetFinished,
     Task!SetCancelled, RunAgain!SetCancelled, Task!OnCancel, RunAgain!OnCancel,
     Task!NotifyCancellers, RunAgain!NotifyCancellers, Task!MoveTo, RunAgain!MoveTo,
     Task!SetState, RunAgain!SetState, Task!Idle, RunAgain!Idle, Task!NotifyAllIf,
     RunAgain!NotifyAllIf, Task!DoRunThrows, RunAgain!DoRunThrows, Task!Run, RunAgain!Run
<1>3. \A c \in Clients :
        /\ Task!CancelStep(c) => RunAgain!CancelStep(c)
        /\ Task!WakeSpuriously(c) => RunAgain!WakeSpuriously(c)
        /\ \A k \in Tasks : Task!Cancel(c, k) => RunAgain!Cancel(c, k)
  BY DEF Task!CancelStep, RunAgain!CancelStep, Task!CancelBlocks, RunAgain!CancelBlocks,
     Task!CancelReturns, RunAgain!CancelReturns, Task!IsStopState, RunAgain!IsStopState,
     Task!Wait, RunAgain!Wait, Task!WakeSpuriously, RunAgain!WakeSpuriously,
     Task!SpuriousWakeup, RunAgain!SpuriousWakeup, Task!Cancel, RunAgain!Cancel,
     Task!CancelAsync, RunAgain!CancelAsync
<1>4. \A k \in Tasks : Task!CancelAsync(k) => RunAgain!CancelAsync(k)
  BY DEF Task!CancelAsync, RunAgain!CancelAsync
<1>5. UNCHANGED Task!vars <=> UNCHANGED RunAgain!vars
  BY DEF Task!vars, RunAgain!vars
<1> QED
  BY <1>1, <1>2, <1>3, <1>4, <1>5 DEF Task!Next, RunAgain!Next

LEMMA TimerStepParts ==
  ASSUME TimerStep
  PROVE  /\ Thread!ThreadStep(TimerThread) \/ UNCHANGED threadVars
         /\ \/ Task!RunStep(TimerThread) \/ Task!DoRunThrows(TimerThread)
            \/ \E k \in Tasks : Task!Run(TimerThread, k)
            \/ UNCHANGED taskVars
<1>1. CASE \E k \in Tasks : DropCancelled(k) \/ FireCancelled(k) \/ FireDue(k) \/ SleepUntil(k)
  BY <1>1 DEF DropCancelled, FireCancelled, FireDue, SleepUntil
<1>2. CASE \/ ThreadFunction \/ WaitForTask \/ CheckThrows \/ CheckPasses \/ TimedOut
           \/ RunTask \/ TaskThrows
  BY <1>2 DEF ThreadFunction, WaitForTask, CheckThrows, CheckPasses, TimedOut, RunTask,
     TaskThrows, Thread!ThreadStep
<1> QED
  BY <1>1, <1>2 DEF TimerStep

LEMMA ClientStepParts ==
  ASSUME NEW c \in Clients,
         ClientStep(c) \/ ClientSection(c) \/ Call(c) \/ WakeClientSpuriously(c)
  PROVE  /\ \/ Thread!CancelStep(c) \/ Thread!WakeSpuriously(c) \/ Thread!Cancel(c, TimerThread)
            \/ Thread!CancelAsync(TimerThread) /\ UNCHANGED thread_cancel
            \/ UNCHANGED threadVars
         /\ \/ Task!CancelStep(c) \/ Task!WakeSpuriously(c)
            \/ \E k \in Tasks : Task!Cancel(c, k)
            \/ UNCHANGED taskVars
<1>1. CASE ClientStep(c) \/ ClientSection(c)
  BY <1>1 DEF ClientStep, SetDeadline, SetInterval, CancelThread, Join, CancelTaskStep,
     ClientSection, PushTask, Clear
<1>2. CASE Call(c)
  BY <1>2 DEF Call, RunLater, RunEvery, CallPut, CallStop, CallCancel
<1>3. CASE WakeClientSpuriously(c)
  BY <1>3 DEF WakeClientSpuriously
<1> QED
  BY <1>1, <1>2, <1>3

LEMMA StepParts ==
  [Next]_vars => [Cancelable!Next]_(Cancelable!vars) /\ [RunAgain!Next]_(RunAgain!vars)
<1> SUFFICES ASSUME [Next]_vars
             PROVE  [Thread!Next]_(Thread!vars) /\ [Task!Next]_(Task!vars)
  BY ThreadNextAgrees, TaskNextAgrees
<1>1. /\ UNCHANGED threadVars => UNCHANGED Thread!vars
      /\ UNCHANGED taskVars => UNCHANGED Task!vars
  BY DEF threadVars, taskVars, Thread!vars, Task!vars
<1>2. CASE TimerStep
  BY <1>1, <1>2, TimerStepParts DEF Thread!Next, Task!Next
<1>3. ASSUME NEW c \in Clients,
             ClientStep(c) \/ ClientSection(c) \/ Call(c) \/ WakeClientSpuriously(c)
      PROVE  [Thread!Next]_(Thread!vars) /\ [Task!Next]_(Task!vars)
  BY <1>1, <1>3, ClientStepParts DEF Thread!Next, Task!Next
<1>4. CASE WakeTimerSpuriously \/ Tick \/ UNCHANGED vars
  BY <1>1, <1>4 DEF WakeTimerSpuriously, Tick, vars
<1> QED
  BY <1>2, <1>3, <1>4 DEF Next

LEMMA PartsInvariance ==
  Spec => /\ []Cancelable!IInv
          /\ []RunAgain!WakeupInv
          /\ [][RunAgain!Next]_(RunAgain!vars)
<1>1. Init => Cancelable!Init /\ RunAgain!Init
  BY ThreadNextAgrees, TaskNextAgrees DEF Init
<1>2. /\ Cancelable!Init => Cancelable!IInv
      /\ Cancelable!IInv /\ [Cancelable!Next]_(Cancelable!vars) => Cancelable!IInv'
  BY PartsAssumptions, Cancelable!InitIInv, Cancelable!NextKeepsIInv
<1>3. /\ RunAgain!Init => RunAgain!WakeupInv
      /\ RunAgain!WakeupInv /\ [RunAgain!Next]_(RunAgain!vars) => RunAgain!WakeupInv'
  BY PartsAssumptions, RunAgain!InitWakeupInv, RunAgain!NextKeepsWakeupInv
<1> QED
  BY <1>1, <1>2, <1>3, StepParts, PTL DEF Spec

(* Stop() never sleeps on a timer thread that has finished, and its        *)
(* Cancel() of the thread returns only when the thread has exited          *)
(* (CancelableThread.cpp:53-59, 130-158, Timer.cpp:288-292).               *)
THEOREM StopIsWoken == Spec => [](Thread!NoLostFinishWakeup /\ Thread!CancelledIsPastTheWork)
<1>1. Cancelable!IInv => Thread!NoLostFinishWakeup /\ Thread!CancelledIsPastTheWork
  BY DEF Cancelable!IInv, Cancelable!NoLostFinishWakeup, Thread!NoLostFinishWakeup,
     Cancelable!CancelledIsPastTheWork, Thread!CancelledIsPastTheWork
<1> QED
  BY <1>1, PartsInvariance, PTL

(* The Cancel() of a task in the timer never sleeps through the end of the *)
(* run that stopped the task (TaskBase.cpp:45-67).                         *)
THEOREM TaskCancelIsWoken == Spec => []Task!NoLostCancelWakeup
<1>1. RunAgain!WakeupInv => Task!NoLostCancelWakeup
  BY DEF RunAgain!WakeupInv, RunAgain!NoLostCancelWakeup, Task!NoLostCancelWakeup,
     RunAgain!IsStopState, Task!IsStopState, RunAgain!Running, Task!Running
<1> QED
  BY <1>1, PartsInvariance, PTL

(* A task of the timer, an interval task too, is not executed once its     *)
(* cancellation was requested before a check of Run(): what the timer      *)
(* thread fires after that only cancels it (TaskBase.cpp:41).              *)
THEOREM CancelledTasksAreNotExecuted == Spec => RunAgain!CancellationSticks
<1>1. RunAgain!TypeOK /\ [RunAgain!Next]_(RunAgain!vars) => [RunAgain!Sticks]_(RunAgain!vars)
  BY PartsAssumptions, RunAgain!StepSticks
<1>2. RunAgain!WakeupInv => RunAgain!TypeOK
  BY DEF RunAgain!WakeupInv
<1> QED
  BY <1>1, <1>2, PartsInvariance, PTL DEF RunAgain!CancellationSticks, RunAgain!Sticks

-----------------------------------------------------------------------------
(* The arithmetic of the sleep                                            *)

(* A carry of a million microseconds into the seconds changes nothing.     *)
LEMMA Carry ==
  ASSUME NEW s \in Int, NEW u \in Int, NEW q \in Int, NEW r \in Int
  PROVE  (s + q + 1) * Nano + (u + r * 1000 - Micro) * 1000
           = (s * Micro + u + (1000 * q + r) * 1000) * 1000
BY SMT DEF Micro, Nano

(* TimedWait() waits for exactly the delay, and its timespec is one that   *)
(* pthread_cond_timedwait accepts (ConditionVariable.cpp:41-55).           *)
THEOREM TimeoutIsExact ==
  ASSUME NEW start \in TimeVals, NEW delay \in Nat
  PROVE  LET end == Timeout(start, delay) IN
         /\ end.tv_sec \in Nat
         /\ end.tv_nsec \in Nat /\ end.tv_nsec < Nano
         /\ end.tv_sec * Nano + end.tv_nsec
              = (start.tv_sec * Micro + start.tv_usec + delay * 1000) * 1000
<1> DEFINE usec == start.tv_usec + (delay % 1000) * 1000
           end == Timeout(start, delay)
<1>1. start.tv_sec \in Nat /\ start.tv_usec \in Nat /\ start.tv_usec < 1000000
  BY SMT DEF TimeVals, Micro
<1>2. /\ delay \div 1000 \in Nat
      /\ (delay % 1000) \in 0 .. 999
      /\ delay = 1000 * (delay \div 1000) + (delay % 1000)
  BY SMT
<1>3. usec \in Nat /\ usec < 1999000
  BY SMT, <1>1, <1>2
<1>4. CASE usec >= Micro
  <2>1. usec % Micro = usec - Micro
    BY SMT, <1>3, <1>4 DEF Micro
  <2>2. /\ end.tv_sec = start.tv_sec + (delay \div 1000) + 1
        /\ end.tv_nsec = (usec - Micro) * 1000
    BY SMT, <1>4, <2>1 DEF Timeout
  <2>3. end.tv_sec \in Nat /\ end.tv_nsec \in Nat /\ end.tv_nsec < Nano
    BY SMT, <1>1, <1>2, <1>3, <1>4, <2>2 DEF Micro, Nano
  <2>4. end.tv_sec * Nano + end.tv_nsec
          = (start.tv_sec * Micro + start.tv_usec + delay * 1000) * 1000
    <3> HIDE DEF end
    <3>1. end.tv_sec * Nano + end.tv_nsec
            = (start.tv_sec + (delay \div 1000) + 1) * Nano
              + (start.tv_usec + (delay % 1000) * 1000 - Micro) * 1000
      BY SMT, <1>1, <1>2, <2>2 DEF Micro, Nano
    <3> QED
      BY SMT, <1>1, <1>2, <3>1, Carry
  <2> QED
    BY <2>3, <2>4
<1>5. CASE ~ (usec >= Micro)
  <2>1. end = [tv_sec |-> start.tv_sec + delay \div 1000, tv_nsec |-> usec * 1000]
    BY SMT, <1>5 DEF Timeout
  <2> QED
    BY SMT, <1>1, <1>2, <1>3, <1>5, <2>1 DEF Micro, Nano
<1> QED
  BY SMT, <1>4, <1>5

(* When the sleep of Timer's TimedWait(deadline - now) times out, the time *)
(* that ThreadFunction() then reads is not before the deadline, although   *)
(* the clock is rounded down at both ends (Timer.cpp:180-207).             *)
THEOREM TimedOutIsDue ==
  ASSUME NEW start \in TimeVals, NEW later \in TimeVals, NEW deadline \in Nat,
         GetCurrentTime(start) < deadline,
         LET end == Timeout(start, deadline - GetCurrentTime(start))
         IN  (later.tv_sec * Micro + later.tv_usec) * 1000 >= end.tv_sec * Nano + end.tv_nsec
  PROVE  deadline <= GetCurrentTime(later)
<1> DEFINE delay == deadline - GetCurrentTime(start)
<1>1. /\ start.tv_sec \in Nat /\ start.tv_usec \in Nat /\ start.tv_usec < 1000000
      /\ later.tv_sec \in Nat /\ later.tv_usec \in Nat /\ later.tv_usec < 1000000
  BY SMT DEF TimeVals, Micro
<1>2. /\ start.tv_usec \div 1000 \in Nat
      /\ start.tv_usec >= 1000 * (start.tv_usec \div 1000)
      /\ later.tv_usec \div 1000 \in Nat
      /\ later.tv_usec < 1000 * (later.tv_usec \div 1000) + 1000
  BY SMT, <1>1
<1>3. delay \in Nat
  BY SMT, <1>1, <1>2 DEF GetCurrentTime
<1>4. (later.tv_sec * Micro + later.tv_usec) * 1000
        >= (start.tv_sec * Micro + start.tv_usec + delay * 1000) * 1000
  <2> HIDE DEF delay
  <2> QED
    BY SMT, <1>3, TimeoutIsExact DEF delay
<1>5. later.tv_sec * 1000000 + later.tv_usec >= start.tv_sec * 1000000 + start.tv_usec + delay * 1000
  <2> HIDE DEF delay
  <2> QED
    BY SMT, <1>1, <1>3, <1>4 DEF Micro
<1> QED
  BY SMT, <1>1, <1>2, <1>3, <1>5 DEF GetCurrentTime

=============================================================================
