-------------------------------- MODULE Timer --------------------------------
(***************************************************************************)
(* The timer of src/Timer.cpp: a CancelableThread that sleeps until the    *)
(* earliest deadline in a heap of tasks and runs the tasks that are due,   *)
(* and clients that call RunLater, RunEvery, StopAsync, Stop and the       *)
(* Cancel() of tasks.                                                      *)
(*                                                                         *)
(* The tasks and the thread are instances of TaskBase and CancelableThread.*)
(* The heap is a bag: m_queue[k] is how often k is in it, and GetMin()     *)
(* returns any task of minimal deadline.  Time advances by Tick, so        *)
(* GetCurrentTime() is now.                                                *)
(***************************************************************************)
EXTENDS ConditionVariable, Naturals

CONSTANTS
  Clients,
  Tasks,
  TimerThread,
  NoTask,
  NoThread,
  MayThrow,    \* TRUE: a DoRun() may let an exception of the user escape
  ClientOps,   \* for each client, the methods it calls
  Puts,        \* for each client, the tasks it hands to the timer
  Delays,      \* the delays and intervals of the calls
  MaxTime      \* bound of the clock

Ops == {"RunLater", "RunEvery", "StopAsync", "Stop", "Cancel"}

(* Two clients may put the same task only when there is no other: the      *)
(* second SetDeadline() breaks the order of a heap that already holds it.  *)
ASSUME TimerAssumption ==
  /\ TimerThread \notin Clients
  /\ NoTask \notin Tasks
  /\ NoThread # TimerThread
  /\ MayThrow \in BOOLEAN
  /\ ClientOps \in [Clients -> SUBSET Ops]
  /\ Puts \in [Clients -> SUBSET Tasks]
  /\ \A c, d \in Clients :
       c # d /\ Puts[c] \cap Puts[d] # {} => \A j, k \in Tasks : j = k
  /\ Delays \subseteq Nat
  /\ MaxTime \in Nat \ {0}

VARIABLES
  task_state, task_isRequestCancel, task_condition, run, task_cancel,
  thread_state, thread_isRequestCancel, thread_stateGuard, at, thread_cancel,
  m_deadline,   \* for each task; 0 until it is put
  m_interval,   \* for each task; 0 unless it is an interval task
  m_queue,      \* for each task, how often it is in the heap
  m_cond,       \* {TimerThread} while it sleeps
  wakeAt,       \* the time at which it wakes up, Untimed in Wait()
  locked,       \* TRUE while it holds m_queue_guard between two reads
  now,
  job           \* for each client, its pending or last call

taskVars   == <<task_state, task_isRequestCancel, task_condition, run, task_cancel>>
threadVars == <<thread_state, thread_isRequestCancel, thread_stateGuard, at, thread_cancel>>
heapVars   == <<m_deadline, m_interval, m_queue>>
sleepVars  == <<m_cond, wakeAt, locked>>
vars == <<taskVars, threadVars, heapVars, sleepVars, now, job>>

Task == INSTANCE TaskBase WITH
  Runners <- {TimerThread}, Cancellers <- Clients, Periodic <- Tasks,
  m_state <- task_state, m_isRequestCancel <- task_isRequestCancel,
  m_cancelCondition <- task_condition, cancel <- task_cancel

Thread == INSTANCE CancelableThread WITH
  Threads <- {TimerThread}, Cancellers <- Clients,
  m_state <- thread_state, m_isRequestCancel <- thread_isRequestCancel,
  m_stateGuard <- thread_stateGuard, cancel <- thread_cancel

Untimed == 0

Init ==
  /\ Task!Init
  /\ Thread!Init
  /\ m_deadline = [k \in Tasks |-> 0]
  /\ m_interval = [k \in Tasks |-> 0]
  /\ m_queue = [k \in Tasks |-> 0]
  /\ m_cond = {}
  /\ wakeAt = Untimed
  /\ locked = FALSE
  /\ now = 1
  /\ job = [c \in Clients |->
              [op |-> "none", at |-> "out", task |-> NoTask, deadline |-> 0, interval |-> 0]]

Queued == {k \in Tasks : m_queue[k] > 0}
IsMin(k) == k \in Queued /\ \A j \in Queued : m_deadline[k] <= m_deadline[j]
PopMin(k) == m_queue' = [m_queue EXCEPT ![k] = @ - 1]
StopRequested == thread_isRequestCancel[TimerThread]

-----------------------------------------------------------------------------
(* ThreadFunction()                                                        *)

(* The thread is in its loop, awake and not in a task->Run().              *)
InLoop == at[TimerThread] = "work" /\ run[TimerThread] = Task!Idle /\ m_cond = {}

(* while (IsEmpty()) { checkFunc(); Wait(); }                              *)
WaitForTask ==
  /\ InLoop /\ ~ locked
  /\ Queued = {} /\ ~ StopRequested
  /\ m_cond' = Wait(m_cond, TimerThread)
  /\ wakeAt' = Untimed
  /\ UNCHANGED <<taskVars, threadVars, heapVars, locked, now, job>>

(* Either checkFunc() throws and the mutex is unlocked ...                 *)
CheckThrows ==
  /\ InLoop /\ ~ locked
  /\ StopRequested
  /\ Thread!WorkPolls(TimerThread)
  /\ UNCHANGED <<taskVars, heapVars, sleepVars, now, job>>

(* The loop without its second checkFunc().                                *)
PassUnchecked ==
  /\ InLoop /\ ~ locked
  /\ Queued # {}
  /\ locked' = TRUE
  /\ UNCHANGED <<taskVars, threadVars, heapVars, m_cond, wakeAt, now, job>>

(* ... or the thread goes on with the mutex held.                          *)
CheckPasses ==
  /\ InLoop /\ ~ locked
  /\ Queued # {} /\ ~ StopRequested
  /\ locked' = TRUE
  /\ UNCHANGED <<taskVars, threadVars, heapVars, m_cond, wakeAt, now, job>>

Unlock == locked /\ locked' = FALSE

(* The task of GetMin() is cancelled already: drop it.                     *)
DropCancelled(k) ==
  /\ InLoop /\ Unlock
  /\ IsMin(k)
  /\ task_state[k] = "CANCELLED"
  /\ PopMin(k)
  /\ UNCHANGED <<taskVars, threadVars, m_deadline, m_interval, m_cond, wakeAt, now, job>>

(* It has a cancel request: Run() will only cancel it.                     *)
FireCancelled(k) ==
  /\ InLoop /\ Unlock
  /\ IsMin(k)
  /\ task_state[k] # "CANCELLED"
  /\ task_isRequestCancel[k]
  /\ PopMin(k)
  /\ Task!Run(TimerThread, k)
  /\ UNCHANGED <<threadVars, m_deadline, m_interval, m_cond, wakeAt, now, job>>

(* PopMinAndPush() without the pop.                                        *)
FiredAndKept(k) ==
  IF m_interval[k] > 0
    THEN /\ m_deadline' = [m_deadline EXCEPT ![k] = now + m_interval[k]]
         /\ m_queue' = [m_queue EXCEPT ![k] = @ + 1]
    ELSE PopMin(k) /\ UNCHANGED m_deadline

(* What firing does to the heap: an interval task goes back with its next  *)
(* deadline (PopMinAndPush), another is popped.                            *)
Fired(k) ==
  IF m_interval[k] > 0
    THEN m_deadline' = [m_deadline EXCEPT ![k] = now + m_interval[k]] /\ UNCHANGED m_queue
    ELSE PopMin(k) /\ UNCHANGED m_deadline

(* A comparison that is one unit of the clock early.                       *)
FireEarly(k) ==
  /\ InLoop /\ Unlock
  /\ IsMin(k)
  /\ task_state[k] # "CANCELLED" /\ ~ task_isRequestCancel[k]
  /\ m_deadline[k] <= now + 1
  /\ Fired(k)
  /\ Task!Run(TimerThread, k)
  /\ UNCHANGED <<threadVars, m_interval, m_cond, wakeAt, now, job>>

(* It is due.                                                              *)
FireDue(k) ==
  /\ InLoop /\ Unlock
  /\ IsMin(k)
  /\ task_state[k] # "CANCELLED" /\ ~ task_isRequestCancel[k]
  /\ m_deadline[k] <= now
  /\ Fired(k)
  /\ Task!Run(TimerThread, k)
  /\ UNCHANGED <<threadVars, m_interval, m_cond, wakeAt, now, job>>

(* It is not due: TimedWait().                                             *)
SleepUntil(k) ==
  /\ InLoop /\ Unlock
  /\ IsMin(k)
  /\ task_state[k] # "CANCELLED" /\ ~ task_isRequestCancel[k]
  /\ m_deadline[k] > now
  /\ m_cond' = Wait(m_cond, TimerThread)
  /\ wakeAt' = m_deadline[k]
  /\ UNCHANGED <<taskVars, threadVars, heapVars, now, job>>

(* A sleep that times out ends at the deadline or later (TimerProofs).     *)
TimedOut ==
  /\ TimerThread \in m_cond
  /\ wakeAt # Untimed /\ wakeAt <= now
  /\ m_cond' = {} /\ wakeAt' = Untimed
  /\ UNCHANGED <<taskVars, threadVars, heapVars, locked, now, job>>

(* task->Run(), without the mutex: it returns to the loop ...              *)
RunTask ==
  /\ Task!RunStep(TimerThread)
  /\ UNCHANGED <<threadVars, heapVars, sleepVars, now, job>>

(* ... or throws: the exception ends the work function.                    *)
TaskThrows ==
  /\ Task!DoRunThrows(TimerThread)
  /\ Thread!WorkEnds(TimerThread)
  /\ UNCHANGED <<heapVars, sleepVars, now, job>>

(* What precedes and follows the work function; there is no finish action. *)
ThreadFunction ==
  /\ \/ Thread!SetRunning(TimerThread)
     \/ Thread!CheckCancellation(TimerThread)
     \/ Thread!FinishAction(TimerThread)
     \/ Thread!NotifyFinished(TimerThread)
  /\ UNCHANGED <<taskVars, heapVars, sleepVars, now, job>>

TimerStep ==
  \/ ThreadFunction
  \/ WaitForTask
  \/ CheckThrows
  \/ CheckPasses
  \/ \E k \in Tasks : DropCancelled(k) \/ FireCancelled(k) \/ FireDue(k) \/ SleepUntil(k)
  \/ TimedOut
  \/ RunTask
  \/ TaskThrows

WakeTimerSpuriously ==
  /\ TimerThread \in m_cond
  /\ m_cond' = SpuriousWakeup(m_cond, TimerThread) /\ wakeAt' = Untimed
  /\ UNCHANGED <<taskVars, threadVars, heapVars, locked, now, job>>

-----------------------------------------------------------------------------
(* The methods of the timer                                                *)

At(c, place) == job[c].at = place

Idle(c) == At(c, "out") /\ task_cancel[c].at = "out"

Proceed(c, place) == job' = [job EXCEPT ![c].at = place]

(* m_cond.Notify(): only the timer thread ever waits.                      *)
Notify == m_cond' \in NotifyOne(m_cond) /\ wakeAt' = Untimed

(* RunLater() and RunEvery() up to SetDeadline(), if not refused.  The time*)
(* and the two tests are read one after the other; neither test can turn   *)
(* from refusal to acceptance, so the last of the reads decides.           *)
CallPut(c, op, k, deadline, interval) ==
  /\ op \in ClientOps[c] /\ k \in Puts[c]
  /\ Idle(c)
  /\ ~ StopRequested
  /\ m_deadline[k] = 0
  /\ job' = [job EXCEPT ![c] = [op |-> op, at |-> "setDeadline", task |-> k,
                                deadline |-> deadline, interval |-> interval]]
  /\ UNCHANGED <<taskVars, threadVars, heapVars, sleepVars, now>>

RunLater(c, k, delay) == CallPut(c, "RunLater", k, now + delay, 0)

RunEvery(c, k, interval, is_run_now) ==
  CallPut(c, "RunEvery", k, IF is_run_now THEN now ELSE now + interval, interval)

SetDeadline(c) ==
  /\ At(c, "setDeadline")
  /\ m_deadline' = [m_deadline EXCEPT ![job[c].task] = job[c].deadline]
  /\ Proceed(c, IF job[c].op = "RunEvery" THEN "setInterval" ELSE "push")
  /\ UNCHANGED <<taskVars, threadVars, m_interval, m_queue, sleepVars, now>>

SetInterval(c) ==
  /\ At(c, "setInterval")
  /\ m_interval' = [m_interval EXCEPT ![job[c].task] = job[c].interval]
  /\ Proceed(c, "push")
  /\ UNCHANGED <<taskVars, threadVars, m_deadline, m_queue, sleepVars, now>>

(* PushTask() that notifies like BlockingQueue does.                       *)
PushNotifiesWhenEmpty(c) ==
  /\ At(c, "push") /\ ~ locked
  /\ m_queue' = [m_queue EXCEPT ![job[c].task] = @ + 1]
  /\ IF Queued = {} THEN Notify ELSE UNCHANGED <<m_cond, wakeAt>>
  /\ job' = [job EXCEPT ![c].at = "out", ![c].deadline = 0, ![c].interval = 0]
  /\ UNCHANGED <<taskVars, threadVars, m_deadline, m_interval, locked, now>>

(* PushTask() that does not notify.                                        *)
PushSilently(c) ==
  /\ At(c, "push") /\ ~ locked
  /\ m_queue' = [m_queue EXCEPT ![job[c].task] = @ + 1]
  /\ job' = [job EXCEPT ![c].at = "out", ![c].deadline = 0, ![c].interval = 0]
  /\ UNCHANGED <<taskVars, threadVars, m_deadline, m_interval, sleepVars, now>>

PushTask(c) ==
  /\ At(c, "push") /\ ~ locked
  /\ m_queue' = [m_queue EXCEPT ![job[c].task] = @ + 1]
  /\ Notify
  /\ job' = [job EXCEPT ![c].at = "out", ![c].deadline = 0, ![c].interval = 0]
  /\ UNCHANGED <<taskVars, threadVars, m_deadline, m_interval, locked, now>>

(* StopAsync(), also as the beginning of Stop(): CancelAsync() ...         *)
CallStop(c, op) ==
  /\ op \in ClientOps[c] \cap {"StopAsync", "Stop"}
  /\ Idle(c)
  /\ Thread!CancelAsync(TimerThread)
  /\ job' = [job EXCEPT ![c].op = op, ![c].at = "clear"]
  /\ UNCHANGED <<taskVars, thread_cancel, heapVars, sleepVars, now>>

(* Clear() that keeps the timer thread asleep.                             *)
ClearSilently(c) ==
  /\ At(c, "clear") /\ ~ locked
  /\ m_queue' = [k \in Tasks |-> 0]
  /\ Proceed(c, IF job[c].op = "Stop" THEN "cancelThread" ELSE "out")
  /\ UNCHANGED <<taskVars, threadVars, m_deadline, m_interval, sleepVars, now>>

(* ... and Clear().                                                        *)
Clear(c) ==
  /\ At(c, "clear") /\ ~ locked
  /\ m_queue' = [k \in Tasks |-> 0]
  /\ Notify
  /\ Proceed(c, IF job[c].op = "Stop" THEN "cancelThread" ELSE "out")
  /\ UNCHANGED <<taskVars, threadVars, m_deadline, m_interval, locked, now>>

(* Stop() goes on with Cancel() of the thread.                             *)
CancelThread(c) ==
  /\ At(c, "cancelThread")
  /\ Thread!Cancel(c, TimerThread)
  /\ Proceed(c, "join")
  /\ UNCHANGED <<taskVars, heapVars, sleepVars, now>>

Join(c) ==
  /\ At(c, "join")
  /\ Thread!CancelStep(c)
  /\ IF thread_cancel'[c].at = "out" THEN Proceed(c, "out") ELSE UNCHANGED job
  /\ UNCHANGED <<taskVars, heapVars, sleepVars, now>>

(* A client calls Cancel() of a task.                                      *)
CallCancel(c, k) ==
  /\ "Cancel" \in ClientOps[c]
  /\ Idle(c)
  /\ Task!Cancel(c, k)
  /\ UNCHANGED <<threadVars, heapVars, sleepVars, now, job>>

CancelTaskStep(c) ==
  /\ Task!CancelStep(c)
  /\ UNCHANGED <<threadVars, heapVars, sleepVars, now, job>>

ClientStep(c) ==
  \/ SetDeadline(c)
  \/ SetInterval(c)
  \/ CancelThread(c)
  \/ Join(c)
  \/ CancelTaskStep(c)

(* The sections of m_queue_guard.                                          *)
ClientSection(c) == PushTask(c) \/ Clear(c)

Call(c) ==
  \/ \E k \in Tasks, d \in Delays :
       \/ RunLater(c, k, d)
       \/ \E is_run_now \in BOOLEAN : RunEvery(c, k, d, is_run_now)
  \/ \E op \in Ops : CallStop(c, op)
  \/ \E k \in Tasks : CallCancel(c, k)

WakeClientSpuriously(c) ==
  /\ \/ Task!WakeSpuriously(c) /\ UNCHANGED threadVars
     \/ Thread!WakeSpuriously(c) /\ UNCHANGED taskVars
  /\ UNCHANGED <<heapVars, sleepVars, now, job>>

Tick ==
  /\ now < MaxTime
  /\ now' = now + 1
  /\ UNCHANGED <<taskVars, threadVars, heapVars, sleepVars, job>>

-----------------------------------------------------------------------------

Next ==
  \/ TimerStep
  \/ WakeTimerSpuriously
  \/ \E c \in Clients :
       \/ ClientStep(c)
       \/ ClientSection(c)
       \/ Call(c)
       \/ WakeClientSpuriously(c)
  \/ Tick

(* Every thread that can run is scheduled, DoRun() ends, and the clock goes*)
(* on.  m_queue_guard is free again and again: nobody who waits for it     *)
(* waits for ever.                                                         *)
Fairness ==
  /\ WF_vars(TimerStep)
  /\ \A c \in Clients : WF_vars(ClientStep(c)) /\ SF_vars(ClientSection(c))
  /\ WF_vars(Tick)

Spec == Init /\ [][Next]_vars /\ Fairness

-----------------------------------------------------------------------------

(* "A task having been put in the timer cannot be put again"               *)
(* (Timer.cpp:239, 261): no task is in the heap twice.                     *)
PutOnce == \A k \in Tasks : m_queue[k] <= 1

(* The timer thread oversleeps nothing: in Wait() the heap is empty, in    *)
(* TimedWait() no deadline is before the one it sleeps for, and a stop that*)
(* it has not seen still has to clear the heap and wake it                 *)
(* (Timer.cpp:84-91, 119-126, 171-208).                                    *)
NoLostWakeup ==
  m_cond # {} =>
    /\ \A k \in Queued : wakeAt # Untimed /\ wakeAt <= m_deadline[k]
    /\ StopRequested => \E c \in Clients : At(c, "clear")

(* A task that executes is due; an interval task has its next deadline set *)
(* already, at most an interval away (Timer.cpp:191-203, Timer.h:71-76).   *)
NoEarlyRun ==
  \A k \in Tasks :
    Task!Running(k, {"doRun"}) => m_deadline[k] <= now + m_interval[k]

(* When Stop() has returned the timer thread is gone and no task executes  *)
(* (test_Stop, testTimer.cpp:395-398).                                     *)
StopMeansOver ==
  \A c \in Clients :
    job[c].op = "Stop" /\ At(c, "out") =>
      at[TimerThread] = "exited" /\ run[TimerThread] = Task!Idle

(* Once StopAsync() has returned no other task is started (test_StopAsync, *)
(* testTimer.cpp:356-358): the one that was fired before may go on.        *)
NothingFiresAfterStop ==
  [][\A c \in Clients :
       job[c].op \in {"StopAsync", "Stop"} /\ job[c].at \in {"out", "cancelThread", "join"}
         /\ run[TimerThread] = Task!Idle
       => run'[TimerThread] = Task!Idle]_vars

(* A due task is fired, unless the timer is stopped or a task threw        *)
(* (Timer.h:71-76).                                                        *)
TimerGone == StopRequested \/ at[TimerThread] \in {"finishAction", "notifyFinished", "exited"}
DueTasksFire ==
  \A k \in Tasks :
    (k \in Queued /\ m_deadline[k] <= now)
      ~> (k \notin Queued \/ m_deadline[k] > now \/ TimerGone)

(* The methods of the timer return.  So does Cancel() of a task in the     *)
(* heap, at its deadline if not before, unless the timer is stopped or a   *)
(* task threw (TaskBase.cpp:53, 63).                                       *)
EveryCallReturns ==
  \A c \in Clients :
    \/ ~ At(c, "out")
    \/ \E k \in Queued :
         m_deadline[k] <= MaxTime /\ task_cancel[c] = [at |-> "in", task |-> k]
    ~> At(c, "out") /\ (task_cancel[c].at = "out" \/ TimerGone)

=============================================================================
