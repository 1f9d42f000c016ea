------------------------------ MODULE PoolTimer ------------------------------
(***************************************************************************)
(* FixedThreadPool with its timer: AddTimerTask and AddIntervalTask, the   *)
(* timer thread that hands their tasks to the pool, and what the stop      *)
(* methods and the destructor do to the timer.                             *)
(*                                                                         *)
(* The timer is what Timer promises, which the runs of Timer check: a heap *)
(* of tasks, one of which is fired at a time, none after StopAsync() has   *)
(* cleared it, and Stop() waits for the end of the thread.  Any task of the*)
(* heap may be the next that is due.  The timer tasks themselves, the      *)
(* ThreadPoolTimerTasks, are known to the timer alone: a task of the heap  *)
(* stands for the one that wraps it, and one that has cancelled itself is  *)
(* no longer in it.                                                        *)
(***************************************************************************)
EXTENDS FixedThreadPool

CONSTANTS
  TimerThread,
  TimerOps,    \* for each client, which of the methods below it calls
  MaxQueue     \* bound: the timer fires nothing into a queue of this length

ASSUME TimerAssumption ==
  /\ TimerThread \notin Workers
  /\ TimerOps \in [Clients -> SUBSET {"AddTimerTask", "AddIntervalTask"}]
  /\ MaxQueue \in Nat

VARIABLES
  m_timer,          \* TRUE: the pointer is not null
  madeLate,         \* it was made after the stop request
  timerStop,        \* the timer's m_isRequestCancel
  heap,             \* the tasks put in the timer
  interval,         \* those that it keeps when it fires them
  timerAt,          \* where the timer thread is ...
  fired,            \* ... with which task ...
  timerRun,         \* ... and in its m_task->Run()
  call              \* for each client, where it is in the code about m_timer

timerVars == <<m_timer, madeLate, timerStop, heap, interval, timerAt, fired, timerRun, call>>
allVars == <<vars, timerVars>>

NoCall == [at |-> "none", method |-> "none", task |-> NoTask]

(* The Run() of a task that the timer thread calls itself.                 *)
TimerTask == INSTANCE TaskBase WITH
  Runners <- {TimerThread}, Cancellers <- Clients,
  m_state <- task_state, m_isRequestCancel <- task_isRequestCancel,
  m_cancelCondition <- task_condition, run <- timerRun, cancel <- task_cancel

TimerInit ==
  /\ Init
  /\ m_timer = FALSE
  /\ madeLate = FALSE
  /\ timerStop = FALSE
  /\ heap = {}
  /\ interval = {}
  /\ timerAt = "none"
  /\ fired = NoTask
  /\ timerRun = [t \in {TimerThread} |-> Task!Idle]
  /\ call = [c \in Clients |-> NoCall]

InCall(c, place) == call[c].at = place

-----------------------------------------------------------------------------
(* The timer thread, and ThreadPoolTimerTask::DoRun()                      *)

(* checkFunc() throws.                                                     *)
TimerExits ==
  /\ timerAt = "loop"
  /\ timerStop
  /\ timerAt' = "exited"
  /\ UNCHANGED <<vars, m_timer, madeLate, timerStop, heap, interval, fired, timerRun, call>>

(* A task is due.                                                          *)
Fire(k) ==
  /\ timerAt = "loop"
  /\ ~ timerStop
  /\ k \in heap
  /\ Len(m_queue) < MaxQueue
  /\ timerAt' = "fired"
  /\ fired' = k
  /\ heap' = IF k \in interval THEN heap ELSE heap \ {k}
  /\ UNCHANGED <<vars, m_timer, madeLate, timerStop, interval, timerRun, call>>

(* DoRun() that cancels the timer task and forgets the task it wraps.      *)
ForgetTask ==
  /\ timerAt = "fired"
  /\ IF task_isRequestCancel[fired]
       THEN timerAt' = "loop" /\ heap' = heap \ {fired}
       ELSE timerAt' = "addTask" /\ UNCHANGED heap
  /\ UNCHANGED <<vars, m_timer, madeLate, timerStop, interval, fired, timerRun, call>>

(* m_task->IsRequestCancel(): the timer thread runs it "to make the task to*)
(* cancelled state", or goes on to AddTask().                              *)
TestCancelled ==
  /\ timerAt = "fired"
  /\ IF task_isRequestCancel[fired]
       THEN /\ timerAt' = "run"
            /\ timerRun' = [timerRun EXCEPT ![TimerThread] = [at |-> "check", task |-> fired]]
       ELSE /\ timerAt' = "addTask"
            /\ UNCHANGED timerRun
  /\ UNCHANGED <<vars, m_timer, madeLate, timerStop, heap, interval, fired, call>>

(* At the end of that Run() the timer task cancels itself.                 *)
RunCancelled ==
  /\ timerAt = "run"
  /\ TimerTask!RunStep(TimerThread)
  /\ IF timerRun'[TimerThread] = Task!Idle
       THEN timerAt' = "loop" /\ heap' = heap \ {fired}
       ELSE UNCHANGED <<timerAt, heap>>
  /\ UNCHANGED <<queueVars, run, task_cancel, threadVars, m_runningTask, wpc, poolVars, job, fate,
                 m_timer, madeLate, timerStop, interval, fired, call>>

(* AddTask() that pushes without having tested m_isRequestStop.            *)
AddUntested ==
  /\ timerAt = "addTask"
  /\ timerAt' = "push"
  /\ UNCHANGED <<vars, m_timer, madeLate, timerStop, heap, interval, fired, timerRun, call>>

(* AddTask(): its test of m_isRequestStop, after which a refused timer task*)
(* cancels itself ...                                                      *)
AddTested ==
  /\ timerAt = "addTask"
  /\ IF m_isRequestStop
       THEN /\ timerAt' = "loop"
            /\ heap' = heap \ {fired}
            /\ SetFate(fired, IF fate[fired] = "waiting" THEN "rejected" ELSE fate[fired])
       ELSE timerAt' = "push" /\ UNCHANGED <<heap, fate>>
  /\ UNCHANGED <<workerVars, poolVars, job, m_timer, madeLate, timerStop, interval, fired, timerRun, call>>

(* ... and its push.                                                       *)
AddPushes ==
  /\ timerAt = "push"
  /\ Queue!Push(fired)
  /\ SetFate(fired, IF m_isRequestStop THEN "late" ELSE "early")
  /\ timerAt' = "loop"
  /\ UNCHANGED <<taskVars, threadVars, m_runningTask, wpc, poolVars, job,
                 m_timer, madeLate, timerStop, heap, interval, fired, timerRun, call>>

TimerStep == TimerExits \/ TestCancelled \/ RunCancelled \/ AddTested \/ AddPushes

-----------------------------------------------------------------------------
(* DoAddTimerTask() and DoAddIntervalTask()                                *)

Methods == [AddTimerTask |-> Tasks, AddIntervalTask |-> Periodic]

(* The test of m_isRequestStop ...                                         *)
CallAddTimerTask(c, method, k) ==
  /\ method \in TimerOps[c]
  /\ k \in Methods[method]
  /\ Alive /\ Idle(c) /\ InCall(c, "none")
  /\ fate[k] = "new"
  /\ IF m_isRequestStop
       THEN SetFate(k, "rejected") /\ UNCHANGED call
       ELSE /\ SetFate(k, "adding")
            /\ call' = [call EXCEPT ![c] = [at |-> "make", method |-> method, task |-> k]]
  /\ UNCHANGED <<workerVars, poolVars, job, m_timer, madeLate, timerStop, heap, interval, timerAt, fired, timerRun>>

(* ... the section of m_timerGuard, that makes the timer ...               *)
MakeTimer(c) ==
  /\ InCall(c, "make")
  /\ m_timer' = TRUE
  /\ IF m_timer
       THEN UNCHANGED <<timerAt, madeLate>>
       ELSE timerAt' = "loop" /\ madeLate' = m_isRequestStop
  /\ call' = [call EXCEPT ![c].at = "put"]
  /\ UNCHANGED <<vars, timerStop, heap, interval, fired, timerRun>>

(* ... and RunLater() or RunEvery(), which tests the request of the timer  *)
(* and puts the task in the heap in a section of its own.                  *)
TestTimer(c) ==
  /\ InCall(c, "put")
  /\ IF timerStop
       THEN SetFate(call[c].task, "rejected") /\ call' = [call EXCEPT ![c] = NoCall]
       ELSE UNCHANGED fate /\ call' = [call EXCEPT ![c].at = "pushTask"]
  /\ UNCHANGED <<workerVars, poolVars, job, m_timer, madeLate, timerStop, heap, interval, timerAt, fired, timerRun>>

PutInTimer(c) ==
  /\ InCall(c, "pushTask")
  /\ heap' = heap \cup {call[c].task}
  /\ interval' = IF call[c].method = "AddIntervalTask" THEN interval \cup {call[c].task} ELSE interval
  /\ SetFate(call[c].task, "waiting")
  /\ call' = [call EXCEPT ![c] = NoCall]
  /\ UNCHANGED <<workerVars, poolVars, job, m_timer, madeLate, timerStop, timerAt, fired, timerRun>>

-----------------------------------------------------------------------------
(* StopAsync() and Stop() of the timer, in the stop methods of the pool    *)

Section(c, method) == call' = [call EXCEPT ![c] = [at |-> "read", method |-> method, task |-> NoTask]]

(* Stop() and StopNow() that do not wait for the timer.                    *)
OnlyStopAsync(c) ==
  IF At(c, "request") /\ ~ m_isRequestStop THEN Section(c, "StopAsync") ELSE UNCHANGED call

(* Which steps of the pool's methods are followed by code about m_timer:   *)
(* the CompareAndSet that succeeds, the end of Stop()'s wait and of the    *)
(* loops of StopNow(), and the body of the destructor.                     *)
TimerSection(c) ==
  CASE At(c, "request") /\ ~ m_isRequestStop -> Section(c, "StopAsync")
    [] \/ At(c, "await") /\ job'[c].at = "out"
       \/ At(c, "cancelNow") /\ job'[c].at = "out"
       \/ ~ At(c, "joinThreads") /\ job'[c].at = "joinThreads" -> Section(c, "Stop")
    [] OTHER -> UNCHANGED call

(* Stop() keeps m_stateGuard while it stops the timer.                     *)
StateGuardHeld == \E c \in Clients : call[c].method = "Stop" /\ job[c].op = "Stop"

PoolStep(c) ==
  /\ InCall(c, "none")
  /\ ~ (At(c, "await") /\ StateGuardHeld)
  /\ ClientStep(c)
  /\ TimerSection(c)
  /\ UNCHANGED <<m_timer, madeLate, timerStop, heap, interval, timerAt, fired, timerRun>>

(* StopAsync() of the timer without its CancelAsync().                     *)
ReadOnly(c) ==
  /\ InCall(c, "read")
  /\ call' = [call EXCEPT ![c] = IF m_timer THEN [@ EXCEPT !.at = "clear"] ELSE NoCall]
  /\ UNCHANGED <<vars, m_timer, madeLate, timerStop, heap, interval, timerAt, fired, timerRun>>

(* isTimerStarted, and CancelAsync() of the timer's thread if it is: once  *)
(* m_timer is not null it stays so until the destructor.                   *)
ReadTimer(c) ==
  /\ InCall(c, "read")
  /\ IF m_timer
       THEN timerStop' = TRUE /\ call' = [call EXCEPT ![c].at = "clear"]
       ELSE UNCHANGED timerStop /\ call' = [call EXCEPT ![c] = NoCall]
  /\ UNCHANGED <<vars, m_timer, madeLate, heap, interval, timerAt, fired, timerRun>>

ClearTimer(c) ==
  /\ InCall(c, "clear")
  /\ heap' = {}
  /\ call' = [call EXCEPT ![c] = IF @.method = "Stop" THEN [@ EXCEPT !.at = "join"] ELSE NoCall]
  /\ UNCHANGED <<vars, m_timer, madeLate, timerStop, interval, timerAt, fired, timerRun>>

JoinTimer(c) ==
  /\ InCall(c, "join")
  /\ timerAt = "exited"
  /\ call' = [call EXCEPT ![c] = NoCall]
  /\ UNCHANGED <<vars, m_timer, madeLate, timerStop, heap, interval, timerAt, fired, timerRun>>

PoolClientStep(c) ==
  \/ PoolStep(c)
  \/ MakeTimer(c)
  \/ TestTimer(c)
  \/ PutInTimer(c)
  \/ ReadTimer(c)
  \/ ClearTimer(c)
  \/ JoinTimer(c)

-----------------------------------------------------------------------------

TimerNext ==
  \/ \E w \in Workers :
       \/ PoolWorkerStep(w) /\ UNCHANGED timerVars
       \/ WakeWorkerSpuriously(w) /\ UNCHANGED <<poolVars, job, fate, timerVars>>
  \/ TimerStep
  \/ \E k \in Tasks : Fire(k)
  \/ \E c \in Clients :
       \/ PoolClientStep(c)
       \/ /\ InCall(c, "none")
          /\ Call(c)
          /\ job'[c].op = "Destroy" => \A d \in Clients : InCall(d, "none")
          /\ UNCHANGED timerVars
       \/ \E k \in Tasks, method \in DOMAIN Methods : CallAddTimerTask(c, method, k)
       \/ WakeClientSpuriously(c) /\ UNCHANGED timerVars

(* As in FixedThreadPool, and the timer thread is scheduled and fires every*)
(* task in its turn.                                                       *)
TimerFairness ==
  /\ \A w \in Workers : WF_allVars(PoolWorkerStep(w) /\ UNCHANGED timerVars)
  /\ \A c \in Clients : WF_allVars(PoolClientStep(c))
  /\ WF_allVars(TimerStep)
  /\ \A k \in Tasks : SF_allVars(Fire(k))

TimerSpec == TimerInit /\ [][TimerNext]_allVars /\ TimerFairness

-----------------------------------------------------------------------------

(* A timer that an AddTimerTask() made after the stop request hands no task*)
(* to the pool ("the thread will be created and put a timer task but the   *)
(* task will not be put in the thread pool task queue",                    *)
(* FixedThreadPool.h:231-235).                                             *)
LateTimerAddsNothing == madeLate => timerAt # "push"

Over(c, ops) == Returned(c, ops) /\ InCall(c, "none")

(* When a waiting stop method has returned the timer thread is gone, unless*)
(* the timer was made after the stop request; when the destructor has,     *)
(* there is no exception (FixedThreadPool.h:164-177, 224-237, 392).        *)
StopEndsTheTimer ==
  \A c \in Clients :
    /\ Over(c, {"Stop", "StopNow"}) => timerAt \in {"none", "exited"} \/ madeLate
    /\ Over(c, {"Destroy"}) => timerAt \in {"none", "exited"}

(* Every call returns: no stop method waits for ever, for a worker or for  *)
(* the timer, with m_stateGuard held or not (FixedThreadPool.h:152-178).   *)
Busy(c) == ~ At(c, "out") \/ ~ InCall(c, "none")
EveryPoolCallReturns == \A c \in Clients : Busy(c) ~> ~ Busy(c)

(* The Cancel() of a task that waits in the timer returns when its turn    *)
(* comes, unless the pool is stopped: Clear() drops the task               *)
(* (Timer.cpp:119-126) and nobody cancels it.                              *)
TimerCancelReturns ==
  \A c \in Clients, k \in Tasks :
    (fate[k] = "waiting" /\ task_cancel[c] = [at |-> "in", task |-> k])
      ~> task_cancel[c].at = "out" \/ m_isRequestStop

=============================================================================
