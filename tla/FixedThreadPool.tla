--------------------------- MODULE FixedThreadPool ---------------------------
(***************************************************************************)
(* The pool of include/FixedThreadPool.h: threadNum workers on one task    *)
(* queue, and clients that call AddTask, StopAsync, Stop, StopNow, the     *)
(* destructor and the Cancel() of tasks.                                   *)
(*                                                                         *)
(* The queue, the tasks and the threads are instances of BlockingQueue,    *)
(* TaskBase and CancelableThread (see WorkerThread); this module adds the  *)
(* state of the pool, the finish action of its workers and the methods.    *)
(* The pool is one to which no timer task was ever added: m_timer is null. *)
(* PoolTimer adds the timer and its tasks.                                 *)
(***************************************************************************)
EXTENDS WorkerThread, FiniteSets, Naturals

CONSTANTS
  threadNum,
  ClientOps    \* for each client, the methods it calls

Ops == {"AddTask", "StopAsync", "Stop", "StopNow", "Destroy", "Cancel"}
StopOps == {"StopAsync", "Stop", "StopNow", "Destroy"}

ASSUME PoolAssumption ==
  /\ threadNum \in Nat
  /\ Workers = 1 .. threadNum
  /\ ClientOps \in [Clients -> SUBSET Ops]
  /\ NoTask \notin Tasks
  /\ EndTask \notin Tasks \cup {NoTask}
  /\ NoWorker \notin Workers
  /\ Periodic \subseteq Tasks
  /\ MayThrow \in BOOLEAN

VARIABLES
  m_stoppedThreadNum,
  m_state,
  m_stateGuard,      \* the clients blocked in Stop()
  m_isRequestStop,
  job,               \* for each client, its pending or last call
  fate               \* for each task, what became of its AddTask

poolVars == <<m_stoppedThreadNum, m_state, m_stateGuard, m_isRequestStop>>
vars == <<workerVars, poolVars, job, fate>>

(* After the constructor: the workers exist, the state is RUNNING.         *)
Init ==
  /\ WorkerInit
  /\ m_stoppedThreadNum = 0
  /\ m_state = "RUNNING"
  /\ m_stateGuard = {}
  /\ m_isRequestStop = FALSE
  /\ job = [c \in Clients |-> [op |-> "none", at |-> "out", task |-> NoTask, i |-> 1]]
  /\ fate = [k \in Tasks |-> "new"]

-----------------------------------------------------------------------------
(* NotifyWhenThreadsStop(), the finish action of the workers               *)

(* NotifyWhenThreadsStop() without the test of the counter.                *)
CountAndFinish(w) ==
  /\ at[w] = "finishAction"
  /\ wpc[w] # "lastOut"
  /\ m_stoppedThreadNum' = m_stoppedThreadNum + 1
  /\ GoTo(w, "lastOut")
  /\ UNCHANGED <<threadVars, queueVars, taskVars, m_runningTask,
                 m_state, m_stateGuard, m_isRequestStop, job, fate>>

(* The section of m_stoppedThreadNumGuard.                                 *)
CountStopped(w) ==
  /\ at[w] = "finishAction"
  /\ wpc[w] # "lastOut"
  /\ m_stoppedThreadNum' = m_stoppedThreadNum + 1
  /\ IF m_stoppedThreadNum' >= threadNum
       THEN GoTo(w, "lastOut") /\ UNCHANGED threadVars
       ELSE Thread!FinishAction(w) /\ UNCHANGED wpc
  /\ UNCHANGED <<queueVars, taskVars, m_runningTask,
                 m_state, m_stateGuard, m_isRequestStop, job, fate>>

(* SetPoolFinished without the notification.                               *)
SetPoolFinishedSilently(w) ==
  /\ at[w] = "finishAction"
  /\ wpc[w] = "lastOut"
  /\ Thread!FinishAction(w)
  /\ m_state' = "FINISHED"
  /\ UNCHANGED <<queueVars, taskVars, m_runningTask, wpc, m_stateGuard,
                 m_stoppedThreadNum, m_isRequestStop, job, fate>>

(* The section of m_stateGuard: the last worker out.                       *)
SetPoolFinished(w) ==
  /\ at[w] = "finishAction"
  /\ wpc[w] = "lastOut"
  /\ Thread!FinishAction(w)
  /\ m_stateGuard' = Queue!NotifyAllIf(m_stateGuard, m_isRequestStop)
  /\ m_state' = "FINISHED"
  /\ UNCHANGED <<queueVars, taskVars, m_runningTask, wpc,
                 m_stoppedThreadNum, m_isRequestStop, job, fate>>

PoolWorkerStep(w) ==
  \/ WorkerStep(w) /\ UNCHANGED <<poolVars, job, fate>>
  \/ CountStopped(w)
  \/ SetPoolFinished(w)

-----------------------------------------------------------------------------
(* The methods of the pool                                                 *)

At(c, place) == job[c].at = place

Proceed(c, place, i) == job' = [job EXCEPT ![c].at = place, ![c].i = i]

SetFate(k, f) == fate' = [fate EXCEPT ![k] = f]

Idle(c) == At(c, "out") /\ task_cancel[c].at = "out"

(* Nobody calls a method of a pool once its destructor is called.          *)
Alive == \A c \in Clients : job[c].op # "Destroy"

(* AddTask(task): the test of m_isRequestStop ...                          *)
CallAddTask(c, k) ==
  /\ "AddTask" \in ClientOps[c]
  /\ Alive /\ Idle(c)
  /\ fate[k] = "new"
  /\ IF m_isRequestStop
       THEN /\ SetFate(k, "rejected")
            /\ UNCHANGED job
       ELSE /\ SetFate(k, "adding")
            /\ job' = [job EXCEPT ![c] = [op |-> "AddTask", at |-> "push", task |-> k, i |-> 1]]
  /\ UNCHANGED <<workerVars, poolVars>>

(* ... and, separately, the push.  A task is early when it enters the queue*)
(* before a stop is requested, late otherwise.                             *)
PushTask(c) ==
  /\ At(c, "push")
  /\ Queue!Push(job[c].task)
  /\ SetFate(job[c].task, IF m_isRequestStop THEN "late" ELSE "early")
  /\ Proceed(c, "out", 1)
  /\ UNCHANGED <<taskVars, threadVars, m_runningTask, wpc, poolVars>>

(* The destructor is called when the pool is in no other use.              *)
CallStop(c, op) ==
  /\ op \in ClientOps[c] \cap StopOps
  /\ Alive /\ Idle(c)
  /\ op = "Destroy" => \A d \in Clients : At(d, "out")
  /\ job' = [job EXCEPT ![c] = [op |-> op, at |-> "request", task |-> NoTask, i |-> 1]]
  /\ UNCHANGED <<workerVars, poolVars, fate>>

(* Where a call continues after its StopAsync().                           *)
AfterStopAsync(op) ==
  CASE op = "StopAsync" -> "out"
    [] op = "Stop"      -> "await"
    [] op = "StopNow"   -> "cancelAsync"
    [] op = "Destroy"   -> "joinThreads"

(* m_isRequestStop.CompareAndSet(false, true): the first one pushes.       *)
RequestStop(c) ==
  /\ At(c, "request")
  /\ m_isRequestStop' = TRUE
  /\ Proceed(c, IF m_isRequestStop THEN AfterStopAsync(job[c].op) ELSE "pushEndTasks", 1)
  /\ UNCHANGED <<workerVars, m_stoppedThreadNum, m_state, m_stateGuard, fate>>

(* A loop that stops one short of threadNum.                               *)
PushOneEndTaskLess(c) ==
  /\ At(c, "pushEndTasks")
  /\ IF job[c].i < threadNum
       THEN Queue!Push(EndTask) /\ Proceed(c, "pushEndTasks", job[c].i + 1)
       ELSE Proceed(c, AfterStopAsync(job[c].op), 1) /\ UNCHANGED queueVars
  /\ UNCHANGED <<taskVars, threadVars, m_runningTask, wpc, poolVars, fate>>

(* for (i = 0; i < threadNum; ++i) m_taskQueue->Push(new EndTask)          *)
PushEndTask(c) ==
  /\ At(c, "pushEndTasks")
  /\ IF job[c].i <= threadNum
       THEN Queue!Push(EndTask) /\ Proceed(c, "pushEndTasks", job[c].i + 1)
       ELSE Proceed(c, AfterStopAsync(job[c].op), 1) /\ UNCHANGED queueVars
  /\ UNCHANGED <<taskVars, threadVars, m_runningTask, wpc, poolVars, fate>>

(* Stop() evaluates its wait condition: it blocks ...                      *)
StopBlocks(c) ==
  /\ At(c, "await")
  /\ c \notin m_stateGuard
  /\ m_state # "FINISHED"
  /\ m_stateGuard' = Queue!Wait(m_stateGuard, c)
  /\ UNCHANGED <<workerVars, m_stoppedThreadNum, m_state, m_isRequestStop, job, fate>>

(* Stop() that returns on any wakeup.                                      *)
StopReturnsAnyhow(c) ==
  /\ At(c, "await")
  /\ c \notin m_stateGuard
  /\ Proceed(c, "out", 1)
  /\ UNCHANGED <<workerVars, poolVars, fate>>

(* ... or returns.                                                         *)
StopReturns(c) ==
  /\ At(c, "await")
  /\ c \notin m_stateGuard
  /\ m_state = "FINISHED"
  /\ Proceed(c, "out", 1)
  /\ UNCHANGED <<workerVars, poolVars, fate>>

WakeStopSpuriously(c) ==
  /\ c \in m_stateGuard
  /\ m_stateGuard' = Queue!SpuriousWakeup(m_stateGuard, c)
  /\ UNCHANGED <<workerVars, m_stoppedThreadNum, m_state, m_isRequestStop, job, fate>>

(* The two loops of StopNow() over m_threads.                              *)
CancelEach(c) ==
  /\ At(c, "cancelAsync")
  /\ IF job[c].i <= threadNum
       THEN CancelAsync(job[c].i) /\ Proceed(c, "cancelAsync", job[c].i + 1)
       ELSE Proceed(c, "cancelNow", 1) /\ UNCHANGED workerVars
  /\ UNCHANGED <<poolVars, fate>>

CancelTaskOfEach(c) ==
  /\ At(c, "cancelNow")
  /\ IF job[c].i <= threadNum
       THEN CancelRunningTask(job[c].i) /\ Proceed(c, "cancelThread", job[c].i)
       ELSE Proceed(c, "out", 1) /\ UNCHANGED workerVars
  /\ UNCHANGED <<poolVars, fate>>

CancelThreadOfEach(c) ==
  /\ At(c, "cancelThread")
  /\ Cancel(c, job[c].i)
  /\ Proceed(c, "join", job[c].i)
  /\ UNCHANGED <<poolVars, fate>>

JoinEach(c) ==
  /\ At(c, "join")
  /\ CancelStep(c)
  /\ IF thread_cancel'[c].at = "out"
       THEN Proceed(c, "cancelNow", job[c].i + 1)
       ELSE UNCHANGED job
  /\ UNCHANGED <<poolVars, fate>>

(* The end of the destructor: m_threads joins the thread of each worker    *)
(* (Thread::~Thread).                                                      *)
JoinThread(c) ==
  /\ At(c, "joinThreads")
  /\ IF job[c].i <= threadNum
       THEN at[job[c].i] = "exited" /\ Proceed(c, "joinThreads", job[c].i + 1)
       ELSE Proceed(c, "out", 1)
  /\ UNCHANGED <<workerVars, poolVars, fate>>

(* A client calls Cancel() of a task.                                      *)
CallCancel(c, k) ==
  /\ "Cancel" \in ClientOps[c]
  /\ Idle(c)
  /\ Task!Cancel(c, k)
  /\ UNCHANGED <<queueVars, threadVars, m_runningTask, wpc, poolVars, job, fate>>

CancelTaskStep(c) ==
  /\ Task!CancelStep(c)
  /\ UNCHANGED <<queueVars, threadVars, m_runningTask, wpc, poolVars, job, fate>>

ClientStep(c) ==
  \/ PushTask(c)
  \/ RequestStop(c)
  \/ PushEndTask(c)
  \/ StopBlocks(c)
  \/ StopReturns(c)
  \/ CancelEach(c)
  \/ CancelTaskOfEach(c)
  \/ CancelThreadOfEach(c)
  \/ JoinEach(c)
  \/ JoinThread(c)
  \/ CancelTaskStep(c)

Call(c) ==
  \/ \E op \in Ops : CallStop(c, op)
  \/ \E k \in Tasks : CallAddTask(c, k) \/ CallCancel(c, k)

(* Spurious wakeups of a client from the waits of the three classes.       *)
WakeClientSpuriously(c) ==
  \/ WakeStopSpuriously(c)
  \/ /\ Task!WakeSpuriously(c)
     /\ UNCHANGED <<queueVars, threadVars, m_runningTask, wpc, poolVars, job, fate>>
  \/ /\ Thread!WakeSpuriously(c)
     /\ UNCHANGED <<queueVars, taskVars, m_runningTask, wpc, poolVars, job, fate>>

-----------------------------------------------------------------------------

Next ==
  \/ \E w \in Workers :
       \/ PoolWorkerStep(w)
       \/ WakeWorkerSpuriously(w) /\ UNCHANGED <<poolVars, job, fate>>
  \/ \E c \in Clients :
       \/ ClientStep(c)
       \/ Call(c)
       \/ WakeClientSpuriously(c)

(* Every thread that can take a step eventually does; in particular a      *)
(* DoRun() ends.  Clients need not call anything.                          *)
Fairness ==
  /\ \A w \in Workers : WF_vars(PoolWorkerStep(w))
  /\ \A c \in Clients : WF_vars(ClientStep(c))

Spec == Init /\ [][Next]_vars /\ Fairness

-----------------------------------------------------------------------------

Elems == Tasks \cup {EndTask}
Fates == {"new", "adding", "rejected", "early", "late",
          "waiting"}   \* in the timer of PoolTimer
WorkerPlaces == {"loop", "fetch", "pop", "perform", "run", "lastOut"}
ClientPlaces == {"out", "push", "request", "pushEndTasks", "await",
                 "cancelAsync", "cancelNow", "cancelThread", "join", "joinThreads"}

TypeOK ==
  /\ m_queue \in Seq(Elems)
  /\ m_mutexCond \in SUBSET Workers
  /\ Task!TypeOK
  /\ Thread!TypeOK
  /\ m_runningTask \in [Workers -> Elems \cup {NoTask}]
  /\ wpc \in [Workers -> WorkerPlaces]
  /\ m_stoppedThreadNum \in 0 .. threadNum
  /\ m_state \in {"RUNNING", "FINISHED"}
  /\ m_stateGuard \in SUBSET Clients
  /\ m_isRequestStop \in BOOLEAN
  /\ job \in [Clients -> [op : Ops \cup {"none"}, at : ClientPlaces,
                          task : Tasks \cup {NoTask}, i : 1 .. threadNum + 1]]
  /\ fate \in [Tasks -> Fates]

Returned(c, ops) == job[c].op \in ops /\ At(c, "out")

(* When Stop(), StopNow() or the destructor has returned, every worker is  *)
(* past its work function and its part of the count, so no task runs and   *)
(* the queue has no reader left (FixedThreadPool.h:117-122, 152-177,       *)
(* 210-223, 258-276).                                                      *)
StopMeansQuiescent ==
  \A c \in Clients : Returned(c, {"Stop", "StopNow", "Destroy"}) =>
    \A w \in Workers : at[w] \in {"notifyFinished", "exited"} /\ run[w] = Task!Idle

(* A worker that left its work function without an EndTask: it was         *)
(* cancelled, or a task threw.                                             *)
LeftEarly(w) ==
  at[w] \in {"finishAction", "notifyFinished", "exited"} /\ m_runningTask[w] # EndTask

(* The pool as an Executor: a task is started when a worker runs it or its *)
(* run has set its state; the pool is forced when StopNow() has asked a    *)
(* worker to cancel or a task threw.                                       *)
Started(k) == task_state[k] # "INIT" \/ \E w \in Workers : run[w].task = k
TaskStatus(k) ==
  CASE Started(k)         -> "started"
    [] fate[k] = "adding" -> "new"
    [] OTHER              -> fate[k]
Forced == \E w \in Workers : thread_isRequestCancel[w] \/ LeftEarly(w)

Exec == INSTANCE Executor WITH
  status <- [k \in Tasks |-> TaskStatus(k)],
  current <- [w \in Workers |-> run[w].task],
  closed <- m_isRequestStop,
  forced <- Forced,
  retired <- m_state = "FINISHED"

(* No task is run twice, or run though it was rejected; none is rejected   *)
(* before a stop is requested; and the pool is FINISHED only when nothing  *)
(* runs and, short of a StopNow() or an exception, nothing early is left   *)
(* (FixedThreadPool.h:179-207, 243-276, WorkerThread.cpp:93-126).          *)
ImplementsExecutor == Exec!SafeSpec

(* Stopping drains: if every worker left on an EndTask, the tasks that     *)
(* entered the queue before the stop was requested have all run or been    *)
(* cancelled when a waiting stop method returns (test_Stop,                *)
(* testThreadPool.cpp:111-122).                                            *)
StopDrains ==
  \A c \in Clients, k \in Tasks :
    /\ Returned(c, {"Stop", "StopNow", "Destroy"})
    /\ fate[k] = "early"
    /\ \A w \in Workers : ~ LeftEarly(w)
    => Task!IsStopState(k)

(* No worker sleeps in Pop() while there is a task, and no client in Stop()*)
(* once the pool has finished: the notifications of Push() and of the last *)
(* worker out are conditional (BlockingQueue.h:35, FixedThreadPool.h:271). *)
NoLostWakeup ==
  /\ m_queue # <<>> => m_mutexCond = {}
  /\ m_stateGuard # {} => m_state # "FINISHED" /\ m_isRequestStop

(* Every worker that may still pop has an EndTask to pop once the stop is  *)
(* requested: those queued and those still to be pushed are at least as    *)
(* many as the workers that have not got theirs (FixedThreadPool.h:202-206)*)
EndTasksIn(s) == Cardinality({n \in 1 .. Len(s) : s[n] = EndTask})
MayPop(w) ==
  \/ at[w] \in {"start", "check"}
  \/ at[w] = "work" /\ ~ (wpc[w] = "perform" /\ m_runningTask[w] = EndTask)
StillToPush(n) ==
  \E c \in Clients : At(c, "pushEndTasks") /\ job[c].i + n = threadNum + 1
EnoughEndTasks ==
  m_isRequestStop =>
    \E n \in 0 .. threadNum :
      /\ n = 0 \/ StillToPush(n)
      /\ EndTasksIn(m_queue) + n >= Cardinality({w \in Workers : MayPop(w)})

(* A task that entered the queue before a stop is requested is run or      *)
(* cancelled, unless StopNow() or an exception took a worker away.         *)
EarlyTasksStop ==
  \A k \in Tasks :
    fate[k] = "early" ~> Task!IsStopState(k) \/ \E w \in Workers : LeftEarly(w)

(* A Cancel() of a task that entered the queue in time returns             *)
(* (TaskBase.cpp:53, "wake up the waiting threads that is cancelling this  *)
(* task.").                                                                *)
EarlyCancelReturns ==
  \A c \in Clients, k \in Tasks :
    (fate[k] = "early" /\ task_cancel[c] = [at |-> "in", task |-> k])
      ~> task_cancel[c].at = "out"

=============================================================================
