---------------------------- MODULE WorkerThread ----------------------------
(***************************************************************************)
(* The worker threads of src/WorkerThread.cpp: CancelableThreads whose     *)
(* work function pops tasks from a shared queue and runs them.             *)
(*                                                                         *)
(* m_runningTaskGuard is held while a worker is in Pop(), blocked or not,  *)
(* that is at wpc = "pop"; no other critical section of it blocks, so it   *)
(* needs no variable.  FixedThreadPool extends this module.                *)
(***************************************************************************)
EXTENDS Sequences

CONSTANTS
  Workers,
  Clients,     \* the threads that use the workers and the tasks
  Tasks,
  EndTask,     \* the task that stops the worker that pops it (src/EndTask.cpp)
  NoTask,
  NoWorker,
  Periodic,    \* the tasks that are run again (AddIntervalTask)
  MayThrow     \* TRUE: a DoRun() may let an exception of the user escape

VARIABLES
  m_queue, m_mutexCond,                             \* the task queue
  task_state, task_isRequestCancel, task_condition, \* the tasks
  run, task_cancel,
  thread_state, thread_isRequestCancel,             \* the CancelableThreads
  thread_stateGuard, at, thread_cancel,
  m_runningTask,   \* for each worker, the task it popped last
  wpc              \* for each worker, where it is in WorkFunction()

queueVars  == <<m_queue, m_mutexCond>>
taskVars   == <<task_state, task_isRequestCancel, task_condition, run, task_cancel>>
threadVars == <<thread_state, thread_isRequestCancel, thread_stateGuard, at, thread_cancel>>
workerVars == <<queueVars, taskVars, threadVars, m_runningTask, wpc>>

Queue == INSTANCE BlockingQueue

(* Nothing keeps a worker from running the task it popped a second time:   *)
(* that it does not is for the pool to ensure.                             *)
Task == INSTANCE TaskBase WITH
  Runners <- Workers, Cancellers <- Clients, Periodic <- Tasks,
  m_state <- task_state, m_isRequestCancel <- task_isRequestCancel,
  m_cancelCondition <- task_condition, cancel <- task_cancel

Thread == INSTANCE CancelableThread WITH
  Threads <- Workers, Cancellers <- Clients, NoThread <- NoWorker,
  m_state <- thread_state, m_isRequestCancel <- thread_isRequestCancel,
  m_stateGuard <- thread_stateGuard, cancel <- thread_cancel

WorkerInit ==
  /\ Queue!QueueInit
  /\ Task!Init
  /\ Thread!Init
  /\ m_runningTask = [w \in Workers |-> NoTask]
  /\ wpc = [w \in Workers |-> "loop"]

-----------------------------------------------------------------------------
(* WorkFunction()                                                          *)

In(w, place) == at[w] = "work" /\ wpc[w] = place

GoTo(w, place) == wpc' = [wpc EXCEPT ![w] = place]

(* 1. check cancel request                                                 *)
CheckRequest(w) ==
  /\ In(w, "loop")
  /\ Thread!WorkPolls(w)
  /\ GoTo(w, IF thread_isRequestCancel[w] THEN "loop" ELSE "fetch")
  /\ UNCHANGED <<queueVars, taskVars, m_runningTask>>

(* 2. fetch task from task queue: the worker locks m_runningTaskGuard ...  *)
LockRunningTask(w) ==
  /\ In(w, "fetch")
  /\ GoTo(w, "pop")
  /\ UNCHANGED <<queueVars, taskVars, threadVars, m_runningTask>>

(* ... and blocks in Pop() with it ...                                     *)
PopBlocks(w) ==
  /\ In(w, "pop")
  /\ Queue!WaitWhileEmpty(w)
  /\ UNCHANGED <<taskVars, threadVars, m_runningTask, wpc>>

(* A worker that takes the task with Front(), which leaves it in the queue.*)
PeekTask(w) ==
  /\ In(w, "pop")
  /\ w \notin m_mutexCond
  /\ m_queue # <<>>
  /\ m_runningTask' = [m_runningTask EXCEPT ![w] = Head(m_queue)]
  /\ GoTo(w, "perform")
  /\ UNCHANGED <<queueVars, taskVars, threadVars>>

(* ... or pops a task and unlocks it.                                      *)
PopTask(w) ==
  /\ In(w, "pop")
  /\ Queue!TakeHead(w)
  /\ m_runningTask' = [m_runningTask EXCEPT ![w] = Head(m_queue)]
  /\ GoTo(w, "perform")
  /\ UNCHANGED <<taskVars, threadVars>>

(* 2.5. check cancel request again: the task just popped is dropped.       *)
DropTask(w) ==
  /\ In(w, "perform")
  /\ thread_isRequestCancel[w]
  /\ Thread!WorkPolls(w)
  /\ UNCHANGED <<queueVars, taskVars, m_runningTask, wpc>>

(* 3. perform the task: stop the worker thread ...                         *)
PerformEndTask(w) ==
  /\ In(w, "perform")
  /\ ~ thread_isRequestCancel[w]
  /\ m_runningTask[w] = EndTask
  /\ Thread!WorkEnds(w)
  /\ UNCHANGED <<queueVars, taskVars, m_runningTask, wpc>>

(* ... or call Run() ...                                                   *)
PerformTask(w) ==
  /\ In(w, "perform")
  /\ ~ thread_isRequestCancel[w]
  /\ m_runningTask[w] \in Tasks
  /\ Task!Run(w, m_runningTask[w])
  /\ GoTo(w, "run")
  /\ UNCHANGED <<queueVars, threadVars, m_runningTask>>

(* ... which returns to the loop ...                                       *)
RunTask(w) ==
  /\ In(w, "run")
  /\ Task!RunStep(w)
  /\ GoTo(w, IF run'[w] = Task!Idle THEN "loop" ELSE "run")
  /\ UNCHANGED <<queueVars, threadVars, m_runningTask>>

(* ... or throws: the exception ends the work function.                    *)
TaskThrows(w) ==
  /\ In(w, "run")
  /\ Task!DoRunThrows(w)
  /\ Thread!WorkEnds(w)
  /\ UNCHANGED <<queueVars, m_runningTask, wpc>>

(* What precedes the work function, and NotifyFinished() after it.         *)
ThreadFunction(w) ==
  /\ Thread!SetRunning(w) \/ Thread!CheckCancellation(w) \/ Thread!NotifyFinished(w)
  /\ UNCHANGED <<queueVars, taskVars, m_runningTask, wpc>>

WorkerStep(w) ==
  \/ ThreadFunction(w)
  \/ CheckRequest(w)
  \/ LockRunningTask(w)
  \/ PopBlocks(w)
  \/ PopTask(w)
  \/ DropTask(w)
  \/ PerformEndTask(w)
  \/ PerformTask(w)
  \/ RunTask(w)
  \/ TaskThrows(w)

WakeWorkerSpuriously(w) ==
  /\ Queue!WakeSpuriously(w)
  /\ UNCHANGED <<taskVars, threadVars, m_runningTask, wpc>>

-----------------------------------------------------------------------------
(* The methods of a worker                                                 *)

CancelAsync(w) ==
  /\ Thread!CancelAsync(w)
  /\ UNCHANGED <<queueVars, taskVars, m_runningTask, wpc, thread_cancel>>

(* CancelNow(): the critical section of m_runningTaskGuard ...             *)
CancelRunningTask(w) ==
  /\ ~ In(w, "pop")
  /\ IF m_runningTask[w] \in Tasks
       THEN Task!CancelAsync(m_runningTask[w]) /\ UNCHANGED task_cancel
       ELSE UNCHANGED taskVars
  /\ UNCHANGED <<queueVars, threadVars, m_runningTask, wpc>>

(* ... and then Cancel().                                                  *)
Cancel(c, w) ==
  /\ Thread!Cancel(c, w)
  /\ UNCHANGED <<queueVars, taskVars, m_runningTask, wpc>>

CancelStep(c) ==
  /\ Thread!CancelStep(c)
  /\ UNCHANGED <<queueVars, taskVars, m_runningTask, wpc>>

=============================================================================
