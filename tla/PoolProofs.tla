------------------------------ MODULE PoolProofs ------------------------------
(***************************************************************************)
(* What is proved of the pool, without and with its timer.                 *)
(*                                                                         *)
(* Of FixedThreadPool, for every number of workers and every set of        *)
(* clients and tasks: the types; that Stop(), StopNow() and the destructor *)
(* return only when every worker is past its work; that no notification is *)
(* lost; that stopping drains the queue; that no worker is left without an *)
(* EndTask; that the pool implements Executor; and that its parts are used *)
(* as their modules say, so that what is proved of tasks and threads holds *)
(* in the pool.                                                            *)
(*                                                                         *)
(* Of PoolTimer, for every use of the methods as well: that what is proved *)
(* of the pool stays true of the pool with its timer, that a timer made    *)
(* after the stop request never adds a task to the pool, that a stop       *)
(* method returns only when the timer thread is gone, and that the workers *)
(* and the timer thread together run tasks as TaskBase says.               *)
(***************************************************************************)
EXTENDS PoolTimer, FiniteSetTheorems, TLAPS

(* A run belongs to a worker that is executing it.                         *)
RunsAtWork == \A w \in Workers : run[w] # Task!Idle => In(w, "run")

(* A thread is FINISHED exactly when it has exited.                        *)
FinishedIsExited == \A w \in Workers : thread_state[w] = "FINISHED" <=> at[w] = "exited"

(* The workers that have gone through the counter.                         *)
LastOut(w) == at[w] = "finishAction" /\ wpc[w] = "lastOut"
PastFinish(w) == at[w] \in {"notifyFinished", "exited"}
Counted == {w \in Workers : LastOut(w) \/ PastFinish(w)}

(* The counter is exact, so that exactly one worker is the last one out.   *)
CountInv ==
  /\ m_stoppedThreadNum = Cardinality(Counted)
  /\ \A w \in Workers : LastOut(w) => m_stoppedThreadNum = threadNum
  /\ \A v, w \in Workers : LastOut(v) /\ LastOut(w) => v = w
  /\ \A w \in Workers :
       wpc[w] = "lastOut" => at[w] \in {"finishAction", "notifyFinished", "exited"}
  /\ m_state = "FINISHED" => \A w \in Workers : PastFinish(w)

(* Which method a client is in, from where it is in it.                    *)
OpInv ==
  \A c \in Clients :
    /\ At(c, "push") => job[c].op = "AddTask" /\ job[c].task \in Tasks
    /\ job[c].at \in {"request", "pushEndTasks"} => job[c].op \in StopOps
    /\ At(c, "pushEndTasks") => m_isRequestStop
    /\ At(c, "await") => job[c].op = "Stop"
    /\ job[c].at \in {"cancelAsync", "cancelNow", "cancelThread", "join"} =>
         job[c].op = "StopNow"
    /\ job[c].at \in {"cancelThread", "join"} => job[c].i \in Workers
    /\ At(c, "joinThreads") => job[c].op = "Destroy"

(* StopNow() and the destructor have seen the exit of every worker before  *)
(* the one they are at.                                                    *)
JoinInv ==
  \A c \in Clients :
    /\ job[c].at \in {"cancelNow", "cancelThread", "join", "joinThreads"} =>
         \A w \in Workers : w < job[c].i => at[w] = "exited"
    /\ At(c, "join") => thread_cancel[c].thread = job[c].i
    /\ Returned(c, {"StopNow", "Destroy"}) => \A w \in Workers : at[w] = "exited"

StopInv == \A c \in Clients : Returned(c, {"Stop"}) => m_state = "FINISHED"

(* The task that a worker runs is the one it popped last.                  *)
RunsWhatItPopped == \A w \in Workers : run[w] # Task!Idle => m_runningTask[w] = run[w].task

(* No EndTask before the stop is requested.                                *)
NoEndTaskYet ==
  ~ m_isRequestStop =>
    /\ \A n \in 1 .. Len(m_queue) : m_queue[n] # EndTask
    /\ \A w \in Workers : m_runningTask[w] # EndTask

(* A task is queued before any EndTask, and no EndTask is popped.          *)
Ahead(k) ==
  /\ \A w \in Workers : m_runningTask[w] # EndTask
  /\ \E n \in 1 .. Len(m_queue) :
       m_queue[n] = k /\ \A m \in 1 .. n - 1 : m_queue[m] # EndTask

(* A worker has popped the task and not yet set its state at the end.      *)
InHand(w, k) ==
  \/ In(w, "perform") /\ m_runningTask[w] = k
  \/ run[w].task = k
       /\ run[w].at \in {"check", "setRunning", "doRun", "setFinished", "setCancelled"}

(* Where an early task can be.                                             *)
Accounted(k) ==
  Task!IsStopState(k) \/ Ahead(k) \/ \E w \in Workers : InHand(w, k) \/ LeftEarly(w)

EarlyInv == \A k \in Tasks : fate[k] = "early" => Accounted(k)

DrainInv == RunsWhatItPopped /\ NoEndTaskYet /\ EarlyInv

IInv ==
  /\ TypeOK
  /\ RunsAtWork
  /\ FinishedIsExited
  /\ CountInv
  /\ OpInv
  /\ JoinInv
  /\ StopInv

-----------------------------------------------------------------------------
(* What the actions of the instances do to the types.                      *)

LEMMA TaskRunType ==
  ASSUME Task!TypeOK, NEW w \in Workers,
         \/ Task!RunStep(w)
         \/ Task!DoRunThrows(w)
         \/ \E k \in Tasks : Task!Run(w, k)
  PROVE  /\ Task!TypeOK'
         /\ \A v \in Workers : v # w => run'[v] = run[v]
<1> USE DEF Task!TypeOK, Task!State, Task!InRun, Task!MoveTo, Task!SetState
<1>1. CASE \E k \in Tasks : Task!Run(w, k)
  BY <1>1 DEF Task!Run
<1>2. CASE Task!RunStep(w) \/ Task!DoRunThrows(w)
  <2>1. run[w] \in [at : Task!InRun, task : Tasks]
    BY <1>2 DEF Task!Idle, Task!RunStep, Task!CheckCancellation, Task!SetRunning,
       Task!DoRunReturns, Task!DoRunIsCancelled, Task!DoRunThrows, Task!SetFinished,
       Task!SetCancelled, Task!OnCancel, Task!NotifyCancellers
  <2>2. CASE \/ Task!CheckCancellation(w) \/ Task!DoRunReturns(w) \/ Task!DoRunIsCancelled(w)
             \/ Task!DoRunThrows(w) \/ Task!OnCancel(w)
    BY <2>1, <2>2 DEF Task!CheckCancellation, Task!DoRunReturns, Task!DoRunIsCancelled,
       Task!DoRunThrows, Task!OnCancel
  <2>3. CASE Task!SetRunning(w) \/ Task!SetFinished(w) \/ Task!SetCancelled(w)
    BY <2>1, <2>3 DEF Task!SetRunning, Task!SetFinished, Task!SetCancelled
  <2>4. CASE Task!NotifyCancellers(w)
    BY <2>1, <2>4 DEF Task!NotifyCancellers, Task!NotifyAllIf
  <2> QED
    BY <1>2, <2>2, <2>3, <2>4 DEF Task!RunStep
<1> QED
  BY <1>1, <1>2

LEMMA TaskCancelType ==
  ASSUME Task!TypeOK, NEW c \in Clients,
         \/ \E k \in Tasks : Task!Cancel(c, k)
         \/ \E k \in Tasks : Task!CancelAsync(k) /\ UNCHANGED task_cancel
         \/ Task!CancelStep(c)
         \/ Task!WakeSpuriously(c)
  PROVE  Task!TypeOK' /\ UNCHANGED run
<1> USE DEF Task!TypeOK
<1>1. ASSUME NEW k \in Tasks, Task!CancelAsync(k)
      PROVE  /\ task_isRequestCancel' \in [Tasks -> BOOLEAN]
             /\ UNCHANGED <<task_state, task_condition, run>>
  BY <1>1 DEF Task!CancelAsync
<1>4. ASSUME NEW k \in Tasks, Task!Cancel(c, k)
      PROVE  Task!TypeOK' /\ UNCHANGED run
  BY <1>1, <1>4 DEF Task!Cancel
<1>2. CASE Task!CancelReturns(c)
  BY <1>2 DEF Task!CancelReturns
<1>3. CASE Task!CancelBlocks(c) \/ Task!WakeSpuriously(c)
  BY <1>3 DEF Task!CancelBlocks, Task!WakeSpuriously, Task!Wait, Task!SpuriousWakeup
<1> QED
  BY <1>1, <1>2, <1>3, <1>4 DEF Task!CancelStep

LEMMA ThreadStepType ==
  ASSUME Thread!TypeOK, NEW w \in Workers, Thread!ThreadStep(w)
  PROVE  /\ Thread!TypeOK'
         /\ UNCHANGED thread_cancel
         /\ \A v \in Workers : v # w => at'[v] = at[v] /\ thread_state'[v] = thread_state[v]
BY DEF Thread!TypeOK, Thread!State, Thread!Places, Thread!ThreadStep, Thread!SetRunning,
   Thread!CheckCancellation, Thread!WorkPolls, Thread!WorkEnds, Thread!FinishAction,
   Thread!NotifyFinished, Thread!Go, Thread!NotifyAllIf

LEMMA ThreadCancelType ==
  ASSUME Thread!TypeOK, NEW c \in Clients,
         \/ \E w \in Workers : Thread!Cancel(c, w)
         \/ \E w \in Workers : Thread!CancelAsync(w) /\ UNCHANGED thread_cancel
         \/ Thread!CancelStep(c)
         \/ Thread!WakeSpuriously(c)
  PROVE  /\ Thread!TypeOK'
         /\ UNCHANGED <<at, thread_state>>
         /\ \A d \in Clients : d # c => thread_cancel'[d] = thread_cancel[d]
<1> USE DEF Thread!TypeOK
<1>1. ASSUME NEW w \in Workers, Thread!CancelAsync(w)
      PROVE  /\ thread_isRequestCancel' \in [Workers -> BOOLEAN]
             /\ UNCHANGED <<thread_state, thread_stateGuard, at>>
  BY <1>1 DEF Thread!CancelAsync
<1>4. ASSUME NEW w \in Workers, Thread!Cancel(c, w)
      PROVE  /\ Thread!TypeOK'
             /\ UNCHANGED <<at, thread_state>>
             /\ \A d \in Clients : d # c => thread_cancel'[d] = thread_cancel[d]
  BY <1>1, <1>4 DEF Thread!Cancel
<1>2. CASE Thread!CancelReturns(c)
  BY <1>2 DEF Thread!CancelReturns
<1>3. CASE Thread!CancelBlocks(c) \/ Thread!WakeSpuriously(c)
  BY <1>3 DEF Thread!CancelBlocks, Thread!WakeSpuriously, Thread!Wait, Thread!SpuriousWakeup
<1> QED
  BY <1>1, <1>2, <1>3, <1>4 DEF Thread!CancelStep

-----------------------------------------------------------------------------
(* A step of WorkFunction() or of the rest of ThreadFunction(): it keeps   *)
(* the types and moves one worker, never through the counter.              *)

LEMMA WorkerStepEffect ==
  ASSUME IInv, NEW w \in Workers, WorkerStep(w), UNCHANGED <<poolVars, job, fate>>
  PROVE  /\ TypeOK'
         /\ RunsAtWork'
         /\ UNCHANGED thread_cancel
         /\ \A v \in Workers : v # w => at'[v] = at[v] /\ wpc'[v] = wpc[v]
                                     /\ thread_state'[v] = thread_state[v]
         /\ \/ /\ at[w] \in {"start", "check", "work"}
               /\ at'[w] \in {"check", "work", "finishAction"}
               /\ wpc'[w] # "lastOut"
               /\ thread_state'[w] # "FINISHED"
            \/ /\ at[w] = "notifyFinished" /\ at'[w] = "exited"
               /\ wpc'[w] = wpc[w]
               /\ thread_state'[w] = "FINISHED"
<1> USE DEF TypeOK, WorkerPlaces, Elems
<1>0. /\ Task!TypeOK /\ Thread!TypeOK
      /\ at \in [Workers -> Thread!Places]
      /\ thread_state \in [Workers -> Thread!State]
      /\ run \in [Workers -> {Task!Idle} \cup [at : Task!InRun, task : Tasks]]
      /\ wpc[w] = "lastOut" => at[w] \in {"finishAction", "notifyFinished", "exited"}
      /\ thread_state[w] = "FINISHED" => at[w] = "exited"
      /\ RunsAtWork
  BY DEF IInv, Task!TypeOK, Thread!TypeOK, CountInv, FinishedIsExited
<1>1. CASE ThreadFunction(w)
  <2>1. /\ Thread!TypeOK' /\ Task!TypeOK'
        /\ UNCHANGED <<thread_cancel, queueVars, taskVars, m_runningTask, wpc>>
        /\ \A v \in Workers : v # w => at'[v] = at[v] /\ thread_state'[v] = thread_state[v]
    BY <1>0, <1>1, ThreadStepType DEF ThreadFunction, Thread!ThreadStep, taskVars, Task!TypeOK
  <2>2. \/ /\ at[w] \in {"start", "check"} /\ at'[w] \in {"check", "work", "finishAction"}
           /\ thread_state'[w] # "FINISHED"
        \/ /\ at[w] = "notifyFinished" /\ at'[w] = "exited" /\ thread_state'[w] = "FINISHED"
    BY <1>0, <1>1 DEF ThreadFunction, Thread!SetRunning, Thread!CheckCancellation,
       Thread!NotifyFinished, Thread!Go
  <2>3. RunsAtWork'
    BY <1>0, <2>1, <2>2 DEF RunsAtWork, In, taskVars
  <2> QED
    BY <1>0, <2>1, <2>2, <2>3 DEF IInv, queueVars, taskVars, poolVars
<1>2. CASE CheckRequest(w) \/ DropTask(w) \/ PerformEndTask(w)
  <2>1. /\ at[w] = "work" /\ wpc[w] \in {"loop", "perform"}
        /\ Thread!WorkPolls(w) \/ Thread!WorkEnds(w)
        /\ UNCHANGED <<queueVars, taskVars, m_runningTask>>
        /\ wpc' = wpc \/ GoTo(w, IF thread_isRequestCancel[w] THEN "loop" ELSE "fetch")
    BY <1>2 DEF CheckRequest, DropTask, PerformEndTask, In
  <2>2. /\ Thread!TypeOK' /\ Task!TypeOK'
        /\ UNCHANGED thread_cancel
        /\ \A v \in Workers : v # w => at'[v] = at[v] /\ thread_state'[v] = thread_state[v]
    BY <1>0, <2>1, ThreadStepType DEF Thread!ThreadStep, taskVars, Task!TypeOK
  <2>3. at'[w] \in {"work", "finishAction"} /\ thread_state'[w] # "FINISHED"
    BY <1>0, <2>1 DEF Thread!WorkPolls, Thread!WorkEnds, Thread!Go
  <2>4. /\ wpc' \in [Workers -> WorkerPlaces]
        /\ \A v \in Workers : v # w => wpc'[v] = wpc[v]
        /\ wpc'[w] \in {"loop", "fetch", "perform"}
    BY <2>1 DEF GoTo, IInv
  <2>5. RunsAtWork'
    BY <1>0, <2>1, <2>2, <2>3, <2>4 DEF RunsAtWork, In, taskVars
  <2> QED
    BY <1>0, <2>1, <2>2, <2>3, <2>4, <2>5 DEF IInv, queueVars, taskVars, poolVars
<1>3. CASE LockRunningTask(w) \/ PopBlocks(w) \/ PopTask(w)
  <2>1. /\ at[w] = "work" /\ wpc[w] \in {"fetch", "pop"}
        /\ UNCHANGED <<taskVars, threadVars>>
        /\ wpc' = wpc \/ GoTo(w, "pop") \/ GoTo(w, "perform")
    BY <1>3 DEF LockRunningTask, PopBlocks, PopTask, In
  <2>2. Thread!TypeOK' /\ Task!TypeOK' /\ UNCHANGED <<run, at, thread_state, thread_cancel>>
    BY <1>0, <2>1 DEF taskVars, threadVars, Thread!TypeOK, Task!TypeOK
  <2>3. /\ wpc' \in [Workers -> WorkerPlaces]
        /\ \A v \in Workers : v # w => wpc'[v] = wpc[v]
        /\ wpc'[w] \in {"fetch", "pop", "perform"}
    BY <2>1 DEF GoTo, IInv
  <2>4. /\ m_queue' \in Seq(Elems) /\ m_mutexCond' \in SUBSET Workers
        /\ m_runningTask' \in [Workers -> Elems \cup {NoTask}]
    <3>1. CASE LockRunningTask(w)
      BY <3>1 DEF LockRunningTask, queueVars, IInv
    <3>2. CASE PopBlocks(w)
      BY <3>2 DEF PopBlocks, Queue!WaitWhileEmpty, Queue!Wait, IInv
    <3>3. CASE PopTask(w)
      <4>1. m_queue \in Seq(Elems) /\ m_queue # <<>>
        BY <3>3 DEF PopTask, Queue!TakeHead, IInv
      <4>2. Head(m_queue) \in Elems /\ Tail(m_queue) \in Seq(Elems)
        BY <4>1
      <4> QED
        BY <3>3, <4>2 DEF PopTask, Queue!TakeHead, IInv
    <3> QED
      BY <1>3, <3>1, <3>2, <3>3
  <2>5. RunsAtWork'
    BY <1>0, <2>1, <2>2, <2>3 DEF RunsAtWork, In
  <2> QED
    BY <1>0, <2>1, <2>2, <2>3, <2>4, <2>5 DEF IInv, poolVars
<1>4. CASE PerformTask(w) \/ RunTask(w)
  <2>1. /\ at[w] = "work" /\ wpc[w] \in {"perform", "run"}
        /\ Task!RunStep(w) \/ \E k \in Tasks : Task!Run(w, k)
        /\ UNCHANGED <<queueVars, threadVars, m_runningTask>>
        /\ \/ wpc' = [wpc EXCEPT ![w] = "run"]
           \/ wpc' = [wpc EXCEPT ![w] = "loop"] /\ run'[w] = Task!Idle
    <3>1. CASE PerformTask(w)
      BY <3>1 DEF PerformTask, In, GoTo
    <3>2. CASE RunTask(w)
      BY <3>2 DEF RunTask, In, GoTo
    <3> QED
      BY <1>4, <3>1, <3>2
  <2>2. /\ Task!TypeOK' /\ Thread!TypeOK'
        /\ UNCHANGED <<at, thread_state, thread_cancel>>
        /\ \A v \in Workers : v # w => run'[v] = run[v]
    BY <1>0, <2>1, TaskRunType DEF threadVars, Thread!TypeOK
  <2>3. /\ wpc' \in [Workers -> WorkerPlaces]
        /\ \A v \in Workers : v # w => wpc'[v] = wpc[v]
        /\ wpc'[w] = "run" \/ (wpc'[w] = "loop" /\ run'[w] = Task!Idle)
    <3>1. wpc \in [Workers -> WorkerPlaces]
      BY DEF IInv
    <3>2. CASE wpc' = [wpc EXCEPT ![w] = "run"]
      BY <3>1, <3>2
    <3>3. CASE wpc' = [wpc EXCEPT ![w] = "loop"] /\ run'[w] = Task!Idle
      BY <3>1, <3>3
    <3> QED
      BY <2>1, <3>2, <3>3
  <2>4. RunsAtWork'
    BY <1>0, <2>1, <2>2, <2>3 DEF RunsAtWork, In
  <2> QED
    BY <1>0, <2>1, <2>2, <2>3, <2>4 DEF IInv, queueVars, poolVars
<1>5. CASE TaskThrows(w)
  <2>1. /\ at[w] = "work" /\ wpc[w] = "run"
        /\ Task!DoRunThrows(w) /\ Thread!WorkEnds(w)
        /\ UNCHANGED <<queueVars, m_runningTask, wpc>>
    BY <1>5 DEF TaskThrows, In
  <2>2. /\ Task!TypeOK' /\ Thread!TypeOK'
        /\ UNCHANGED thread_cancel
        /\ \A v \in Workers : v # w => run'[v] = run[v] /\ at'[v] = at[v]
                                    /\ thread_state'[v] = thread_state[v]
    BY <1>0, <2>1, TaskRunType, ThreadStepType DEF Thread!ThreadStep
  <2>3. /\ run'[w] = Task!Idle /\ at'[w] = "finishAction" /\ thread_state'[w] # "FINISHED"
    BY <1>0, <2>1 DEF Task!DoRunThrows, Thread!WorkEnds, Thread!Go
  <2>4. RunsAtWork'
    BY <1>0, <2>1, <2>2, <2>3 DEF RunsAtWork, In
  <2> QED
    BY <1>0, <2>1, <2>2, <2>3, <2>4 DEF IInv, queueVars, poolVars
<1> QED
  BY <1>1, <1>2, <1>3, <1>4, <1>5 DEF WorkerStep

LEMMA WorkerStepKeepsIInv ==
  ASSUME IInv, NEW w \in Workers, WorkerStep(w), UNCHANGED <<poolVars, job, fate>>
  PROVE  IInv'
<1>1. /\ TypeOK' /\ RunsAtWork'
      /\ UNCHANGED thread_cancel
      /\ \A v \in Workers : v # w => at'[v] = at[v] /\ wpc'[v] = wpc[v]
                                  /\ thread_state'[v] = thread_state[v]
      /\ \/ /\ at[w] \in {"start", "check", "work"}
            /\ at'[w] \in {"check", "work", "finishAction"}
            /\ wpc'[w] # "lastOut"
            /\ thread_state'[w] # "FINISHED"
         \/ /\ at[w] = "notifyFinished" /\ at'[w] = "exited"
            /\ wpc'[w] = wpc[w]
            /\ thread_state'[w] = "FINISHED"
  BY WorkerStepEffect
<1>2. UNCHANGED <<m_stoppedThreadNum, m_state, m_isRequestStop, job>>
  BY DEF poolVars
<1>3. FinishedIsExited'
  BY <1>1 DEF IInv, FinishedIsExited
<1>4. \A v \in Workers : LastOut(v)' = LastOut(v) /\ PastFinish(v)' = PastFinish(v)
  BY <1>1 DEF LastOut, PastFinish
<1>5. Counted' = Counted
  BY <1>4 DEF Counted
<1>6. CountInv'
  BY <1>1, <1>2, <1>4, <1>5 DEF IInv, CountInv
<1>7. OpInv' /\ StopInv'
  BY <1>2 DEF IInv, OpInv, StopInv, At, Returned
<1>8. JoinInv'
  BY <1>1, <1>2 DEF IInv, JoinInv, At, Returned
<1> QED
  BY <1>1, <1>3, <1>6, <1>7, <1>8 DEF IInv

-----------------------------------------------------------------------------
(* The finish action: the counter, then the state of the pool.             *)

LEMMA CountedIsFinite ==
  /\ IsFiniteSet(Workers) /\ Cardinality(Workers) = threadNum
  /\ IsFiniteSet(Counted)
  /\ Cardinality(Counted) \in Nat /\ Cardinality(Counted) <= threadNum
  /\ Cardinality(Counted) = threadNum => Counted = Workers
<1>1. IsFiniteSet(Workers) /\ Cardinality(Workers) = threadNum
  BY PoolAssumption, FS_Interval
<1>2. Counted \subseteq Workers
  BY DEF Counted
<1> QED
  BY <1>1, <1>2, FS_Subset, FS_CardinalityType

LEMMA CountStoppedKeepsIInv ==
  ASSUME IInv, NEW w \in Workers, CountStopped(w)
  PROVE  IInv'
<1>1. /\ at[w] = "finishAction" /\ wpc[w] # "lastOut"
      /\ m_stoppedThreadNum' = m_stoppedThreadNum + 1
      /\ UNCHANGED <<m_queue, m_mutexCond, task_state, task_isRequestCancel, task_condition,
                     run, task_cancel, m_runningTask, m_state, m_stateGuard,
                     m_isRequestStop, job, fate>>
  BY DEF CountStopped, queueVars, taskVars
<1>2. /\ w \notin Counted
      /\ m_stoppedThreadNum = Cardinality(Counted)
      /\ m_stoppedThreadNum + 1 <= threadNum
      /\ m_stoppedThreadNum \in Nat
  <2>1. w \notin Counted
    BY <1>1 DEF Counted, LastOut, PastFinish
  <2>2. Cardinality(Counted) # threadNum
    BY <2>1, CountedIsFinite
  <2> QED
    BY <2>1, <2>2, CountedIsFinite, PoolAssumption DEF IInv, CountInv
<1>3. \A v \in Workers : ~ LastOut(v)
  BY <1>2, PoolAssumption DEF IInv, CountInv
<1>4. /\ Thread!TypeOK' /\ wpc' \in [Workers -> WorkerPlaces]
      /\ UNCHANGED <<thread_state, thread_cancel>>
      /\ \A v \in Workers : v # w => at'[v] = at[v] /\ wpc'[v] = wpc[v]
      /\ \/ /\ m_stoppedThreadNum' >= threadNum
            /\ at'[w] = "finishAction" /\ wpc'[w] = "lastOut"
         \/ /\ at'[w] = "notifyFinished" /\ wpc'[w] = wpc[w]
  <2>1. CASE m_stoppedThreadNum' >= threadNum
    <3>1. wpc' = [wpc EXCEPT ![w] = "lastOut"] /\ UNCHANGED threadVars
      BY <2>1 DEF CountStopped, GoTo
    <3> QED
      BY <1>1, <2>1, <3>1 DEF IInv, TypeOK, WorkerPlaces, threadVars, Thread!TypeOK
  <2>2. CASE ~ (m_stoppedThreadNum' >= threadNum)
    <3>1. Thread!FinishAction(w) /\ UNCHANGED wpc
      BY <2>2 DEF CountStopped
    <3>2. at' = [at EXCEPT ![w] = "notifyFinished"] /\ UNCHANGED thread_state
      BY <3>1 DEF Thread!FinishAction, Thread!Go
    <3> QED
      BY <1>1, <3>1, <3>2, ThreadStepType DEF IInv, TypeOK, Thread!TypeOK, Thread!ThreadStep
  <2> QED
    BY <2>1, <2>2
<1>5. TypeOK'
  BY <1>1, <1>2, <1>4, PoolAssumption DEF IInv, TypeOK, Task!TypeOK
<1>6. RunsAtWork'
  BY <1>1, <1>4 DEF IInv, RunsAtWork, In
<1>7. FinishedIsExited'
  BY <1>1, <1>4 DEF IInv, FinishedIsExited
<1>8. Counted' = Counted \cup {w}
  BY <1>1, <1>4 DEF Counted, LastOut, PastFinish
<1>9. CountInv'
  <2>1. Cardinality(Counted)' = m_stoppedThreadNum + 1
    BY <1>2, <1>8, CountedIsFinite, FS_AddElement
  <2>2. \A v \in Workers : LastOut(v)' => v = w /\ m_stoppedThreadNum' = threadNum
    BY <1>1, <1>2, <1>3, <1>4, PoolAssumption DEF LastOut
  <2>3. m_state # "FINISHED"
    BY <1>1 DEF IInv, CountInv, PastFinish
  <2> QED
    BY <1>1, <1>4, <2>1, <2>2, <2>3 DEF IInv, CountInv
<1>10. OpInv' /\ StopInv'
  BY <1>1 DEF IInv, OpInv, StopInv, At, Returned
<1>11. JoinInv'
  BY <1>1, <1>4 DEF IInv, JoinInv, At, Returned
<1> QED
  BY <1>5, <1>6, <1>7, <1>9, <1>10, <1>11 DEF IInv

LEMMA SetPoolFinishedKeepsIInv ==
  ASSUME IInv, NEW w \in Workers, SetPoolFinished(w)
  PROVE  IInv'
<1>1. /\ at[w] = "finishAction" /\ wpc[w] = "lastOut"
      /\ Thread!FinishAction(w)
      /\ m_stateGuard' \subseteq m_stateGuard
      /\ m_state' = "FINISHED"
      /\ UNCHANGED <<m_queue, m_mutexCond, task_state, task_isRequestCancel, task_condition,
                     run, task_cancel, m_runningTask, wpc, m_stoppedThreadNum,
                     m_isRequestStop, job, fate>>
  BY DEF SetPoolFinished, queueVars, taskVars, Queue!NotifyAllIf
<1>2. /\ Thread!TypeOK'
      /\ at' = [at EXCEPT ![w] = "notifyFinished"]
      /\ UNCHANGED <<thread_state, thread_cancel>>
  BY <1>1, ThreadStepType DEF IInv, TypeOK, Thread!ThreadStep, Thread!FinishAction, Thread!Go
<1>3. at \in [Workers -> Thread!Places]
  BY DEF IInv, TypeOK, Thread!TypeOK
<1>4. TypeOK'
  BY <1>1, <1>2 DEF IInv, TypeOK, Task!TypeOK
<1>5. RunsAtWork' /\ FinishedIsExited'
  BY <1>1, <1>2, <1>3 DEF IInv, RunsAtWork, FinishedIsExited, In
<1>6. Counted' = Counted
  BY <1>1, <1>2, <1>3 DEF Counted, LastOut, PastFinish
<1>7. \A v \in Workers : PastFinish(v)'
  <2>1. LastOut(w)
    BY <1>1 DEF LastOut
  <2>2. Counted = Workers
    BY <2>1, CountedIsFinite DEF IInv, CountInv
  <2>3. \A v \in Workers : v # w => PastFinish(v)
    BY <2>1, <2>2 DEF IInv, CountInv, Counted
  <2> QED
    BY <1>2, <1>3, <2>3 DEF PastFinish
<1>8. CountInv'
  BY <1>1, <1>2, <1>3, <1>6, <1>7 DEF IInv, CountInv, LastOut, PastFinish
<1>9. OpInv' /\ StopInv'
  BY <1>1 DEF IInv, OpInv, StopInv, At, Returned
<1>10. JoinInv'
  BY <1>1, <1>2, <1>3 DEF IInv, JoinInv, At, Returned
<1> QED
  BY <1>4, <1>5, <1>8, <1>9, <1>10 DEF IInv

-----------------------------------------------------------------------------
(* The clients                                                             *)

JobType == [op : Ops \cup {"none"}, at : ClientPlaces, task : Tasks \cup {NoTask},
            i : 1 .. threadNum + 1]

(* A step that leaves the workers and the state of the pool alone.         *)
LEMMA ClientFrame ==
  ASSUME IInv, UNCHANGED <<at, wpc, run, thread_state, m_stoppedThreadNum, m_state>>
  PROVE  RunsAtWork' /\ FinishedIsExited' /\ CountInv'
<1>1. \A w \in Workers : LastOut(w)' = LastOut(w) /\ PastFinish(w)' = PastFinish(w)
  BY DEF LastOut, PastFinish
<1>2. Counted' = Counted
  BY <1>1 DEF Counted
<1> QED
  BY <1>1, <1>2 DEF IInv, RunsAtWork, FinishedIsExited, CountInv, In

LEMMA ProceedEffect ==
  ASSUME TypeOK, NEW c \in Clients, NEW p \in ClientPlaces, NEW i \in 1 .. threadNum + 1,
         Proceed(c, p, i)
  PROVE  /\ job' \in [Clients -> JobType]
         /\ \A d \in Clients : d # c => job'[d] = job[d]
         /\ job'[c].at = p /\ job'[c].i = i
         /\ job'[c].op = job[c].op /\ job'[c].task = job[c].task
BY DEF TypeOK, Proceed, JobType

LEMMA PushType ==
  ASSUME TypeOK, NEW e \in Elems, Queue!Push(e)
  PROVE  m_queue' \in Seq(Elems) /\ m_mutexCond' \in SUBSET Workers
BY DEF TypeOK, Queue!Push, Queue!NotifyAllIf

(* AddTask().                                                              *)
LEMMA AddTaskKeepsIInv ==
  ASSUME IInv, NEW c \in Clients, PushTask(c) \/ \E k \in Tasks : CallAddTask(c, k)
  PROVE  IInv'
<1> USE DEF ClientPlaces, Fates
<1>1. CASE PushTask(c)
  <2>1. /\ job[c].at = "push" /\ job[c].op = "AddTask" /\ job[c].task \in Tasks
        /\ Proceed(c, "out", 1)
        /\ Queue!Push(job[c].task)
        /\ UNCHANGED <<task_state, task_isRequestCancel, task_condition, run, task_cancel,
                       thread_state, thread_isRequestCancel, thread_stateGuard, at,
                       thread_cancel, m_runningTask, wpc, m_stoppedThreadNum, m_state,
                       m_stateGuard, m_isRequestStop>>
    BY <1>1 DEF PushTask, At, IInv, OpInv, taskVars, threadVars, poolVars
  <2>2. /\ job' \in [Clients -> JobType]
        /\ \A d \in Clients : d # c => job'[d] = job[d]
        /\ job'[c].at = "out" /\ job'[c].op = "AddTask"
    BY <2>1, ProceedEffect, PoolAssumption DEF IInv
  <2>3. m_queue' \in Seq(Elems) /\ m_mutexCond' \in SUBSET Workers
    BY <2>1, PushType DEF IInv, Elems
  <2>4. fate' \in [Tasks -> Fates]
    BY <1>1 DEF PushTask, SetFate, IInv, TypeOK
  <2>5. TypeOK'
    BY <2>1, <2>2, <2>3, <2>4 DEF IInv, TypeOK, JobType, Task!TypeOK, Thread!TypeOK
  <2>6. OpInv' /\ JoinInv' /\ StopInv'
    BY <2>1, <2>2 DEF IInv, OpInv, JoinInv, StopInv, At, Returned
  <2> QED
    BY <2>1, <2>5, <2>6, ClientFrame DEF IInv
<1>2. ASSUME NEW k \in Tasks, CallAddTask(c, k)
      PROVE  IInv'
  <2>1. /\ UNCHANGED <<workerVars, poolVars>>
        /\ fate' \in [Tasks -> Fates]
        /\ \/ UNCHANGED job
           \/ job' = [job EXCEPT ![c] = [op |-> "AddTask", at |-> "push", task |-> k, i |-> 1]]
    BY <1>2 DEF CallAddTask, SetFate, IInv, TypeOK
  <2>2. UNCHANGED <<m_queue, m_mutexCond, task_state, task_isRequestCancel, task_condition, run,
                    task_cancel, thread_state, thread_isRequestCancel, thread_stateGuard, at,
                    thread_cancel, m_runningTask, wpc, m_stoppedThreadNum, m_state,
                    m_stateGuard, m_isRequestStop>>
    BY <2>1 DEF workerVars, queueVars, taskVars, threadVars, poolVars
  <2>3. /\ job' \in [Clients -> JobType]
        /\ \A d \in Clients : job'[d] # job[d] =>
             job'[d].op = "AddTask" /\ job'[d].at = "push" /\ job'[d].task \in Tasks
    <3> DEFINE new == [op |-> "AddTask", at |-> "push", task |-> k, i |-> 1]
    <3>1. job \in [Clients -> JobType]
      BY DEF IInv, TypeOK, JobType
    <3>2. 1 \in 1 .. threadNum + 1
      BY PoolAssumption
    <3>3. new \in JobType
      BY <3>2 DEF JobType, Ops, ClientPlaces
    <3>4. new.op = "AddTask" /\ new.at = "push" /\ new.task \in Tasks
      OBVIOUS
    <3>5. UNCHANGED job \/ job' = [job EXCEPT ![c] = new]
      BY <2>1
    <3> HIDE DEF new
    <3> QED
      BY <3>1, <3>3, <3>4, <3>5
  <2>4. TypeOK'
    BY <2>1, <2>2, <2>3 DEF IInv, TypeOK, JobType, Task!TypeOK, Thread!TypeOK
  <2>5. OpInv' /\ JoinInv' /\ StopInv'
    BY <2>2, <2>3 DEF IInv, OpInv, JoinInv, StopInv, At, Returned
  <2> QED
    BY <2>2, <2>4, <2>5, ClientFrame DEF IInv
<1> QED
  BY <1>1, <1>2

(* StopAsync() and its part of Stop() and StopNow().                       *)
StopPlace(j) ==
  \/ j.at = "request"
  \/ j.at = "pushEndTasks"
  \/ j.at = "out" /\ j.op = "StopAsync"
  \/ j.at = "await" /\ j.op = "Stop"
  \/ j.at = "cancelAsync" /\ j.op = "StopNow"
  \/ j.at = "joinThreads" /\ j.op = "Destroy" /\ j.i = 1

LEMMA StopMovesOn ==
  ASSUME TypeOK, NEW c \in Clients, job[c].op \in StopOps,
         NEW i \in 1 .. threadNum + 1,
         \/ Proceed(c, AfterStopAsync(job[c].op), 1)
         \/ Proceed(c, "pushEndTasks", i)
  PROVE  /\ job' \in [Clients -> JobType]
         /\ \A d \in Clients : d # c => job'[d] = job[d]
         /\ job'[c].op = job[c].op /\ StopPlace(job'[c])
         /\ job'[c].at = "pushEndTasks" => Proceed(c, "pushEndTasks", i)
<1> USE DEF ClientPlaces
<1>1. CASE Proceed(c, AfterStopAsync(job[c].op), 1)
  <2>1. /\ AfterStopAsync(job[c].op) \in {"out", "await", "cancelAsync", "joinThreads"}
        /\ AfterStopAsync(job[c].op) = "out" => job[c].op = "StopAsync"
        /\ AfterStopAsync(job[c].op) = "await" => job[c].op = "Stop"
        /\ AfterStopAsync(job[c].op) = "cancelAsync" => job[c].op = "StopNow"
        /\ AfterStopAsync(job[c].op) = "joinThreads" => job[c].op = "Destroy"
    BY DEF AfterStopAsync, StopOps
  <2>2. 1 \in 1 .. threadNum + 1
    BY PoolAssumption
  <2> QED
    BY <1>1, <2>1, <2>2, ProceedEffect DEF StopPlace
<1>2. CASE Proceed(c, "pushEndTasks", i)
  BY <1>2, ProceedEffect DEF StopPlace
<1> QED
  BY <1>1, <1>2

LEMMA StopAsyncKeepsIInv ==
  ASSUME IInv, NEW c \in Clients,
         RequestStop(c) \/ PushEndTask(c) \/ \E op \in Ops : CallStop(c, op)
  PROVE  IInv'
<1>1. /\ UNCHANGED <<task_state, task_isRequestCancel, task_condition, run, task_cancel,
                     thread_state, thread_isRequestCancel, thread_stateGuard, at,
                     thread_cancel, m_runningTask, wpc, m_stoppedThreadNum, m_state,
                     m_stateGuard, fate>>
      /\ m_isRequestStop' \in BOOLEAN
      /\ m_isRequestStop => m_isRequestStop'
  BY DEF RequestStop, PushEndTask, CallStop, workerVars, queueVars, taskVars, threadVars,
     poolVars, IInv, TypeOK
<1>2. m_queue' \in Seq(Elems) /\ m_mutexCond' \in SUBSET Workers
  <2>1. CASE Queue!Push(EndTask)
    BY <2>1, PushType DEF IInv, Elems
  <2>2. CASE UNCHANGED <<m_queue, m_mutexCond>>
    BY <2>2 DEF IInv, TypeOK
  <2> QED
    BY <2>1, <2>2 DEF RequestStop, PushEndTask, CallStop, workerVars, queueVars
<1>3. /\ job' \in [Clients -> JobType]
      /\ \A d \in Clients : d # c => job'[d] = job[d]
      /\ job'[c].op \in StopOps
      /\ StopPlace(job'[c])
      /\ job'[c].at = "pushEndTasks" => m_isRequestStop'
  <2>1. ASSUME NEW op \in Ops, CallStop(c, op)
        PROVE  <1>3
    <3>1. /\ op \in StopOps
          /\ job' = [job EXCEPT ![c] =
                        [op |-> op, at |-> "request", task |-> NoTask, i |-> 1]]
      BY <2>1 DEF CallStop
    <3> QED
      BY <3>1, PoolAssumption DEF IInv, TypeOK, JobType, StopPlace, ClientPlaces
  <2>2. CASE RequestStop(c)
    <3>1. 1 \in 1 .. threadNum + 1
      BY PoolAssumption
    <3>2. /\ job[c].op \in StopOps
          /\ m_isRequestStop'
          /\ \/ Proceed(c, AfterStopAsync(job[c].op), 1)
             \/ Proceed(c, "pushEndTasks", 1)
      BY <2>2 DEF RequestStop, At, IInv, OpInv
    <3> QED
      BY <3>1, <3>2, StopMovesOn DEF IInv
  <2>3. CASE PushEndTask(c)
    <3>1. /\ job[c].op \in StopOps /\ m_isRequestStop
          /\ job[c].i \in 1 .. threadNum + 1
          /\ 1 \in 1 .. threadNum + 1
      BY <2>3, PoolAssumption DEF PushEndTask, At, IInv, OpInv, TypeOK
    <3>2. CASE job[c].i <= threadNum
      <4>1. job[c].i + 1 \in 1 .. threadNum + 1 /\ Proceed(c, "pushEndTasks", job[c].i + 1)
        BY <2>3, <3>1, <3>2, PoolAssumption DEF PushEndTask
      <4> QED
        BY <1>1, <3>1, <4>1, StopMovesOn DEF IInv
    <3>3. CASE ~ (job[c].i <= threadNum)
      <4>1. Proceed(c, AfterStopAsync(job[c].op), 1)
        BY <2>3, <3>3 DEF PushEndTask
      <4> QED
        BY <1>1, <3>1, <4>1, StopMovesOn DEF IInv
    <3> QED
      BY <3>2, <3>3
  <2> QED
    BY <2>1, <2>2, <2>3
<1>4. TypeOK'
  BY <1>1, <1>2, <1>3 DEF IInv, TypeOK, JobType, Task!TypeOK, Thread!TypeOK
<1>5. OpInv'
  BY <1>1, <1>3 DEF IInv, OpInv, At, StopPlace
<1>6. JoinInv' /\ StopInv'
  <2>1. \A w \in Workers : ~ (w < 1)
    BY PoolAssumption
  <2> QED
    BY <1>1, <1>3, <2>1 DEF IInv, JoinInv, StopInv, At, Returned, StopPlace
<1> QED
  BY <1>1, <1>4, <1>5, <1>6, ClientFrame DEF IInv

(* The wait of Stop().                                                     *)
LEMMA StopWaitKeepsIInv ==
  ASSUME IInv, NEW c \in Clients, StopBlocks(c) \/ StopReturns(c) \/ WakeStopSpuriously(c)
  PROVE  IInv'
<1>1. /\ UNCHANGED <<m_queue, m_mutexCond, task_state, task_isRequestCancel, task_condition,
                     run, task_cancel, thread_state, thread_isRequestCancel,
                     thread_stateGuard, at, thread_cancel, m_runningTask, wpc,
                     m_stoppedThreadNum, m_state, m_isRequestStop, fate>>
      /\ m_stateGuard' \in SUBSET Clients
  BY DEF StopBlocks, StopReturns, WakeStopSpuriously, Queue!Wait, Queue!SpuriousWakeup,
     workerVars, queueVars, taskVars, threadVars, poolVars, IInv, TypeOK
<1>2. /\ job' \in [Clients -> JobType]
      /\ \/ UNCHANGED job
         \/ /\ m_state = "FINISHED"
            /\ \A d \in Clients : d # c => job'[d] = job[d]
            /\ job'[c].at = "out" /\ job'[c].op = "Stop"
  <2>1. CASE UNCHANGED job
    BY <2>1 DEF IInv, TypeOK, JobType
  <2>2. CASE StopReturns(c)
    <3>1. /\ job[c].op = "Stop" /\ m_state = "FINISHED" /\ Proceed(c, "out", 1)
          /\ "out" \in ClientPlaces /\ 1 \in 1 .. threadNum + 1
      BY <2>2, PoolAssumption DEF StopReturns, At, IInv, OpInv, ClientPlaces
    <3> QED
      BY <3>1, ProceedEffect DEF IInv
  <2> QED
    BY <2>1, <2>2 DEF StopBlocks, WakeStopSpuriously
<1>3. TypeOK'
  BY <1>1, <1>2 DEF IInv, TypeOK, JobType, Task!TypeOK, Thread!TypeOK
<1>4. OpInv'
  BY <1>1, <1>2 DEF IInv, OpInv, At
<1>5. JoinInv' /\ StopInv'
  BY <1>1, <1>2 DEF IInv, JoinInv, StopInv, At, Returned
<1> QED
  BY <1>1, <1>3, <1>4, <1>5, ClientFrame DEF IInv

(* The joins of the destructor.                                            *)
LEMMA JoinThreadKeepsIInv ==
  ASSUME IInv, NEW c \in Clients, JoinThread(c)
  PROVE  IInv'
<1>1. /\ UNCHANGED <<m_queue, m_mutexCond, task_state, task_isRequestCancel, task_condition,
                     run, task_cancel, thread_state, thread_isRequestCancel,
                     thread_stateGuard, at, thread_cancel, m_runningTask, wpc,
                     m_stoppedThreadNum, m_state, m_stateGuard, m_isRequestStop, fate>>
  BY DEF JoinThread, workerVars, queueVars, taskVars, threadVars, poolVars
<1>2. /\ job[c].op = "Destroy" /\ job[c].i \in 1 .. threadNum + 1
      /\ \A w \in Workers : w < job[c].i => at[w] = "exited"
      /\ Workers = 1 .. threadNum /\ threadNum \in Nat
      /\ {"out", "joinThreads"} \subseteq ClientPlaces
  BY PoolAssumption DEF JoinThread, At, IInv, OpInv, JoinInv, TypeOK, ClientPlaces
<1>3. /\ job' \in [Clients -> JobType]
      /\ \A d \in Clients : d # c => job'[d] = job[d]
      /\ job'[c].op = "Destroy"
      /\ \/ /\ job'[c].at = "joinThreads"
            /\ \A w \in Workers : w < job'[c].i => at[w] = "exited"
         \/ /\ job'[c].at = "out"
            /\ \A w \in Workers : at[w] = "exited"
  <2>1. CASE job[c].i <= threadNum
    <3>1. /\ at[job[c].i] = "exited" /\ Proceed(c, "joinThreads", job[c].i + 1)
          /\ job[c].i + 1 \in 1 .. threadNum + 1
      BY <1>2, <2>1 DEF JoinThread
    <3>2. \A w \in Workers : w < job[c].i + 1 => at[w] = "exited"
      BY <1>2, <3>1
    <3> QED
      BY <1>2, <3>1, <3>2, ProceedEffect DEF IInv
  <2>2. CASE ~ (job[c].i <= threadNum)
    <3>1. Proceed(c, "out", 1) /\ 1 \in 1 .. threadNum + 1
      BY <1>2, <2>2 DEF JoinThread
    <3>2. \A w \in Workers : at[w] = "exited"
      BY <1>2, <2>2
    <3> QED
      BY <1>2, <3>1, <3>2, ProceedEffect DEF IInv
  <2> QED
    BY <2>1, <2>2
<1>4. TypeOK'
  BY <1>1, <1>3 DEF IInv, TypeOK, JobType, Task!TypeOK, Thread!TypeOK
<1>5. OpInv' /\ StopInv'
  BY <1>1, <1>3 DEF IInv, OpInv, StopInv, At, Returned
<1>6. JoinInv'
  BY <1>1, <1>3 DEF IInv, JoinInv, At, Returned
<1> QED
  BY <1>1, <1>4, <1>5, <1>6, ClientFrame DEF IInv

(* The two loops of StopNow().                                             *)
LEMMA StopNowKeepsIInv ==
  ASSUME IInv, NEW c \in Clients,
         CancelEach(c) \/ CancelTaskOfEach(c) \/ CancelThreadOfEach(c) \/ JoinEach(c)
  PROVE  IInv'
<1>0. /\ 1 \in 1 .. threadNum + 1
      /\ job[c].i \in 1 .. threadNum + 1
      /\ job[c].i <= threadNum => job[c].i \in Workers /\ job[c].i + 1 \in 1 .. threadNum + 1
      /\ {"out", "cancelAsync", "cancelNow", "cancelThread", "join"} \subseteq ClientPlaces
      /\ Workers = 1 .. threadNum /\ threadNum \in Nat
      /\ Task!TypeOK /\ Thread!TypeOK
  BY PoolAssumption DEF IInv, TypeOK, ClientPlaces
<1>1. /\ job[c].op = "StopNow"
      /\ job[c].at \in {"cancelThread", "join"} => job[c].i \in Workers
      /\ job[c].at \in {"cancelNow", "cancelThread", "join"} =>
           \A w \in Workers : w < job[c].i => at[w] = "exited"
      /\ job[c].at = "join" => thread_cancel[c].thread = job[c].i
  BY DEF IInv, OpInv, JoinInv, At, CancelEach, CancelTaskOfEach, CancelThreadOfEach, JoinEach
<1>2. UNCHANGED <<m_queue, m_mutexCond, m_runningTask, wpc, m_stoppedThreadNum, m_state,
                  m_stateGuard, m_isRequestStop, fate>>
  BY DEF CancelEach, CancelTaskOfEach, CancelThreadOfEach, JoinEach, CancelAsync,
     CancelRunningTask, Cancel, CancelStep, workerVars, queueVars, poolVars
(* What a step does to the tasks, to the threads and to the call.          *)
<1>3. /\ Task!TypeOK' /\ Thread!TypeOK'
      /\ UNCHANGED <<run, at, thread_state>>
      /\ \A d \in Clients : d # c => thread_cancel'[d] = thread_cancel[d]
      /\ \/ UNCHANGED job
         \/ \E p \in {"out", "cancelAsync", "cancelNow", "cancelThread", "join"},
               i \in 1 .. threadNum + 1 :
              /\ Proceed(c, p, i)
              /\ p \in {"cancelThread", "join"} => i \in Workers
              /\ p \in {"cancelNow", "cancelThread", "join"} =>
                   \A w \in Workers : w < i => at[w] = "exited"
              /\ p = "join" => thread_cancel'[c].thread = i
              /\ p = "out" => \A w \in Workers : at[w] = "exited"
      /\ UNCHANGED job => thread_cancel'[c].thread = thread_cancel[c].thread
                            \/ job[c].at # "join"
  <2>1. CASE CancelEach(c)
    <3>1. CASE job[c].i <= threadNum
      <4>1. /\ Thread!CancelAsync(job[c].i) /\ UNCHANGED <<taskVars, thread_cancel>>
            /\ Proceed(c, "cancelAsync", job[c].i + 1)
        BY <2>1, <3>1 DEF CancelEach, CancelAsync
      <4>2. Thread!TypeOK' /\ UNCHANGED <<at, thread_state>>
        BY <1>0, <3>1, <4>1, ThreadCancelType
      <4>3. Task!TypeOK' /\ UNCHANGED run
        BY <1>0, <4>1 DEF taskVars, Task!TypeOK
      <4>4. job[c].at = "cancelAsync"
        BY <2>1 DEF CancelEach, At
      <4> QED
        BY <1>0, <3>1, <4>1, <4>2, <4>3, <4>4
    <3>2. CASE ~ (job[c].i <= threadNum)
      <4>1. UNCHANGED workerVars /\ Proceed(c, "cancelNow", 1) /\ job[c].at = "cancelAsync"
        BY <2>1, <3>2 DEF CancelEach, At
      <4>2. UNCHANGED <<run, at, thread_state, thread_cancel>> /\ Task!TypeOK' /\ Thread!TypeOK'
        BY <1>0, <4>1 DEF workerVars, taskVars, threadVars, Task!TypeOK, Thread!TypeOK
      <4>3. \A w \in Workers : ~ (w < 1)
        BY <1>0
      <4> QED
        BY <1>0, <4>1, <4>2, <4>3
    <3> QED
      BY <3>1, <3>2
  <2>2. CASE CancelTaskOfEach(c)
    <3>0. job[c].at = "cancelNow"
      BY <2>2 DEF CancelTaskOfEach, At
    <3>1. CASE job[c].i <= threadNum
      <4>1. CancelRunningTask(job[c].i) /\ Proceed(c, "cancelThread", job[c].i)
        BY <2>2, <3>1 DEF CancelTaskOfEach
      <4>2. Thread!TypeOK' /\ UNCHANGED <<at, thread_state, thread_cancel>>
        BY <1>0, <4>1 DEF CancelRunningTask, threadVars, Thread!TypeOK
      <4>3. Task!TypeOK' /\ UNCHANGED run
        <5>1. CASE m_runningTask[job[c].i] \in Tasks
          BY <1>0, <4>1, <5>1, TaskCancelType DEF CancelRunningTask
        <5>2. CASE UNCHANGED taskVars
          BY <1>0, <5>2 DEF taskVars, Task!TypeOK
        <5> QED
          BY <4>1, <5>1, <5>2 DEF CancelRunningTask
      <4> QED
        BY <1>0, <1>1, <3>0, <3>1, <4>1, <4>2, <4>3
    <3>2. CASE ~ (job[c].i <= threadNum)
      <4>1. UNCHANGED workerVars /\ Proceed(c, "out", 1)
        BY <2>2, <3>2 DEF CancelTaskOfEach
      <4>2. UNCHANGED <<run, at, thread_state, thread_cancel>> /\ Task!TypeOK' /\ Thread!TypeOK'
        BY <1>0, <4>1 DEF workerVars, taskVars, threadVars, Task!TypeOK, Thread!TypeOK
      <4>3. \A w \in Workers : at[w] = "exited"
        BY <1>0, <1>1, <3>0, <3>2
      <4> QED
        BY <1>0, <3>0, <4>1, <4>2, <4>3
    <3> QED
      BY <3>1, <3>2
  <2>3. CASE CancelThreadOfEach(c)
    <3>1. /\ job[c].at = "cancelThread" /\ job[c].i \in Workers
          /\ Thread!Cancel(c, job[c].i) /\ UNCHANGED taskVars
          /\ Proceed(c, "join", job[c].i)
      BY <1>1, <2>3 DEF CancelThreadOfEach, Cancel, At
    <3>2. /\ Thread!TypeOK' /\ UNCHANGED <<at, thread_state>>
          /\ \A d \in Clients : d # c => thread_cancel'[d] = thread_cancel[d]
      BY <1>0, <3>1, ThreadCancelType
    <3>3. Task!TypeOK' /\ UNCHANGED run
      BY <1>0, <3>1 DEF taskVars, Task!TypeOK
    <3>4. thread_cancel'[c].thread = job[c].i
      BY <1>0, <3>1 DEF Thread!Cancel, Thread!TypeOK
    <3> QED
      BY <1>0, <1>1, <3>1, <3>2, <3>3, <3>4
  <2>4. CASE JoinEach(c)
    <3>1. /\ job[c].at = "join" /\ job[c].i \in Workers
          /\ Thread!CancelStep(c) /\ UNCHANGED taskVars
          /\ IF thread_cancel'[c].at = "out"
               THEN Proceed(c, "cancelNow", job[c].i + 1)
               ELSE UNCHANGED job
      BY <1>1, <2>4 DEF JoinEach, CancelStep, At
    <3>2. /\ Thread!TypeOK' /\ UNCHANGED <<at, thread_state>>
          /\ \A d \in Clients : d # c => thread_cancel'[d] = thread_cancel[d]
      BY <1>0, <3>1, ThreadCancelType
    <3>3. Task!TypeOK' /\ UNCHANGED run
      BY <1>0, <3>1 DEF taskVars, Task!TypeOK
    <3>4. thread_cancel \in [Clients -> [at : {"out"}, thread : Workers \cup {NoWorker}]
                                          \cup [at : {"in"}, thread : Workers]]
      BY <1>0 DEF Thread!TypeOK
    <3>5. CASE Thread!CancelBlocks(c)
      <4>1. UNCHANGED <<thread_cancel, job>>
        BY <3>1, <3>5 DEF Thread!CancelBlocks
      <4> QED
        BY <3>2, <3>3, <4>1
    <3>6. CASE Thread!CancelReturns(c)
      <4>1. /\ thread_cancel'[c].at = "out"
            /\ thread_state[thread_cancel[c].thread] = "FINISHED"
        BY <3>4, <3>6 DEF Thread!CancelReturns
      <4>2. at[job[c].i] = "exited"
        BY <1>1, <3>1, <4>1 DEF IInv, FinishedIsExited
      <4>3. \A w \in Workers : w < job[c].i + 1 => at[w] = "exited"
        BY <1>0, <1>1, <3>1, <4>2
      <4>4. Proceed(c, "cancelNow", job[c].i + 1) /\ job[c].i + 1 \in 1 .. threadNum + 1
        BY <1>0, <3>1, <4>1
      <4>5. ~ UNCHANGED job
        <5>1. job'[c].at = "cancelNow"
          BY <1>0, <4>4, ProceedEffect DEF IInv
        <5> QED
          BY <3>1, <5>1
      <4> QED
        BY <3>2, <3>3, <4>3, <4>4, <4>5
    <3> QED
      BY <3>1, <3>5, <3>6 DEF Thread!CancelStep
  <2> QED
    BY <2>1, <2>2, <2>3, <2>4
<1>4. CASE UNCHANGED job
  <2>1. TypeOK'
    BY <1>2, <1>3, <1>4 DEF IInv, TypeOK
  <2>2. OpInv' /\ StopInv'
    BY <1>2, <1>4 DEF IInv, OpInv, StopInv, At, Returned
  <2>3. JoinInv'
    BY <1>1, <1>3, <1>4 DEF IInv, JoinInv, At, Returned
  <2> QED
    BY <1>2, <1>3, <2>1, <2>2, <2>3, ClientFrame DEF IInv
<1>5. ASSUME NEW p \in {"out", "cancelAsync", "cancelNow", "cancelThread", "join"},
             NEW i \in 1 .. threadNum + 1,
             Proceed(c, p, i),
             p \in {"cancelThread", "join"} => i \in Workers,
             p \in {"cancelNow", "cancelThread", "join"} =>
               \A w \in Workers : w < i => at[w] = "exited",
             p = "join" => thread_cancel'[c].thread = i,
             p = "out" => \A w \in Workers : at[w] = "exited"
      PROVE  IInv'
  <2>1. /\ job' \in [Clients -> JobType]
        /\ \A d \in Clients : d # c => job'[d] = job[d]
        /\ job'[c].at = p /\ job'[c].i = i /\ job'[c].op = "StopNow"
    BY <1>0, <1>1, <1>5, ProceedEffect DEF IInv
  <2>2. TypeOK'
    BY <1>2, <1>3, <2>1 DEF IInv, TypeOK, JobType
  <2>3. OpInv' /\ StopInv'
    BY <1>2, <1>5, <2>1 DEF IInv, OpInv, StopInv, At, Returned
  <2>4. JoinInv'
    BY <1>3, <1>5, <2>1 DEF IInv, JoinInv, At, Returned
  <2> QED
    BY <1>2, <1>3, <2>2, <2>3, <2>4, ClientFrame DEF IInv
<1> QED
  BY <1>3, <1>4, <1>5

(* Cancel() of a task, and the spurious wakeups.                           *)
LEMMA WaitersKeepIInv ==
  ASSUME IInv, UNCHANGED <<at, wpc, run, thread_state, job, poolVars>>, TypeOK',
         \A c \in Clients : thread_cancel'[c].thread = thread_cancel[c].thread
  PROVE  IInv'
<1>1. OpInv' /\ JoinInv' /\ StopInv'
  BY DEF IInv, OpInv, JoinInv, StopInv, At, Returned, poolVars
<1> QED
  BY <1>1, ClientFrame DEF IInv, poolVars

LEMMA CancelTaskKeepsIInv ==
  ASSUME IInv, NEW c \in Clients, CancelTaskStep(c) \/ \E k \in Tasks : CallCancel(c, k)
  PROVE  IInv'
<1>1. /\ Task!CancelStep(c) \/ \E k \in Tasks : Task!Cancel(c, k)
      /\ UNCHANGED <<queueVars, threadVars, m_runningTask, wpc, poolVars, job, fate>>
  BY DEF CancelTaskStep, CallCancel
<1>2. Task!TypeOK' /\ UNCHANGED run
  BY <1>1, TaskCancelType DEF IInv, TypeOK
<1>3. TypeOK'
  BY <1>1, <1>2 DEF IInv, TypeOK, Thread!TypeOK, queueVars, threadVars, poolVars
<1> QED
  BY <1>1, <1>2, <1>3, WaitersKeepIInv DEF threadVars

LEMMA SpuriousWakeupKeepsIInv ==
  ASSUME IInv,
         \/ \E c \in Clients : WakeClientSpuriously(c)
         \/ \E w \in Workers : WakeWorkerSpuriously(w) /\ UNCHANGED <<poolVars, job, fate>>
  PROVE  IInv'
<1>1. ASSUME NEW w \in Workers,
             WakeWorkerSpuriously(w), UNCHANGED <<poolVars, job, fate>>
      PROVE  IInv'
  <2>1. /\ UNCHANGED <<m_queue, taskVars, threadVars, m_runningTask, wpc>>
        /\ m_mutexCond' \in SUBSET Workers
    BY <1>1 DEF WakeWorkerSpuriously, Queue!WakeSpuriously, Queue!SpuriousWakeup, IInv, TypeOK
  <2>2. TypeOK'
    BY <1>1, <2>1 DEF IInv, TypeOK, Task!TypeOK, Thread!TypeOK, taskVars, threadVars, poolVars
  <2> QED
    BY <1>1, <2>1, <2>2, WaitersKeepIInv DEF taskVars, threadVars
<1>2. ASSUME NEW c \in Clients, Task!WakeSpuriously(c),
             UNCHANGED <<queueVars, threadVars, m_runningTask, wpc, poolVars, job, fate>>
      PROVE  IInv'
  <2>1. Task!TypeOK' /\ UNCHANGED run
    BY <1>2, TaskCancelType DEF IInv, TypeOK
  <2>2. TypeOK'
    BY <1>2, <2>1 DEF IInv, TypeOK, Thread!TypeOK, queueVars, threadVars, poolVars
  <2> QED
    BY <1>2, <2>1, <2>2, WaitersKeepIInv DEF threadVars
<1>3. ASSUME NEW c \in Clients, Thread!WakeSpuriously(c),
             UNCHANGED <<queueVars, taskVars, m_runningTask, wpc, poolVars, job, fate>>
      PROVE  IInv'
  <2>1. Thread!TypeOK' /\ UNCHANGED <<at, thread_state, thread_cancel>>
    BY <1>3, ThreadCancelType DEF IInv, TypeOK, Thread!WakeSpuriously
  <2>2. TypeOK'
    BY <1>3, <2>1 DEF IInv, TypeOK, Task!TypeOK, queueVars, taskVars, poolVars
  <2> QED
    BY <1>3, <2>1, <2>2, WaitersKeepIInv DEF taskVars
<1>4. ASSUME NEW c \in Clients, WakeStopSpuriously(c)
      PROVE  IInv'
  BY <1>4, StopWaitKeepsIInv
<1> QED
  BY <1>1, <1>2, <1>3, <1>4 DEF WakeClientSpuriously

-----------------------------------------------------------------------------
(* The invariant, and the theorems.                                        *)

LEMMA InitIInv == Init => IInv
<1> SUFFICES ASSUME Init PROVE IInv
  OBVIOUS
<1>1. TypeOK
  <2>1. Task!TypeOK /\ Thread!TypeOK
    BY DEF Init, WorkerInit, Task!Init, Task!TypeOK, Task!State, Thread!Init, Thread!TypeOK,
       Thread!State, Thread!Places
  <2>2. m_queue \in Seq(Elems) /\ m_mutexCond \in SUBSET Workers
    BY DEF Init, WorkerInit, Queue!QueueInit
  <2>3. /\ m_runningTask \in [Workers -> Elems \cup {NoTask}]
        /\ wpc \in [Workers -> WorkerPlaces]
    BY DEF Init, WorkerInit, WorkerPlaces
  <2>4. /\ m_stoppedThreadNum \in 0 .. threadNum
        /\ m_state \in {"RUNNING", "FINISHED"}
        /\ m_stateGuard \in SUBSET Clients
        /\ m_isRequestStop \in BOOLEAN
        /\ job \in [Clients -> [op : Ops \cup {"none"}, at : ClientPlaces,
                                task : Tasks \cup {NoTask}, i : 1 .. threadNum + 1]]
        /\ fate \in [Tasks -> Fates]
    <3>1. 1 \in 1 .. threadNum + 1 /\ 0 \in 0 .. threadNum
      BY PoolAssumption
    <3> QED
      BY <3>1 DEF Init, ClientPlaces, Fates
  <2> QED
    BY <2>1, <2>2, <2>3, <2>4 DEF TypeOK
<1>2. /\ \A w \in Workers : at[w] = "start" /\ wpc[w] = "loop" /\ run[w] = Task!Idle
                            /\ thread_state[w] = "INIT"
      /\ m_stoppedThreadNum = 0 /\ m_state = "RUNNING"
      /\ \A c \in Clients : job[c].at = "out" /\ job[c].op = "none"
  BY DEF Init, WorkerInit, Task!Init, Thread!Init
<1>3. RunsAtWork /\ FinishedIsExited
  BY <1>2 DEF RunsAtWork, FinishedIsExited
<1>4. CountInv
  <2>1. Counted = {}
    BY <1>2 DEF Counted, LastOut, PastFinish
  <2> QED
    BY <1>2, <2>1, FS_EmptySet DEF CountInv, LastOut
<1>5. OpInv /\ JoinInv /\ StopInv
  BY <1>2 DEF OpInv, JoinInv, StopInv, At, Returned
<1> QED
  BY <1>1, <1>3, <1>4, <1>5 DEF IInv

LEMMA NextKeepsIInv == IInv /\ [Next]_vars => IInv'
<1> SUFFICES ASSUME IInv, [Next]_vars PROVE IInv'
  OBVIOUS
<1>1. ASSUME NEW w \in Workers, PoolWorkerStep(w) PROVE IInv'
  BY <1>1, WorkerStepKeepsIInv, CountStoppedKeepsIInv, SetPoolFinishedKeepsIInv
     DEF PoolWorkerStep
<1>2. ASSUME NEW c \in Clients, ClientStep(c) \/ Call(c) PROVE IInv'
  BY <1>2, AddTaskKeepsIInv, StopAsyncKeepsIInv, StopWaitKeepsIInv, StopNowKeepsIInv,
     JoinThreadKeepsIInv, CancelTaskKeepsIInv DEF ClientStep, Call
<1>3. CASE UNCHANGED vars
  <2>1. /\ UNCHANGED <<at, wpc, run, thread_state, thread_cancel, job, poolVars>>
        /\ TypeOK'
    BY <1>3 DEF vars, workerVars, queueVars, taskVars, threadVars, poolVars, IInv, TypeOK,
       Task!TypeOK, Thread!TypeOK
  <2> QED
    BY <2>1, WaitersKeepIInv
<1> QED
  BY <1>1, <1>2, <1>3, SpuriousWakeupKeepsIInv DEF Next

LEMMA Invariance == Spec => []IInv
BY InitIInv, NextKeepsIInv, PTL DEF Spec

(* Every variable of the pool, its workers and its tasks keeps its type; in*)
(* particular the counter of stopped threads never exceeds threadNum       *)
(* (FixedThreadPool.h:258-276).                                            *)
THEOREM TypeCorrect == Spec => []TypeOK
<1>1. IInv => TypeOK
  BY DEF IInv
<1> QED
  BY <1>1, Invariance, PTL

LEMMA StoppedMeansQuiescent == IInv => StopMeansQuiescent
<1> SUFFICES ASSUME IInv, NEW c \in Clients, NEW w \in Workers,
                    Returned(c, {"Stop", "StopNow", "Destroy"})
             PROVE  at[w] \in {"notifyFinished", "exited"} /\ run[w] = Task!Idle
  BY DEF StopMeansQuiescent
<1>1. CASE job[c].op = "Stop"
  BY <1>1 DEF IInv, StopInv, CountInv, PastFinish, Returned, RunsAtWork, In
<1>2. CASE job[c].op \in {"StopNow", "Destroy"}
  BY <1>2 DEF IInv, JoinInv, Returned, RunsAtWork, In
<1> QED
  BY <1>1, <1>2 DEF Returned

(* For any number of workers, clients and tasks: when a Stop(), a StopNow()*)
(* or the destructor has returned, every worker is past its work function  *)
(* and past the count, and no task is being run                            *)
(* (FixedThreadPool.h:117-122, 152-177, 210-223).                          *)
THEOREM StopIsQuiescent == Spec => []StopMeansQuiescent
BY StoppedMeansQuiescent, Invariance, PTL

-----------------------------------------------------------------------------
(* The notifications                                                       *)

(* A Stop() that waits has requested the stop, so that the notification of *)
(* the last worker out is not skipped.                                     *)
AwaitInv == \A c \in Clients : At(c, "await") => m_isRequestStop

QueueWakeup == m_queue # <<>> => m_mutexCond = {}
StopWakeup == m_stateGuard # {} => m_state # "FINISHED" /\ m_isRequestStop

LEMMA QueueStepKeepsWakeup ==
  ASSUME QueueWakeup,
         \/ UNCHANGED queueVars
         \/ \E e \in Elems : Queue!Push(e)
         \/ \E w \in Workers :
              Queue!TakeHead(w) \/ Queue!WaitWhileEmpty(w) \/ Queue!WakeSpuriously(w)
  PROVE  QueueWakeup'
<1>1. CASE \E e \in Elems : Queue!Push(e)
  <2>1. PICK e \in Elems : Queue!Push(e)
    BY <1>1
  <2>2. m_mutexCond' = IF m_queue = <<>> THEN {} ELSE m_mutexCond
    BY <2>1 DEF Queue!Push, Queue!NotifyAllIf
  <2> QED
    BY <2>2 DEF QueueWakeup
<1>2. CASE \E w \in Workers :
             Queue!TakeHead(w) \/ Queue!WaitWhileEmpty(w) \/ Queue!WakeSpuriously(w)
  BY <1>2 DEF QueueWakeup, Queue!TakeHead, Queue!WaitWhileEmpty, Queue!WakeSpuriously,
     Queue!SpuriousWakeup
<1> QED
  BY <1>1, <1>2 DEF QueueWakeup, queueVars

LEMMA NextKeepsQueueWakeup ==
  ASSUME IInv, QueueWakeup, [Next]_vars
  PROVE  QueueWakeup'
<1> SUFFICES \/ UNCHANGED queueVars
             \/ \E e \in Elems : Queue!Push(e)
             \/ \E w \in Workers :
                  Queue!TakeHead(w) \/ Queue!WaitWhileEmpty(w) \/ Queue!WakeSpuriously(w)
  BY QueueStepKeepsWakeup
<1>1. ASSUME NEW w \in Workers, PoolWorkerStep(w)
      PROVE  UNCHANGED queueVars \/ Queue!TakeHead(w) \/ Queue!WaitWhileEmpty(w)
  BY <1>1 DEF PoolWorkerStep, CountStopped, SetPoolFinished, WorkerStep, ThreadFunction,
     CheckRequest, LockRunningTask, PopBlocks, PopTask, DropTask, PerformEndTask, PerformTask,
     RunTask, TaskThrows
<1>2. ASSUME NEW c \in Clients, ClientStep(c)
      PROVE  UNCHANGED queueVars \/ \E e \in Elems : Queue!Push(e)
  <2>1. CASE PushTask(c)
    BY <2>1 DEF PushTask, At, IInv, OpInv, Elems
  <2>2. CASE PushEndTask(c)
    BY <2>2 DEF PushEndTask, Elems
  <2>3. CASE RequestStop(c) \/ StopBlocks(c) \/ StopReturns(c) \/ JoinThread(c)
             \/ CancelTaskStep(c)
    BY <2>3 DEF RequestStop, StopBlocks, StopReturns, JoinThread, CancelTaskStep, workerVars
  <2>4. CASE CancelEach(c) \/ CancelTaskOfEach(c) \/ CancelThreadOfEach(c) \/ JoinEach(c)
    BY <2>4 DEF CancelEach, CancelTaskOfEach, CancelThreadOfEach, JoinEach, CancelAsync,
       CancelRunningTask, Cancel, CancelStep, workerVars
  <2> QED
    BY <1>2, <2>1, <2>2, <2>3, <2>4 DEF ClientStep
<1>3. ASSUME NEW c \in Clients, Call(c) \/ WakeClientSpuriously(c)
      PROVE  UNCHANGED queueVars
  BY <1>3 DEF Call, CallStop, CallAddTask, CallCancel, WakeClientSpuriously,
     WakeStopSpuriously, workerVars
<1>4. ASSUME NEW w \in Workers, WakeWorkerSpuriously(w)
      PROVE  Queue!WakeSpuriously(w)
  BY <1>4 DEF WakeWorkerSpuriously
<1>5. CASE UNCHANGED vars
  BY <1>5 DEF vars, workerVars
<1> QED
  BY <1>1, <1>2, <1>3, <1>4, <1>5 DEF Next

LEMMA NextKeepsStopWakeup ==
  ASSUME IInv, AwaitInv, StopWakeup, [Next]_vars
  PROVE  AwaitInv' /\ StopWakeup'
<1> USE DEF AwaitInv, StopWakeup, At
<1>1. ASSUME UNCHANGED <<m_isRequestStop, m_state, job>>, m_stateGuard' \subseteq m_stateGuard
      PROVE  AwaitInv' /\ StopWakeup'
  BY <1>1
<1>2. ASSUME NEW w \in Workers, PoolWorkerStep(w)
      PROVE  AwaitInv' /\ StopWakeup'
  <2>1. CASE SetPoolFinished(w)
    BY <2>1 DEF SetPoolFinished, Queue!NotifyAllIf
  <2>2. CASE WorkerStep(w) /\ UNCHANGED <<poolVars, job, fate>>
    BY <1>1, <2>2 DEF poolVars
  <2>3. CASE CountStopped(w)
    BY <1>1, <2>3 DEF CountStopped
  <2> QED
    BY <1>2, <2>1, <2>2, <2>3 DEF PoolWorkerStep
<1>3. ASSUME NEW w \in Workers, WakeWorkerSpuriously(w) /\ UNCHANGED <<poolVars, job, fate>>
      PROVE  AwaitInv' /\ StopWakeup'
  BY <1>1, <1>3 DEF poolVars
<1>4. ASSUME NEW c \in Clients, WakeClientSpuriously(c)
      PROVE  AwaitInv' /\ StopWakeup'
  BY <1>1, <1>4 DEF WakeClientSpuriously, WakeStopSpuriously, Queue!SpuriousWakeup, poolVars
<1>5. ASSUME NEW c \in Clients, ClientStep(c) \/ Call(c)
      PROVE  AwaitInv' /\ StopWakeup'
  <2>1. CASE RequestStop(c)
    BY <2>1 DEF RequestStop
  <2>2. CASE StopBlocks(c)
    BY <2>2 DEF StopBlocks
  <2>3. CASE PushEndTask(c)
    <3>1. m_isRequestStop
      BY <2>3 DEF PushEndTask, IInv, OpInv
    <3> QED
      BY <2>3, <3>1 DEF PushEndTask, poolVars
  <2>4. ASSUME UNCHANGED <<m_isRequestStop, m_state, m_stateGuard>>,
               \/ UNCHANGED job
               \/ /\ \A d \in Clients : d # c => job'[d] = job[d]
                  /\ job'[c].at # "await"
        PROVE  AwaitInv' /\ StopWakeup'
    BY <2>4
  <2>5. CASE CallStop(c, "StopAsync") \/ CallStop(c, "Stop") \/ CallStop(c, "StopNow")
             \/ CallStop(c, "Destroy") \/ \E k \in Tasks : CallAddTask(c, k)
    BY <2>4, <2>5 DEF CallStop, CallAddTask, poolVars, IInv, TypeOK
  <2>6. CASE CancelTaskStep(c) \/ \E k \in Tasks : CallCancel(c, k)
    BY <2>4, <2>6 DEF CancelTaskStep, CallCancel, poolVars
  <2>7. CASE PushTask(c) \/ StopReturns(c) \/ JoinThread(c)
             \/ CancelEach(c) \/ CancelTaskOfEach(c) \/ CancelThreadOfEach(c) \/ JoinEach(c)
    <3>1. /\ UNCHANGED <<m_isRequestStop, m_state, m_stateGuard>>
          /\ \/ UNCHANGED job
             \/ \E i : \E p \in ClientPlaces \ {"await"} : Proceed(c, p, i)
      BY <2>7 DEF PushTask, StopReturns, JoinThread, CancelEach, CancelTaskOfEach,
         CancelThreadOfEach, JoinEach, poolVars, ClientPlaces
    <3>2. ASSUME NEW p \in ClientPlaces \ {"await"}, NEW i, Proceed(c, p, i)
          PROVE  /\ \A d \in Clients : d # c => job'[d] = job[d]
                 /\ job'[c].at # "await"
      BY <3>2 DEF Proceed, IInv, TypeOK
    <3> QED
      BY <2>4, <3>1, <3>2
  <2>8. ASSUME NEW op \in Ops, CallStop(c, op)
        PROVE  op \in {"StopAsync", "Stop", "StopNow", "Destroy"}
    BY <2>8 DEF CallStop, StopOps
  <2> QED
    BY <1>5, <2>1, <2>2, <2>3, <2>5, <2>6, <2>7, <2>8 DEF ClientStep, Call
<1>6. CASE UNCHANGED vars
  BY <1>1, <1>6 DEF vars, poolVars
<1> QED
  BY <1>2, <1>3, <1>4, <1>5, <1>6 DEF Next

LEMMA WakeupInvariance == Spec => [](AwaitInv /\ QueueWakeup /\ StopWakeup)
<1>1. Init => AwaitInv /\ QueueWakeup /\ StopWakeup
  BY DEF Init, WorkerInit, Queue!QueueInit, AwaitInv, QueueWakeup, StopWakeup, At
<1>2. IInv /\ AwaitInv /\ QueueWakeup /\ StopWakeup /\ [Next]_vars
        => AwaitInv' /\ QueueWakeup' /\ StopWakeup'
  BY NextKeepsQueueWakeup, NextKeepsStopWakeup
<1> QED
  BY <1>1, <1>2, Invariance, PTL DEF Spec

(* No notification is lost: no worker sleeps in Pop() while there is a     *)
(* task, no Stop() sleeps when the pool has finished, although Push() and  *)
(* NotifyWhenThreadsStop() notify conditionally (BlockingQueue.h:35,       *)
(* FixedThreadPool.h:271-274).                                             *)
THEOREM NoWakeupIsLost == Spec => []NoLostWakeup
<1>1. QueueWakeup /\ StopWakeup => NoLostWakeup
  BY DEF QueueWakeup, StopWakeup, NoLostWakeup
<1> QED
  BY <1>1, WakeupInvariance, PTL

-----------------------------------------------------------------------------
(* How many EndTasks a queue holds after a push and after a pop            *)

EndPlaces(s) == {n \in 1 .. Len(s) : s[n] = EndTask}

LEMMA EndTasksCount ==
  ASSUME NEW s \in Seq(Elems)
  PROVE  /\ IsFiniteSet(EndPlaces(s))
         /\ EndTasksIn(s) = Cardinality(EndPlaces(s))
         /\ EndTasksIn(s) \in Nat
<1>1. IsFiniteSet(1 .. Len(s))
  BY FS_Interval
<1>2. EndPlaces(s) \subseteq 1 .. Len(s)
  BY DEF EndPlaces
<1>3. IsFiniteSet(EndPlaces(s))
  BY <1>1, <1>2, FS_Subset
<1>4. EndTasksIn(s) = Cardinality(EndPlaces(s))
  BY DEF EndTasksIn, EndPlaces
<1> QED
  BY <1>3, <1>4, FS_CardinalityType

LEMMA EndTasksPushed ==
  ASSUME NEW s \in Seq(Elems), NEW e \in Elems
  PROVE  EndTasksIn(Append(s, e)) = EndTasksIn(s) + IF e = EndTask THEN 1 ELSE 0
<1>1. /\ Append(s, e) \in Seq(Elems)
      /\ Len(s) \in Nat /\ Len(Append(s, e)) = Len(s) + 1
      /\ \A n \in 1 .. Len(s) : Append(s, e)[n] = s[n]
      /\ Append(s, e)[Len(s) + 1] = e
  OBVIOUS
<1>2. /\ EndTasksIn(Append(s, e)) = Cardinality(EndPlaces(Append(s, e)))
      /\ EndTasksIn(s) = Cardinality(EndPlaces(s))
      /\ IsFiniteSet(EndPlaces(s)) /\ EndTasksIn(s) \in Nat
  BY <1>1, EndTasksCount
<1>3. CASE e = EndTask
  <2>1. EndPlaces(Append(s, e)) = EndPlaces(s) \cup {Len(s) + 1}
    BY <1>1, <1>3 DEF EndPlaces
  <2>2. Len(s) + 1 \notin EndPlaces(s)
    BY <1>1 DEF EndPlaces
  <2>3. Cardinality(EndPlaces(s) \cup {Len(s) + 1}) = Cardinality(EndPlaces(s)) + 1
    BY <1>2, <2>2, FS_AddElement
  <2> QED
    BY <1>3, <1>2, <2>1, <2>3
<1>4. CASE e # EndTask
  <2>1. EndPlaces(Append(s, e)) = EndPlaces(s)
    BY <1>1, <1>4 DEF EndPlaces
  <2> QED
    BY <1>4, <1>2, <2>1
<1> QED
  BY <1>3, <1>4

LEMMA EndTasksPopped ==
  ASSUME NEW s \in Seq(Elems), s # <<>>
  PROVE  EndTasksIn(s) = EndTasksIn(Tail(s)) + IF Head(s) = EndTask THEN 1 ELSE 0
<1>1. /\ Tail(s) \in Seq(Elems)
      /\ Len(s) \in Nat \ {0} /\ Len(Tail(s)) = Len(s) - 1
      /\ \A n \in 1 .. Len(s) - 1 : Tail(s)[n] = s[n + 1]
      /\ Head(s) = s[1]
  OBVIOUS
<1> DEFINE Rest == EndPlaces(s) \ {1}
           shift == [n \in EndPlaces(Tail(s)) |-> n + 1]
<1>2. shift \in Bijection(EndPlaces(Tail(s)), Rest)
  <2>1. shift \in [EndPlaces(Tail(s)) -> Rest]
    BY <1>1 DEF EndPlaces
  <2>2. \A m, n \in EndPlaces(Tail(s)) : shift[m] = shift[n] => m = n
    BY DEF EndPlaces
  <2>3. ASSUME NEW n \in Rest
        PROVE  \E m \in EndPlaces(Tail(s)) : shift[m] = n
    <3>1. n \in 1 .. Len(s) /\ n # 1 /\ s[n] = EndTask
      BY DEF EndPlaces
    <3>2. n - 1 \in 1 .. Len(s) - 1 /\ Tail(s)[n - 1] = s[(n - 1) + 1]
      BY <1>1, <3>1
    <3>3. n - 1 \in EndPlaces(Tail(s))
      BY <1>1, <3>1, <3>2 DEF EndPlaces
    <3>4. shift[n - 1] = n
      BY <3>1, <3>3
    <3> QED
      BY <3>3, <3>4
  <2> HIDE DEF shift, Rest
  <2> QED
    BY <2>1, <2>2, <2>3 DEF Bijection, Injection, Surjection, IsInjective
<1>3. Cardinality(Rest) = EndTasksIn(Tail(s))
  <2> HIDE DEF shift, Rest
  <2> QED
    BY <1>1, <1>2, EndTasksCount, FS_Bijection DEF ExistsBijection
<1>4. Cardinality(Rest) = IF 1 \in EndPlaces(s) THEN EndTasksIn(s) - 1 ELSE EndTasksIn(s)
  BY EndTasksCount, FS_RemoveElement
<1>5. 1 \in EndPlaces(s) <=> Head(s) = EndTask
  BY <1>1 DEF EndPlaces
<1> QED
  BY <1>1, <1>3, <1>4, <1>5, EndTasksCount

-----------------------------------------------------------------------------
(* Where the tasks and the EndTasks are                                    *)

Poppers == {w \in Workers : MayPop(w)}

LEMMA PoppersAreFew ==
  /\ IsFiniteSet(Poppers)
  /\ Cardinality(Poppers) \in Nat /\ Cardinality(Poppers) <= threadNum
<1>1. Poppers \subseteq Workers
  BY DEF Poppers
<1> QED
  BY <1>1, CountedIsFinite, FS_Subset, FS_CardinalityType

(* A step of a worker that neither pops nor runs a task.                   *)
LEMMA QuietWorkerStep ==
  ASSUME IInv, NEW w \in Workers,
         \/ ThreadFunction(w) \/ CheckRequest(w) \/ LockRunningTask(w) \/ PopBlocks(w)
         \/ DropTask(w) \/ PerformEndTask(w) \/ CountStopped(w) \/ SetPoolFinished(w)
  PROVE  /\ UNCHANGED <<m_queue, m_runningTask, task_state, run>>
         /\ \A v \in Workers :
              /\ MayPop(v)' => MayPop(v)
              /\ LeftEarly(v) => LeftEarly(v)'
              /\ In(v, "perform") /\ m_runningTask[v] # EndTask =>
                   LeftEarly(v)' \/ In(v, "perform")'
         /\ \A v \in Workers : v # w => at'[v] = at[v] /\ wpc'[v] = wpc[v]
         /\ \/ /\ at[w] \in {"start", "check"} /\ at'[w] \in {"check", "work", "finishAction"}
               /\ wpc'[w] = wpc[w]
            \/ /\ at[w] \in {"finishAction", "notifyFinished"}
               /\ at'[w] \in {"finishAction", "notifyFinished", "exited"}
            \/ at[w] = "work" /\ at'[w] = "finishAction" /\ wpc'[w] = wpc[w]
            \/ /\ at[w] = "work" /\ at'[w] = "work"
               /\ wpc[w] \in {"loop", "fetch", "pop"} /\ wpc'[w] \in {"loop", "fetch", "pop"}
<1>1. UNCHANGED <<m_queue, m_runningTask, task_state, run>>
  BY DEF ThreadFunction, CheckRequest, LockRunningTask, PopBlocks, DropTask, PerformEndTask,
     CountStopped, SetPoolFinished, Queue!WaitWhileEmpty, queueVars, taskVars
<1>2. at \in [Workers -> Thread!Places] /\ wpc \in [Workers -> WorkerPlaces]
  BY DEF IInv, TypeOK, Thread!TypeOK
<1>3. /\ \A v \in Workers : v # w => at'[v] = at[v] /\ wpc'[v] = wpc[v]
      /\ \/ /\ at[w] \in {"start", "check"} /\ at'[w] \in {"check", "work", "finishAction"}
            /\ wpc'[w] = wpc[w]
         \/ /\ at[w] \in {"finishAction", "notifyFinished"}
            /\ at'[w] \in {"finishAction", "notifyFinished", "exited"}
         \/ at[w] = "work" /\ at'[w] = "finishAction" /\ wpc'[w] = wpc[w]
         \/ /\ at[w] = "work" /\ at'[w] = "work"
            /\ wpc[w] \in {"loop", "fetch", "pop"} /\ wpc'[w] \in {"loop", "fetch", "pop"}
  <2>1. CASE ThreadFunction(w)
    BY <1>2, <2>1 DEF ThreadFunction, Thread!SetRunning, Thread!CheckCancellation,
       Thread!NotifyFinished, Thread!Go
  <2>2. CASE CheckRequest(w)
    BY <1>2, <2>2 DEF CheckRequest, Thread!WorkPolls, GoTo, In
  <2>3. CASE LockRunningTask(w) \/ PopBlocks(w)
    BY <1>2, <2>3 DEF LockRunningTask, PopBlocks, GoTo, In, threadVars
  <2>4. CASE DropTask(w) \/ PerformEndTask(w)
    BY <1>2, <2>4 DEF DropTask, PerformEndTask, Thread!WorkPolls, Thread!WorkEnds, Thread!Go, In
  <2>5. CASE CountStopped(w) \/ SetPoolFinished(w)
    BY <1>2, <2>5 DEF CountStopped, SetPoolFinished, Thread!FinishAction, Thread!Go, GoTo,
       threadVars
  <2> QED
    BY <2>1, <2>2, <2>3, <2>4, <2>5
<1>4. ASSUME NEW v \in Workers, v # w
      PROVE  MayPop(v)' = MayPop(v) /\ LeftEarly(v)' = LeftEarly(v)
               /\ In(v, "perform")' = In(v, "perform")
  BY <1>1, <1>3, <1>4 DEF MayPop, LeftEarly, In
<1>5. /\ MayPop(w)' => MayPop(w)
      /\ LeftEarly(w) => LeftEarly(w)'
      /\ In(w, "perform") /\ m_runningTask[w] # EndTask =>
           LeftEarly(w)' \/ In(w, "perform")'
  BY <1>1, <1>3 DEF MayPop, LeftEarly, In
<1> QED
  BY <1>1, <1>3, <1>4, <1>5

(* A step of a worker at its task leaves the queue alone.                  *)
LEMMA TaskWorkerStep ==
  ASSUME IInv, NEW w \in Workers, PerformTask(w) \/ RunTask(w) \/ TaskThrows(w)
  PROVE  /\ UNCHANGED <<m_queue, m_runningTask>>
         /\ \A v \in Workers : v # w => at'[v] = at[v] /\ wpc'[v] = wpc[v] /\ run'[v] = run[v]
         /\ at[w] = "work" /\ wpc[w] \in {"perform", "run"}
         /\ \/ at'[w] = "work" /\ wpc'[w] \in {"loop", "run"}
            \/ at'[w] = "finishAction" /\ wpc'[w] = "run"
         /\ \A v \in Workers :
              /\ MayPop(v)' => MayPop(v)
              /\ LeftEarly(v) => LeftEarly(v)'
<1>1. /\ UNCHANGED <<m_queue, m_runningTask>>
      /\ Task!RunStep(w) \/ Task!DoRunThrows(w) \/ \E k \in Tasks : Task!Run(w, k)
      /\ at[w] = "work" /\ wpc[w] \in {"perform", "run"}
      /\ wpc[w] = "perform" => m_runningTask[w] # EndTask
  BY PoolAssumption DEF PerformTask, RunTask, TaskThrows, queueVars, In
<1>2. at \in [Workers -> Thread!Places] /\ wpc \in [Workers -> WorkerPlaces] /\ Task!TypeOK
  BY DEF IInv, TypeOK, Thread!TypeOK
<1>3. \A v \in Workers : v # w => run'[v] = run[v]
  BY <1>1, <1>2, TaskRunType
<1>4. \/ at' = at /\ wpc' = [wpc EXCEPT ![w] = "run"]
      \/ at' = at /\ wpc' = [wpc EXCEPT ![w] = "loop"]
      \/ at' = [at EXCEPT ![w] = "finishAction"] /\ wpc' = wpc /\ wpc[w] = "run"
  BY DEF PerformTask, RunTask, TaskThrows, GoTo, In, threadVars, Thread!WorkEnds, Thread!Go
<1>5. /\ \A v \in Workers : v # w => at'[v] = at[v] /\ wpc'[v] = wpc[v]
      /\ \/ at'[w] = "work" /\ wpc'[w] \in {"loop", "run"}
         \/ at'[w] = "finishAction" /\ wpc'[w] = "run"
  BY <1>1, <1>2, <1>4
<1>6. MayPop(w)' => MayPop(w)
  BY <1>1 DEF MayPop
<1> QED
  BY <1>1, <1>3, <1>5, <1>6 DEF MayPop, LeftEarly

(* A task that is not in the hands of the worker that moves on stays where *)
(* it is, and one that is gets its final state, or is lost with the worker.*)
LEMMA TaskStepKeepsAccounted ==
  ASSUME IInv, RunsWhatItPopped, NEW w \in Workers, NEW k \in Tasks,
         PerformTask(w) \/ RunTask(w) \/ TaskThrows(w),
         Accounted(k)
  PROVE  Accounted(k)'
<1>1. /\ UNCHANGED <<m_queue, m_runningTask>>
      /\ \A v \in Workers : v # w => at'[v] = at[v] /\ wpc'[v] = wpc[v] /\ run'[v] = run[v]
      /\ \A v \in Workers : LeftEarly(v) => LeftEarly(v)'
  BY TaskWorkerStep
<1>2. Task!TypeOK
  BY DEF IInv, TypeOK
<1>3. Ahead(k)' = Ahead(k)
  BY <1>1 DEF Ahead
<1>4. \A v \in Workers : v # w => InHand(v, k)' = InHand(v, k)
  BY <1>1 DEF InHand, In
<1>5. CASE PerformTask(w)
  <2>1. /\ In(w, "perform") /\ run[w] = Task!Idle /\ m_runningTask[w] \in Tasks
        /\ run'[w].at = "check" /\ run'[w].task = m_runningTask[w]
        /\ UNCHANGED task_state
    BY <1>2, <1>5 DEF PerformTask, Task!Run, Task!TypeOK
  <2>2. InHand(w, k) => InHand(w, k)'
    BY <2>1 DEF InHand, Task!Idle
  <2>3. Task!IsStopState(k) => Task!IsStopState(k)'
    BY <2>1 DEF Task!IsStopState
  <2> QED
    BY <1>1, <1>3, <1>4, <2>2, <2>3 DEF Accounted
<1>6. CASE RunTask(w)
  <2>1. /\ In(w, "run") /\ Task!RunStep(w)
        /\ run[w] \in [at : Task!InRun, task : Tasks]
    BY <1>2, <1>6 DEF RunTask, Task!TypeOK, Task!Idle, Task!RunStep, Task!CheckCancellation,
       Task!SetRunning, Task!DoRunReturns, Task!DoRunIsCancelled, Task!SetFinished,
       Task!SetCancelled, Task!OnCancel, Task!NotifyCancellers
  <2>2. \/ UNCHANGED task_state /\ run[w].at \in {"onCancel", "notify"}
        \/ /\ UNCHANGED task_state
           /\ run'[w].task = run[w].task
           /\ run'[w].at \in {"setRunning", "setFinished", "setCancelled"}
        \/ /\ \A j \in Tasks : j # run[w].task => task_state'[j] = task_state[j]
           /\ \/ task_state'[run[w].task] \in {"FINISHED", "CANCELLED"}
              \/ run'[w].task = run[w].task /\ run'[w].at = "doRun"
    BY <1>2, <2>1 DEF Task!RunStep, Task!TypeOK, Task!State, Task!MoveTo, Task!SetState,
       Task!CheckCancellation, Task!SetRunning, Task!DoRunReturns, Task!DoRunIsCancelled,
       Task!SetFinished, Task!SetCancelled, Task!OnCancel, Task!NotifyCancellers
  <2>3. CASE run[w].task = k
    <3>1. \/ Task!IsStopState(k)'
          \/ InHand(w, k)'
          \/ UNCHANGED task_state /\ ~ InHand(w, k)
      BY <2>1, <2>2, <2>3 DEF InHand, In, Task!IsStopState
    <3> QED
      BY <1>1, <1>3, <1>4, <3>1 DEF Accounted, Task!IsStopState
  <2>4. CASE run[w].task # k
    <3>1. ~ InHand(w, k) /\ task_state'[k] = task_state[k]
      BY <2>1, <2>2, <2>4 DEF InHand, In
    <3> QED
      BY <1>1, <1>3, <1>4, <3>1 DEF Accounted, Task!IsStopState
  <2> QED
    BY <2>3, <2>4
<1>7. CASE TaskThrows(w)
  <2>1. run[w] # Task!Idle /\ run[w].task \in Tasks /\ at'[w] = "finishAction"
    <3>1. run[w].at = "doRun" /\ Thread!WorkEnds(w)
      BY <1>7 DEF TaskThrows, Task!DoRunThrows
    <3> QED
      BY <1>2, <3>1 DEF Thread!WorkEnds, Thread!Go, Task!TypeOK, Task!Idle, IInv, TypeOK,
         Thread!TypeOK
  <2>2. m_runningTask'[w] # EndTask
    BY <1>1, <2>1, PoolAssumption DEF RunsWhatItPopped
  <2>3. LeftEarly(w)'
    BY <2>1, <2>2 DEF LeftEarly
  <2> QED
    BY <2>3 DEF Accounted
<1> QED
  BY <1>5, <1>6, <1>7

(* What a pop does.                                                        *)
LEMMA PopEffect ==
  ASSUME IInv, NEW w \in Workers, PopTask(w)
  PROVE  /\ m_queue \in Seq(Elems) /\ m_queue # <<>>
         /\ m_queue' = Tail(m_queue)
         /\ m_runningTask'[w] = Head(m_queue)
         /\ In(w, "pop") /\ In(w, "perform")' /\ run[w] = Task!Idle
         /\ \A v \in Workers : v # w =>
              at'[v] = at[v] /\ wpc'[v] = wpc[v] /\ m_runningTask'[v] = m_runningTask[v]
         /\ UNCHANGED <<task_state, run>>
<1>1. /\ wpc \in [Workers -> WorkerPlaces]
      /\ m_runningTask \in [Workers -> Elems \cup {NoTask}]
      /\ m_queue \in Seq(Elems)
      /\ run[w] # Task!Idle => In(w, "run")
  BY DEF IInv, TypeOK, RunsAtWork
<1>2. /\ In(w, "pop") /\ m_queue # <<>> /\ m_queue' = Tail(m_queue)
      /\ m_runningTask' = [m_runningTask EXCEPT ![w] = Head(m_queue)]
      /\ wpc' = [wpc EXCEPT ![w] = "perform"]
      /\ UNCHANGED <<at, task_state, run>>
  BY DEF PopTask, Queue!TakeHead, GoTo, taskVars, threadVars
<1> QED
  BY <1>1, <1>2 DEF In

LEMMA PopKeepsAccounted ==
  ASSUME IInv, NEW w \in Workers, PopTask(w), NEW k \in Tasks, Accounted(k)
  PROVE  Accounted(k)'
<1>1. /\ m_queue \in Seq(Elems) /\ m_queue # <<>>
      /\ m_queue' = Tail(m_queue)
      /\ m_runningTask'[w] = Head(m_queue)
      /\ In(w, "pop") /\ In(w, "perform")' /\ run[w] = Task!Idle
      /\ \A v \in Workers : v # w =>
           at'[v] = at[v] /\ wpc'[v] = wpc[v] /\ m_runningTask'[v] = m_runningTask[v]
      /\ UNCHANGED <<task_state, run>>
  BY PopEffect
<1>2. CASE Task!IsStopState(k)
  BY <1>1, <1>2 DEF Accounted, Task!IsStopState
<1>3. ASSUME NEW v \in Workers, InHand(v, k) \/ LeftEarly(v)
      PROVE  InHand(v, k)' \/ LeftEarly(v)'
  <2>1. v # w
    BY <1>1, <1>3 DEF InHand, LeftEarly, In, Task!Idle
  <2> QED
    BY <1>1, <1>3, <2>1 DEF InHand, LeftEarly, In
<1>4. CASE Ahead(k)
  <2>1. PICK n \in 1 .. Len(m_queue) :
          m_queue[n] = k /\ \A m \in 1 .. n - 1 : m_queue[m] # EndTask
    BY <1>4 DEF Ahead
  <2>2. /\ Len(m_queue) \in Nat /\ Len(Tail(m_queue)) = Len(m_queue) - 1
        /\ \A m \in 1 .. Len(m_queue) - 1 : Tail(m_queue)[m] = m_queue[m + 1]
        /\ Head(m_queue) = m_queue[1]
    BY <1>1
  <2>3. CASE n = 1
    <3>1. InHand(w, k)'
      BY <1>1, <2>1, <2>2, <2>3 DEF InHand
    <3> QED
      BY <3>1 DEF Accounted
  <2>4. CASE n # 1
    <3>1. /\ n - 1 \in 1 .. Len(m_queue')
          /\ m_queue'[n - 1] = k
          /\ \A m \in 1 .. (n - 1) - 1 : m_queue'[m] # EndTask
      BY <1>1, <2>1, <2>2, <2>4
    <3>2. Head(m_queue) # EndTask
      BY <2>1, <2>2, <2>4
    <3>3. \A v \in Workers : m_runningTask'[v] # EndTask
      BY <1>1, <1>4, <3>2 DEF Ahead
    <3>4. Ahead(k)'
      BY <3>1, <3>3 DEF Ahead
    <3> QED
      BY <3>4 DEF Accounted
  <2> QED
    BY <2>3, <2>4
<1> QED
  BY <1>2, <1>3, <1>4 DEF Accounted

LEMMA PopKeepsDrainInv ==
  ASSUME IInv, DrainInv, NEW w \in Workers, PopTask(w),
         UNCHANGED <<poolVars, job, fate>>
  PROVE  DrainInv'
<1>1. /\ m_queue \in Seq(Elems) /\ m_queue # <<>>
      /\ m_queue' = Tail(m_queue)
      /\ m_runningTask'[w] = Head(m_queue)
      /\ run[w] = Task!Idle
      /\ \A v \in Workers : v # w => m_runningTask'[v] = m_runningTask[v]
      /\ UNCHANGED run
  BY PopEffect
<1>2. /\ Len(m_queue) \in Nat \ {0} /\ Len(Tail(m_queue)) = Len(m_queue) - 1
      /\ \A m \in 1 .. Len(m_queue) - 1 : Tail(m_queue)[m] = m_queue[m + 1]
      /\ Head(m_queue) = m_queue[1]
  BY <1>1
<1>3. RunsWhatItPopped'
  BY <1>1 DEF DrainInv, RunsWhatItPopped
<1>4. NoEndTaskYet'
  BY <1>1, <1>2 DEF DrainInv, NoEndTaskYet, poolVars
<1>5. EarlyInv'
  BY PopKeepsAccounted DEF DrainInv, EarlyInv
<1> QED
  BY <1>3, <1>4, <1>5 DEF DrainInv

LEMMA TaskStepKeepsDrainInv ==
  ASSUME IInv, DrainInv, NEW w \in Workers, PerformTask(w) \/ RunTask(w) \/ TaskThrows(w),
         UNCHANGED <<poolVars, job, fate>>
  PROVE  DrainInv'
<1>1. /\ UNCHANGED <<m_queue, m_runningTask>>
      /\ \A v \in Workers : v # w => run'[v] = run[v]
  BY TaskWorkerStep
<1>2. run'[w] # Task!Idle => m_runningTask[w] = run'[w].task
  <2>1. run \in [Workers -> {Task!Idle} \cup [at : Task!InRun, task : Tasks]]
    BY DEF IInv, TypeOK, Task!TypeOK
  <2>2. CASE PerformTask(w)
    BY <2>1, <2>2 DEF PerformTask, Task!Run
  <2>3. CASE TaskThrows(w)
    BY <2>1, <2>3 DEF TaskThrows, Task!DoRunThrows
  <2>4. CASE RunTask(w)
    <3>1. run'[w] = Task!Idle \/ (run[w] # Task!Idle /\ run'[w].task = run[w].task)
      BY <2>1, <2>4 DEF RunTask, Task!RunStep, Task!MoveTo, Task!Idle, Task!InRun,
         Task!CheckCancellation, Task!SetRunning, Task!DoRunReturns, Task!DoRunIsCancelled,
         Task!SetFinished, Task!SetCancelled, Task!OnCancel, Task!NotifyCancellers
    <3> QED
      BY <3>1 DEF DrainInv, RunsWhatItPopped
  <2> QED
    BY <2>2, <2>3, <2>4
<1>3. RunsWhatItPopped'
  BY <1>1, <1>2 DEF DrainInv, RunsWhatItPopped
<1>4. NoEndTaskYet'
  BY <1>1 DEF DrainInv, NoEndTaskYet, poolVars
<1>5. EarlyInv'
  BY TaskStepKeepsAccounted DEF DrainInv, EarlyInv
<1> QED
  BY <1>3, <1>4, <1>5 DEF DrainInv

LEMMA QuietKeepsDrainInv ==
  ASSUME DrainInv,
         UNCHANGED <<m_queue, m_runningTask, run>>,
         \A k \in Tasks : Task!IsStopState(k) => Task!IsStopState(k)',
         m_isRequestStop => m_isRequestStop',
         \A v \in Workers :
           /\ LeftEarly(v) => LeftEarly(v)'
           /\ In(v, "perform") /\ m_runningTask[v] # EndTask => LeftEarly(v)' \/ In(v, "perform")',
         \A k \in Tasks : fate'[k] = "early" => fate[k] = "early"
  PROVE  DrainInv'
<1>1. RunsWhatItPopped' /\ NoEndTaskYet'
  BY DEF DrainInv, RunsWhatItPopped, NoEndTaskYet
<1>2. ASSUME NEW k \in Tasks, Accounted(k)
      PROVE  Accounted(k)'
  <2>1. k # EndTask
    BY PoolAssumption
  <2>2. \A v \in Workers : InHand(v, k) \/ LeftEarly(v) => InHand(v, k)' \/ LeftEarly(v)'
    BY <2>1 DEF InHand
  <2> QED
    BY <1>2, <2>2 DEF Accounted, Ahead
<1> QED
  BY <1>1, <1>2 DEF DrainInv, EarlyInv

LEMMA PushKeepsDrainInv ==
  ASSUME IInv, DrainInv, NEW e \in Elems,
         m_queue' = Append(m_queue, e),
         UNCHANGED <<m_runningTask, task_state, run, at, wpc, m_isRequestStop>>,
         e = EndTask => m_isRequestStop,
         \A k \in Tasks :
           fate'[k] = "early" => fate[k] = "early" \/ (k = e /\ ~ m_isRequestStop)
  PROVE  DrainInv'
<1>1. /\ m_queue \in Seq(Elems) /\ Len(m_queue) \in Nat
      /\ Len(m_queue') = Len(m_queue) + 1
      /\ \A n \in 1 .. Len(m_queue) : m_queue'[n] = m_queue[n]
      /\ m_queue'[Len(m_queue) + 1] = e
  BY DEF IInv, TypeOK
<1>2. RunsWhatItPopped' /\ NoEndTaskYet'
  BY <1>1 DEF DrainInv, RunsWhatItPopped, NoEndTaskYet
<1>3. ASSUME NEW k \in Tasks, Ahead(k)
      PROVE  Ahead(k)'
  BY <1>1, <1>3 DEF Ahead
<1>4. ASSUME NEW k \in Tasks, Accounted(k)
      PROVE  Accounted(k)'
  <2>1. \A v \in Workers : InHand(v, k)' = InHand(v, k) /\ LeftEarly(v)' = LeftEarly(v)
    BY DEF InHand, LeftEarly, In
  <2> QED
    BY <1>3, <1>4, <2>1 DEF Accounted, Task!IsStopState
<1>5. ASSUME NEW k \in Tasks, k = e, ~ m_isRequestStop
      PROVE  Accounted(k)'
  <2>1. Len(m_queue) + 1 \in 1 .. Len(m_queue')
    BY <1>1
  <2>2. \A m \in 1 .. (Len(m_queue) + 1) - 1 : m_queue'[m] # EndTask
    BY <1>1, <1>5 DEF DrainInv, NoEndTaskYet
  <2>3. \A w \in Workers : m_runningTask'[w] # EndTask
    BY <1>5 DEF DrainInv, NoEndTaskYet
  <2>4. Ahead(k)'
    BY <1>1, <1>5, <2>1, <2>2, <2>3 DEF Ahead
  <2> QED
    BY <2>4 DEF Accounted
<1>6. EarlyInv'
  BY <1>4, <1>5 DEF DrainInv, EarlyInv
<1> QED
  BY <1>2, <1>6 DEF DrainInv

(* The steps of a client that do not push.                                 *)
LEMMA QuietClientStep ==
  ASSUME IInv, NEW c \in Clients,
         ClientStep(c) \/ Call(c) \/ WakeClientSpuriously(c),
         ~ PushTask(c), ~ PushEndTask(c)
  PROVE  /\ UNCHANGED <<m_queue, m_runningTask, task_state, run, at, wpc>>
         /\ m_isRequestStop => m_isRequestStop'
         /\ \A k \in Tasks : fate'[k] = "early" => fate[k] = "early"
         /\ \A d \in Clients : At(d, "pushEndTasks") => job'[d] = job[d]
         /\ UNCHANGED m_isRequestStop \/ RequestStop(c)
<1>0. /\ job \in [Clients -> JobType] /\ fate \in [Tasks -> Fates]
      /\ m_isRequestStop \in BOOLEAN
  BY DEF IInv, TypeOK, JobType
<1>1. ASSUME NEW op \in Ops, CallStop(c, op)
      PROVE  /\ UNCHANGED <<workerVars, poolVars, fate>>
             /\ ~ At(c, "pushEndTasks")
             /\ \A d \in Clients : d # c => job'[d] = job[d]
  BY <1>0, <1>1 DEF CallStop, Idle, At
<1>2. ASSUME NEW k \in Tasks, CallAddTask(c, k)
      PROVE  /\ UNCHANGED <<workerVars, poolVars>>
             /\ \A j \in Tasks : fate'[j] = "early" => fate[j] = "early"
             /\ ~ At(c, "pushEndTasks")
             /\ \A d \in Clients : d # c => job'[d] = job[d]
  BY <1>0, <1>2 DEF CallAddTask, SetFate, Idle, At
<1>3. CASE CancelTaskStep(c) \/ WakeClientSpuriously(c) \/ \E k \in Tasks : CallCancel(c, k)
  BY <1>3 DEF CancelTaskStep, WakeClientSpuriously, WakeStopSpuriously, CallCancel,
     Task!CancelStep, Task!CancelBlocks, Task!CancelReturns, Task!WakeSpuriously, Task!Cancel,
     Task!CancelAsync, Thread!WakeSpuriously, workerVars, queueVars, taskVars, threadVars,
     poolVars
<1>4. CASE RequestStop(c) \/ StopBlocks(c) \/ StopReturns(c) \/ JoinThread(c)
  <2>1. /\ UNCHANGED <<workerVars, fate>>
        /\ UNCHANGED m_isRequestStop \/ (RequestStop(c) /\ m_isRequestStop')
        /\ ~ At(c, "pushEndTasks")
        /\ UNCHANGED job \/ \E p, i : Proceed(c, p, i)
    BY <1>4 DEF RequestStop, StopBlocks, StopReturns, JoinThread, At, poolVars
  <2>2. \A d \in Clients : d # c => job'[d] = job[d]
    BY <1>0, <2>1 DEF Proceed
  <2> QED
    BY <2>1, <2>2 DEF workerVars, queueVars, taskVars, threadVars, At
<1>5. CASE CancelEach(c) \/ CancelTaskOfEach(c) \/ CancelThreadOfEach(c) \/ JoinEach(c)
  <2>1. /\ UNCHANGED <<m_queue, m_runningTask, wpc, task_state, run, at>>
    BY <1>5 DEF CancelEach, CancelTaskOfEach, CancelThreadOfEach, JoinEach, CancelAsync,
       CancelRunningTask, Cancel, CancelStep, Thread!CancelAsync, Thread!Cancel,
       Thread!CancelStep, Thread!CancelBlocks, Thread!CancelReturns, Task!CancelAsync,
       workerVars, queueVars, taskVars, threadVars
  <2>2. /\ UNCHANGED <<m_isRequestStop, fate>>
        /\ ~ At(c, "pushEndTasks")
        /\ UNCHANGED job \/ \E p, i : Proceed(c, p, i)
    BY <1>5 DEF CancelEach, CancelTaskOfEach, CancelThreadOfEach, JoinEach, At, poolVars
  <2>3. \A d \in Clients : d # c => job'[d] = job[d]
    BY <1>0, <2>2 DEF Proceed
  <2> QED
    BY <2>1, <2>2, <2>3 DEF At
<1>6. CASE Call(c)
  BY <1>1, <1>2, <1>3, <1>6 DEF Call, workerVars, queueVars, taskVars, threadVars, poolVars, At
<1> QED
  BY <1>3, <1>4, <1>5, <1>6 DEF ClientStep

LEMMA NextKeepsDrainInv ==
  IInv /\ DrainInv /\ [Next]_vars => DrainInv'
<1> SUFFICES ASSUME IInv, DrainInv, [Next]_vars
             PROVE  DrainInv'
  OBVIOUS
<1>1. ASSUME NEW w \in Workers, PoolWorkerStep(w)
      PROVE  DrainInv'
  <2>1. CASE CountStopped(w) \/ SetPoolFinished(w)
    <3>1. UNCHANGED <<m_isRequestStop, fate>>
      BY <2>1 DEF CountStopped, SetPoolFinished
    <3> QED
      BY <2>1, <3>1, QuietWorkerStep, QuietKeepsDrainInv DEF Task!IsStopState
  <2>2. CASE WorkerStep(w) /\ UNCHANGED <<poolVars, job, fate>>
    <3>1. CASE ThreadFunction(w) \/ CheckRequest(w) \/ LockRunningTask(w) \/ PopBlocks(w)
                 \/ DropTask(w) \/ PerformEndTask(w)
      BY <2>2, <3>1, QuietWorkerStep, QuietKeepsDrainInv DEF poolVars, Task!IsStopState
    <3> QED
      BY <2>2, <3>1, PopKeepsDrainInv, TaskStepKeepsDrainInv DEF WorkerStep
  <2> QED
    BY <1>1, <2>1, <2>2 DEF PoolWorkerStep
<1>2. ASSUME UNCHANGED <<m_queue, m_runningTask, task_state, run, at, wpc>>,
             m_isRequestStop => m_isRequestStop',
             \A k \in Tasks : fate'[k] = "early" => fate[k] = "early"
      PROVE  DrainInv'
  <2>1. \A v \in Workers : LeftEarly(v)' = LeftEarly(v) /\ In(v, "perform")' = In(v, "perform")
    BY <1>2 DEF LeftEarly, In
  <2> QED
    BY <1>2, <2>1, QuietKeepsDrainInv DEF Task!IsStopState
<1>3. ASSUME NEW w \in Workers, WakeWorkerSpuriously(w) /\ UNCHANGED <<poolVars, job, fate>>
      PROVE  DrainInv'
  BY <1>2, <1>3 DEF WakeWorkerSpuriously, Queue!WakeSpuriously, taskVars, threadVars, poolVars
<1>4. CASE UNCHANGED vars
  BY <1>2, <1>4 DEF vars, workerVars, queueVars, taskVars, threadVars, poolVars
<1>5. ASSUME NEW c \in Clients, ClientStep(c) \/ Call(c) \/ WakeClientSpuriously(c)
      PROVE  DrainInv'
  <2>1. CASE PushTask(c)
    <3> DEFINE e == job[c].task
    <3>1. /\ e \in Tasks /\ e \in Elems /\ e # EndTask
          /\ m_queue' = Append(m_queue, e)
          /\ UNCHANGED <<m_runningTask, task_state, run, at, wpc, m_isRequestStop>>
      BY <2>1, PoolAssumption DEF PushTask, IInv, OpInv, Elems, Queue!Push, taskVars,
         threadVars, poolVars
    <3>2. \A k \in Tasks : fate'[k] = "early" => fate[k] = "early" \/ (k = e /\ ~ m_isRequestStop)
      BY <2>1 DEF PushTask, SetFate, IInv, TypeOK
    <3> HIDE DEF e
    <3> QED
      BY <3>1, <3>2, PushKeepsDrainInv
  <2>2. CASE PushEndTask(c)
    <3>1. /\ m_isRequestStop
          /\ UNCHANGED <<m_runningTask, task_state, run, at, wpc, m_isRequestStop, fate>>
          /\ m_queue' = Append(m_queue, EndTask) \/ UNCHANGED m_queue
      BY <2>2 DEF PushEndTask, IInv, OpInv, Queue!Push, queueVars, taskVars, threadVars, poolVars
    <3>2. CASE m_queue' = Append(m_queue, EndTask)
      <4>1. EndTask \in Elems
        BY DEF Elems
      <4> QED
        BY <3>1, <3>2, <4>1, PushKeepsDrainInv
    <3> QED
      BY <1>2, <3>1, <3>2
  <2>3. CASE ~ PushTask(c) /\ ~ PushEndTask(c)
    BY <1>2, <1>5, <2>3, QuietClientStep
  <2> QED
    BY <2>1, <2>2, <2>3
<1> QED
  BY <1>1, <1>3, <1>4, <1>5 DEF Next

LEMMA InitDrainInv == Init => DrainInv
<1> SUFFICES ASSUME Init PROVE DrainInv
  OBVIOUS
<1>1. /\ \A w \in Workers : run[w] = Task!Idle /\ m_runningTask[w] = NoTask
      /\ m_queue = <<>> /\ \A k \in Tasks : fate[k] = "new"
  BY DEF Init, WorkerInit, Task!Init, Queue!QueueInit
<1> QED
  BY <1>1, PoolAssumption DEF DrainInv, RunsWhatItPopped, NoEndTaskYet, EarlyInv

LEMMA DrainedWhenStopped ==
  ASSUME threadNum # 0, IInv, DrainInv
  PROVE  StopDrains
<1> SUFFICES ASSUME NEW c \in Clients, NEW k \in Tasks,
                    Returned(c, {"Stop", "StopNow", "Destroy"}),
                    fate[k] = "early",
                    \A w \in Workers : ~ LeftEarly(w)
             PROVE  Task!IsStopState(k)
  BY DEF StopDrains
<1>1. \A w \in Workers : at[w] \in {"notifyFinished", "exited"} /\ run[w] = Task!Idle
  BY StoppedMeansQuiescent DEF StopMeansQuiescent
<1>2. \A w \in Workers : m_runningTask[w] = EndTask
  BY <1>1 DEF LeftEarly
<1>3. ~ Ahead(k)
  BY <1>2, PoolAssumption DEF Ahead
<1>4. \A w \in Workers : ~ InHand(w, k)
  <2>1. Task!Idle.at = "idle"
    BY DEF Task!Idle
  <2>2. \A w \in Workers : at[w] # "work" /\ run[w].at = "idle"
    BY <1>1, <2>1
  <2> QED
    BY <2>2 DEF InHand, In
<1> QED
  BY <1>3, <1>4 DEF DrainInv, EarlyInv, Accounted

(* Stopping drains the queue: when a waiting stop method has returned and  *)
(* every worker left on an EndTask, every task that entered the queue      *)
(* before the stop was requested has run or been cancelled (test_Stop,     *)
(* testThreadPool.cpp:111-122).  Of a pool without a worker this is false: *)
(* StopNow() and the destructor return at once, and nothing was run.       *)
THEOREM StopDrainsTheQueue ==
  ASSUME threadNum # 0
  PROVE  Spec => []StopDrains
BY DrainedWhenStopped, InitDrainInv, NextKeepsDrainInv, Invariance, PTL DEF Spec

-----------------------------------------------------------------------------
(* Enough EndTasks                                                         *)

(* EnoughEndTasks is inductive as it stands: what follows are the reasons. *)
LEMMA QuietKeepsEnough ==
  ASSUME IInv, EnoughEndTasks,
         UNCHANGED <<m_queue, m_isRequestStop>>,
         \A w \in Workers : MayPop(w)' => MayPop(w),
         \A d \in Clients : At(d, "pushEndTasks") => job'[d] = job[d]
  PROVE  EnoughEndTasks'
<1>1. \A n : StillToPush(n) => StillToPush(n)'
  BY DEF StillToPush, At
<1>2. Cardinality(Poppers') \in Nat /\ Cardinality(Poppers') <= Cardinality(Poppers)
  <2>1. Poppers' \subseteq Poppers
    BY DEF Poppers
  <2> QED
    BY <2>1, PoppersAreFew, FS_Subset, FS_CardinalityType
<1>3. ASSUME m_isRequestStop, NEW n \in 0 .. threadNum,
             EndTasksIn(m_queue) + n >= Cardinality(Poppers)
      PROVE  EndTasksIn(m_queue)' + n >= Cardinality(Poppers')
  BY <1>2, <1>3, PoppersAreFew, PoolAssumption, EndTasksCount DEF IInv, TypeOK
<1> QED
  BY <1>1, <1>3 DEF EnoughEndTasks, Poppers

(* A worker that pops an EndTask is one popper less for one EndTask less.  *)
LEMMA PopKeepsEnough ==
  ASSUME IInv, EnoughEndTasks, NEW w \in Workers, PopTask(w),
         UNCHANGED <<m_isRequestStop, job>>
  PROVE  EnoughEndTasks'
<1>1. /\ m_queue \in Seq(Elems) /\ m_queue # <<>>
      /\ m_queue' = Tail(m_queue)
      /\ m_runningTask'[w] = Head(m_queue)
      /\ In(w, "pop") /\ In(w, "perform")'
      /\ \A v \in Workers : v # w =>
           at'[v] = at[v] /\ wpc'[v] = wpc[v] /\ m_runningTask'[v] = m_runningTask[v]
  BY PopEffect
<1>2. \A v \in Workers : v # w => MayPop(v)' = MayPop(v)
  BY <1>1 DEF MayPop
<1>3. MayPop(w) /\ (MayPop(w)' <=> Head(m_queue) # EndTask)
  BY <1>1 DEF MayPop, In
<1>4. /\ EndTasksIn(m_queue) = EndTasksIn(m_queue') + IF Head(m_queue) = EndTask THEN 1 ELSE 0
      /\ EndTasksIn(m_queue) \in Nat /\ EndTasksIn(m_queue') \in Nat
  <2>1. Tail(m_queue) \in Seq(Elems)
    BY <1>1
  <2>2. EndTasksIn(m_queue) \in Nat /\ EndTasksIn(Tail(m_queue)) \in Nat
    BY <1>1, <2>1, EndTasksCount
  <2>3. EndTasksIn(m_queue) = EndTasksIn(Tail(m_queue)) + IF Head(m_queue) = EndTask THEN 1 ELSE 0
    BY <1>1, EndTasksPopped
  <2> QED
    BY <1>1, <2>2, <2>3
<1>5. /\ Cardinality(Poppers) = Cardinality(Poppers') + IF Head(m_queue) = EndTask THEN 1 ELSE 0
      /\ Cardinality(Poppers') \in Nat
  <2>1. CASE Head(m_queue) = EndTask
    <3>1. Poppers' = Poppers \ {w} /\ w \in Poppers
      BY <1>2, <1>3, <2>1 DEF Poppers
    <3>2. Cardinality(Poppers \ {w}) = Cardinality(Poppers) - 1
          /\ Cardinality(Poppers \ {w}) \in Nat
      BY <3>1, PoppersAreFew, FS_RemoveElement, FS_CardinalityType
    <3> QED
      BY <2>1, <3>1, <3>2, PoppersAreFew
  <2>2. CASE Head(m_queue) # EndTask
    <3>1. Poppers' = Poppers
      BY <1>2, <1>3, <2>2 DEF Poppers
    <3> QED
      BY <2>2, <3>1, PoppersAreFew
  <2> QED
    BY <2>1, <2>2
<1>6. ASSUME NEW n \in 0 .. threadNum,
             EndTasksIn(m_queue) + n >= Cardinality(Poppers)
      PROVE  EndTasksIn(m_queue') + n >= Cardinality(Poppers')
  BY <1>4, <1>5, <1>6, PoppersAreFew, PoolAssumption
<1> QED
  BY <1>6 DEF EnoughEndTasks, Poppers, StillToPush, At

LEMMA TaskPushKeepsEnough ==
  ASSUME IInv, EnoughEndTasks, NEW e \in Tasks,
         m_queue' = Append(m_queue, e),
         UNCHANGED <<at, wpc, m_runningTask, m_isRequestStop>>,
         \A d \in Clients : At(d, "pushEndTasks") => job'[d] = job[d]
  PROVE  EnoughEndTasks'
<1>1. EndTasksIn(m_queue') = EndTasksIn(m_queue)
  <2>1. m_queue \in Seq(Elems) /\ e \in Elems /\ e # EndTask
    BY PoolAssumption DEF IInv, TypeOK, Elems
  <2> QED
    BY <2>1, EndTasksPushed, EndTasksCount
<1>2. \A n : StillToPush(n) => StillToPush(n)'
  BY DEF StillToPush, At
<1>3. UNCHANGED Poppers
  BY DEF Poppers, MayPop
<1> QED
  BY <1>1, <1>2, <1>3 DEF EnoughEndTasks, Poppers

LEMMA PushKeepsEnough ==
  ASSUME IInv, EnoughEndTasks, NEW c \in Clients, PushTask(c) \/ PushEndTask(c)
  PROVE  EnoughEndTasks'
<1>1. /\ m_queue \in Seq(Elems) /\ Elems = Tasks \cup {EndTask}
      /\ job \in [Clients -> JobType]
      /\ EndTasksIn(m_queue) \in Nat
      /\ threadNum \in Nat
  BY PoolAssumption, EndTasksCount DEF IInv, TypeOK, JobType, Elems
<1>2. /\ UNCHANGED <<at, wpc, m_runningTask, m_isRequestStop>>
      /\ \A d \in Clients : d # c => job'[d] = job[d]
  <2>1. UNCHANGED <<at, wpc, m_runningTask, m_isRequestStop>> /\ \E p, i : Proceed(c, p, i)
    BY DEF PushTask, PushEndTask, threadVars, poolVars
  <2> QED
    BY <1>1, <2>1 DEF Proceed
<1>3. UNCHANGED Poppers
  BY <1>2 DEF Poppers, MayPop
<1>4. CASE PushTask(c)
  <2>1. job[c].task \in Tasks /\ m_queue' = Append(m_queue, job[c].task) /\ At(c, "push")
    BY <1>4 DEF PushTask, IInv, OpInv, Queue!Push
  <2>2. \A d \in Clients : At(d, "pushEndTasks") => job'[d] = job[d]
    BY <1>2, <2>1 DEF At
  <2> QED
    BY <1>2, <2>1, <2>2, TaskPushKeepsEnough
<1>5. CASE PushEndTask(c)
  <2>1. /\ job[c].at = "pushEndTasks" /\ job[c].i \in 1 .. threadNum + 1
        /\ m_isRequestStop
    BY <1>1, <1>5 DEF PushEndTask, At, JobType, IInv, OpInv
  <2>2. PICK n \in 0 .. threadNum :
          /\ n = 0 \/ StillToPush(n)
          /\ EndTasksIn(m_queue) + n >= Cardinality(Poppers)
    BY <2>1 DEF EnoughEndTasks, Poppers
  <2>3. CASE job[c].i <= threadNum
    <3>1. /\ m_queue' = Append(m_queue, EndTask)
          /\ job'[c].at = "pushEndTasks" /\ job'[c].i = job[c].i + 1
      BY <1>1, <1>5, <2>3 DEF PushEndTask, Queue!Push, Proceed, JobType
    <3>2. EndTasksIn(m_queue') = EndTasksIn(m_queue) + 1
      BY <1>1, <3>1, EndTasksPushed
    <3>3. CASE n = 0 \/ StillToPush(n)'
      <4>1. EndTasksIn(m_queue') + n >= Cardinality(Poppers')
        BY <1>1, <1>3, <2>2, <3>2, PoppersAreFew
      <4> QED
        BY <3>3, <4>1 DEF EnoughEndTasks, Poppers
    <3>4. CASE n # 0 /\ ~ StillToPush(n)'
      <4>1. PICK d \in Clients : At(d, "pushEndTasks") /\ job[d].i + n = threadNum + 1
        BY <2>2, <3>4 DEF StillToPush
      <4>2. d = c
        BY <1>2, <3>4, <4>1 DEF StillToPush, At
      <4>3. n - 1 \in 0 .. threadNum /\ job'[c].i + (n - 1) = threadNum + 1
        BY <1>1, <2>1, <3>1, <3>4, <4>1, <4>2
      <4>4. StillToPush(n - 1)'
        BY <3>1, <4>3 DEF StillToPush, At
      <4>5. EndTasksIn(m_queue') + (n - 1) >= Cardinality(Poppers')
        BY <1>1, <1>3, <2>2, <3>2, PoppersAreFew
      <4> QED
        BY <4>3, <4>4, <4>5 DEF EnoughEndTasks, Poppers
    <3> QED
      BY <3>3, <3>4
  <2>4. CASE ~ (job[c].i <= threadNum)
    <3>1. UNCHANGED m_queue
      BY <1>5, <2>4 DEF PushEndTask, queueVars
    <3>2. n = 0 \/ StillToPush(n)'
      <4>1. ASSUME NEW d \in Clients, At(d, "pushEndTasks"), job[d].i + n = threadNum + 1
            PROVE  n = 0 \/ StillToPush(n)'
        <5>1. CASE d = c
          BY <1>1, <2>1, <2>4, <4>1, <5>1
        <5>2. CASE d # c
          BY <1>2, <4>1, <5>2 DEF StillToPush, At
        <5> QED
          BY <5>1, <5>2
      <4> QED
        BY <2>2, <4>1 DEF StillToPush
    <3> QED
      BY <1>3, <2>2, <3>1, <3>2 DEF EnoughEndTasks, Poppers
  <2> QED
    BY <2>3, <2>4
<1> QED
  BY <1>4, <1>5

(* The first request finds threadNum workers at most, and has threadNum    *)
(* EndTasks to push.                                                       *)
LEMMA RequestKeepsEnough ==
  ASSUME IInv, EnoughEndTasks, NEW c \in Clients, RequestStop(c)
  PROVE  EnoughEndTasks'
<1>1. /\ UNCHANGED <<m_queue, at, wpc, m_runningTask>>
      /\ m_queue \in Seq(Elems) /\ job \in [Clients -> JobType]
      /\ At(c, "request") /\ m_isRequestStop'
      /\ \E p : Proceed(c, p, 1)
      /\ threadNum \in Nat
  BY PoolAssumption DEF RequestStop, workerVars, queueVars, threadVars, IInv, TypeOK, JobType
<1>2. CASE m_isRequestStop
  <2>1. \A d \in Clients : At(d, "pushEndTasks") => job'[d] = job[d]
    BY <1>1 DEF Proceed, At
  <2>2. UNCHANGED m_isRequestStop
    BY <1>2 DEF RequestStop, IInv, TypeOK
  <2>3. \A w \in Workers : MayPop(w)' => MayPop(w)
    BY <1>1 DEF MayPop
  <2> QED
    BY <1>1, <2>1, <2>2, <2>3, QuietKeepsEnough
<1>3. CASE ~ m_isRequestStop
  <2>1. job'[c].at = "pushEndTasks" /\ job'[c].i = 1
    BY <1>1, <1>3 DEF RequestStop, Proceed, JobType
  <2>2. StillToPush(threadNum)' /\ threadNum \in 0 .. threadNum
    BY <1>1, <2>1 DEF StillToPush, At
  <2>3. UNCHANGED Poppers
    BY <1>1 DEF Poppers, MayPop
  <2>4. EndTasksIn(m_queue') + threadNum >= Cardinality(Poppers')
    BY <1>1, <2>3, PoppersAreFew, EndTasksCount
  <2> QED
    BY <2>2, <2>4 DEF EnoughEndTasks, Poppers
<1> QED
  BY <1>2, <1>3

LEMMA NextKeepsEnough ==
  IInv /\ EnoughEndTasks /\ [Next]_vars => EnoughEndTasks'
<1> SUFFICES ASSUME IInv, EnoughEndTasks, [Next]_vars
             PROVE  EnoughEndTasks'
  OBVIOUS
<1>1. ASSUME NEW w \in Workers, PoolWorkerStep(w)
      PROVE  EnoughEndTasks'
  <2>1. UNCHANGED <<m_isRequestStop, job>>
    BY <1>1 DEF PoolWorkerStep, CountStopped, SetPoolFinished, poolVars
  <2>2. CASE PopTask(w)
    BY <2>1, <2>2, PopKeepsEnough
  <2>3. CASE ~ PopTask(w)
    BY <1>1, <2>1, <2>3, QuietWorkerStep, TaskWorkerStep, QuietKeepsEnough
    DEF PoolWorkerStep, WorkerStep
  <2> QED
    BY <2>2, <2>3
<1>2. ASSUME UNCHANGED <<m_queue, m_isRequestStop, at, wpc, m_runningTask>>,
             \A d \in Clients : At(d, "pushEndTasks") => job'[d] = job[d]
      PROVE  EnoughEndTasks'
  BY <1>2, QuietKeepsEnough DEF MayPop
<1>3. ASSUME NEW w \in Workers, WakeWorkerSpuriously(w) /\ UNCHANGED <<poolVars, job, fate>>
      PROVE  EnoughEndTasks'
  BY <1>2, <1>3 DEF WakeWorkerSpuriously, Queue!WakeSpuriously, threadVars, poolVars
<1>4. CASE UNCHANGED vars
  BY <1>2, <1>4 DEF vars, workerVars, queueVars, threadVars, poolVars
<1>5. ASSUME NEW c \in Clients, ClientStep(c) \/ Call(c) \/ WakeClientSpuriously(c)
      PROVE  EnoughEndTasks'
  <2>1. CASE PushTask(c) \/ PushEndTask(c)
    BY <2>1, PushKeepsEnough
  <2>2. CASE ~ PushTask(c) /\ ~ PushEndTask(c)
    BY <1>2, <1>5, <2>2, QuietClientStep, RequestKeepsEnough
  <2> QED
    BY <2>1, <2>2
<1> QED
  BY <1>1, <1>3, <1>4, <1>5 DEF Next

(* Once a stop is requested no worker is ever left without an EndTask: for *)
(* each that may still pop, one is queued or still to be pushed            *)
(* (FixedThreadPool.h:202-206, WorkerThread.cpp:101-112).                  *)
THEOREM NoWorkerLacksAnEndTask == Spec => []EnoughEndTasks
<1>1. Init => EnoughEndTasks
  BY DEF Init, EnoughEndTasks
<1> QED
  BY <1>1, NextKeepsEnough, Invariance, PTL DEF Spec

-----------------------------------------------------------------------------
(* No stop is stuck                                                        *)

(* A worker that sleeps does so in Pop().                                  *)
SleepsInPop == \A w \in m_mutexCond : In(w, "pop")

(* When every worker is counted, the state is FINISHED or one of them is   *)
(* about to set it.                                                        *)
LastIsOut ==
  threadNum # 0 /\ m_stoppedThreadNum = threadNum =>
    m_state = "FINISHED" \/ \E w \in Workers : LastOut(w)

LEMMA WorkerKeepsSleepsInPop ==
  ASSUME IInv, SleepsInPop, NEW w \in Workers, PoolWorkerStep(w)
  PROVE  SleepsInPop'
<1>1. \A v \in Workers : v # w => at'[v] = at[v] /\ wpc'[v] = wpc[v]
  BY PopEffect, QuietWorkerStep, TaskWorkerStep DEF PoolWorkerStep, WorkerStep
<1>2. m_mutexCond \in SUBSET Workers
  BY DEF IInv, TypeOK
<1>3. CASE PopBlocks(w)
  BY <1>2, <1>3 DEF SleepsInPop, PopBlocks, Queue!WaitWhileEmpty, Queue!Wait, threadVars, In
<1>4. ASSUME UNCHANGED m_mutexCond, w \notin m_mutexCond
      PROVE  SleepsInPop'
  BY <1>1, <1>2, <1>4 DEF SleepsInPop, In
<1>5. CASE PopTask(w)
  BY <1>4, <1>5 DEF PopTask, Queue!TakeHead
<1>6. CASE ThreadFunction(w) \/ CountStopped(w) \/ SetPoolFinished(w)
  <2>1. UNCHANGED m_mutexCond
    BY <1>6 DEF ThreadFunction, CountStopped, SetPoolFinished, queueVars
  <2>2. at[w] # "work"
    BY <1>6 DEF ThreadFunction, Thread!SetRunning, Thread!CheckCancellation,
       Thread!NotifyFinished, Thread!Go, CountStopped, SetPoolFinished
  <2> QED
    BY <1>4, <2>1, <2>2 DEF SleepsInPop, In
<1>7. CASE CheckRequest(w) \/ LockRunningTask(w) \/ DropTask(w) \/ PerformEndTask(w)
             \/ PerformTask(w) \/ RunTask(w) \/ TaskThrows(w)
  BY <1>4, <1>7 DEF CheckRequest, LockRunningTask, DropTask, PerformEndTask, PerformTask,
     RunTask, TaskThrows, queueVars, SleepsInPop, In
<1> QED
  BY <1>3, <1>5, <1>6, <1>7 DEF PoolWorkerStep, WorkerStep

LEMMA WorkerKeepsLastIsOut ==
  ASSUME IInv, LastIsOut, NEW w \in Workers, PoolWorkerStep(w)
  PROVE  LastIsOut'
<1>1. /\ at \in [Workers -> Thread!Places] /\ wpc \in [Workers -> WorkerPlaces]
      /\ m_stoppedThreadNum \in 0 .. threadNum /\ threadNum \in Nat
  BY PoolAssumption DEF IInv, TypeOK, Thread!TypeOK
<1>2. CASE SetPoolFinished(w)
  BY <1>2 DEF SetPoolFinished, LastIsOut
<1>3. CASE CountStopped(w)
  BY <1>1, <1>3 DEF CountStopped, LastIsOut, LastOut, GoTo, threadVars
<1>4. CASE WorkerStep(w) /\ UNCHANGED <<poolVars, job, fate>>
  <2>1. \A v \in Workers : LastOut(v) => v # w /\ LastOut(v)'
    BY <1>4, WorkerStepEffect DEF LastOut
  <2> QED
    BY <1>4, <2>1 DEF LastIsOut, poolVars
<1> QED
  BY <1>2, <1>3, <1>4 DEF PoolWorkerStep

(* What the clients and the spurious wakeups leave to the workers.         *)
LEMMA OthersLeaveTheWorkers ==
  ASSUME IInv, [Next]_vars, ~ \E w \in Workers : PoolWorkerStep(w)
  PROVE  /\ UNCHANGED <<at, wpc, m_stoppedThreadNum, m_state>>
         /\ m_mutexCond' \subseteq m_mutexCond
<1>1. ASSUME NEW w \in Workers, WakeWorkerSpuriously(w), UNCHANGED <<poolVars, job, fate>>
      PROVE  /\ UNCHANGED <<at, wpc, m_stoppedThreadNum, m_state>>
             /\ m_mutexCond' \subseteq m_mutexCond
  BY <1>1 DEF WakeWorkerSpuriously, Queue!WakeSpuriously, Queue!SpuriousWakeup, threadVars,
     poolVars
<1>2. CASE UNCHANGED vars
  BY <1>2 DEF vars, workerVars, queueVars, threadVars, poolVars
<1>3. ASSUME NEW c \in Clients, ClientStep(c) \/ Call(c) \/ WakeClientSpuriously(c)
      PROVE  /\ UNCHANGED <<at, wpc, m_stoppedThreadNum, m_state>>
             /\ m_mutexCond' \subseteq m_mutexCond
  <2>1. CASE PushTask(c) \/ PushEndTask(c)
    BY <2>1 DEF PushTask, PushEndTask, Queue!Push, Queue!NotifyAllIf, queueVars, threadVars,
       poolVars
  <2>2. CASE RequestStop(c) \/ StopBlocks(c) \/ StopReturns(c) \/ JoinThread(c)
               \/ CancelTaskStep(c) \/ Call(c) \/ WakeClientSpuriously(c)
    BY <2>2 DEF RequestStop, StopBlocks, StopReturns, JoinThread, CancelTaskStep, Call, CallStop,
       CallAddTask, CallCancel, WakeClientSpuriously, WakeStopSpuriously, Thread!WakeSpuriously,
       workerVars, queueVars, threadVars, poolVars
  <2>3. CASE CancelEach(c) \/ CancelTaskOfEach(c) \/ CancelThreadOfEach(c) \/ JoinEach(c)
    BY <2>3 DEF CancelEach, CancelTaskOfEach, CancelThreadOfEach, JoinEach, CancelAsync,
       CancelRunningTask, Cancel, CancelStep, Thread!CancelAsync, Thread!Cancel,
       Thread!CancelStep, Thread!CancelBlocks, Thread!CancelReturns, workerVars, queueVars,
       threadVars, poolVars
  <2> QED
    BY <1>3, <2>1, <2>2, <2>3 DEF ClientStep
<1> QED
  BY <1>1, <1>2, <1>3 DEF Next

LEMMA NextKeepsAwake ==
  IInv /\ SleepsInPop /\ LastIsOut /\ [Next]_vars => SleepsInPop' /\ LastIsOut'
<1> SUFFICES ASSUME IInv, SleepsInPop, LastIsOut, [Next]_vars
             PROVE  SleepsInPop' /\ LastIsOut'
  OBVIOUS
<1>1. CASE \E w \in Workers : PoolWorkerStep(w)
  BY <1>1, WorkerKeepsSleepsInPop, WorkerKeepsLastIsOut
<1>2. CASE ~ \E w \in Workers : PoolWorkerStep(w)
  BY <1>2, OthersLeaveTheWorkers DEF SleepsInPop, LastIsOut, LastOut, In
<1> QED
  BY <1>1, <1>2

LEMMA AllAreCounted ==
  ASSUME IInv, \A w \in Workers : PastFinish(w)
  PROVE  m_stoppedThreadNum = threadNum /\ \A w \in Workers : ~ LastOut(w)
<1>1. Counted = 1 .. threadNum /\ threadNum \in Nat
  BY PoolAssumption DEF Counted
<1>2. Cardinality(1 .. threadNum) = threadNum
  BY <1>1, FS_Interval
<1> QED
  BY <1>1, <1>2 DEF IInv, CountInv, PastFinish, LastOut

LEMMA NobodySleeps ==
  ASSUME IInv, QueueWakeup, EnoughEndTasks, SleepsInPop, m_isRequestStop,
         \A c \in Clients : ~ At(c, "pushEndTasks")
  PROVE  m_mutexCond = {}
<1> SUFFICES ASSUME m_queue = <<>>
             PROVE  m_mutexCond = {}
  BY DEF QueueWakeup
<1>1. EndTasksIn(m_queue) = 0
  <2>1. {n \in 1 .. Len(m_queue) : m_queue[n] = EndTask} = {}
    OBVIOUS
  <2> QED
    BY <2>1, FS_EmptySet DEF EndTasksIn
<1>2. PICK n \in 0 .. threadNum :
        /\ n = 0 \/ StillToPush(n)
        /\ EndTasksIn(m_queue) + n >= Cardinality(Poppers)
  BY DEF EnoughEndTasks, Poppers
<1>3. n = 0
  BY <1>2 DEF StillToPush
<1>4. Poppers = {}
  BY <1>1, <1>2, <1>3, PoppersAreFew, FS_EmptySet
<1>5. \A w \in m_mutexCond : w \in Workers /\ MayPop(w)
  BY DEF SleepsInPop, MayPop, In, IInv, TypeOK
<1> QED
  BY <1>4, <1>5 DEF Poppers

LEMMA FinishedIsAllCounted ==
  ASSUME IInv, LastIsOut, threadNum # 0
  PROVE  m_state = "FINISHED" <=> \A w \in Workers : at[w] \in {"notifyFinished", "exited"}
BY AllAreCounted DEF IInv, CountInv, LastIsOut, PastFinish

LEMMA InitIsAwake == Init => SleepsInPop /\ LastIsOut
<1> SUFFICES ASSUME Init PROVE SleepsInPop /\ LastIsOut
  OBVIOUS
<1>1. SleepsInPop
  BY DEF Init, WorkerInit, Queue!QueueInit, SleepsInPop
<1>2. m_stoppedThreadNum = 0
  BY DEF Init
<1> QED
  BY <1>1, <1>2 DEF LastIsOut

LEMMA AwakeInvariance == Spec => [](SleepsInPop /\ LastIsOut)
BY InitIsAwake, NextKeepsAwake, Invariance, PTL DEF Spec

(* Once a stop is requested and its EndTasks are pushed, no worker ever    *)
(* sleeps in Pop() again: the thread that holds m_runningTaskGuard while it*)
(* pops is awake, so that CancelNow() gets the mutex, and no join waits for*)
(* a worker that waits for a task (FixedThreadPool.h:202-206,              *)
(* WorkerThread.cpp:74-84, 122-126, BlockingQueue.h:41-50).                *)
THEOREM NoWorkerSleepsThroughAStop ==
  Spec => [](m_isRequestStop /\ (\A c \in Clients : ~ At(c, "pushEndTasks")) => m_mutexCond = {})
<1>1. IInv /\ QueueWakeup /\ EnoughEndTasks /\ SleepsInPop
        => (m_isRequestStop /\ (\A c \in Clients : ~ At(c, "pushEndTasks")) => m_mutexCond = {})
  BY NobodySleeps
<1> QED
  BY <1>1, AwakeInvariance, WakeupInvariance, NoWorkerLacksAnEndTask, Invariance, PTL

(* A pool with workers is FINISHED exactly when each of them is past its   *)
(* part of the count: a Stop() that waits always has a worker to wait for, *)
(* and no count is lost to two workers leaving at once                     *)
(* (FixedThreadPool.h:170-176, 258-276).                                   *)
THEOREM FinishedMeansAllCounted ==
  ASSUME threadNum # 0
  PROVE  Spec => [](m_state = "FINISHED" <=>
                      \A w \in Workers : at[w] \in {"notifyFinished", "exited"})
<1>1. IInv /\ LastIsOut
        => (m_state = "FINISHED" <=> \A w \in Workers : at[w] \in {"notifyFinished", "exited"})
  BY FinishedIsAllCounted
<1> QED
  BY <1>1, AwakeInvariance, Invariance, PTL

-----------------------------------------------------------------------------
(* The pool is an Executor                                                 *)

(* A task that was accepted and not started.                               *)
Fresh(k) == fate[k] \in {"early", "late"} /\ ~ Started(k)

(* A queued task is fresh and queued once ...                              *)
QueuedOnce ==
  \A n \in 1 .. Len(m_queue) : m_queue[n] \in Tasks =>
    /\ Fresh(m_queue[n])
    /\ \A m \in 1 .. Len(m_queue) : m_queue[m] = m_queue[n] => m = n

(* ... and so is one that a worker has popped and not run, which is not in *)
(* the queue and in no other hand.                                         *)
Holds(w, k) == In(w, "perform") /\ m_runningTask[w] = k
PoppedOnce ==
  \A w \in Workers, k \in Tasks : Holds(w, k) =>
    /\ Fresh(k)
    /\ \A n \in 1 .. Len(m_queue) : m_queue[n] # k
    /\ \A v \in Workers : Holds(v, k) => v = w

(* One AddTask() at a time pushes a task, which nobody has seen before.    *)
AddedOnce ==
  \A c \in Clients : At(c, "push") =>
    /\ fate[job[c].task] = "adding"
    /\ \A d \in Clients : At(d, "push") /\ job[d].task = job[c].task => d = c

StartedIsAdded == \A k \in Tasks : Started(k) => fate[k] \in {"early", "late"}

(* A run that is past its check has left a mark on its task.               *)
RunLeavesMark ==
  \A w \in Workers :
    run[w].at \in {"doRun", "setFinished", "onCancel", "notify"} =>
      task_state[run[w].task] # "INIT"

(* StopNow() cancels only after its StopAsync().                           *)
CancelsWhenClosed ==
  \A c \in Clients :
    job[c].at \in {"cancelAsync", "cancelNow", "cancelThread", "join"} => m_isRequestStop

(* A worker that has not begun its work is at the start of its loop.       *)
StartsInLoop == \A w \in Workers : at[w] \in {"start", "check"} => wpc[w] = "loop"

ExecInv ==
  /\ QueuedOnce
  /\ PoppedOnce
  /\ AddedOnce
  /\ StartedIsAdded
  /\ RunLeavesMark
  /\ CancelsWhenClosed
  /\ StartsInLoop

LEMMA InitExecInv == Init => ExecInv
<1> SUFFICES ASSUME Init PROVE ExecInv
  OBVIOUS
<1>1. /\ \A w \in Workers : run[w] = Task!Idle /\ at[w] = "start" /\ wpc[w] = "loop"
      /\ m_queue = <<>>
      /\ \A k \in Tasks : fate[k] = "new" /\ task_state[k] = "INIT"
      /\ \A c \in Clients : job[c].at = "out"
  BY DEF Init, WorkerInit, Task!Init, Thread!Init, Queue!QueueInit
<1>2. Task!Idle.task = NoTask /\ Task!Idle.at = "idle"
  BY DEF Task!Idle
<1>3. \A k \in Tasks : ~ Started(k)
  BY <1>1, <1>2, PoolAssumption DEF Started
<1> QED
  BY <1>1, <1>2, <1>3 DEF ExecInv, QueuedOnce, PoppedOnce, AddedOnce, StartedIsAdded,
     RunLeavesMark, CancelsWhenClosed, StartsInLoop, Holds, In, At

(* What the three parts about tasks rest on.                               *)
LEMMA QuietKeepsTasks ==
  ASSUME QueuedOnce, PoppedOnce, StartedIsAdded, RunLeavesMark,
         UNCHANGED <<m_queue, task_state, run>>,
         \A v \in Workers, k \in Tasks : Holds(v, k)' => Holds(v, k),
         \A k \in Tasks : fate[k] \in {"early", "late"} => fate'[k] = fate[k]
  PROVE  QueuedOnce' /\ PoppedOnce' /\ StartedIsAdded' /\ RunLeavesMark'
<1>1. \A k \in Tasks : Started(k)' = Started(k)
  BY DEF Started
<1>2. \A k \in Tasks : Fresh(k) => Fresh(k)'
  BY <1>1 DEF Fresh
<1>3. QueuedOnce'
  BY <1>2 DEF QueuedOnce
<1>4. PoppedOnce'
  BY <1>2 DEF PoppedOnce
<1>5. StartedIsAdded' /\ RunLeavesMark'
  BY <1>1 DEF StartedIsAdded, RunLeavesMark
<1> QED
  BY <1>3, <1>4, <1>5

LEMMA QuietWorkerKeepsExecInv ==
  ASSUME IInv, ExecInv, NEW w \in Workers,
         \/ ThreadFunction(w) \/ CheckRequest(w) \/ LockRunningTask(w) \/ PopBlocks(w)
         \/ DropTask(w) \/ PerformEndTask(w) \/ CountStopped(w) \/ SetPoolFinished(w),
         UNCHANGED <<m_isRequestStop, job, fate>>
  PROVE  ExecInv'
<1>1. /\ UNCHANGED <<m_queue, m_runningTask, task_state, run>>
      /\ \A v \in Workers : v # w => at'[v] = at[v] /\ wpc'[v] = wpc[v]
      /\ \/ /\ at[w] \in {"start", "check"} /\ at'[w] \in {"check", "work", "finishAction"}
            /\ wpc'[w] = wpc[w]
         \/ /\ at[w] \in {"finishAction", "notifyFinished"}
            /\ at'[w] \in {"finishAction", "notifyFinished", "exited"}
         \/ at[w] = "work" /\ at'[w] = "finishAction" /\ wpc'[w] = wpc[w]
         \/ /\ at[w] = "work" /\ at'[w] = "work"
            /\ wpc[w] \in {"loop", "fetch", "pop"} /\ wpc'[w] \in {"loop", "fetch", "pop"}
  BY QuietWorkerStep
<1>2. StartsInLoop'
  BY <1>1 DEF ExecInv, StartsInLoop
<1>3. \A v \in Workers : In(v, "perform")' => In(v, "perform")
  BY <1>1 DEF ExecInv, StartsInLoop, In
<1>4. \A v \in Workers, k \in Tasks : Holds(v, k)' => Holds(v, k)
  BY <1>1, <1>3 DEF Holds
<1>5. QueuedOnce' /\ PoppedOnce' /\ StartedIsAdded' /\ RunLeavesMark'
  BY <1>1, <1>4, QuietKeepsTasks DEF ExecInv
<1>6. AddedOnce' /\ CancelsWhenClosed'
  BY DEF ExecInv, AddedOnce, CancelsWhenClosed, At
<1> QED
  BY <1>2, <1>5, <1>6 DEF ExecInv

(* The popped task leaves the queue for the hand of the worker.            *)
LEMMA PopKeepsExecInv ==
  ASSUME IInv, ExecInv, NEW w \in Workers, PopTask(w),
         UNCHANGED <<m_isRequestStop, job, fate>>
  PROVE  ExecInv'
<1>1. /\ m_queue \in Seq(Elems) /\ m_queue # <<>>
      /\ m_queue' = Tail(m_queue)
      /\ m_runningTask'[w] = Head(m_queue)
      /\ In(w, "pop") /\ In(w, "perform")'
      /\ \A v \in Workers : v # w =>
           at'[v] = at[v] /\ wpc'[v] = wpc[v] /\ m_runningTask'[v] = m_runningTask[v]
      /\ UNCHANGED <<task_state, run>>
  BY PopEffect
<1>2. /\ Len(m_queue) \in Nat \ {0} /\ Len(Tail(m_queue)) = Len(m_queue) - 1
      /\ \A m \in 1 .. Len(m_queue) - 1 : Tail(m_queue)[m] = m_queue[m + 1]
      /\ Head(m_queue) = m_queue[1]
  BY <1>1
<1>3. \A k \in Tasks : Started(k)' = Started(k) /\ Fresh(k)' = Fresh(k)
  BY <1>1 DEF Started, Fresh
<1>4. QueuedOnce'
  <2> SUFFICES ASSUME NEW n \in 1 .. Len(m_queue'), m_queue'[n] \in Tasks
               PROVE  /\ Fresh(m_queue[n])'
                      /\ \A m \in 1 .. Len(m_queue') : m_queue'[m] = m_queue'[n] => m = n
    BY DEF QueuedOnce
  <2>1. n + 1 \in 1 .. Len(m_queue) /\ m_queue'[n] = m_queue[n + 1]
    BY <1>1, <1>2
  <2>2. Fresh(m_queue[n])'
    <3>1. PICK k \in Tasks : k = m_queue[n + 1] /\ k = m_queue'[n]
      BY <2>1
    <3>2. Fresh(k)'
      BY <1>3, <2>1, <3>1 DEF ExecInv, QueuedOnce
    <3> QED
      BY <3>1, <3>2 DEF Fresh, Started
  <2>3. ASSUME NEW m \in 1 .. Len(m_queue'), m_queue'[m] = m_queue'[n]
        PROVE  m = n
    <3>1. m + 1 \in 1 .. Len(m_queue) /\ m_queue'[m] = m_queue[m + 1]
      BY <1>1, <1>2
    <3>2. m + 1 = n + 1
      BY <2>1, <2>3, <3>1 DEF ExecInv, QueuedOnce
    <3> QED
      BY <3>2
  <2> QED
    BY <2>1, <2>2, <2>3
<1>5. PoppedOnce'
  <2>1. \A v \in Workers, k \in Tasks : v # w => (Holds(v, k)' <=> Holds(v, k))
    BY <1>1 DEF Holds, In
  <2>2. 1 \in 1 .. Len(m_queue) /\ \A n \in 1 .. Len(m_queue') :
          n + 1 \in 1 .. Len(m_queue) /\ m_queue'[n] = m_queue[n + 1]
    BY <1>1, <1>2
  <2> SUFFICES ASSUME NEW v \in Workers, NEW k \in Tasks, Holds(v, k)'
               PROVE  /\ Fresh(k)'
                      /\ \A n \in 1 .. Len(m_queue') : m_queue'[n] # k
                      /\ \A u \in Workers : Holds(u, k)' => u = v
    BY DEF PoppedOnce
  <2>3. CASE v = w
    <3>1. k = m_queue[1]
      BY <1>1, <1>2, <2>3 DEF Holds
    <3>2. /\ Fresh(k)
          /\ \A m \in 1 .. Len(m_queue) : m_queue[m] = k => m = 1
      BY <2>2, <3>1 DEF ExecInv, QueuedOnce
    <3>3. \A n \in 1 .. Len(m_queue') : m_queue'[n] # k
      BY <2>2, <3>2
    <3>4. \A u \in Workers : u # w => ~ Holds(u, k)
      BY <2>2, <3>1 DEF ExecInv, PoppedOnce
    <3> QED
      BY <1>3, <2>1, <2>3, <3>2, <3>3, <3>4
  <2>4. CASE v # w
    <3>1. /\ Fresh(k)
          /\ \A m \in 1 .. Len(m_queue) : m_queue[m] # k
          /\ \A u \in Workers : Holds(u, k) => u = v
      BY <2>1, <2>4 DEF ExecInv, PoppedOnce
    <3>2. ~ Holds(w, k)'
      BY <1>1, <1>2, <2>2, <3>1 DEF Holds
    <3> QED
      BY <1>3, <2>1, <2>2, <3>1, <3>2
  <2> QED
    BY <2>3, <2>4
<1>6. StartedIsAdded' /\ RunLeavesMark'
  BY <1>1, <1>3 DEF ExecInv, StartedIsAdded, RunLeavesMark
<1>7. StartsInLoop' /\ AddedOnce' /\ CancelsWhenClosed'
  BY <1>1 DEF ExecInv, StartsInLoop, AddedOnce, CancelsWhenClosed, At, In
<1> QED
  BY <1>4, <1>5, <1>6, <1>7 DEF ExecInv

(* What is executing has been started, and stays so when its run ends.     *)
LEMMA RunKeepsStarted ==
  ASSUME IInv, RunLeavesMark, NEW w \in Workers, RunTask(w) \/ TaskThrows(w)
  PROVE  /\ \A k \in Tasks : Started(k)' = Started(k)
         /\ RunLeavesMark'
         /\ run[w].task \in Tasks
         /\ run'[w] = Task!Idle \/ (RunTask(w) /\ run'[w].task = run[w].task)
<1> DEFINE marks == {"doRun", "setFinished", "onCancel", "notify"}
<1>1. /\ run \in [Workers -> {Task!Idle} \cup [at : Task!InRun, task : Tasks]]
      /\ task_state \in [Tasks -> Task!State]
      /\ Task!Idle.at = "idle" /\ Task!Idle.task = NoTask
      /\ Task!TypeOK
  BY DEF IInv, TypeOK, Task!TypeOK, Task!Idle
<1>2. \A v \in Workers : v # w => run'[v] = run[v]
  BY TaskWorkerStep
<1>3. run[w].task \in Tasks /\ run[w].at \in Task!InRun
  BY <1>1 DEF RunTask, TaskThrows, Task!DoRunThrows, Task!RunStep, Task!CheckCancellation,
     Task!SetRunning, Task!DoRunReturns, Task!DoRunIsCancelled, Task!SetFinished,
     Task!SetCancelled, Task!OnCancel, Task!NotifyCancellers
<1>k. PICK k \in Tasks : k = run[w].task
  BY <1>3
<1>4. /\ \A j \in Tasks : j # k => task_state'[j] = task_state[j]
      /\ task_state'[k] = task_state[k] \/ task_state'[k] # "INIT"
      /\ \/ /\ run'[w] = Task!Idle
            /\ run[w].at \in marks
         \/ /\ RunTask(w)
            /\ run'[w].task = k
            /\ run'[w].at \in marks => run[w].at \in marks \/ task_state'[k] # "INIT"
  <2>1. CASE TaskThrows(w)
    BY <1>1, <1>3, <1>k, <2>1 DEF TaskThrows, Task!DoRunThrows
  <2>2. CASE RunTask(w)
    <3> USE <1>1, <1>3, <1>k, <2>2 DEF Task!MoveTo, Task!SetState
    <3>1. CASE \/ Task!CheckCancellation(w) \/ Task!DoRunReturns(w) \/ Task!DoRunIsCancelled(w)
               \/ Task!OnCancel(w)
      BY <3>1 DEF Task!CheckCancellation, Task!DoRunReturns, Task!DoRunIsCancelled, Task!OnCancel
    <3>2. CASE Task!SetRunning(w) \/ Task!SetFinished(w) \/ Task!SetCancelled(w)
      BY <3>2 DEF Task!SetRunning, Task!SetFinished, Task!SetCancelled
    <3>3. CASE Task!NotifyCancellers(w)
      BY <3>3 DEF Task!NotifyCancellers
    <3> QED
      BY <3>1, <3>2, <3>3 DEF RunTask, Task!RunStep
  <2> QED
    BY <2>1, <2>2
<1>5. RunLeavesMark'
  <2>1. ASSUME NEW v \in Workers, run'[v].at \in marks
        PROVE  task_state'[run'[v].task] # "INIT"
    <3>1. CASE v # w
      <4>1. run[v].task \in Tasks /\ task_state[run[v].task] # "INIT" /\ run'[v] = run[v]
        BY <1>1, <1>2, <2>1, <3>1 DEF RunLeavesMark
      <4> QED
        BY <1>4, <4>1
    <3>2. CASE v = w
      BY <1>1, <1>3, <1>k, <1>4, <2>1, <3>2 DEF RunLeavesMark
    <3> QED
      BY <3>1, <3>2
  <2> QED
    BY <2>1 DEF RunLeavesMark
<1>6. \A j \in Tasks : j # k => Started(j)' = Started(j)
  <2>1. \A j \in Tasks, v \in Workers : j # k => (run'[v].task = j <=> run[v].task = j)
    BY <1>1, <1>2, <1>3, <1>k, <1>4, PoolAssumption
  <2> QED
    BY <1>4, <2>1 DEF Started
<1>7. Started(k) /\ Started(k)'
  <2>1. Started(k)
    BY <1>k DEF Started
  <2>2. CASE run'[w] = Task!Idle
    <3>1. task_state'[k] # "INIT"
      BY <1>1, <1>3, <1>k, <1>4, <2>2, PoolAssumption DEF RunLeavesMark
    <3> QED
      BY <2>1, <3>1 DEF Started
  <2>3. CASE run'[w].task = k
    <3>1. \E v \in Workers : run'[v].task = k
      BY <2>3
    <3> QED
      BY <2>1, <3>1 DEF Started
  <2> QED
    BY <1>4, <2>1, <2>2, <2>3
<1>8. Started(k)' = Started(k)
  BY <1>7 DEF Started
<1>9. \A j \in Tasks : Started(j)' = Started(j)
  BY <1>6, <1>8
<1> QED
  BY <1>3, <1>k, <1>4, <1>5, <1>9

(* The task in the hand of the worker is the one it starts.                *)
LEMMA PerformEffect ==
  ASSUME IInv, ExecInv, NEW w \in Workers, PerformTask(w), NEW k \in Tasks,
         k = m_runningTask[w]
  PROVE  /\ Holds(w, k) /\ Fresh(k) /\ run[w].task = NoTask
         /\ run' = [run EXCEPT ![w] = [at |-> "check", task |-> k]]
         /\ run'[w] = [at |-> "check", task |-> k]
         /\ UNCHANGED task_state
         /\ Started(k)'
         /\ \A j \in Tasks : j # k => Started(j)' = Started(j)
<1>1. run \in [Workers -> {Task!Idle} \cup [at : Task!InRun, task : Tasks]]
  BY DEF IInv, TypeOK, Task!TypeOK
<1>2. /\ run[w].task = NoTask
      /\ run' = [run EXCEPT ![w] = [at |-> "check", task |-> k]]
      /\ UNCHANGED task_state
      /\ Holds(w, k)
  BY DEF PerformTask, Task!Run, Task!Idle, Holds
<1>3. /\ run'[w] = [at |-> "check", task |-> k]
      /\ \A v \in Workers : v # w => run'[v] = run[v]
  BY <1>1, <1>2
<1>4. Started(k)'
  BY <1>3 DEF Started
<1>5. ASSUME NEW j \in Tasks, j # k
      PROVE  Started(j)' = Started(j)
  <2>1. \A v \in Workers : run'[v].task = j <=> run[v].task = j
    BY <1>2, <1>3, <1>5, PoolAssumption
  <2> QED
    BY <1>2, <2>1 DEF Started
<1> QED
  BY <1>2, <1>3, <1>4, <1>5 DEF ExecInv, PoppedOnce

LEMMA TaskStepKeepsExecInv ==
  ASSUME IInv, ExecInv, NEW w \in Workers, PerformTask(w) \/ RunTask(w) \/ TaskThrows(w),
         UNCHANGED <<m_isRequestStop, job, fate>>
  PROVE  ExecInv'
<1>1. /\ UNCHANGED <<m_queue, m_runningTask>>
      /\ \A v \in Workers : v # w => at'[v] = at[v] /\ wpc'[v] = wpc[v] /\ run'[v] = run[v]
      /\ at'[w] \in {"work", "finishAction"} /\ wpc'[w] \in {"loop", "run"}
  BY TaskWorkerStep
<1>2. StartsInLoop' /\ AddedOnce' /\ CancelsWhenClosed'
  BY <1>1 DEF ExecInv, StartsInLoop, AddedOnce, CancelsWhenClosed, At
<1>3. \A v \in Workers, k \in Tasks : Holds(v, k)' => v # w /\ Holds(v, k)
  BY <1>1 DEF Holds, In
<1>4. CASE RunTask(w) \/ TaskThrows(w)
  <2>1. (\A k \in Tasks : Started(k)' = Started(k)) /\ RunLeavesMark'
    BY <1>4, RunKeepsStarted DEF ExecInv
  <2>2. \A k \in Tasks : Fresh(k)' = Fresh(k)
    BY <2>1 DEF Fresh
  <2>3. QueuedOnce'
    BY <1>1, <2>2 DEF ExecInv, QueuedOnce
  <2>4. PoppedOnce'
    BY <1>1, <1>3, <2>2 DEF ExecInv, PoppedOnce
  <2>5. StartedIsAdded'
    BY <2>1 DEF ExecInv, StartedIsAdded
  <2> QED
    BY <1>2, <2>1, <2>3, <2>4, <2>5 DEF ExecInv
<1>5. CASE PerformTask(w)
  <2>1. PICK k \in Tasks : k = m_runningTask[w]
    BY <1>5 DEF PerformTask
  <2>2. /\ Holds(w, k) /\ Fresh(k)
        /\ run'[w] = [at |-> "check", task |-> k]
        /\ UNCHANGED task_state
        /\ \A j \in Tasks : j # k => Started(j)' = Started(j)
    BY <1>5, <2>1, PerformEffect
  <2>3. \A j \in Tasks : j # k /\ Fresh(j) => Fresh(j)'
    BY <2>2 DEF Fresh
  <2>4. \A n \in 1 .. Len(m_queue) : m_queue[n] # k
    BY <2>2 DEF ExecInv, PoppedOnce
  <2>5. QueuedOnce'
    BY <1>1, <2>3, <2>4 DEF ExecInv, QueuedOnce
  <2>6. \A v \in Workers : v # w => ~ Holds(v, k)
    BY <2>2 DEF ExecInv, PoppedOnce
  <2>7. PoppedOnce'
    BY <1>1, <1>3, <2>3, <2>6 DEF ExecInv, PoppedOnce
  <2>8. StartedIsAdded'
    BY <2>2 DEF ExecInv, StartedIsAdded, Fresh
  <2>9. RunLeavesMark'
    BY <1>1, <2>2 DEF ExecInv, RunLeavesMark
  <2> QED
    BY <1>2, <2>5, <2>7, <2>8, <2>9 DEF ExecInv
<1> QED
  BY <1>4, <1>5

-----------------------------------------------------------------------------
(* The steps of the clients                                                *)

CancelPlaces == {"cancelAsync", "cancelNow", "cancelThread", "join"}

(* Where a call goes, short of a push.                                     *)
LEMMA QuietClientJob ==
  ASSUME IInv, NEW c \in Clients,
         ClientStep(c) \/ Call(c) \/ WakeClientSpuriously(c),
         ~ PushTask(c)
  PROVE  /\ \A d \in Clients : d # c => job'[d] = job[d]
         /\ (UNCHANGED fate /\ ~ At(c, "push")') \/ UNCHANGED <<fate, job>>
              \/ \E k \in Tasks : CallAddTask(c, k)
         /\ job'[c].at \in CancelPlaces => m_isRequestStop' \/ job[c].at \in CancelPlaces
<1>1. /\ job \in [Clients -> JobType]
      /\ \A p, i : Proceed(c, p, i) => job'[c].at = p /\ \A d \in Clients : d # c => job'[d] = job[d]
  BY DEF IInv, TypeOK, JobType, Proceed
<1> USE DEF CancelPlaces, At
<1>2. CASE RequestStop(c)
  <2>1. /\ UNCHANGED fate /\ m_isRequestStop'
        /\ \E p \in {"out", "await", "cancelAsync", "joinThreads", "pushEndTasks"} : Proceed(c, p, 1)
    BY <1>2 DEF RequestStop, AfterStopAsync, IInv, OpInv, StopOps
  <2> QED
    BY <1>1, <2>1
<1>3. CASE PushEndTask(c)
  <2>1. /\ UNCHANGED <<fate, m_isRequestStop>> /\ m_isRequestStop
        /\ \E p \in {"out", "await", "cancelAsync", "joinThreads", "pushEndTasks"} :
             \E i : Proceed(c, p, i)
    BY <1>3 DEF PushEndTask, AfterStopAsync, IInv, OpInv, StopOps, poolVars
  <2> QED
    BY <1>1, <2>1
<1>4. CASE StopBlocks(c) \/ CancelTaskStep(c) \/ WakeClientSpuriously(c)
           \/ \E k \in Tasks : CallCancel(c, k)
  BY <1>4 DEF StopBlocks, CancelTaskStep, WakeClientSpuriously, WakeStopSpuriously, CallCancel
<1>5. CASE StopReturns(c) \/ JoinThread(c)
  <2>1. UNCHANGED fate /\ \E p \in {"out", "joinThreads"} : \E i : Proceed(c, p, i)
    BY <1>5 DEF StopReturns, JoinThread
  <2> QED
    BY <1>1, <2>1
<1>6. CASE CancelEach(c) \/ CancelTaskOfEach(c) \/ CancelThreadOfEach(c) \/ JoinEach(c)
  <2>1. /\ UNCHANGED fate /\ job[c].at \in CancelPlaces
        /\ UNCHANGED job \/ \E p \in CancelPlaces \cup {"out"} : \E i : Proceed(c, p, i)
    BY <1>6 DEF CancelEach, CancelTaskOfEach, CancelThreadOfEach, JoinEach
  <2> QED
    BY <1>1, <2>1
<1>7. ASSUME NEW op \in Ops, CallStop(c, op)
      PROVE  /\ \A d \in Clients : d # c => job'[d] = job[d]
             /\ UNCHANGED fate /\ job'[c].at = "request"
  BY <1>1, <1>7 DEF CallStop
<1>8. ASSUME NEW k \in Tasks, CallAddTask(c, k)
      PROVE  /\ \A d \in Clients : d # c => job'[d] = job[d]
             /\ job'[c].at \in CancelPlaces => job[c].at \in CancelPlaces
  BY <1>1, <1>8 DEF CallAddTask
<1> QED
  BY <1>2, <1>3, <1>4, <1>5, <1>6, <1>7, <1>8 DEF ClientStep, Call

(* A task that is not yet added is nowhere.                                *)
LEMMA AddTaskKeepsExecInv ==
  ASSUME IInv, ExecInv, NEW c \in Clients, NEW k \in Tasks, CallAddTask(c, k)
  PROVE  ExecInv'
<1>1. /\ job \in [Clients -> JobType] /\ fate \in [Tasks -> Fates]
      /\ fate[k] = "new"
      /\ UNCHANGED <<m_queue, m_runningTask, task_state, run, at, wpc, m_isRequestStop>>
      /\ \A j \in Tasks : j # k => fate'[j] = fate[j]
  BY DEF IInv, TypeOK, JobType, CallAddTask, SetFate, workerVars, queueVars, taskVars,
     threadVars, poolVars
<1>2. \A v \in Workers, j \in Tasks : Holds(v, j)' => Holds(v, j)
  BY <1>1 DEF Holds, In
<1>3. \A j \in Tasks : fate[j] \in {"early", "late"} => fate'[j] = fate[j]
  BY <1>1
<1>4. QueuedOnce' /\ PoppedOnce' /\ StartedIsAdded' /\ RunLeavesMark'
  BY <1>1, <1>2, <1>3, QuietKeepsTasks DEF ExecInv
<1>5. StartsInLoop'
  BY <1>1 DEF ExecInv, StartsInLoop
<1>6. \/ /\ fate'[k] = "adding"
         /\ job' = [job EXCEPT ![c] = [op |-> "AddTask", at |-> "push", task |-> k, i |-> 1]]
      \/ UNCHANGED job
  BY <1>1 DEF CallAddTask, SetFate
<1>7. \A d \in Clients : At(d, "push") => job[d].task \in Tasks /\ job[d].task # k
  BY <1>1 DEF ExecInv, AddedOnce, IInv, OpInv
<1>8. AddedOnce'
  <2>1. CASE UNCHANGED job
    <3>1. \A d \in Clients : At(d, "push") => fate'[job[d].task] = fate[job[d].task]
      BY <1>1, <1>7
    <3> QED
      BY <2>1, <3>1 DEF ExecInv, AddedOnce, At
  <2>2. CASE job' = [job EXCEPT ![c] = [op |-> "AddTask", at |-> "push", task |-> k, i |-> 1]]
             /\ fate'[k] = "adding"
    <3>1. /\ job'[c].at = "push" /\ job'[c].task = k
          /\ \A d \in Clients : d # c => job'[d] = job[d]
      BY <1>1, <2>2
    <3>2. \A d \in Clients : d # c /\ job'[d].at = "push" =>
            /\ job'[d].task # k
            /\ fate'[job'[d].task] = "adding"
            /\ \A b \in Clients : b # c /\ job'[b].at = "push" /\ job'[b].task = job'[d].task => b = d
      BY <1>1, <1>7, <3>1 DEF ExecInv, AddedOnce, At
    <3> QED
      BY <2>2, <3>1, <3>2 DEF AddedOnce, At
  <2> QED
    BY <1>6, <2>1, <2>2
<1>9. CancelsWhenClosed'
  BY <1>1, <1>6 DEF ExecInv, CancelsWhenClosed
<1> QED
  BY <1>4, <1>5, <1>8, <1>9 DEF ExecInv

LEMMA PushEffect ==
  ASSUME IInv, ExecInv, NEW c \in Clients, PushTask(c), NEW k \in Tasks, k = job[c].task
  PROVE  /\ m_queue \in Seq(Elems) /\ k \in Elems
         /\ m_queue' = Append(m_queue, k)
         /\ UNCHANGED <<m_runningTask, task_state, run, at, wpc, poolVars>>
         /\ fate[k] = "adding" /\ fate' = [fate EXCEPT ![k] = IF m_isRequestStop THEN "late" ELSE "early"]
         /\ fate'[k] = IF m_isRequestStop THEN "late" ELSE "early"
         /\ \A j \in Tasks : j # k => fate'[j] = fate[j]
         /\ At(c, "push") /\ ~ At(c, "push")' /\ job'[c].at \notin CancelPlaces
         /\ \A d \in Clients : d # c => job'[d] = job[d]
         /\ \A j \in Tasks : Started(j)' = Started(j)
         /\ ~ Started(k)
<1>1. /\ job \in [Clients -> JobType] /\ fate \in [Tasks -> Fates]
      /\ m_queue \in Seq(Elems) /\ k \in Elems
  BY DEF IInv, TypeOK, JobType, Elems
<1>2. /\ m_queue' = Append(m_queue, k)
      /\ UNCHANGED <<m_runningTask, task_state, run, at, wpc, poolVars>>
      /\ fate' = [fate EXCEPT ![k] = IF m_isRequestStop THEN "late" ELSE "early"]
      /\ At(c, "push") /\ Proceed(c, "out", 1)
  BY DEF PushTask, Queue!Push, SetFate, taskVars, threadVars
<1>3. fate[k] = "adding"
  BY <1>2 DEF ExecInv, AddedOnce
<1>4. ~ At(c, "push")' /\ job'[c].at \notin CancelPlaces /\ \A d \in Clients : d # c => job'[d] = job[d]
  BY <1>1, <1>2 DEF Proceed, At, CancelPlaces
<1>5. \A j \in Tasks : Started(j)' = Started(j)
  BY <1>2 DEF Started
<1>6. ~ Started(k)
  BY <1>3 DEF ExecInv, StartedIsAdded
<1> QED
  BY <1>1, <1>2, <1>3, <1>4, <1>5, <1>6

LEMMA PushTaskKeepsExecInv ==
  ASSUME IInv, ExecInv, NEW c \in Clients, PushTask(c)
  PROVE  ExecInv'
<1>1. PICK k \in Tasks : k = job[c].task
  BY DEF PushTask, IInv, OpInv
<1>2. /\ m_queue \in Seq(Elems) /\ k \in Elems
      /\ m_queue' = Append(m_queue, k)
      /\ UNCHANGED <<m_runningTask, task_state, run, at, wpc, poolVars>>
      /\ fate[k] = "adding" /\ fate'[k] \in {"early", "late"}
      /\ \A j \in Tasks : j # k => fate'[j] = fate[j]
      /\ At(c, "push") /\ ~ At(c, "push")' /\ job'[c].at \notin CancelPlaces
      /\ \A d \in Clients : d # c => job'[d] = job[d]
      /\ \A j \in Tasks : Started(j)' = Started(j)
      /\ ~ Started(k)
  BY <1>1, PushEffect
<1>3. /\ ~ Fresh(k)
      /\ \A j \in Tasks : Fresh(j) => Fresh(j)'
      /\ Fresh(k)'
  BY <1>2 DEF Fresh
<1>4. /\ Len(m_queue) \in Nat /\ Len(m_queue') = Len(m_queue) + 1
      /\ \A n \in 1 .. Len(m_queue) : m_queue'[n] = m_queue[n]
      /\ m_queue'[Len(m_queue) + 1] = k
  BY <1>2
<1>5. \A n \in 1 .. Len(m_queue) : m_queue[n] # k
  BY <1>3 DEF ExecInv, QueuedOnce
<1>6. QueuedOnce'
  <2> SUFFICES ASSUME NEW n \in 1 .. Len(m_queue'), m_queue'[n] \in Tasks
               PROVE  /\ Fresh(m_queue[n])'
                      /\ \A m \in 1 .. Len(m_queue') : m_queue'[m] = m_queue'[n] => m = n
    BY DEF QueuedOnce
  <2>1. CASE n = Len(m_queue) + 1
    <3>1. Fresh(m_queue[n])'
      BY <1>3, <1>4, <2>1 DEF Fresh, Started
    <3>2. \A m \in 1 .. Len(m_queue') : m_queue'[m] = k => m = n
      BY <1>4, <1>5, <2>1
    <3> QED
      BY <1>4, <2>1, <3>1, <3>2
  <2>2. CASE n # Len(m_queue) + 1
    <3>1. n \in 1 .. Len(m_queue) /\ m_queue'[n] = m_queue[n]
      BY <1>4, <2>2
    <3>2. PICK j \in Tasks : j = m_queue[n] /\ j = m_queue'[n]
      BY <3>1
    <3>3. Fresh(j) /\ j # k
      BY <1>5, <3>1, <3>2 DEF ExecInv, QueuedOnce
    <3>4. Fresh(m_queue[n])'
      BY <1>3, <3>2, <3>3 DEF Fresh, Started
    <3>5. \A m \in 1 .. Len(m_queue') : m_queue'[m] = j => m = n
      BY <1>4, <3>1, <3>2, <3>3 DEF ExecInv, QueuedOnce
    <3> QED
      BY <3>2, <3>4, <3>5
  <2> QED
    BY <2>1, <2>2
<1>7. PoppedOnce'
  <2>1. \A v \in Workers, j \in Tasks : Holds(v, j)' <=> Holds(v, j)
    BY <1>2 DEF Holds, In
  <2>2. ASSUME NEW v \in Workers, NEW j \in Tasks, Holds(v, j)
        PROVE  /\ Fresh(j)'
               /\ \A n \in 1 .. Len(m_queue') : m_queue'[n] # j
               /\ \A u \in Workers : Holds(u, j) => u = v
    <3>1. /\ Fresh(j) /\ j # k
          /\ \A n \in 1 .. Len(m_queue) : m_queue[n] # j
          /\ \A u \in Workers : Holds(u, j) => u = v
      BY <1>3, <2>2 DEF ExecInv, PoppedOnce
    <3>2. \A n \in 1 .. Len(m_queue') : m_queue'[n] # j
      BY <1>4, <3>1
    <3> QED
      BY <1>3, <3>1, <3>2
  <2> QED
    BY <2>1, <2>2 DEF PoppedOnce
<1>8. AddedOnce'
  <2>1. \A d \in Clients : d # c /\ At(d, "push") => job[d].task \in Tasks /\ job[d].task # k
    BY <1>1, <1>2 DEF ExecInv, AddedOnce, IInv, OpInv
  <2>2. \A d \in Clients : At(d, "push")' => d # c /\ At(d, "push") /\ job'[d] = job[d]
    BY <1>2 DEF At
  <2> QED
    BY <1>2, <2>1, <2>2 DEF ExecInv, AddedOnce, At
<1>9. StartedIsAdded' /\ RunLeavesMark' /\ StartsInLoop'
  BY <1>2 DEF ExecInv, StartedIsAdded, RunLeavesMark, StartsInLoop
<1>10. CancelsWhenClosed'
  BY <1>2 DEF ExecInv, CancelsWhenClosed, CancelPlaces, poolVars
<1> QED
  BY <1>6, <1>7, <1>8, <1>9, <1>10 DEF ExecInv

(* An EndTask is no task of a client.                                      *)
LEMMA OtherClientStepKeepsExecInv ==
  ASSUME IInv, ExecInv, NEW c \in Clients,
         ClientStep(c) \/ Call(c) \/ WakeClientSpuriously(c),
         ~ PushTask(c), \A k \in Tasks : ~ CallAddTask(c, k)
  PROVE  ExecInv'
<1>1. /\ \A d \in Clients : d # c => job'[d] = job[d]
      /\ (UNCHANGED fate /\ ~ At(c, "push")') \/ UNCHANGED <<fate, job>>
      /\ job'[c].at \in CancelPlaces => m_isRequestStop' \/ job[c].at \in CancelPlaces
  BY QuietClientJob
<1>2. /\ UNCHANGED <<m_runningTask, task_state, run, at, wpc>>
      /\ m_isRequestStop => m_isRequestStop'
      /\ UNCHANGED m_queue \/ m_queue' = Append(m_queue, EndTask)
  <2>1. CASE PushEndTask(c)
    BY <2>1 DEF PushEndTask, Queue!Push, queueVars, taskVars, threadVars, poolVars
  <2>2. CASE ~ PushEndTask(c)
    BY <2>2, QuietClientStep
  <2> QED
    BY <2>1, <2>2
<1>3. /\ \A k \in Tasks : Started(k)' = Started(k) /\ Fresh(k)' = Fresh(k)
      /\ \A v \in Workers, k \in Tasks : Holds(v, k)' <=> Holds(v, k)
  BY <1>1, <1>2 DEF Started, Fresh, Holds, In
<1>4. QueuedOnce' /\ PoppedOnce'
  <2>1. CASE UNCHANGED m_queue
    <3>1. QueuedOnce'
      BY <1>3, <2>1 DEF ExecInv, QueuedOnce
    <3>2. PoppedOnce'
      BY <1>3, <2>1 DEF ExecInv, PoppedOnce
    <3> QED
      BY <3>1, <3>2
  <2>2. CASE m_queue' = Append(m_queue, EndTask)
    <3>1. m_queue \in Seq(Elems) /\ EndTask \in Elems
      BY DEF IInv, TypeOK, Elems
    <3>2. /\ Len(m_queue) \in Nat /\ Len(m_queue') = Len(m_queue) + 1
          /\ \A n \in 1 .. Len(m_queue) : m_queue'[n] = m_queue[n]
          /\ m_queue'[Len(m_queue) + 1] = EndTask
      BY <2>2, <3>1
    <3>3. \A n \in 1 .. Len(m_queue') : m_queue'[n] \in Tasks =>
            n \in 1 .. Len(m_queue) /\ m_queue'[n] = m_queue[n]
      BY <3>2, PoolAssumption
    <3>4. QueuedOnce'
      <4> SUFFICES ASSUME NEW n \in 1 .. Len(m_queue'), m_queue'[n] \in Tasks
                   PROVE  /\ Fresh(m_queue[n])'
                          /\ \A m \in 1 .. Len(m_queue') : m_queue'[m] = m_queue'[n] => m = n
        BY DEF QueuedOnce
      <4>1. n \in 1 .. Len(m_queue) /\ m_queue'[n] = m_queue[n]
        BY <3>3
      <4>2. PICK k \in Tasks : k = m_queue[n] /\ k = m_queue'[n]
        BY <4>1
      <4>3. Fresh(k)'
        BY <1>3, <4>1, <4>2 DEF ExecInv, QueuedOnce
      <4>4. Fresh(m_queue[n])'
        BY <4>2, <4>3 DEF Fresh, Started
      <4>5. \A m \in 1 .. Len(m_queue') : m_queue'[m] = m_queue'[n] => m = n
        BY <3>3, <4>1, <4>2 DEF ExecInv, QueuedOnce
      <4> QED
        BY <4>4, <4>5
    <3>5. \A k \in Tasks : (\A n \in 1 .. Len(m_queue) : m_queue[n] # k) =>
            \A n \in 1 .. Len(m_queue') : m_queue'[n] # k
      BY <3>3
    <3>6. PoppedOnce'
      BY <1>3, <3>5 DEF ExecInv, PoppedOnce
    <3> QED
      BY <3>4, <3>6
  <2> QED
    BY <1>2, <2>1, <2>2
<1>5. StartedIsAdded' /\ RunLeavesMark' /\ StartsInLoop'
  <2>1. StartedIsAdded'
    BY <1>1, <1>3 DEF ExecInv, StartedIsAdded
  <2> QED
    BY <1>2, <2>1 DEF ExecInv, RunLeavesMark, StartsInLoop
<1>6. AddedOnce'
  <2>1. \A d \in Clients : At(d, "push")' => At(d, "push") /\ job'[d] = job[d]
    BY <1>1 DEF At
  <2> QED
    BY <1>1, <2>1 DEF ExecInv, AddedOnce, At
<1>7. CancelsWhenClosed'
  BY <1>1, <1>2 DEF ExecInv, CancelsWhenClosed, CancelPlaces
<1> QED
  BY <1>4, <1>5, <1>6, <1>7 DEF ExecInv

LEMMA NextKeepsExecInv == IInv /\ ExecInv /\ [Next]_vars => ExecInv'
<1> SUFFICES ASSUME IInv, ExecInv, [Next]_vars
             PROVE  ExecInv'
  OBVIOUS
<1>1. ASSUME NEW w \in Workers, PoolWorkerStep(w)
      PROVE  ExecInv'
  <2>1. CASE CountStopped(w) \/ SetPoolFinished(w)
    <3>1. UNCHANGED <<m_isRequestStop, job, fate>>
      BY <2>1 DEF CountStopped, SetPoolFinished
    <3> QED
      BY <2>1, <3>1, QuietWorkerKeepsExecInv
  <2>2. CASE WorkerStep(w) /\ UNCHANGED <<poolVars, job, fate>>
    <3>1. UNCHANGED <<m_isRequestStop, job, fate>>
      BY <2>2 DEF poolVars
    <3> QED
      BY <2>2, <3>1, QuietWorkerKeepsExecInv, PopKeepsExecInv, TaskStepKeepsExecInv DEF WorkerStep
  <2> QED
    BY <1>1, <2>1, <2>2 DEF PoolWorkerStep
<1>2. CASE UNCHANGED <<m_queue, m_runningTask, task_state, run, at, wpc, m_isRequestStop, job, fate>>
  <2>1. \A v \in Workers, k \in Tasks : Holds(v, k)' => Holds(v, k)
    BY <1>2 DEF Holds, In
  <2>2. QueuedOnce' /\ PoppedOnce' /\ StartedIsAdded' /\ RunLeavesMark'
    BY <1>2, <2>1, QuietKeepsTasks DEF ExecInv
  <2> QED
    BY <1>2, <2>2 DEF ExecInv, AddedOnce, CancelsWhenClosed, StartsInLoop, At
<1>3. ASSUME NEW w \in Workers, WakeWorkerSpuriously(w) /\ UNCHANGED <<poolVars, job, fate>>
      PROVE  ExecInv'
  BY <1>2, <1>3 DEF WakeWorkerSpuriously, Queue!WakeSpuriously, taskVars, threadVars, poolVars
<1>4. CASE UNCHANGED vars
  BY <1>2, <1>4 DEF vars, workerVars, queueVars, taskVars, threadVars, poolVars
<1>5. ASSUME NEW c \in Clients, ClientStep(c) \/ Call(c) \/ WakeClientSpuriously(c)
      PROVE  ExecInv'
  BY <1>5, PushTaskKeepsExecInv, AddTaskKeepsExecInv, OtherClientStepKeepsExecInv
<1> QED
  BY <1>1, <1>3, <1>4, <1>5 DEF Next

-----------------------------------------------------------------------------
(* Every step is a step of Executor or leaves its state alone.             *)

LEMMA ExecStutter ==
  ASSUME \A k \in Tasks : TaskStatus(k)' = TaskStatus(k),
         \A w \in Workers : run'[w].task = run[w].task,
         UNCHANGED <<m_isRequestStop, m_state>>,
         Forced' <=> Forced
  PROVE  UNCHANGED Exec!vars
<1>1. UNCHANGED [k \in Tasks |-> TaskStatus(k)] /\ UNCHANGED [w \in Workers |-> run[w].task]
  OBVIOUS
<1>2. UNCHANGED Forced
  BY DEF Forced
<1> QED
  BY <1>1, <1>2 DEF Exec!vars

(* A worker that leaves early without an exception was asked to cancel.    *)
LEMMA QuietWorkerForced ==
  ASSUME IInv, NEW w \in Workers,
         \/ ThreadFunction(w) \/ CheckRequest(w) \/ LockRunningTask(w) \/ PopBlocks(w)
         \/ DropTask(w) \/ PerformEndTask(w) \/ CountStopped(w) \/ SetPoolFinished(w)
  PROVE  Forced' <=> Forced
<1>1. /\ UNCHANGED m_runningTask
      /\ \A v \in Workers : LeftEarly(v) => LeftEarly(v)'
      /\ \A v \in Workers : v # w => at'[v] = at[v]
  BY QuietWorkerStep
<1>2. /\ UNCHANGED thread_isRequestCancel
      /\ at \in [Workers -> Thread!Places]
  BY DEF ThreadFunction, CheckRequest, LockRunningTask, PopBlocks, DropTask, PerformEndTask,
     CountStopped, SetPoolFinished, Thread!SetRunning, Thread!CheckCancellation,
     Thread!NotifyFinished, Thread!WorkPolls, Thread!WorkEnds, Thread!FinishAction,
     threadVars, IInv, TypeOK, Thread!TypeOK
<1>3. LeftEarly(w)' => LeftEarly(w) \/ thread_isRequestCancel[w]
  <2>1. \/ at'[w] \notin {"finishAction", "notifyFinished", "exited"}
        \/ at[w] \in {"finishAction", "notifyFinished", "exited"}
        \/ m_runningTask[w] = EndTask
        \/ thread_isRequestCancel[w]
    <3>1. CASE ThreadFunction(w)
      BY <1>2, <3>1 DEF ThreadFunction, Thread!SetRunning, Thread!CheckCancellation,
         Thread!NotifyFinished, Thread!Go
    <3>2. CASE CheckRequest(w) \/ DropTask(w)
      BY <1>2, <3>2 DEF CheckRequest, DropTask, Thread!WorkPolls
    <3>3. CASE LockRunningTask(w) \/ PopBlocks(w)
      BY <3>3 DEF LockRunningTask, PopBlocks, In, threadVars
    <3>4. CASE PerformEndTask(w) \/ CountStopped(w) \/ SetPoolFinished(w)
      BY <3>4 DEF PerformEndTask, CountStopped, SetPoolFinished
    <3> QED
      BY <3>1, <3>2, <3>3, <3>4
  <2> QED
    BY <1>1, <2>1 DEF LeftEarly
<1>4. \A v \in Workers : v # w => (LeftEarly(v)' <=> LeftEarly(v))
  BY <1>1 DEF LeftEarly
<1> QED
  BY <1>1, <1>2, <1>3, <1>4 DEF Forced

(* The last worker out has seen the others out, and with them their tasks. *)
LEMMA FinishRetires ==
  ASSUME IInv, DrainInv, NEW w \in Workers, SetPoolFinished(w)
  PROVE  Exec!Retire
<1>1. /\ UNCHANGED <<m_queue, m_runningTask, task_state, run, m_isRequestStop, fate>>
      /\ m_state' = "FINISHED"
      /\ LastOut(w)
  BY QuietWorkerStep DEF SetPoolFinished, LastOut
<1>2. \A v \in Workers : LastOut(v) \/ PastFinish(v)
  <2>1. Counted = Workers
    <3>1. IsFiniteSet(Workers) /\ Cardinality(Workers) = threadNum
      BY PoolAssumption, FS_Interval
    <3>2. Cardinality(Counted) = threadNum /\ Counted \subseteq Workers
      BY <1>1 DEF IInv, CountInv, Counted
    <3> QED
      BY <3>1, <3>2, FS_Subset
  <2> QED
    BY <2>1 DEF Counted
<1>3. \A v \in Workers : at[v] \in {"finishAction", "notifyFinished", "exited"}
  BY <1>2 DEF LastOut, PastFinish
<1>4. /\ Task!Idle.task = NoTask /\ Task!Idle.at = "idle"
      /\ \A v \in Workers : run[v] = Task!Idle
  <2>1. \A v \in Workers : ~ In(v, "run")
    BY <1>3 DEF In
  <2> QED
    BY <2>1 DEF IInv, RunsAtWork, Task!Idle
<1>5. ASSUME ~ Forced
      PROVE  m_isRequestStop /\ \A k \in Tasks : TaskStatus(k) # "early"
  <2>1. \A v \in Workers : m_runningTask[v] = EndTask /\ ~ LeftEarly(v)
    BY <1>3, <1>5 DEF Forced, LeftEarly
  <2>2. m_isRequestStop
    BY <2>1 DEF DrainInv, NoEndTaskYet
  <2>3. ASSUME NEW k \in Tasks, TaskStatus(k) = "early"
        PROVE  FALSE
    <3>1. fate[k] = "early" /\ ~ Started(k)
      BY <2>3 DEF TaskStatus
    <3>2. Accounted(k)
      BY <3>1 DEF DrainInv, EarlyInv
    <3>3. ~ Ahead(k)
      BY <2>1 DEF Ahead
    <3>4. \A v \in Workers : ~ InHand(v, k)
      BY <1>3, <1>4 DEF InHand, In
    <3> QED
      BY <2>1, <3>1, <3>2, <3>3, <3>4 DEF Accounted, Task!IsStopState, Started
  <2> QED
    BY <2>2, <2>3
<1>6. \A k \in Tasks : TaskStatus(k)' = TaskStatus(k)
  BY <1>1 DEF TaskStatus, Started
<1>7. Forced' <=> Forced
  BY QuietWorkerForced
<1>8. UNCHANGED <<[k \in Tasks |-> TaskStatus(k)], [v \in Workers |-> run[v].task], Forced>>
  BY <1>1, <1>6, <1>7 DEF Forced
<1>9. /\ \A v \in Workers : [u \in Workers |-> run[u].task][v] = NoTask
      /\ Forced \/ (m_isRequestStop
                      /\ \A k \in Tasks : [j \in Tasks |-> TaskStatus(j)][k] # "early")
  BY <1>4, <1>5
<1> QED
  BY <1>1, <1>8, <1>9 DEF Exec!Retire

LEMMA PopIsHidden ==
  ASSUME IInv, NEW w \in Workers, PopTask(w), UNCHANGED <<poolVars, fate>>
  PROVE  UNCHANGED Exec!vars
<1>1. /\ at[w] = "work" /\ UNCHANGED <<task_state, run, at, thread_isRequestCancel>>
      /\ \A v \in Workers : v # w => m_runningTask'[v] = m_runningTask[v]
  BY PopEffect DEF PopTask, In, threadVars
<1>2. \A v \in Workers : LeftEarly(v)' <=> LeftEarly(v)
  BY <1>1 DEF LeftEarly
<1>3. Forced' <=> Forced
  BY <1>1, <1>2 DEF Forced
<1>4. \A k \in Tasks : TaskStatus(k)' = TaskStatus(k)
  BY <1>1 DEF TaskStatus, Started
<1> QED
  BY <1>1, <1>3, <1>4, ExecStutter DEF poolVars

LEMMA PerformStarts ==
  ASSUME IInv, ExecInv, NEW w \in Workers, PerformTask(w), UNCHANGED <<poolVars, fate>>
  PROVE  \E k \in Tasks : Exec!Start(w, k)
<1>1. PICK k \in Tasks : k = m_runningTask[w]
  BY DEF PerformTask
<1>2. /\ Holds(w, k) /\ Fresh(k) /\ run[w].task = NoTask
      /\ run' = [run EXCEPT ![w] = [at |-> "check", task |-> k]]
      /\ run'[w] = [at |-> "check", task |-> k]
      /\ Started(k)'
      /\ \A j \in Tasks : j # k => Started(j)' = Started(j)
  BY <1>1, PerformEffect
<1>3. m_state # "FINISHED"
  BY <1>2 DEF IInv, CountInv, PastFinish, Holds, In
<1>4. Forced' <=> Forced
  <2>1. UNCHANGED <<at, m_runningTask, thread_isRequestCancel>>
    BY DEF PerformTask, threadVars
  <2> QED
    BY <2>1 DEF Forced, LeftEarly
<1>5. /\ TaskStatus(k) \in {"early", "late"} /\ TaskStatus(k)' = "started"
      /\ \A j \in Tasks : j # k => TaskStatus(j)' = TaskStatus(j)
  BY <1>2 DEF TaskStatus, Fresh
<1>6. [j \in Tasks |-> TaskStatus(j)]'
        = [[j \in Tasks |-> TaskStatus(j)] EXCEPT ![k] = "started"]
  BY <1>5
<1>7. [v \in Workers |-> run[v].task]' = [[v \in Workers |-> run[v].task] EXCEPT ![w] = k]
  <2>1. \A v \in Workers : v # w => run'[v] = run[v]
    BY <1>2 DEF IInv, TypeOK, Task!TypeOK
  <2>2. \A v \in Workers : run'[v].task = IF v = w THEN k ELSE run[v].task
    BY <1>2, <2>1
  <2> QED
    BY <2>2
<1>8. UNCHANGED <<m_isRequestStop, Forced, m_state = "FINISHED">>
  BY <1>4 DEF Forced, poolVars
<1>9. /\ [v \in Workers |-> run[v].task][w] = NoTask
      /\ [j \in Tasks |-> TaskStatus(j)][k] \in {"early", "late"}
  BY <1>2, <1>5
<1>10. Exec!Start(w, k)
  BY <1>3, <1>6, <1>7, <1>8, <1>9 DEF Exec!Start, Exec!SetStatus
<1> QED
  BY <1>10

LEMMA RunEndsOrGoesOn ==
  ASSUME IInv, DrainInv, ExecInv, NEW w \in Workers, RunTask(w) \/ TaskThrows(w),
         UNCHANGED <<poolVars, fate>>
  PROVE  Exec!End(w) \/ Exec!Throw(w) \/ UNCHANGED Exec!vars
<1>1. /\ \A k \in Tasks : Started(k)' = Started(k)
      /\ run[w].task \in Tasks
      /\ run'[w] = Task!Idle \/ (RunTask(w) /\ run'[w].task = run[w].task)
  BY RunKeepsStarted DEF ExecInv
<1>2. /\ UNCHANGED m_runningTask
      /\ \A v \in Workers : v # w => at'[v] = at[v] /\ run'[v] = run[v]
      /\ \A v \in Workers : LeftEarly(v) => LeftEarly(v)'
  BY TaskWorkerStep
<1>3. \A k \in Tasks : TaskStatus(k)' = TaskStatus(k)
  BY <1>1 DEF TaskStatus
<1>4. UNCHANGED <<[k \in Tasks |-> TaskStatus(k)], m_isRequestStop, m_state = "FINISHED">>
  BY <1>3 DEF poolVars
<1>5. ASSUME run'[w] = Task!Idle
      PROVE  /\ [v \in Workers |-> run[v].task][w] # NoTask
             /\ [v \in Workers |-> run[v].task]'
                  = [[v \in Workers |-> run[v].task] EXCEPT ![w] = NoTask]
  <2>1. run'[w].task = NoTask /\ run[w].task # NoTask
    BY <1>1, <1>5, PoolAssumption DEF Task!Idle
  <2>2. \A v \in Workers : run'[v].task = IF v = w THEN NoTask ELSE run[v].task
    BY <1>2, <2>1
  <2> QED
    BY <2>1, <2>2
<1>6. CASE RunTask(w)
  <2>1. UNCHANGED <<at, thread_isRequestCancel>>
    BY <1>6 DEF RunTask, threadVars
  <2>2. UNCHANGED Forced
    BY <1>2, <2>1 DEF Forced, LeftEarly
  <2>3. CASE run'[w] = Task!Idle
    <3>1. Exec!End(w)
      BY <1>4, <1>5, <2>2, <2>3 DEF Exec!End
    <3> QED
      BY <3>1
  <2>4. CASE run'[w].task = run[w].task
    BY <1>2, <1>3, <2>2, <2>4, ExecStutter DEF poolVars
  <2> QED
    BY <1>1, <2>3, <2>4
<1>7. CASE TaskThrows(w)
  <2>1. MayThrow /\ run[w] # Task!Idle /\ at'[w] = "finishAction" /\ run'[w] = Task!Idle
    BY <1>7 DEF TaskThrows, Task!DoRunThrows, Thread!WorkEnds, Thread!Go, Task!Idle, IInv,
       TypeOK, Thread!TypeOK, Task!TypeOK
  <2>2. m_runningTask[w] # EndTask
    BY <1>1, <2>1, PoolAssumption DEF DrainInv, RunsWhatItPopped
  <2>3. Forced' = TRUE
    BY <1>2, <2>1, <2>2 DEF Forced, LeftEarly
  <2>4. Exec!Throw(w)
    BY <1>4, <1>5, <2>1, <2>3 DEF Exec!Throw
  <2> QED
    BY <2>4
<1> QED
  BY <1>6, <1>7

LEMMA PushAccepts ==
  ASSUME IInv, ExecInv, NEW c \in Clients, PushTask(c)
  PROVE  \E k \in Tasks : Exec!Accept(k)
<1>1. PICK k \in Tasks : k = job[c].task
  BY DEF PushTask, IInv, OpInv
<1>2. /\ UNCHANGED <<m_runningTask, task_state, run, at, wpc, poolVars>>
      /\ fate[k] = "adding"
      /\ fate'[k] = IF m_isRequestStop THEN "late" ELSE "early"
      /\ \A j \in Tasks : j # k => fate'[j] = fate[j]
      /\ \A j \in Tasks : Started(j)' = Started(j)
      /\ ~ Started(k)
  BY <1>1, PushEffect
<1>3. /\ TaskStatus(k) = "new"
      /\ TaskStatus(k)' = IF m_isRequestStop THEN "late" ELSE "early"
      /\ \A j \in Tasks : j # k => TaskStatus(j)' = TaskStatus(j)
  BY <1>2 DEF TaskStatus
<1>4. [j \in Tasks |-> TaskStatus(j)]'
        = [[j \in Tasks |-> TaskStatus(j)]
             EXCEPT ![k] = IF m_isRequestStop THEN "late" ELSE "early"]
  BY <1>3
<1>5. UNCHANGED <<[v \in Workers |-> run[v].task], m_isRequestStop, m_state = "FINISHED", Forced>>
  <2>1. UNCHANGED thread_isRequestCancel
    BY DEF PushTask, threadVars
  <2> QED
    BY <1>2, <2>1 DEF Forced, LeftEarly, poolVars
<1>6. [j \in Tasks |-> TaskStatus(j)][k] \in {"new"}
  BY <1>3
<1>7. Exec!Accept(k)
  BY <1>4, <1>5, <1>6 DEF Exec!Accept, Exec!SetStatus
<1> QED
  BY <1>7

LEMMA AddTaskRejects ==
  ASSUME IInv, ExecInv, NEW c \in Clients, NEW k \in Tasks, CallAddTask(c, k)
  PROVE  Exec!Reject(k) \/ UNCHANGED Exec!vars
<1>1. /\ fate \in [Tasks -> Fates] /\ fate[k] = "new"
      /\ UNCHANGED <<task_state, run, at, m_runningTask, thread_isRequestCancel,
                     m_isRequestStop, m_state>>
  BY DEF IInv, TypeOK, CallAddTask, workerVars, taskVars, threadVars, poolVars
<1>2. \A j \in Tasks : Started(j)' = Started(j)
  BY <1>1 DEF Started
<1>3. ~ Started(k)
  BY <1>1 DEF ExecInv, StartedIsAdded
<1>4. UNCHANGED <<[v \in Workers |-> run[v].task], m_isRequestStop, m_state = "FINISHED", Forced>>
  BY <1>1 DEF Forced, LeftEarly
<1>5. CASE m_isRequestStop
  <2>1. fate'[k] = "rejected" /\ \A j \in Tasks : j # k => fate'[j] = fate[j]
    BY <1>1, <1>5 DEF CallAddTask, SetFate
  <2>2. /\ TaskStatus(k) = "new" /\ TaskStatus(k)' = "rejected"
        /\ \A j \in Tasks : j # k => TaskStatus(j)' = TaskStatus(j)
    BY <1>1, <1>2, <1>3, <2>1 DEF TaskStatus
  <2>3. [j \in Tasks |-> TaskStatus(j)]'
          = [[j \in Tasks |-> TaskStatus(j)] EXCEPT ![k] = "rejected"]
    BY <2>2
  <2>4. [j \in Tasks |-> TaskStatus(j)][k] \in {"new"}
    BY <2>2
  <2>5. Exec!Reject(k)
    BY <1>4, <1>5, <2>3, <2>4 DEF Exec!Reject, Exec!SetStatus
  <2> QED
    BY <2>5
<1>6. CASE ~ m_isRequestStop
  <2>1. fate'[k] = "adding" /\ \A j \in Tasks : j # k => fate'[j] = fate[j]
    BY <1>1, <1>6 DEF CallAddTask, SetFate
  <2>2. \A j \in Tasks : TaskStatus(j)' = TaskStatus(j)
    BY <1>1, <1>2, <1>3, <2>1 DEF TaskStatus
  <2>3. Forced' <=> Forced
    BY <1>4
  <2> QED
    BY <1>1, <2>2, <2>3, ExecStutter
<1> QED
  BY <1>5, <1>6

(* StopNow() forces the pool, which is closed by then.                     *)
LEMMA CancelForces ==
  ASSUME IInv, ExecInv, NEW c \in Clients, CancelEach(c) \/ CancelThreadOfEach(c)
  PROVE  Exec!Force \/ UNCHANGED Exec!vars
<1>1. /\ UNCHANGED <<task_state, run, at, m_runningTask, m_isRequestStop, m_state, fate>>
      /\ m_isRequestStop = TRUE
      /\ thread_isRequestCancel \in [Workers -> BOOLEAN]
      /\ job \in [Clients -> JobType]
  BY DEF CancelEach, CancelThreadOfEach, CancelAsync, Cancel, Thread!CancelAsync, Thread!Cancel,
     workerVars, taskVars, threadVars, poolVars, At, ExecInv, CancelsWhenClosed, IInv, TypeOK,
     Thread!TypeOK, JobType
<1>2. \A j \in Tasks : TaskStatus(j)' = TaskStatus(j)
  BY <1>1 DEF TaskStatus, Started
<1>3. UNCHANGED <<[j \in Tasks |-> TaskStatus(j)], [v \in Workers |-> run[v].task],
                  m_isRequestStop, m_state = "FINISHED">>
  BY <1>1, <1>2
<1>4. CASE UNCHANGED thread_isRequestCancel
  <2>1. Forced' <=> Forced
    BY <1>1, <1>4 DEF Forced, LeftEarly
  <2> QED
    BY <1>1, <1>2, <2>1, ExecStutter
<1>5. CASE ~ UNCHANGED thread_isRequestCancel
  <2>1. \E w \in Workers : thread_isRequestCancel'[w] = TRUE
    <3>1. PICK w : /\ w \in Workers
                   /\ thread_isRequestCancel' = [thread_isRequestCancel EXCEPT ![w] = TRUE]
      <4>1. CASE CancelThreadOfEach(c)
        BY <4>1 DEF CancelThreadOfEach, Cancel, Thread!Cancel, Thread!CancelAsync, IInv, OpInv, At
      <4>2. CASE CancelEach(c)
        <5>1. job[c].i \in 1 .. threadNum
          BY <1>1, <1>5, <4>2, PoolAssumption DEF CancelEach, JobType, workerVars, threadVars
        <5> QED
          BY <1>5, <4>2, <5>1, PoolAssumption DEF CancelEach, CancelAsync, Thread!CancelAsync,
             workerVars, threadVars
      <4> QED
        BY <4>1, <4>2
    <3> QED
      BY <1>1, <3>1
  <2>2. Forced' = TRUE
    BY <2>1 DEF Forced
  <2>3. Exec!Force
    BY <1>1, <1>3, <2>2 DEF Exec!Force
  <2> QED
    BY <2>3
<1> QED
  BY <1>4, <1>5

LEMMA OtherClientStepIsHidden ==
  ASSUME IInv, ExecInv, NEW c \in Clients,
         ClientStep(c) \/ Call(c) \/ WakeClientSpuriously(c),
         ~ PushTask(c), ~ CancelEach(c), ~ CancelThreadOfEach(c),
         \A k \in Tasks : ~ CallAddTask(c, k)
  PROVE  Exec!Close \/ UNCHANGED Exec!vars
<1>1. UNCHANGED <<task_state, run, at, m_runningTask>>
  <2>1. CASE PushEndTask(c)
    BY <2>1 DEF PushEndTask, taskVars, threadVars
  <2>2. CASE ~ PushEndTask(c)
    BY <2>2, QuietClientStep
  <2> QED
    BY <2>1, <2>2
<1>2. UNCHANGED <<fate, m_state, thread_isRequestCancel>>
  <2>1. UNCHANGED <<fate, m_state>>
    <3>1. UNCHANGED fate
      BY QuietClientJob
    <3>2. UNCHANGED m_state
      BY DEF ClientStep, Call, CallStop, CallCancel, WakeClientSpuriously, WakeStopSpuriously,
         RequestStop, PushEndTask, StopBlocks, StopReturns, CancelTaskOfEach, JoinEach,
         JoinThread, CancelTaskStep, poolVars
    <3> QED
      BY <3>1, <3>2
  <2>2. UNCHANGED thread_isRequestCancel
    BY DEF ClientStep, Call, CallStop, CallCancel, WakeClientSpuriously, WakeStopSpuriously,
       RequestStop, PushEndTask, StopBlocks, StopReturns, CancelTaskOfEach, JoinEach,
       JoinThread, CancelTaskStep, CancelRunningTask, CancelStep, Thread!CancelStep,
       Thread!CancelBlocks, Thread!CancelReturns, Thread!WakeSpuriously, workerVars, threadVars
  <2> QED
    BY <2>1, <2>2
<1>3. \A j \in Tasks : TaskStatus(j)' = TaskStatus(j)
  BY <1>1, <1>2 DEF TaskStatus, Started
<1>4. Forced' <=> Forced
  BY <1>1, <1>2 DEF Forced, LeftEarly
<1>5. CASE RequestStop(c)
  <2>1. m_isRequestStop' = TRUE
    BY <1>5 DEF RequestStop
  <2>2. UNCHANGED <<[j \in Tasks |-> TaskStatus(j)], [v \in Workers |-> run[v].task],
                    m_state = "FINISHED", Forced>>
    BY <1>1, <1>2, <1>3, <1>4 DEF Forced
  <2>3. Exec!Close
    BY <2>1, <2>2 DEF Exec!Close
  <2> QED
    BY <2>3
<1>6. CASE ~ RequestStop(c)
  <2>1. UNCHANGED m_isRequestStop
    <3>1. CASE PushEndTask(c)
      BY <3>1 DEF PushEndTask, poolVars
    <3>2. CASE ~ PushEndTask(c)
      BY <1>6, <3>2, QuietClientStep
    <3> QED
      BY <3>1, <3>2
  <2> QED
    BY <1>1, <1>2, <1>3, <1>4, <2>1, ExecStutter
<1> QED
  BY <1>5, <1>6

LEMMA InitIsExecInit == Init => Exec!Init
<1> SUFFICES ASSUME Init PROVE Exec!Init
  OBVIOUS
<1>1. /\ \A w \in Workers : run[w].task = NoTask
      /\ \A w \in Workers : at[w] = "start" /\ thread_isRequestCancel[w] = FALSE
      /\ \A k \in Tasks : fate[k] = "new" /\ task_state[k] = "INIT"
      /\ m_isRequestStop = FALSE /\ m_state # "FINISHED"
  BY DEF Init, WorkerInit, Task!Init, Task!Idle, Thread!Init
<1>2. \A k \in Tasks : TaskStatus(k) = "new"
  BY <1>1, PoolAssumption DEF TaskStatus, Started
<1>3. Forced = FALSE
  BY <1>1 DEF Forced, LeftEarly
<1> QED
  BY <1>1, <1>2, <1>3 DEF Exec!Init

LEMMA StepIsExecStep ==
  IInv /\ DrainInv /\ ExecInv /\ [Next]_vars => [Exec!Next]_Exec!vars
<1> SUFFICES ASSUME IInv, DrainInv, ExecInv, [Next]_vars
             PROVE  Exec!Next \/ UNCHANGED Exec!vars
  OBVIOUS
<1>1. ASSUME NEW w \in Workers, PoolWorkerStep(w)
      PROVE  Exec!Next \/ UNCHANGED Exec!vars
  <2>1. CASE SetPoolFinished(w)
    BY <2>1, FinishRetires DEF Exec!Next
  <2>2. CASE \/ CountStopped(w)
             \/ /\ ThreadFunction(w) \/ CheckRequest(w) \/ LockRunningTask(w) \/ PopBlocks(w)
                     \/ DropTask(w) \/ PerformEndTask(w)
                /\ UNCHANGED <<poolVars, job, fate>>
    <3>1. UNCHANGED <<task_state, run, m_isRequestStop, m_state, fate>>
      BY <2>2, QuietWorkerStep DEF CountStopped, poolVars
    <3>2. \A k \in Tasks : TaskStatus(k)' = TaskStatus(k)
      BY <3>1 DEF TaskStatus, Started
    <3>3. Forced' <=> Forced
      BY <2>2, QuietWorkerForced
    <3> QED
      BY <3>1, <3>2, <3>3, ExecStutter
  <2>3. CASE PopTask(w) /\ UNCHANGED <<poolVars, job, fate>>
    BY <2>3, PopIsHidden
  <2>4. CASE PerformTask(w) /\ UNCHANGED <<poolVars, job, fate>>
    BY <2>4, PerformStarts DEF Exec!Next
  <2>5. CASE (RunTask(w) \/ TaskThrows(w)) /\ UNCHANGED <<poolVars, job, fate>>
    BY <2>5, RunEndsOrGoesOn DEF Exec!Next
  <2> QED
    BY <1>1, <2>1, <2>2, <2>3, <2>4, <2>5 DEF PoolWorkerStep, WorkerStep
<1>2. CASE UNCHANGED <<task_state, run, at, m_runningTask, thread_isRequestCancel,
                       m_isRequestStop, m_state, fate>>
  <2>1. (\A k \in Tasks : TaskStatus(k)' = TaskStatus(k)) /\ (Forced' <=> Forced)
    BY <1>2 DEF TaskStatus, Started, Forced, LeftEarly
  <2> QED
    BY <1>2, <2>1, ExecStutter
<1>3. ASSUME NEW w \in Workers, WakeWorkerSpuriously(w) /\ UNCHANGED <<poolVars, job, fate>>
      PROVE  Exec!Next \/ UNCHANGED Exec!vars
  BY <1>2, <1>3 DEF WakeWorkerSpuriously, taskVars, threadVars, poolVars
<1>4. CASE UNCHANGED vars
  BY <1>2, <1>4 DEF vars, workerVars, taskVars, threadVars, poolVars
<1>5. ASSUME NEW c \in Clients, ClientStep(c) \/ Call(c) \/ WakeClientSpuriously(c)
      PROVE  Exec!Next \/ UNCHANGED Exec!vars
  <2>1. CASE PushTask(c)
    BY <2>1, PushAccepts DEF Exec!Next
  <2>2. ASSUME NEW k \in Tasks, CallAddTask(c, k)
        PROVE  Exec!Next \/ UNCHANGED Exec!vars
    BY <2>2, AddTaskRejects DEF Exec!Next
  <2>3. CASE CancelEach(c) \/ CancelThreadOfEach(c)
    BY <2>3, CancelForces DEF Exec!Next
  <2>4. CASE /\ ~ PushTask(c) /\ ~ CancelEach(c) /\ ~ CancelThreadOfEach(c)
             /\ \A k \in Tasks : ~ CallAddTask(c, k)
    BY <1>5, <2>4, OtherClientStepIsHidden DEF Exec!Next
  <2> QED
    BY <2>1, <2>2, <2>3, <2>4
<1> QED
  BY <1>1, <1>3, <1>4, <1>5 DEF Next

(* Every step of the pool is a step of Executor or changes nothing that a  *)
(* client can see: no task is run twice or after its rejection, none is    *)
(* rejected before the stop, and the pool is FINISHED only with nothing    *)
(* running and, short of a StopNow() or an exception, no early task left   *)
(* (FixedThreadPool.h:179-207, 243-276, WorkerThread.cpp:93-126).          *)
THEOREM PoolIsAnExecutor == Spec => ImplementsExecutor
<1>1. Init /\ [][Next]_vars => []ExecInv
  <2>1. Init /\ [][Next]_vars => []IInv
    BY InitIInv, NextKeepsIInv, PTL
  <2> QED
    BY <2>1, InitExecInv, NextKeepsExecInv, PTL
<1>2. Init /\ [][Next]_vars => [](IInv /\ DrainInv)
  BY InitIInv, NextKeepsIInv, InitDrainInv, NextKeepsDrainInv, PTL
<1> QED
  BY <1>1, <1>2, InitIsExecInit, StepIsExecStep, PTL DEF Spec, ImplementsExecutor, Exec!SafeSpec

-----------------------------------------------------------------------------
(* The workers are CancelableThreads: what is proved of those holds of the *)
(* pool, whose steps are steps of CancelableThread or leave it alone.      *)

Cancelable == INSTANCE CancelableThreadProofs WITH
  Threads <- Workers, Cancellers <- Clients, NoThread <- NoWorker,
  m_state <- thread_state, m_isRequestCancel <- thread_isRequestCancel,
  m_stateGuard <- thread_stateGuard, cancel <- thread_cancel

LEMMA WorkerStepIsThreadStep ==
  ASSUME NEW w \in Workers, PoolWorkerStep(w)
  PROVE  Thread!ThreadStep(w) \/ UNCHANGED threadVars
BY DEF PoolWorkerStep, WorkerStep, ThreadFunction, CheckRequest, LockRunningTask, PopBlocks,
   PopTask, DropTask, PerformEndTask, PerformTask, RunTask, TaskThrows, CountStopped,
   SetPoolFinished, Thread!ThreadStep

LEMMA ClientStepIsThreadStep ==
  ASSUME IInv, NEW c \in Clients, ClientStep(c) \/ Call(c) \/ WakeClientSpuriously(c)
  PROVE  \/ Thread!CancelStep(c)
         \/ Thread!WakeSpuriously(c)
         \/ \E w \in Workers : Thread!Cancel(c, w)
         \/ \E w \in Workers : Thread!CancelAsync(w) /\ UNCHANGED thread_cancel
         \/ UNCHANGED threadVars
<1>1. CASE CancelEach(c)
  <2>1. CASE job[c].i <= threadNum
    <3>1. job[c].i \in Workers
      BY <2>1, PoolAssumption DEF IInv, TypeOK
    <3> QED
      BY <1>1, <2>1, <3>1 DEF CancelEach, CancelAsync
  <2> QED
    BY <1>1, <2>1 DEF CancelEach, workerVars
<1>2. CASE CancelThreadOfEach(c)
  BY <1>2 DEF CancelThreadOfEach, Cancel, IInv, OpInv, At
<1>3. CASE JoinEach(c)
  BY <1>3 DEF JoinEach, CancelStep
<1>4. CASE WakeClientSpuriously(c)
  BY <1>4 DEF WakeClientSpuriously, WakeStopSpuriously, workerVars
<1>5. CASE Call(c)
  BY <1>5 DEF Call, CallStop, CallAddTask, CallCancel, workerVars
<1>6. CASE \/ PushTask(c) \/ RequestStop(c) \/ PushEndTask(c) \/ StopBlocks(c) \/ StopReturns(c)
           \/ CancelTaskOfEach(c) \/ JoinThread(c) \/ CancelTaskStep(c)
  BY <1>6 DEF PushTask, RequestStop, PushEndTask, StopBlocks, StopReturns, CancelTaskOfEach,
     CancelRunningTask, JoinThread, CancelTaskStep, workerVars
<1> QED
  BY <1>1, <1>2, <1>3, <1>4, <1>5, <1>6 DEF ClientStep

LEMMA StepIsThreadStep == IInv /\ [Next]_vars => [Thread!Next]_(Thread!vars)
<1> SUFFICES ASSUME IInv, [Next]_vars
             PROVE  Thread!Next \/ UNCHANGED threadVars
  BY DEF threadVars, Thread!vars
<1>1. ASSUME NEW w \in Workers, WakeWorkerSpuriously(w)
      PROVE  UNCHANGED threadVars
  BY <1>1 DEF WakeWorkerSpuriously
<1>2. CASE UNCHANGED vars
  BY <1>2 DEF vars, workerVars
<1> QED
  BY <1>1, <1>2, WorkerStepIsThreadStep, ClientStepIsThreadStep DEF Next, Thread!Next

LEMMA ThreadsAreCancelable ==
  /\ Thread!Init => Cancelable!IInv
  /\ Cancelable!IInv /\ [Thread!Next]_(Thread!vars) => Cancelable!IInv'
<1>1. Thread!Init = Cancelable!Init
  BY DEF Thread!Init, Cancelable!Init
<1>2. Thread!Next = Cancelable!Next
  BY DEF Thread!Next, Cancelable!Next, Thread!ThreadStep, Cancelable!ThreadStep,
     Thread!SetRunning, Cancelable!SetRunning, Thread!CheckCancellation,
     Cancelable!CheckCancellation, Thread!WorkPolls, Cancelable!WorkPolls, Thread!WorkEnds,
     Cancelable!WorkEnds, Thread!FinishAction, Cancelable!FinishAction,
     Thread!NotifyFinished, Cancelable!NotifyFinished, Thread!Go, Cancelable!Go,
     Thread!CancelStep, Cancelable!CancelStep, Thread!CancelBlocks, Cancelable!CancelBlocks,
     Thread!CancelReturns, Cancelable!CancelReturns, Thread!WakeSpuriously,
     Cancelable!WakeSpuriously, Thread!Cancel, Cancelable!Cancel, Thread!CancelAsync,
     Cancelable!CancelAsync, Thread!NotifyAllIf, Cancelable!NotifyAllIf, Thread!Wait,
     Cancelable!Wait, Thread!SpuriousWakeup, Cancelable!SpuriousWakeup
<1>3. UNCHANGED Thread!vars <=> UNCHANGED Cancelable!vars
  BY DEF Thread!vars, Cancelable!vars
<1>4. /\ Cancelable!Init => Cancelable!IInv
      /\ Cancelable!IInv /\ [Cancelable!Next]_(Cancelable!vars) => Cancelable!IInv'
  BY PoolAssumption, Cancelable!InitIInv, Cancelable!NextKeepsIInv DEF Cancelable!ThreadAssumption
<1> QED
  BY <1>1, <1>2, <1>3, <1>4

(* The threads of the pool are used as CancelableThread says: its workers  *)
(* and StopNow() make its steps and no others (WorkerThread.cpp:25-82,     *)
(* FixedThreadPool.h:210-223).                                             *)
THEOREM WorkersAreCancelable == Spec => Thread!Init /\ [][Thread!Next]_(Thread!vars)
<1>1. Init => Thread!Init
  BY DEF Init, WorkerInit
<1> QED
  BY <1>1, InitIInv, NextKeepsIInv, StepIsThreadStep, PTL DEF Spec

LEMMA CancelableInvariance == Spec => []Cancelable!IInv
BY WorkersAreCancelable, ThreadsAreCancelable, PTL

(* A StopNow() never sleeps on a worker that has finished, whichever way   *)
(* the worker ended (CancelableThread.cpp:53-59, 130-135).                 *)
THEOREM StopNowIsWoken == Spec => []Thread!NoLostFinishWakeup
<1>1. Cancelable!IInv => Thread!NoLostFinishWakeup
  BY DEF Cancelable!IInv, Cancelable!NoLostFinishWakeup, Thread!NoLostFinishWakeup
<1> QED
  BY <1>1, CancelableInvariance, PTL

(* The Cancel() that StopNow() makes of a worker returns only when the     *)
(* worker is past NotifyWhenThreadsStop() (CancelableThread.cpp:137-158).  *)
THEOREM StopNowOutlastsTheWorker == Spec => []Thread!CancelledIsPastTheWork
<1>1. Cancelable!IInv => Thread!CancelledIsPastTheWork
  BY DEF Cancelable!IInv, Cancelable!CancelledIsPastTheWork, Thread!CancelledIsPastTheWork
<1> QED
  BY <1>1, CancelableInvariance, PTL

-----------------------------------------------------------------------------
(* The pool runs its tasks as TaskBase says of tasks that are run once,    *)
(* which is ExecInv's doing: no queued task has been run.  A pool has no   *)
(* futures.                                                                *)

RunOnce == INSTANCE TaskProofs WITH
  Runners <- Workers, Cancellers <- Clients, Periodic <- {},
  m_state <- task_state, m_isRequestCancel <- task_isRequestCancel,
  m_cancelCondition <- task_condition, cancel <- task_cancel,
  Futures <- {}, Getters <- {}, Nobody <- NoWorker,
  m_isResultReturned <- <<>>, m_resultCondition <- <<>>, resultMutex <- <<>>, get <- <<>>

LEMMA WorkerStepIsTaskStep ==
  ASSUME IInv, ExecInv, NEW w \in Workers, PoolWorkerStep(w)
  PROVE  \/ Task!RunStep(w)
         \/ Task!DoRunThrows(w)
         \/ \E k \in Tasks : /\ Task!Run(w, k)
                             /\ task_state[k] = "INIT" /\ \A v \in Workers : run[v].task # k
         \/ UNCHANGED taskVars
<1>1. CASE PerformTask(w)
  <2>1. PICK k \in Tasks : k = m_runningTask[w]
    BY <1>1 DEF PerformTask
  <2>2. Task!Run(w, k) /\ Fresh(k)
    BY <1>1, <2>1, PerformEffect DEF PerformTask
  <2> QED
    BY <2>2 DEF Fresh, Started
<1>2. CASE RunTask(w) \/ TaskThrows(w)
  BY <1>2 DEF RunTask, TaskThrows
<1>3. CASE \/ ThreadFunction(w) \/ CheckRequest(w) \/ LockRunningTask(w) \/ PopBlocks(w)
           \/ PopTask(w) \/ DropTask(w) \/ PerformEndTask(w) \/ CountStopped(w)
           \/ SetPoolFinished(w)
  BY <1>3 DEF ThreadFunction, CheckRequest, LockRunningTask, PopBlocks, PopTask, DropTask,
     PerformEndTask, CountStopped, SetPoolFinished
<1> QED
  BY <1>1, <1>2, <1>3 DEF PoolWorkerStep, WorkerStep

LEMMA ClientStepIsTaskStep ==
  ASSUME NEW c \in Clients, ClientStep(c) \/ Call(c) \/ WakeClientSpuriously(c)
  PROVE  \/ Task!CancelStep(c)
         \/ Task!WakeSpuriously(c)
         \/ \E k \in Tasks : Task!Cancel(c, k)
         \/ \E k \in Tasks : Task!CancelAsync(k) /\ UNCHANGED task_cancel
         \/ UNCHANGED taskVars
<1>1. CASE CancelTaskOfEach(c)
  BY <1>1 DEF CancelTaskOfEach, CancelRunningTask, workerVars
<1>2. CASE WakeClientSpuriously(c)
  BY <1>2 DEF WakeClientSpuriously, WakeStopSpuriously, workerVars
<1>3. CASE Call(c)
  BY <1>3 DEF Call, CallStop, CallAddTask, CallCancel, workerVars
<1>4. CASE CancelTaskStep(c)
  BY <1>4 DEF CancelTaskStep
<1>5. CASE \/ PushTask(c) \/ RequestStop(c) \/ PushEndTask(c) \/ StopBlocks(c) \/ StopReturns(c)
           \/ CancelEach(c) \/ CancelThreadOfEach(c) \/ JoinEach(c) \/ JoinThread(c)
  BY <1>5 DEF PushTask, RequestStop, PushEndTask, StopBlocks, StopReturns, CancelEach,
     CancelThreadOfEach, JoinEach, JoinThread, CancelAsync, Cancel, CancelStep, workerVars
<1> QED
  BY <1>1, <1>2, <1>3, <1>4, <1>5 DEF ClientStep

LEMMA TaskStepsAgree ==
  /\ \A w \in Workers : Task!RunStep(w) => RunOnce!RunStep(w)
  /\ \A w \in Workers : Task!DoRunThrows(w) => RunOnce!DoRunThrows(w)
  /\ \A w \in Workers, k \in Tasks :
       Task!Run(w, k) /\ task_state[k] = "INIT" /\ (\A v \in Workers : run[v].task # k)
         => RunOnce!Run(w, k)
  /\ \A c \in Clients : Task!CancelStep(c) => RunOnce!CancelStep(c)
  /\ \A c \in Clients : Task!WakeSpuriously(c) => RunOnce!WakeSpuriously(c)
  /\ \A c \in Clients, k \in Tasks : Task!Cancel(c, k) => RunOnce!Cancel(c, k)
  /\ \A k \in Tasks : Task!CancelAsync(k) => RunOnce!CancelAsync(k)
<1>1. \A w \in Workers : Task!RunStep(w) => RunOnce!RunStep(w)
  BY DEF Task!RunStep, RunOnce!RunStep, Task!CheckCancellation, RunOnce!CheckCancellation,
     Task!SetRunning, RunOnce!SetRunning, Task!DoRunReturns, RunOnce!DoRunReturns,
     Task!DoRunIsCancelled, RunOnce!DoRunIsCancelled, Task!SetFinished, RunOnce!SetFinished,
     Task!SetCancelled, RunOnce!SetCancelled, Task!OnCancel, RunOnce!OnCancel,
     Task!NotifyCancellers, RunOnce!NotifyCancellers, Task!MoveTo, RunOnce!MoveTo,
     Task!SetState, RunOnce!SetState, Task!Idle, RunOnce!Idle, Task!NotifyAllIf,
     RunOnce!NotifyAllIf
<1>2. \A w \in Workers : Task!DoRunThrows(w) => RunOnce!DoRunThrows(w)
  BY DEF Task!DoRunThrows, RunOnce!DoRunThrows, Task!Idle, RunOnce!Idle
<1>3. \A w \in Workers, k \in Tasks :
        Task!Run(w, k) /\ task_state[k] = "INIT" /\ (\A v \in Workers : run[v].task # k)
          => RunOnce!Run(w, k)
  BY DEF Task!Run, RunOnce!Run, Task!Idle, RunOnce!Idle
<1>4. \A c \in Clients : Task!CancelStep(c) => RunOnce!CancelStep(c)
  BY DEF Task!CancelStep, RunOnce!CancelStep, Task!CancelBlocks, RunOnce!CancelBlocks,
     Task!CancelReturns, RunOnce!CancelReturns, Task!IsStopState, RunOnce!IsStopState,
     Task!Wait, RunOnce!Wait
<1>5. \A c \in Clients : Task!WakeSpuriously(c) => RunOnce!WakeSpuriously(c)
  BY DEF Task!WakeSpuriously, RunOnce!WakeSpuriously, Task!SpuriousWakeup,
     RunOnce!SpuriousWakeup
<1>6. /\ \A c \in Clients, k \in Tasks : Task!Cancel(c, k) => RunOnce!Cancel(c, k)
      /\ \A k \in Tasks : Task!CancelAsync(k) => RunOnce!CancelAsync(k)
  BY DEF Task!Cancel, RunOnce!Cancel, Task!CancelAsync, RunOnce!CancelAsync
<1> QED
  BY <1>1, <1>2, <1>3, <1>4, <1>5, <1>6

LEMMA StepIsTaskStep == IInv /\ ExecInv /\ [Next]_vars => [RunOnce!Next]_(RunOnce!vars)
<1> SUFFICES ASSUME IInv, ExecInv, [Next]_vars
             PROVE  RunOnce!Next \/ UNCHANGED taskVars
  BY DEF taskVars, RunOnce!vars
<1>1. ASSUME NEW w \in Workers, WakeWorkerSpuriously(w)
      PROVE  UNCHANGED taskVars
  BY <1>1 DEF WakeWorkerSpuriously
<1>2. CASE UNCHANGED vars
  BY <1>2 DEF vars, workerVars
<1>3. ASSUME NEW w \in Workers, PoolWorkerStep(w)
      PROVE  RunOnce!Next \/ UNCHANGED taskVars
  BY <1>3, WorkerStepIsTaskStep, TaskStepsAgree DEF RunOnce!Next
<1>4. ASSUME NEW c \in Clients, ClientStep(c) \/ Call(c) \/ WakeClientSpuriously(c)
      PROVE  RunOnce!Next \/ UNCHANGED taskVars
  BY <1>4, ClientStepIsTaskStep, TaskStepsAgree DEF RunOnce!Next
<1> QED
  BY <1>1, <1>2, <1>3, <1>4 DEF Next

LEMMA RunOnceAssumptions == RunOnce!TaskAssumption /\ RunOnce!FutureAssumption
BY PoolAssumption DEF RunOnce!TaskAssumption, RunOnce!FutureAssumption

(* The pool calls Run() of a task once, and makes no other use of tasks    *)
(* than that and the cancels (WorkerThread.cpp:74-126).                    *)
THEOREM TasksAreRunOnce == Spec => RunOnce!Init /\ [][RunOnce!Next]_(RunOnce!vars)
<1>1. Init => RunOnce!Init
  BY DEF Init, WorkerInit, Task!Init, Task!Idle, RunOnce!Init, RunOnce!Idle
<1>2. Init /\ [][Next]_vars => []IInv
  BY InitIInv, NextKeepsIInv, PTL
<1>3. Init /\ [][Next]_vars => []ExecInv
  BY <1>2, InitExecInv, NextKeepsExecInv, PTL
<1> QED
  BY <1>1, <1>2, <1>3, StepIsTaskStep, PTL DEF Spec

LEMMA TaskInvariance == Spec => [](RunOnce!WakeupInv /\ RunOnce!OnceInv)
<1>1. RunOnce!Init => RunOnce!WakeupInv /\ RunOnce!OnceInv
  BY RunOnceAssumptions, RunOnce!InitWakeupInv, RunOnce!InitOnceInv
<1>2. RunOnce!WakeupInv /\ [RunOnce!Next]_(RunOnce!vars) => RunOnce!WakeupInv'
  BY RunOnceAssumptions, RunOnce!NextKeepsWakeupInv
<1>3. RunOnce!OnceInv /\ RunOnce!TypeOK' /\ [RunOnce!Next]_(RunOnce!vars) => RunOnce!OnceInv'
  BY RunOnceAssumptions, RunOnce!NextKeepsOnceInv
<1>4. RunOnce!WakeupInv => RunOnce!TypeOK
  BY DEF RunOnce!WakeupInv
<1> QED
  BY <1>1, <1>2, <1>3, <1>4, TasksAreRunOnce, PTL

(* The Cancel() of a task of the pool never sleeps through the end of the  *)
(* run, whichever worker runs it (TaskBase.cpp:45-67).                     *)
THEOREM TaskCancelIsWoken == Spec => []Task!NoLostCancelWakeup
<1>1. RunOnce!WakeupInv => Task!NoLostCancelWakeup
  BY DEF RunOnce!WakeupInv, RunOnce!NoLostCancelWakeup, Task!NoLostCancelWakeup,
     RunOnce!IsStopState, Task!IsStopState, RunOnce!Running, Task!Running
<1> QED
  BY <1>1, TaskInvariance, PTL

(* When Cancel() of a task of the pool has returned, no worker executes    *)
(* the task, now or later (TaskBase.cpp:59-67; WorkerThread.cpp:93-126).   *)
THEOREM TaskCancelEndsTheRun == Spec => [](\A k \in Tasks : Task!OverWhenCancelReturns(k))
<1>1. RunOnce!OnceInv => \A k \in Tasks : Task!OverWhenCancelReturns(k)
  <2>1. RunOnce!OnceInv => RunOnce!NoRunAfterCancelReturns
    BY RunOnceAssumptions, RunOnce!CancelledIsOver
  <2> QED
    BY <2>1 DEF RunOnce!NoRunAfterCancelReturns, RunOnce!OverWhenCancelReturns,
       Task!OverWhenCancelReturns, RunOnce!Running, Task!Running
<1> QED
  BY <1>1, TaskInvariance, PTL

(* A task that is cancelled while it is queued is not executed when its    *)
(* turn comes (TaskBase.cpp:41).                                           *)
THEOREM CancelledTasksAreNotExecuted == Spec => RunOnce!CancellationSticks
<1>1. RunOnce!TypeOK /\ [RunOnce!Next]_(RunOnce!vars) => [RunOnce!Sticks]_(RunOnce!vars)
  BY RunOnceAssumptions, RunOnce!StepSticks
<1>2. RunOnce!WakeupInv => RunOnce!TypeOK
  BY DEF RunOnce!WakeupInv
<1> QED
  BY <1>1, <1>2, TasksAreRunOnce, TaskInvariance, PTL DEF RunOnce!CancellationSticks, RunOnce!Sticks

-------------------------------------------------------------------------------
(* A stop request is never taken back, the timer thread exists only with a *)
(* timer, and it adds a task only if it found the pool not stopped, which  *)
(* a thread of a late timer never does.                                    *)
LateInv ==
  /\ m_isRequestStop \in BOOLEAN
  /\ madeLate => m_isRequestStop
  /\ ~ m_timer => timerAt = "none"
  /\ LateTimerAddsNothing

Calls ==
  {NoCall}
    \cup [at : {"make", "put", "pushTask"}, method : {"AddTimerTask", "AddIntervalTask"},
          task : Tasks]
    \cup [at : {"read", "clear", "join"}, method : {"StopAsync", "Stop"}, task : {NoTask}]

(* The types, and that a timer thread that is at a task has one.           *)
TimerTypeOK ==
  /\ m_timer \in BOOLEAN /\ madeLate \in BOOLEAN /\ timerStop \in BOOLEAN
  /\ heap \in SUBSET Tasks
  /\ timerAt \in {"none", "loop", "fired", "run", "addTask", "push", "exited"}
  /\ timerAt \in {"fired", "run", "addTask", "push"} => fired \in Tasks
  /\ timerRun \in [{TimerThread} -> {Task!Idle} \cup [at : Task!InRun, task : Tasks]]
  /\ call \in [Clients -> Calls]

(* The timer thread runs a task itself only to cancel it.                  *)
OnlyCancels ==
  LET r == timerRun[TimerThread] IN
  /\ r.at \in {"idle", "check", "setCancelled", "onCancel", "notify"}
  /\ r.at = "check" => task_isRequestCancel[r.task]

TimerGone == timerAt \in {"none", "exited"}

(* The last section of a stop method is the one that stops the timer, after*)
(* which the timer thread is gone for good, or belongs to a timer that was *)
(* made after the request.  A destructor is alone.                         *)
StopTimerOf(c) ==
  /\ job[c].op \in StopOps /\ ~ At(c, "request") => m_isRequestStop
  /\ call[c].at \in {"make", "put", "pushTask"} => job[c].op \notin StopOps
  /\ call[c].at \in {"read", "clear"} /\ job[c].op \in {"Stop", "StopNow"} /\ At(c, "out")
       => call[c].method = "Stop"
  /\ call[c].at \in {"read", "clear"} /\ job[c].op = "Destroy"
       /\ job[c].at \in {"joinThreads", "out"} => call[c].method = "Stop"
  /\ Over(c, {"Stop", "StopNow"}) => TimerGone \/ madeLate
  /\ job[c].op = "Destroy" /\ job[c].at \in {"joinThreads", "out"} /\ InCall(c, "none")
       => TimerGone
  /\ job[c].op = "Destroy" => \A d \in Clients : d # c => At(d, "out") /\ InCall(d, "none")
StopTimerInv == \A c \in Clients : StopTimerOf(c)

(* The pool's own steps leave the request as it is or make it.             *)
LEMMA RequestSticks ==
  ASSUME m_isRequestStop \in BOOLEAN,
         \/ \E w \in Workers : PoolWorkerStep(w)
         \/ \E c \in Clients : ClientStep(c) \/ Call(c) \/ WakeClientSpuriously(c)
  PROVE  m_isRequestStop' \in BOOLEAN /\ (m_isRequestStop => m_isRequestStop')
<1>1. ASSUME NEW w \in Workers, PoolWorkerStep(w)
      PROVE  UNCHANGED m_isRequestStop
  BY <1>1 DEF PoolWorkerStep, CountStopped, SetPoolFinished, poolVars
<1>2. ASSUME NEW c \in Clients, ClientStep(c)
      PROVE  UNCHANGED m_isRequestStop \/ m_isRequestStop' = TRUE
  BY <1>2 DEF ClientStep, PushTask, RequestStop, PushEndTask, StopBlocks, StopReturns,
     CancelEach, CancelTaskOfEach, CancelThreadOfEach, JoinEach, JoinThread, CancelTaskStep,
     poolVars
<1>3. ASSUME NEW c \in Clients, Call(c) \/ WakeClientSpuriously(c)
      PROVE  UNCHANGED m_isRequestStop
  BY <1>3 DEF Call, CallStop, CallAddTask, CallCancel, WakeClientSpuriously,
     WakeStopSpuriously, poolVars
<1> QED
  BY <1>1, <1>2, <1>3

LEMMA TimerStepKeepsLateInv ==
  ASSUME LateInv, TimerStep \/ \E k \in Tasks : Fire(k)
  PROVE  LateInv'
<1>1. UNCHANGED <<m_isRequestStop, m_timer, madeLate>>
  BY DEF TimerStep, TimerExits, TestCancelled, RunCancelled, AddTested, AddPushes, Fire,
         vars, poolVars
<1>2. timerAt # "none"
  BY DEF TimerStep, TimerExits, TestCancelled, RunCancelled, AddTested, AddPushes, Fire
<1>3. timerAt' = "push" => ~ m_isRequestStop
  <2>1. CASE AddTested
    BY <2>1 DEF AddTested
  <2>2. CASE ~ AddTested
    <3>1. timerAt' # "push" \/ (timerAt' = timerAt /\ timerAt = "run")
      BY <2>2 DEF TimerStep, TimerExits, TestCancelled, RunCancelled, AddPushes, Fire
    <3> QED
      BY <3>1
  <2> QED
    BY <2>1, <2>2
<1> QED
  BY <1>1, <1>2, <1>3 DEF LateInv, LateTimerAddsNothing

LEMMA CallsKeepLateInv ==
  ASSUME LateInv, NEW c \in Clients,
         \/ MakeTimer(c) \/ TestTimer(c) \/ PutInTimer(c)
         \/ ReadTimer(c) \/ ClearTimer(c) \/ JoinTimer(c)
         \/ \E k \in Tasks, method \in DOMAIN Methods : CallAddTimerTask(c, method, k)
  PROVE  LateInv'
<1>1. UNCHANGED m_isRequestStop
  BY DEF MakeTimer, TestTimer, PutInTimer, ReadTimer, ClearTimer, JoinTimer, CallAddTimerTask,
         vars, poolVars
<1>2. CASE MakeTimer(c)
  <2>1. \/ m_timer /\ m_timer' = TRUE /\ UNCHANGED <<timerAt, madeLate>>
        \/ ~ m_timer /\ m_timer' = TRUE /\ timerAt' = "loop" /\ madeLate' = m_isRequestStop
    BY <1>2 DEF MakeTimer
  <2> QED
    BY <1>1, <2>1 DEF LateInv, LateTimerAddsNothing
<1>3. CASE ~ MakeTimer(c)
  <2>1. UNCHANGED <<m_timer, madeLate, timerAt>>
    BY <1>3 DEF TestTimer, PutInTimer, ReadTimer, ClearTimer, JoinTimer, CallAddTimerTask
  <2> QED
    BY <1>1, <2>1 DEF LateInv, LateTimerAddsNothing
<1> QED
  BY <1>2, <1>3

LEMMA NextKeepsLateInv == LateInv /\ [TimerNext]_allVars => LateInv'
<1> SUFFICES ASSUME LateInv, [TimerNext]_allVars
             PROVE  LateInv'
  OBVIOUS
<1>1. ASSUME m_isRequestStop' \in BOOLEAN, m_isRequestStop => m_isRequestStop',
             UNCHANGED <<m_timer, madeLate, timerAt>>
      PROVE  LateInv'
  BY <1>1 DEF LateInv, LateTimerAddsNothing
<1>2. ASSUME NEW w \in Workers, PoolWorkerStep(w), UNCHANGED timerVars
      PROVE  LateInv'
  BY <1>1, <1>2, RequestSticks DEF timerVars, LateInv
<1>3. ASSUME NEW c \in Clients, \/ PoolStep(c)
                                \/ Call(c) /\ UNCHANGED timerVars
                                \/ WakeClientSpuriously(c) /\ UNCHANGED timerVars
      PROVE  LateInv'
  <2>1. ClientStep(c) \/ Call(c) \/ WakeClientSpuriously(c)
    BY <1>3 DEF PoolStep
  <2>2. m_isRequestStop' \in BOOLEAN /\ (m_isRequestStop => m_isRequestStop')
    BY <2>1, RequestSticks DEF LateInv
  <2>3. UNCHANGED <<m_timer, madeLate, timerAt>>
    BY <1>3 DEF PoolStep, timerVars
  <2> QED
    BY <1>1, <2>2, <2>3
<1>4. CASE UNCHANGED <<poolVars, timerVars>>
  BY <1>1, <1>4 DEF poolVars, timerVars, LateInv
<1>5. UNCHANGED allVars => UNCHANGED <<poolVars, timerVars>>
  BY DEF allVars, vars
<1> QED
  BY <1>2, <1>3, <1>4, <1>5, TimerStepKeepsLateInv, CallsKeepLateInv
  DEF TimerNext, PoolClientStep

LEMMA InitLateInv == TimerInit => LateInv
BY DEF TimerInit, Init, LateInv, LateTimerAddsNothing

(* "The thread will be created and put a timer task but the task will not  *)
(* be put in the thread pool task queue" (FixedThreadPool.h:228-232).      *)
THEOREM LateTimersAddNothing == TimerSpec => []LateTimerAddsNothing
<1>1. LateInv => LateTimerAddsNothing
  BY DEF LateInv
<1> QED
  BY <1>1, InitLateInv, NextKeepsLateInv, PTL DEF TimerSpec

-----------------------------------------------------------------------------
(* The pool with its timer keeps what the pool keeps                       *)

(* Everything that is proved of FixedThreadPool, and that the timer has a  *)
(* task where it needs one.                                                *)
PoolInv ==
  /\ IInv /\ AwaitInv /\ QueueWakeup /\ StopWakeup /\ DrainInv /\ EnoughEndTasks
  /\ TimerTypeOK /\ OnlyCancels

(* A request to cancel a task is never taken back.                         *)
LEMMA CancelRequestSticks ==
  ASSUME Task!TypeOK, NEW k \in Tasks, task_isRequestCancel[k],
         \/ \E w \in Workers : PoolWorkerStep(w) \/ WakeWorkerSpuriously(w)
         \/ \E c \in Clients : ClientStep(c) \/ Call(c) \/ WakeClientSpuriously(c)
  PROVE  task_isRequestCancel'[k]
<1>1. ASSUME NEW w \in Workers, PoolWorkerStep(w) \/ WakeWorkerSpuriously(w)
      PROVE  UNCHANGED task_isRequestCancel
  <2>1. CASE \/ CountStopped(w) \/ SetPoolFinished(w) \/ WakeWorkerSpuriously(w)
             \/ ThreadFunction(w) \/ CheckRequest(w) \/ LockRunningTask(w) \/ PopBlocks(w)
             \/ PopTask(w) \/ DropTask(w) \/ PerformEndTask(w)
    BY <2>1 DEF CountStopped, SetPoolFinished, WakeWorkerSpuriously, ThreadFunction,
       CheckRequest, LockRunningTask, PopBlocks, PopTask, DropTask, PerformEndTask, taskVars
  <2>2. CASE PerformTask(w) \/ RunTask(w) \/ TaskThrows(w)
    BY <2>2 DEF PerformTask, RunTask, TaskThrows, Task!Run, Task!RunStep, Task!DoRunThrows,
       Task!CheckCancellation, Task!SetRunning, Task!DoRunReturns, Task!DoRunIsCancelled,
       Task!SetFinished, Task!SetCancelled, Task!OnCancel, Task!NotifyCancellers
  <2> QED
    BY <1>1, <2>1, <2>2 DEF PoolWorkerStep, WorkerStep
<1>2. ASSUME NEW c \in Clients, ClientStep(c) \/ Call(c) \/ WakeClientSpuriously(c)
      PROVE  \/ UNCHANGED task_isRequestCancel
             \/ \E j : task_isRequestCancel' = [task_isRequestCancel EXCEPT ![j] = TRUE]
  <2>1. CASE \/ PushTask(c) \/ RequestStop(c) \/ PushEndTask(c) \/ StopBlocks(c)
             \/ StopReturns(c) \/ CancelEach(c) \/ CancelThreadOfEach(c) \/ JoinEach(c)
             \/ JoinThread(c)
    BY <2>1 DEF PushTask, RequestStop, PushEndTask, StopBlocks, StopReturns, CancelEach,
       CancelThreadOfEach, JoinEach, JoinThread, CancelAsync, Cancel, CancelStep, workerVars,
       taskVars
  <2>2. CASE CancelTaskOfEach(c) \/ CancelTaskStep(c)
    BY <2>2 DEF CancelTaskOfEach, CancelRunningTask, CancelTaskStep, Task!CancelAsync,
       Task!CancelStep, Task!CancelBlocks, Task!CancelReturns, workerVars, taskVars
  <2>3. CASE Call(c) \/ WakeClientSpuriously(c)
    BY <2>3 DEF Call, CallStop, CallAddTask, CallCancel, Task!Cancel, Task!CancelAsync,
       WakeClientSpuriously, WakeStopSpuriously, Task!WakeSpuriously, workerVars, taskVars
  <2> QED
    BY <1>2, <2>1, <2>2, <2>3 DEF ClientStep
<1> QED
  BY <1>1, <1>2 DEF Task!TypeOK

(* A step of the pool with its timer is one of the pool, or one that only  *)
(* writes down the fate of a task, or one of the timer thread at a task.   *)
LEMMA StepKinds ==
  ASSUME PoolInv, [TimerNext]_allVars
  PROVE  \/ /\ [Next]_vars
            /\ \A k \in Tasks : task_isRequestCancel[k] => task_isRequestCancel'[k]
         \/ /\ UNCHANGED <<workerVars, poolVars, job>>
            /\ \E k \in Tasks, f \in Fates \ {"early"} : SetFate(k, f)
         \/ RunCancelled
         \/ AddPushes
<1> USE DEF PoolInv
<1>0. Task!TypeOK
  BY DEF IInv, TypeOK
<1>1. ASSUME NEW w \in Workers,
             \/ PoolWorkerStep(w)
             \/ WakeWorkerSpuriously(w) /\ UNCHANGED <<poolVars, job, fate>>
      PROVE  Next /\ \A k \in Tasks : task_isRequestCancel[k] => task_isRequestCancel'[k]
  BY <1>0, <1>1, CancelRequestSticks DEF Next
<1>2. ASSUME NEW c \in Clients, PoolStep(c) \/ Call(c) \/ WakeClientSpuriously(c)
      PROVE  Next /\ \A k \in Tasks : task_isRequestCancel[k] => task_isRequestCancel'[k]
  <2>1. ClientStep(c) \/ Call(c) \/ WakeClientSpuriously(c)
    BY <1>2 DEF PoolStep
  <2> QED
    BY <1>0, <2>1, CancelRequestSticks DEF Next
<1>3. ASSUME \/ TimerExits \/ TestCancelled \/ \E k \in Tasks : Fire(k)
             \/ \E c \in Clients : MakeTimer(c) \/ ReadTimer(c) \/ ClearTimer(c) \/ JoinTimer(c)
             \/ UNCHANGED allVars
      PROVE  UNCHANGED vars
  BY <1>3 DEF TimerExits, TestCancelled, Fire, MakeTimer, ReadTimer, ClearTimer, JoinTimer, allVars
<1>4. UNCHANGED vars => \A k \in Tasks : task_isRequestCancel[k] => task_isRequestCancel'[k]
  BY DEF vars, workerVars, taskVars
<1>5. ASSUME NEW c \in Clients,
             \/ TestTimer(c) \/ PutInTimer(c)
             \/ \E k \in Tasks, method \in DOMAIN Methods : CallAddTimerTask(c, method, k)
      PROVE  /\ UNCHANGED <<workerVars, poolVars, job>>
             /\ UNCHANGED fate \/ \E k \in Tasks, f \in Fates \ {"early"} : SetFate(k, f)
  <2>1. call[c].at \in {"put", "pushTask"} => call[c].task \in Tasks
    BY DEF TimerTypeOK, Calls, NoCall
  <2> QED
    BY <1>5, <2>1 DEF TestTimer, PutInTimer, CallAddTimerTask, InCall, Fates
<1>6. CASE AddTested
  <2>1. fired \in Tasks
    BY <1>6 DEF AddTested, TimerTypeOK
  <2>2. CASE m_isRequestStop /\ fate[fired] # "early"
    <3>1. fate[fired] \in Fates
      BY <2>1 DEF IInv, TypeOK
    <3>2. SetFate(fired, IF fate[fired] = "waiting" THEN "rejected" ELSE fate[fired])
      BY <1>6, <2>2 DEF AddTested
    <3> QED
      BY <1>6, <2>1, <2>2, <3>1, <3>2 DEF AddTested, Fates
  <2>3. CASE ~ (m_isRequestStop /\ fate[fired] # "early")
    <3>1. UNCHANGED fate
      <4>1. fate \in [Tasks -> Fates]
        BY DEF IInv, TypeOK
      <4> QED
        BY <1>6, <2>1, <2>3, <4>1 DEF AddTested, SetFate
    <3> QED
      BY <1>4, <1>6, <3>1 DEF AddTested, vars
  <2> QED
    BY <2>2, <2>3
<1>7. /\ UNCHANGED <<workerVars, poolVars, job, fate>> => UNCHANGED vars
      /\ Next \/ UNCHANGED vars => [Next]_vars
  BY DEF vars
<1> QED
  BY <1>1, <1>2, <1>3, <1>4, <1>5, <1>6, <1>7 DEF TimerNext, TimerStep, PoolClientStep

(* The Run() that the timer thread calls itself only cancels its task.     *)
LEMMA RunCancelledEffect ==
  ASSUME PoolInv, RunCancelled
  PROVE  /\ TypeOK'
         /\ timerRun' \in [{TimerThread} -> {Task!Idle} \cup [at : Task!InRun, task : Tasks]]
         /\ OnlyCancels'
         /\ \A k \in Tasks : Task!IsStopState(k) => Task!IsStopState(k)'
<1> DEFINE r == timerRun[TimerThread]
<1> USE DEF TimerTask!MoveTo, TimerTask!SetState
<1>1. /\ Task!TypeOK
      /\ timerRun \in [{TimerThread} -> {Task!Idle} \cup [at : Task!InRun, task : Tasks]]
      /\ UNCHANGED <<run, task_cancel>>
  BY DEF PoolInv, IInv, TypeOK, TimerTypeOK, RunCancelled
<1>2. TimerTask!RunStep(TimerThread)
  BY DEF RunCancelled
<1>3. r.at \in {"check", "setCancelled", "onCancel", "notify"}
  <2>1. r.at \in {"idle", "check", "setCancelled", "onCancel", "notify"}
    BY DEF PoolInv, OnlyCancels
  <2> QED
    BY <1>2, <2>1 DEF TimerTask!RunStep, TimerTask!CheckCancellation, TimerTask!SetRunning,
       TimerTask!DoRunReturns, TimerTask!DoRunIsCancelled, TimerTask!SetFinished,
       TimerTask!SetCancelled, TimerTask!OnCancel, TimerTask!NotifyCancellers
<1>4. r \in [at : Task!InRun, task : Tasks]
  BY <1>1, <1>3 DEF Task!Idle
<1>5. CASE TimerTask!CheckCancellation(TimerThread)
  <2>1. task_isRequestCancel[r.task]
    BY <1>5 DEF TimerTask!CheckCancellation, PoolInv, OnlyCancels
  <2>2. /\ timerRun' = [timerRun EXCEPT ![TimerThread].at = "setCancelled"]
        /\ UNCHANGED <<task_state, task_isRequestCancel, task_condition>>
    BY <1>5, <2>1 DEF TimerTask!CheckCancellation
  <2>3. timerRun'[TimerThread].at = "setCancelled"
    BY <1>1, <1>4, <2>2
  <2>4. timerRun' \in [{TimerThread} -> {Task!Idle} \cup [at : Task!InRun, task : Tasks]]
    BY <1>1, <1>4, <2>2 DEF Task!InRun
  <2> QED
    BY <1>1, <2>2, <2>3, <2>4 DEF RunCancelled, OnlyCancels, Task!TypeOK, Task!IsStopState, PoolInv,
       IInv, TypeOK, queueVars, threadVars, poolVars, Thread!TypeOK
<1>6. CASE TimerTask!SetCancelled(TimerThread)
  <2>1. /\ timerRun' = [timerRun EXCEPT ![TimerThread].at = "onCancel"]
        /\ task_state' = [task_state EXCEPT ![r.task] = "CANCELLED"]
        /\ UNCHANGED <<task_isRequestCancel, task_condition>>
    BY <1>6 DEF TimerTask!SetCancelled
  <2>2. timerRun'[TimerThread].at = "onCancel"
    BY <1>1, <1>4, <2>1
  <2>3. timerRun' \in [{TimerThread} -> {Task!Idle} \cup [at : Task!InRun, task : Tasks]]
    BY <1>1, <1>4, <2>1 DEF Task!InRun
  <2>4. Task!TypeOK'
    BY <1>1, <1>4, <2>1 DEF Task!TypeOK, Task!State
  <2>5. \A k \in Tasks : Task!IsStopState(k) => Task!IsStopState(k)'
    BY <1>1, <1>4, <2>1 DEF Task!IsStopState, Task!TypeOK
  <2> QED
    BY <2>2, <2>3, <2>4, <2>5 DEF RunCancelled, OnlyCancels, PoolInv, IInv, TypeOK, queueVars,
       threadVars, poolVars, Thread!TypeOK
<1>7. CASE TimerTask!OnCancel(TimerThread)
  <2>1. /\ timerRun' = [timerRun EXCEPT ![TimerThread].at = "notify"]
        /\ UNCHANGED <<task_state, task_isRequestCancel, task_condition>>
    BY <1>7 DEF TimerTask!OnCancel
  <2>2. timerRun'[TimerThread].at = "notify"
    BY <1>1, <1>4, <2>1
  <2>3. timerRun' \in [{TimerThread} -> {Task!Idle} \cup [at : Task!InRun, task : Tasks]]
    BY <1>1, <1>4, <2>1 DEF Task!InRun
  <2> QED
    BY <1>1, <2>1, <2>2, <2>3 DEF RunCancelled, OnlyCancels, Task!TypeOK, Task!IsStopState, PoolInv,
       IInv, TypeOK, queueVars, threadVars, poolVars, Thread!TypeOK
<1>8. CASE TimerTask!NotifyCancellers(TimerThread)
  <2>1. /\ timerRun' = [timerRun EXCEPT ![TimerThread] = Task!Idle]
        /\ UNCHANGED <<task_state, task_isRequestCancel>>
        /\ task_condition' = [task_condition EXCEPT ![r.task] = task_condition'[r.task]]
        /\ task_condition'[r.task] \subseteq task_condition[r.task]
    BY <1>1, <1>4, <1>8 DEF TimerTask!NotifyCancellers, TimerTask!NotifyAllIf, TimerTask!Idle,
       Task!Idle, Task!TypeOK
  <2>2. timerRun'[TimerThread].at = "idle"
    BY <1>1, <2>1 DEF Task!Idle
  <2>3. timerRun' \in [{TimerThread} -> {Task!Idle} \cup [at : Task!InRun, task : Tasks]]
    BY <1>1, <2>1
  <2>4. Task!TypeOK'
    <3> HIDE DEF r
    <3>1. task_condition' \in [Tasks -> SUBSET Clients]
      BY <1>1, <1>4, <2>1 DEF Task!TypeOK
    <3> QED
      BY <1>1, <2>1, <3>1 DEF Task!TypeOK
  <2>5. \A k \in Tasks : Task!IsStopState(k) => Task!IsStopState(k)'
    BY <2>1 DEF Task!IsStopState
  <2> QED
    BY <2>2, <2>3, <2>4, <2>5 DEF RunCancelled, OnlyCancels, PoolInv, IInv, TypeOK, queueVars,
       threadVars, poolVars, Thread!TypeOK
<1>9. \/ TimerTask!CheckCancellation(TimerThread) \/ TimerTask!SetCancelled(TimerThread)
      \/ TimerTask!OnCancel(TimerThread) \/ TimerTask!NotifyCancellers(TimerThread)
  BY <1>2, <1>3 DEF TimerTask!RunStep, TimerTask!SetRunning, TimerTask!DoRunReturns,
     TimerTask!DoRunIsCancelled, TimerTask!SetFinished
<1> QED
  BY <1>5, <1>6, <1>7, <1>8, <1>9

(* A fate that is written down by the timer or its callers, and a step of  *)
(* the timer thread at a task, leave the workers, the clients and the queue*)
(* as they are.                                                            *)
LEMMA OutsideKeepsPool ==
  ASSUME PoolInv, TypeOK',
         UNCHANGED <<queueVars, run, threadVars, m_runningTask, wpc, poolVars, job>>,
         \A k \in Tasks : Task!IsStopState(k) => Task!IsStopState(k)',
         \A k \in Tasks : fate'[k] = "early" => fate[k] = "early"
  PROVE  IInv' /\ AwaitInv' /\ QueueWakeup' /\ StopWakeup' /\ DrainInv' /\ EnoughEndTasks'
<1> USE DEF PoolInv
<1>1. IInv'
  BY WaitersKeepIInv DEF threadVars
<1>2. AwaitInv' /\ QueueWakeup' /\ StopWakeup'
  BY DEF AwaitInv, QueueWakeup, StopWakeup, At, poolVars, queueVars
<1>3. /\ UNCHANGED <<m_queue, m_runningTask, run, m_isRequestStop>>
      /\ \A w \in Workers : /\ UNCHANGED LeftEarly(w) /\ UNCHANGED In(w, "perform")
                            /\ UNCHANGED MayPop(w)
  BY DEF queueVars, threadVars, poolVars, LeftEarly, In, MayPop
<1>4. DrainInv'
  BY <1>3, QuietKeepsDrainInv
<1>5. EnoughEndTasks'
  BY <1>3, QuietKeepsEnough
<1> QED
  BY <1>1, <1>2, <1>4, <1>5

LEMMA AddPushesKeepsPool ==
  ASSUME PoolInv, AddPushes
  PROVE  IInv' /\ AwaitInv' /\ QueueWakeup' /\ StopWakeup' /\ DrainInv' /\ EnoughEndTasks'
<1> USE DEF PoolInv
<1>1. fired \in Tasks /\ fired \in Elems
  BY DEF AddPushes, TimerTypeOK, Elems
<1>2. /\ Queue!Push(fired) /\ m_queue' = Append(m_queue, fired)
      /\ UNCHANGED <<taskVars, threadVars, m_runningTask, wpc, poolVars, job>>
      /\ fate' = [fate EXCEPT ![fired] = IF m_isRequestStop THEN "late" ELSE "early"]
  BY DEF AddPushes, Queue!Push, SetFate
<1>3. m_isRequestStop \in BOOLEAN /\ fate \in [Tasks -> Fates]
  BY DEF IInv, TypeOK
<1>4. fate' \in [Tasks -> Fates]
  BY <1>1, <1>2, <1>3 DEF Fates
<1>5. TypeOK'
  <2>1. m_queue' \in Seq(Elems) /\ m_mutexCond' \in SUBSET Workers
    BY <1>1, <1>2, PushType DEF IInv
  <2> QED
    BY <1>2, <1>4, <2>1 DEF IInv, TypeOK, taskVars, threadVars, poolVars, Task!TypeOK,
       Thread!TypeOK
<1>6. IInv'
  BY <1>2, <1>5, WaitersKeepIInv DEF taskVars, threadVars
<1>7. QueueWakeup'
  BY <1>1, <1>2, QueueStepKeepsWakeup
<1>8. AwaitInv' /\ StopWakeup'
  BY <1>2 DEF AwaitInv, StopWakeup, At, poolVars
<1>9. DrainInv'
  <2>1. fired # EndTask
    BY <1>1, PoolAssumption
  <2>2. \A k \in Tasks :
          fate'[k] = "early" => fate[k] = "early" \/ (k = fired /\ ~ m_isRequestStop)
    BY <1>1, <1>2, <1>3
  <2> QED
    BY <1>1, <1>2, <2>1, <2>2, PushKeepsDrainInv DEF taskVars, threadVars, poolVars
<1>10. EnoughEndTasks'
  BY <1>1, <1>2, TaskPushKeepsEnough DEF threadVars, poolVars
<1> QED
  BY <1>6, <1>7, <1>8, <1>9, <1>10

(* The timer's own state keeps its type.                                   *)
LEMMA NextKeepsTimerTypeOK ==
  ASSUME PoolInv, [TimerNext]_allVars
  PROVE  TimerTypeOK'
<1> USE DEF PoolInv, InCall
<1>1. CASE UNCHANGED timerVars
  BY <1>1 DEF timerVars, TimerTypeOK
<1>2. CASE RunCancelled
  <2>1. timerRun' \in [{TimerThread} -> {Task!Idle} \cup [at : Task!InRun, task : Tasks]]
    BY <1>2, RunCancelledEffect
  <2>2. timerAt' \in {"run", "loop"} /\ heap' \in SUBSET Tasks
    BY <1>2 DEF RunCancelled, TimerTypeOK
  <2> QED
    BY <1>2, <2>1, <2>2 DEF RunCancelled, TimerTypeOK
<1>3. CASE TestCancelled
  <2>1. fired \in Tasks
    BY <1>3 DEF TestCancelled, TimerTypeOK
  <2>2. timerRun' \in [{TimerThread} -> {Task!Idle} \cup [at : Task!InRun, task : Tasks]]
    BY <1>3, <2>1 DEF TestCancelled, TimerTypeOK, Task!InRun
  <2> QED
    BY <1>3, <2>1, <2>2 DEF TestCancelled, TimerTypeOK
<1>4. CASE TimerExits \/ AddTested \/ AddPushes \/ \E k \in Tasks : Fire(k)
  BY <1>4 DEF TimerExits, AddTested, AddPushes, Fire, TimerTypeOK
<1>5. ASSUME NEW c \in Clients, NEW new \in Calls, call' = [call EXCEPT ![c] = new],
             m_timer' \in BOOLEAN, madeLate' \in BOOLEAN, timerStop' \in BOOLEAN,
             heap' \in SUBSET Tasks, timerAt' \in {timerAt, "loop"},
             UNCHANGED <<fired, timerRun>>
      PROVE  TimerTypeOK'
  BY <1>5 DEF TimerTypeOK
<1>6. ASSUME NEW c \in Clients, MakeTimer(c)
      PROVE  TimerTypeOK'
  <2> DEFINE new == [call[c] EXCEPT !.at = "put"]
  <2>1. call[c] \in Calls /\ call[c].at = "make"
    BY <1>6 DEF MakeTimer, TimerTypeOK
  <2>2. new \in Calls
    BY <2>1 DEF Calls, NoCall
  <2>3. call' = [call EXCEPT ![c] = new]
    BY <1>6 DEF MakeTimer
  <2> HIDE DEF new
  <2> QED
    BY <1>5, <1>6, <2>2, <2>3 DEF MakeTimer, TimerTypeOK, IInv, TypeOK
<1>7. ASSUME NEW c \in Clients, TestTimer(c)
      PROVE  TimerTypeOK'
  <2> DEFINE new == IF timerStop THEN NoCall ELSE [call[c] EXCEPT !.at = "pushTask"]
  <2>1. call[c] \in Calls /\ call[c].at = "put"
    BY <1>7 DEF TestTimer, TimerTypeOK
  <2>2. new \in Calls
    BY <2>1 DEF Calls, NoCall
  <2>3. call' = [call EXCEPT ![c] = new]
    BY <1>7 DEF TestTimer
  <2> HIDE DEF new
  <2> QED
    BY <1>5, <1>7, <2>2, <2>3 DEF TestTimer, TimerTypeOK
<1>8. ASSUME NEW c \in Clients, PutInTimer(c)
      PROVE  TimerTypeOK'
  <2>1. call[c] \in Calls /\ call[c].at = "pushTask"
    BY <1>8 DEF PutInTimer, TimerTypeOK
  <2>2. call[c].task \in Tasks /\ NoCall \in Calls
    BY <2>1 DEF Calls, NoCall
  <2>3. heap' \in SUBSET Tasks
    BY <1>8, <2>2 DEF PutInTimer, TimerTypeOK
  <2> QED
    BY <1>5, <1>8, <2>2, <2>3 DEF PutInTimer, TimerTypeOK
<1>9. ASSUME NEW c \in Clients, ReadTimer(c)
      PROVE  TimerTypeOK'
  <2> DEFINE new == IF m_timer THEN [call[c] EXCEPT !.at = "clear"] ELSE NoCall
  <2>1. call[c] \in Calls /\ call[c].at = "read"
    BY <1>9 DEF ReadTimer, TimerTypeOK
  <2>2. new \in Calls
    BY <2>1 DEF Calls, NoCall
  <2>3. call' = [call EXCEPT ![c] = new]
    BY <1>9 DEF ReadTimer
  <2> HIDE DEF new
  <2> QED
    BY <1>5, <1>9, <2>2, <2>3 DEF ReadTimer, TimerTypeOK
<1>10. ASSUME NEW c \in Clients, ClearTimer(c)
       PROVE  TimerTypeOK'
  <2> DEFINE new == IF call[c].method = "Stop" THEN [call[c] EXCEPT !.at = "join"] ELSE NoCall
  <2>1. call[c] \in Calls /\ call[c].at = "clear"
    BY <1>10 DEF ClearTimer, TimerTypeOK
  <2>2. new \in Calls
    BY <2>1 DEF Calls, NoCall
  <2>3. call' = [call EXCEPT ![c] = new]
    BY <1>10 DEF ClearTimer
  <2> HIDE DEF new
  <2> QED
    BY <1>5, <1>10, <2>2, <2>3 DEF ClearTimer, TimerTypeOK
<1>11. ASSUME NEW c \in Clients, JoinTimer(c)
       PROVE  TimerTypeOK'
  <2>1. NoCall \in Calls
    BY DEF Calls
  <2> QED
    BY <1>5, <1>11, <2>1 DEF JoinTimer, TimerTypeOK
<1>12. ASSUME NEW c \in Clients, NEW k \in Tasks, NEW method \in DOMAIN Methods,
              CallAddTimerTask(c, method, k)
       PROVE  TimerTypeOK'
  <2>1. CASE UNCHANGED call
    BY <1>12, <2>1 DEF CallAddTimerTask, TimerTypeOK
  <2>2. CASE ~ UNCHANGED call
    <3> DEFINE new == [at |-> "make", method |-> method, task |-> k]
    <3>1. new \in Calls
      BY DEF Calls, Methods
    <3>2. call' = [call EXCEPT ![c] = new]
      BY <1>12, <2>2 DEF CallAddTimerTask
    <3> HIDE DEF new
    <3> QED
      BY <1>5, <1>12, <3>1, <3>2 DEF CallAddTimerTask, TimerTypeOK
  <2> QED
    BY <2>1, <2>2
<1>13. ASSUME NEW c \in Clients, PoolStep(c)
       PROVE  TimerTypeOK'
  <2>1. UNCHANGED call \/ \E new \in Calls : call' = [call EXCEPT ![c] = new]
    BY <1>13 DEF PoolStep, TimerSection, Section, Calls
  <2> QED
    BY <1>5, <1>13, <2>1 DEF PoolStep, TimerTypeOK
<1>14. UNCHANGED allVars => UNCHANGED timerVars
  BY DEF allVars
<1> QED
  BY <1>1, <1>2, <1>3, <1>4, <1>6, <1>7, <1>8, <1>9, <1>10, <1>11, <1>12, <1>13, <1>14
  DEF TimerNext, TimerStep, PoolClientStep, PoolWorkerStep, WakeWorkerSpuriously

(* The timer thread starts to run a task only if its cancellation was      *)
(* requested, and such a request sticks.                                   *)
LEMMA NextKeepsOnlyCancels ==
  ASSUME PoolInv, [TimerNext]_allVars
  PROVE  OnlyCancels'
<1> USE DEF PoolInv
<1>1. CASE RunCancelled
  BY <1>1, RunCancelledEffect
<1>2. CASE TestCancelled /\ ~ UNCHANGED timerRun
  BY <1>2 DEF TestCancelled, OnlyCancels, TimerTypeOK, vars, workerVars, taskVars
<1>3. ASSUME UNCHANGED timerRun,
             \A k \in Tasks : task_isRequestCancel[k] => task_isRequestCancel'[k]
      PROVE  OnlyCancels'
  <2>1. timerRun[TimerThread].at = "check" => timerRun[TimerThread].task \in Tasks
    <3>1. timerRun[TimerThread] \in {Task!Idle} \cup [at : Task!InRun, task : Tasks]
      BY DEF TimerTypeOK
    <3> QED
      BY <3>1 DEF Task!Idle
  <2> QED
    BY <1>3, <2>1 DEF OnlyCancels
<1>4. RunCancelled \/ TestCancelled \/ UNCHANGED timerRun
  BY DEF TimerNext, TimerStep, TimerExits, AddTested, AddPushes, Fire, PoolClientStep, PoolStep,
     MakeTimer, TestTimer, PutInTimer, ReadTimer, ClearTimer, JoinTimer, CallAddTimerTask,
     timerVars, allVars
<1>5. ~ RunCancelled => \A k \in Tasks : task_isRequestCancel[k] => task_isRequestCancel'[k]
  BY StepKinds DEF AddPushes, workerVars, taskVars
<1> QED
  BY <1>1, <1>2, <1>3, <1>4, <1>5

LEMMA NextKeepsPoolInv == PoolInv /\ [TimerNext]_allVars => PoolInv'
<1> SUFFICES ASSUME PoolInv, [TimerNext]_allVars
             PROVE  PoolInv'
  OBVIOUS
<1>1. IInv' /\ AwaitInv' /\ QueueWakeup' /\ StopWakeup' /\ DrainInv' /\ EnoughEndTasks'
  <2>1. CASE [Next]_vars
    BY <2>1, NextKeepsIInv, NextKeepsQueueWakeup, NextKeepsStopWakeup, NextKeepsDrainInv,
       NextKeepsEnough DEF PoolInv
  <2>2. ASSUME UNCHANGED <<workerVars, poolVars, job>>, NEW k \in Tasks,
               NEW f \in Fates \ {"early"}, SetFate(k, f)
        PROVE  IInv' /\ AwaitInv' /\ QueueWakeup' /\ StopWakeup' /\ DrainInv' /\ EnoughEndTasks'
    <3>1. fate \in [Tasks -> Fates]
      BY DEF PoolInv, IInv, TypeOK
    <3>2. /\ fate' \in [Tasks -> Fates]
          /\ \A j \in Tasks : fate'[j] = "early" => fate[j] = "early"
      BY <2>2, <3>1 DEF SetFate
    <3>3. TypeOK'
      BY <2>2, <3>2 DEF PoolInv, IInv, TypeOK, workerVars, queueVars, taskVars, threadVars,
         poolVars, Task!TypeOK, Thread!TypeOK
    <3>4. \A j \in Tasks : Task!IsStopState(j) => Task!IsStopState(j)'
      BY <2>2 DEF workerVars, taskVars, Task!IsStopState
    <3> QED
      BY <2>2, <3>2, <3>3, <3>4, OutsideKeepsPool DEF workerVars, taskVars
  <2>3. CASE RunCancelled
    BY <2>3, RunCancelledEffect, OutsideKeepsPool DEF RunCancelled
  <2> QED
    BY <2>1, <2>2, <2>3, AddPushesKeepsPool, StepKinds
<1> QED
  BY <1>1, NextKeepsTimerTypeOK, NextKeepsOnlyCancels DEF PoolInv

LEMMA PoolInvariance == TimerSpec => []PoolInv
<1>1. ASSUME TimerInit PROVE PoolInv
  <2>1. Init /\ call = [c \in Clients |-> NoCall] /\ timerRun = [t \in {TimerThread} |-> Task!Idle]
    BY <1>1 DEF TimerInit
  <2>2. IInv /\ DrainInv
    BY <2>1, InitIInv, InitDrainInv
  <2>3. AwaitInv /\ QueueWakeup /\ StopWakeup /\ EnoughEndTasks
    BY <2>1 DEF Init, WorkerInit, Queue!QueueInit, AwaitInv, QueueWakeup, StopWakeup, At,
       EnoughEndTasks
  <2>4. NoCall \in Calls
    BY DEF Calls
  <2>5. TimerTypeOK
    BY <1>1, <2>4 DEF TimerInit, TimerTypeOK
  <2>6. OnlyCancels
    BY <2>1 DEF OnlyCancels, Task!Idle
  <2> QED
    BY <2>2, <2>3, <2>5, <2>6 DEF PoolInv
<1> QED
  BY <1>1, NextKeepsPoolInv, PTL DEF TimerSpec

(* With the timer, as without it, a waiting stop method returns only when  *)
(* every worker is past its work: the timer thread that still pushes tasks *)
(* or cancels them changes nothing of it (FixedThreadPool.h:164-177,       *)
(* 210-223, 258-276).                                                      *)
THEOREM StopIsQuiescentWithTimer == TimerSpec => []StopMeansQuiescent
<1>1. PoolInv => StopMeansQuiescent
  BY StoppedMeansQuiescent DEF PoolInv
<1> QED
  BY <1>1, PoolInvariance, PTL

(* The pushes of the timer thread wake a worker if one sleeps, and nobody  *)
(* sleeps in Stop() when the pool has finished (BlockingQueue.h:35,        *)
(* FixedThreadPool.h:271-274).                                             *)
THEOREM NoWakeupIsLostWithTimer == TimerSpec => []NoLostWakeup
<1>1. PoolInv => NoLostWakeup
  BY DEF PoolInv, QueueWakeup, StopWakeup, NoLostWakeup
<1> QED
  BY <1>1, PoolInvariance, PTL

(* A timer task that slips in behind the stop request takes no EndTask from*)
(* a worker (FixedThreadPool.h:202-206, 347-362).                          *)
THEOREM NoWorkerLacksAnEndTaskWithTimer == TimerSpec => []EnoughEndTasks
<1>1. PoolInv => EnoughEndTasks
  BY DEF PoolInv
<1> QED
  BY <1>1, PoolInvariance, PTL

(* The timer tasks that were handed to the pool before the stop was        *)
(* requested are drained like those of AddTask(), even those that the timer*)
(* thread also cancels or fires again.                                     *)
THEOREM StopDrainsTheQueueWithTimer ==
  ASSUME threadNum # 0
  PROVE  TimerSpec => []StopDrains
<1>1. PoolInv => StopDrains
  BY DrainedWhenStopped DEF PoolInv
<1> QED
  BY <1>1, PoolInvariance, PTL

-----------------------------------------------------------------------------
(* No stop is stuck, with the timer                                        *)

LEMMA TimerNextKeepsAwake ==
  PoolInv /\ SleepsInPop /\ LastIsOut /\ [TimerNext]_allVars => SleepsInPop' /\ LastIsOut'
<1> SUFFICES ASSUME PoolInv, SleepsInPop, LastIsOut, [TimerNext]_allVars
             PROVE  SleepsInPop' /\ LastIsOut'
  OBVIOUS
<1>1. CASE [Next]_vars
  BY <1>1, NextKeepsAwake DEF PoolInv
<1>2. ASSUME UNCHANGED <<at, wpc, m_stoppedThreadNum, m_state>>,
             m_mutexCond' \subseteq m_mutexCond
      PROVE  SleepsInPop' /\ LastIsOut'
  BY <1>2 DEF SleepsInPop, LastIsOut, LastOut, In
<1>3. CASE UNCHANGED <<workerVars, poolVars, job>>
  BY <1>2, <1>3 DEF workerVars, queueVars, threadVars, poolVars
<1>4. CASE RunCancelled
  BY <1>2, <1>4 DEF RunCancelled, queueVars, threadVars, poolVars
<1>5. CASE AddPushes
  BY <1>2, <1>5 DEF AddPushes, Queue!Push, Queue!NotifyAllIf, threadVars, poolVars
<1> QED
  BY <1>1, <1>3, <1>4, <1>5, StepKinds

LEMMA TimerAwakeInvariance == TimerSpec => [](SleepsInPop /\ LastIsOut)
<1>1. TimerInit => SleepsInPop /\ LastIsOut
  BY InitIsAwake DEF TimerInit
<1> QED
  BY <1>1, TimerNextKeepsAwake, PoolInvariance, PTL DEF TimerSpec

(* With the timer too no worker sleeps in Pop() once the EndTasks of a stop*)
(* are pushed: no task that the timer thread pushes meanwhile is popped in *)
(* the place of an EndTask that a worker then waits for                    *)
(* (FixedThreadPool.h:180-207, 347-362).                                   *)
THEOREM NoWorkerSleepsThroughAStopWithTimer ==
  TimerSpec =>
    [](m_isRequestStop /\ (\A c \in Clients : ~ At(c, "pushEndTasks")) => m_mutexCond = {})
<1>1. PoolInv /\ SleepsInPop
        => (m_isRequestStop /\ (\A c \in Clients : ~ At(c, "pushEndTasks")) => m_mutexCond = {})
  BY NobodySleeps DEF PoolInv
<1> QED
  BY <1>1, TimerAwakeInvariance, PoolInvariance, PTL

(* The state of a pool with a timer is FINISHED exactly when every worker  *)
(* is past its part of the count (FixedThreadPool.h:161-164, 258-276).     *)
THEOREM FinishedMeansAllCountedWithTimer ==
  ASSUME threadNum # 0
  PROVE  TimerSpec => [](m_state = "FINISHED" <=>
                           \A w \in Workers : at[w] \in {"notifyFinished", "exited"})
<1>1. PoolInv /\ LastIsOut
        => (m_state = "FINISHED" <=> \A w \in Workers : at[w] \in {"notifyFinished", "exited"})
  BY FinishedIsAllCounted DEF PoolInv
<1> QED
  BY <1>1, TimerAwakeInvariance, PoolInvariance, PTL

-----------------------------------------------------------------------------
(* The stop methods and the timer thread                                   *)

(* How a step of a method moves its call.                                  *)
LEMMA JobMoves ==
  ASSUME IInv, NEW c \in Clients, ClientStep(c)
  PROVE  /\ \A d \in Clients : d # c => job'[d] = job[d]
         /\ job'[c].op = job[c].op
         /\ At(c, "out") => job'[c] = job[c]
         /\ At(c, "request") => job'[c].at = "request" \/ m_isRequestStop'
         /\ At(c, "request") /\ ~ m_isRequestStop => job'[c].at \in {"request", "pushEndTasks"}
         /\ job'[c].at = "request" => At(c, "request")
         /\ job'[c].at = "out" =>
              /\ job[c].op \in {"Stop", "StopNow"} => job[c].at \in {"out", "await", "cancelNow"}
              /\ job[c].op = "Destroy" => job[c].at \in {"out", "joinThreads"}
<1>1. job \in [Clients -> JobType]
  BY DEF IInv, TypeOK, JobType
<1>2. CASE StopBlocks(c) \/ CancelTaskStep(c)
  BY <1>2 DEF StopBlocks, CancelTaskStep, At
<1>3. ASSUME NEW p, NEW i, Proceed(c, p, i)
      PROVE  /\ \A d \in Clients : d # c => job'[d] = job[d]
             /\ job'[c].op = job[c].op /\ job'[c].at = p
  BY <1>1, <1>3 DEF Proceed, JobType
<1>4. /\ job[c].at \in {"request", "pushEndTasks"} => job[c].op \in StopOps
      /\ At(c, "push") => job[c].op = "AddTask"
      /\ At(c, "await") => job[c].op = "Stop"
      /\ job[c].at \in {"cancelAsync", "cancelNow", "cancelThread", "join"} => job[c].op = "StopNow"
      /\ At(c, "joinThreads") => job[c].op = "Destroy"
  BY DEF IInv, OpInv
<1>5. CASE PushTask(c) \/ StopReturns(c) \/ CancelThreadOfEach(c)
  BY <1>3, <1>4, <1>5 DEF PushTask, StopReturns, CancelThreadOfEach, At
<1>6. CASE RequestStop(c)
  <2>1. /\ At(c, "request") /\ m_isRequestStop'
        /\ Proceed(c, IF m_isRequestStop THEN AfterStopAsync(job[c].op) ELSE "pushEndTasks", 1)
    BY <1>6 DEF RequestStop
  <2> QED
    BY <1>3, <1>4, <2>1 DEF At, StopOps, AfterStopAsync
<1>7. CASE PushEndTask(c)
  <2>1. /\ At(c, "pushEndTasks")
        /\ \/ Proceed(c, "pushEndTasks", job[c].i + 1)
           \/ Proceed(c, AfterStopAsync(job[c].op), 1)
    BY <1>7 DEF PushEndTask
  <2> QED
    BY <1>3, <1>4, <2>1 DEF At, StopOps, AfterStopAsync
<1>8. CASE CancelEach(c) \/ CancelTaskOfEach(c) \/ JoinThread(c)
  BY <1>3, <1>4, <1>8 DEF CancelEach, CancelTaskOfEach, JoinThread, At
<1>9. CASE JoinEach(c)
  BY <1>3, <1>4, <1>9 DEF JoinEach, At
<1> QED
  BY <1>2, <1>5, <1>6, <1>7, <1>8, <1>9 DEF ClientStep

LEMMA OutsideKeepsStopTimer ==
  ASSUME StopTimerInv, UNCHANGED <<job, call, madeLate>>,
         m_isRequestStop => m_isRequestStop',
         TimerGone => TimerGone'
  PROVE  StopTimerInv'
BY DEF StopTimerInv, StopTimerOf, At, InCall, Over, Returned

(* The steps of the pool's methods, of which the last one starts the       *)
(* section that stops the timer.                                           *)
LEMMA PoolStepKeepsStopTimer ==
  ASSUME PoolInv, StopTimerInv, NEW c \in Clients, PoolStep(c)
  PROVE  StopTimerInv'
<1> DEFINE Read(method) == [at |-> "read", method |-> method, task |-> NoTask]
<1>1. /\ InCall(c, "none") /\ ClientStep(c) /\ TimerSection(c)
      /\ UNCHANGED <<timerAt, madeLate>>
      /\ call \in [Clients -> Calls] /\ IInv
  BY DEF PoolStep, PoolInv, TimerTypeOK
<1>2. m_isRequestStop => m_isRequestStop'
  BY <1>1, RequestSticks DEF IInv, TypeOK
<1>3. /\ \A d \in Clients : d # c => job'[d] = job[d] /\ call'[d] = call[d]
      /\ \/ call'[c] = call[c]
         \/ At(c, "request") /\ ~ m_isRequestStop /\ call'[c] = Read("StopAsync")
         \/ ~ (At(c, "request") /\ ~ m_isRequestStop) /\ call'[c] = Read("Stop")
      /\ \/ At(c, "request") /\ ~ m_isRequestStop
         \/ call'[c] = Read("Stop")
         \/ /\ job'[c].at = "out" => job[c].at \notin {"await", "cancelNow"}
            /\ job'[c].at = "joinThreads" => At(c, "joinThreads")
  BY <1>1, JobMoves DEF TimerSection, Section, At
<1>4. UNCHANGED TimerGone
  BY <1>1 DEF TimerGone
<1>5. \A d \in Clients : d # c /\ job[d].op = "Destroy" => UNCHANGED <<job[c], call[c]>>
  <2> SUFFICES ASSUME NEW d \in Clients, d # c, job[d].op = "Destroy"
               PROVE  UNCHANGED <<job[c], call[c]>>
    OBVIOUS
  <2>1. At(c, "out") /\ InCall(c, "none")
    BY DEF StopTimerInv, StopTimerOf
  <2>2. job'[c] = job[c]
    BY <1>1, <2>1, JobMoves
  <2>3. call'[c] = call[c]
    BY <1>1, <2>1, <2>2 DEF TimerSection, At
  <2> QED
    BY <2>2, <2>3
<1>6. ASSUME NEW d \in Clients, d # c
      PROVE  StopTimerOf(d)'
  <2>1. StopTimerOf(d) /\ job'[d] = job[d] /\ call'[d] = call[d]
    BY <1>3, <1>6 DEF StopTimerInv
  <2>2. job[d].op = "Destroy" =>
          \A e \in Clients : e # d => At(e, "out")' /\ InCall(e, "none")'
    BY <1>3, <1>5, <1>6, <2>1 DEF StopTimerOf, At, InCall
  <2> QED
    BY <1>1, <1>2, <1>4, <2>1, <2>2 DEF StopTimerOf, At, InCall, Over, Returned
<1>7. StopTimerOf(c)'
  <2>1. StopTimerOf(c)
    BY DEF StopTimerInv
  <2>2. /\ job'[c].op = job[c].op
        /\ At(c, "out") => job'[c] = job[c]
        /\ At(c, "request") => job'[c].at = "request" \/ m_isRequestStop'
        /\ At(c, "request") /\ ~ m_isRequestStop => job'[c].at \in {"request", "pushEndTasks"}
        /\ job'[c].at = "request" => At(c, "request")
        /\ job'[c].at = "out" =>
             /\ job[c].op \in {"Stop", "StopNow"} => job[c].at \in {"out", "await", "cancelNow"}
             /\ job[c].op = "Destroy" => job[c].at \in {"out", "joinThreads"}
    BY <1>1, JobMoves
  <2>3. /\ Read("Stop").at = "read" /\ Read("Stop").method = "Stop"
        /\ Read("StopAsync").at = "read"
    OBVIOUS
  <2> HIDE DEF Read
  <2>4. job[c].op = "Destroy" =>
          \A e \in Clients : e # c => At(e, "out")' /\ InCall(e, "none")'
    BY <1>3, <2>1 DEF StopTimerOf, At, InCall
  <2>5. job'[c].op \in StopOps /\ job'[c].at # "request" => m_isRequestStop'
    BY <1>2, <2>1, <2>2 DEF StopTimerOf, At
  <2>6. call'[c].at \in {"none", "read"}
    BY <1>1, <1>3, <2>3 DEF InCall
  <2>7. call'[c].at = "read" =>
          call'[c].method = "Stop" \/ job'[c].at \in {"request", "pushEndTasks"}
    BY <1>1, <1>3, <2>2, <2>3 DEF InCall
  <2>8. call'[c].at = "none" /\ job'[c].op \in {"Stop", "StopNow"} /\ job'[c].at = "out"
          => TimerGone \/ madeLate
    BY <1>1, <1>3, <2>1, <2>2, <2>3 DEF StopTimerOf, Over, Returned, At, InCall
  <2>9. call'[c].at = "none" /\ job'[c].op = "Destroy" /\ job'[c].at \in {"joinThreads", "out"}
          => TimerGone
    BY <1>1, <1>3, <2>1, <2>2, <2>3 DEF StopTimerOf, At, InCall
  <2> QED
    BY <1>1, <1>4, <2>2, <2>4, <2>5, <2>6, <2>7, <2>8, <2>9
    DEF StopTimerOf, At, InCall, Over, Returned
<1> QED
  BY <1>6, <1>7 DEF StopTimerInv

(* A client calls a method of the pool.                                    *)
LEMMA CallKeepsStopTimer ==
  ASSUME PoolInv, StopTimerInv, NEW c \in Clients,
         InCall(c, "none"), Call(c), UNCHANGED timerVars,
         job'[c].op = "Destroy" => \A d \in Clients : InCall(d, "none")
  PROVE  StopTimerInv'
<1>1. job \in [Clients -> JobType]
  BY DEF PoolInv, IInv, TypeOK, JobType
<1>2. /\ UNCHANGED <<call, madeLate, m_isRequestStop>> /\ UNCHANGED TimerGone
  BY DEF timerVars, TimerGone, Call, CallStop, CallAddTask, CallCancel, poolVars
<1>3. CASE UNCHANGED job
  BY <1>2, <1>3, OutsideKeepsStopTimer
<1>4. CASE ~ UNCHANGED job
  <2>1. /\ At(c, "out") /\ Alive
        /\ \A d \in Clients : d # c => job'[d] = job[d]
        /\ \/ job'[c].op = "AddTask"
           \/ /\ job'[c].at = "request"
              /\ job'[c].op = "Destroy" => \A d \in Clients : At(d, "out")
    BY <1>1, <1>4 DEF Call, CallStop, CallAddTask, CallCancel, Idle
  <2>2. ASSUME NEW d \in Clients, d # c
        PROVE  StopTimerOf(d)'
    <3>1. StopTimerOf(d) /\ job'[d] = job[d] /\ job[d].op # "Destroy"
      BY <2>1, <2>2 DEF StopTimerInv, Alive
    <3> QED
      BY <1>2, <3>1 DEF StopTimerOf, At, InCall, Over, Returned
  <2>3. StopTimerOf(c)'
    BY <1>2, <2>1 DEF StopTimerOf, At, InCall, Over, Returned, StopOps
  <2> QED
    BY <2>2, <2>3 DEF StopTimerInv
<1> QED
  BY <1>3, <1>4

(* The code about m_timer.                                                 *)
LEMMA TimerCallKeepsStopTimer ==
  ASSUME PoolInv, LateInv, StopTimerInv, NEW c \in Clients,
         \/ MakeTimer(c) \/ TestTimer(c) \/ PutInTimer(c)
         \/ ReadTimer(c) \/ ClearTimer(c) \/ JoinTimer(c)
         \/ \E k \in Tasks, method \in DOMAIN Methods : CallAddTimerTask(c, method, k)
  PROVE  StopTimerInv'
<1>1. /\ UNCHANGED <<job, m_isRequestStop>>
      /\ \A d \in Clients : d # c => call'[d] = call[d]
  BY DEF MakeTimer, TestTimer, PutInTimer, ReadTimer, ClearTimer, JoinTimer, CallAddTimerTask,
         vars, poolVars, PoolInv, TimerTypeOK
<1>2. call \in [Clients -> Calls] /\ StopTimerOf(c) /\ NoCall.at = "none"
  BY DEF PoolInv, TimerTypeOK, StopTimerInv, NoCall
<1>3. \A d \in Clients : d # c => job[d].op # "Destroy"
  <2>1. ~ InCall(c, "none") \/ Alive
    BY DEF MakeTimer, TestTimer, PutInTimer, ReadTimer, ClearTimer, JoinTimer, CallAddTimerTask,
           InCall
  <2> QED
    BY <2>1 DEF StopTimerInv, StopTimerOf, Alive
<1>4. CASE MakeTimer(c)
  <2>1. /\ InCall(c, "make") /\ call'[c].at = "put"
        /\ \/ UNCHANGED <<timerAt, madeLate>>
           \/ madeLate' = m_isRequestStop
    BY <1>2, <1>4 DEF MakeTimer, Calls, NoCall
  <2>2. job[c].op \notin StopOps
    BY <1>2, <2>1 DEF StopTimerOf, InCall
  <2>3. ASSUME NEW d \in Clients PROVE StopTimerOf(d)'
    <3>1. StopTimerOf(d) /\ (d # c => call'[d] = call[d]) /\ job[d].op # "Destroy"
      BY <1>1, <1>3, <2>2 DEF StopTimerInv, StopOps
    <3>2. Over(d, {"Stop", "StopNow"})' => TimerGone' \/ madeLate'
      <4> SUFFICES ASSUME Over(d, {"Stop", "StopNow"})'
                   PROVE  TimerGone' \/ madeLate'
        OBVIOUS
      <4>1. d # c
        BY <1>1, <2>2 DEF Over, Returned, StopOps
      <4>2. Over(d, {"Stop", "StopNow"}) /\ m_isRequestStop
        BY <1>1, <3>1, <4>1 DEF Over, Returned, InCall, At, StopTimerOf, StopOps
      <4> QED
        BY <2>1, <3>1, <4>2 DEF StopTimerOf, TimerGone
    <3>3. CASE d = c
      BY <1>1, <2>1, <2>2, <3>1, <3>2, <3>3 DEF StopTimerOf, StopOps, At, InCall
    <3>4. CASE d # c
      BY <1>1, <3>1, <3>2, <3>4 DEF StopTimerOf, At, InCall
    <3> QED
      BY <3>3, <3>4
  <2> QED
    BY <2>3 DEF StopTimerInv
<1>5. CASE ~ MakeTimer(c)
  <2>1. UNCHANGED <<timerAt, madeLate>> /\ UNCHANGED TimerGone
    BY <1>5 DEF TestTimer, PutInTimer, ReadTimer, ClearTimer, JoinTimer, CallAddTimerTask, TimerGone
  <2>2. ASSUME NEW d \in Clients, d # c
        PROVE  StopTimerOf(d)'
    <3>1. StopTimerOf(d) /\ call'[d] = call[d] /\ job[d].op # "Destroy"
      BY <1>1, <1>3, <2>2 DEF StopTimerInv
    <3> QED
      BY <1>1, <2>1, <3>1 DEF StopTimerOf, At, InCall, Over, Returned
  <2>3. \A d \in Clients : job[c].op = "Destroy" /\ d # c => At(d, "out")' /\ InCall(d, "none")'
    BY <1>1, <1>2 DEF StopTimerOf, At, InCall
  <2>4. CASE \/ TestTimer(c) \/ PutInTimer(c)
             \/ \E k \in Tasks, method \in DOMAIN Methods : CallAddTimerTask(c, method, k)
    <3>1. call'[c] = call[c] \/ (job[c].op \notin StopOps /\ call'[c].at \in {"none", "make", "pushTask"})
      <4>1. CASE TestTimer(c) \/ PutInTimer(c)
        <5>1. call[c].at \in {"put", "pushTask"} /\ call'[c].at \in {"none", "pushTask"}
          BY <1>2, <4>1 DEF TestTimer, PutInTimer, InCall, Calls, NoCall
        <5> QED
          BY <1>2, <5>1 DEF StopTimerOf
      <4>2. ASSUME NEW k \in Tasks, NEW method \in DOMAIN Methods, CallAddTimerTask(c, method, k)
            PROVE  call'[c] = call[c] \/ (job[c].op \notin StopOps /\ call'[c].at = "make")
        <5>1. CASE m_isRequestStop
          BY <4>2, <5>1 DEF CallAddTimerTask
        <5>2. CASE ~ m_isRequestStop
          <6>1. At(c, "out") /\ call'[c].at = "make"
            BY <1>2, <4>2, <5>2 DEF CallAddTimerTask, Idle
          <6> QED
            BY <1>2, <5>2, <6>1 DEF StopTimerOf, At
        <5> QED
          BY <5>1, <5>2
      <4> QED
        BY <2>4, <4>1, <4>2
    <3> QED
      BY <1>1, <1>2, <2>1, <2>2, <2>3, <3>1
      DEF StopTimerInv, StopTimerOf, At, InCall, Over, Returned, StopOps
  <2>5. CASE ReadTimer(c) \/ ClearTimer(c) \/ JoinTimer(c)
    <3>1. \/ call[c].at = "read" /\ call'[c].at = "clear" /\ call'[c].method = call[c].method
          \/ call'[c].at = "join"
          \/ call'[c].at = "none" /\ TimerGone
          \/ call[c].at = "clear" /\ call[c].method # "Stop" /\ call'[c].at = "none"
      <4>1. CASE ReadTimer(c)
        BY <1>2, <4>1 DEF ReadTimer, InCall, LateInv, TimerGone, Calls, NoCall
      <4>2. CASE ClearTimer(c)
        BY <1>2, <4>2 DEF ClearTimer, InCall, Calls, NoCall
      <4>3. CASE JoinTimer(c)
        BY <1>2, <4>3 DEF JoinTimer, TimerGone
      <4> QED
        BY <2>5, <4>1, <4>2, <4>3
    <3>2. StopTimerOf(c)'
      BY <1>1, <1>2, <2>1, <2>3, <3>1 DEF StopTimerOf, At, InCall, Over, Returned
    <3> QED
      BY <2>2, <3>2 DEF StopTimerInv
  <2> QED
    BY <1>5, <2>4, <2>5
<1> QED
  BY <1>4, <1>5

LEMMA NextKeepsStopTimerInv ==
  PoolInv /\ LateInv /\ StopTimerInv /\ [TimerNext]_allVars => StopTimerInv'
<1> SUFFICES ASSUME PoolInv, LateInv, StopTimerInv, [TimerNext]_allVars
             PROVE  StopTimerInv'
  OBVIOUS
<1>1. m_isRequestStop \in BOOLEAN
  BY DEF LateInv
<1>2. ASSUME NEW w \in Workers,
             \/ PoolWorkerStep(w) /\ UNCHANGED timerVars
             \/ WakeWorkerSpuriously(w) /\ UNCHANGED <<poolVars, job, fate, timerVars>>
      PROVE  StopTimerInv'
  <2>1. UNCHANGED job /\ UNCHANGED timerVars
    BY <1>2 DEF PoolWorkerStep, CountStopped, SetPoolFinished
  <2>2. m_isRequestStop => m_isRequestStop'
    BY <1>1, <1>2, RequestSticks DEF poolVars
  <2> QED
    BY <1>2, <2>1, <2>2, OutsideKeepsStopTimer DEF timerVars, TimerGone
<1>3. ASSUME TimerStep \/ \E k \in Tasks : Fire(k)
      PROVE  StopTimerInv'
  <2>1. UNCHANGED <<job, call, madeLate, m_isRequestStop>>
    BY <1>3 DEF TimerStep, TimerExits, TestCancelled, RunCancelled, AddTested, AddPushes, Fire, vars,
       poolVars
  <2>2. ~ TimerGone
    BY <1>3 DEF TimerStep, TimerExits, TestCancelled, RunCancelled, AddTested, AddPushes, Fire,
       TimerGone
  <2> QED
    BY <2>1, <2>2, OutsideKeepsStopTimer
<1>4. ASSUME NEW c \in Clients, WakeClientSpuriously(c), UNCHANGED timerVars
      PROVE  StopTimerInv'
  <2>1. UNCHANGED <<job, m_isRequestStop>>
    BY <1>4 DEF WakeClientSpuriously, WakeStopSpuriously, poolVars
  <2> QED
    BY <1>4, <2>1, OutsideKeepsStopTimer DEF timerVars, TimerGone
<1>5. CASE UNCHANGED allVars
  BY <1>5, OutsideKeepsStopTimer DEF allVars, vars, poolVars, timerVars, TimerGone
<1>6. ASSUME NEW c \in Clients, PoolClientStep(c)
      PROVE  StopTimerInv'
  BY <1>6, PoolStepKeepsStopTimer, TimerCallKeepsStopTimer DEF PoolClientStep
<1> QED
  BY <1>2, <1>3, <1>4, <1>5, <1>6, CallKeepsStopTimer, TimerCallKeepsStopTimer
  DEF TimerNext

(* When Stop() or StopNow() has returned the timer thread is gone, unless  *)
(* an AddTimerTask() that passed its test before the stop request made the *)
(* timer after it; when the destructor has returned, whatever the calls    *)
(* before it, the thread is gone (FixedThreadPool.h:164-177, 224-237, 392).*)
THEOREM StopMethodsEndTheTimer == TimerSpec => []StopEndsTheTimer
<1>1. TimerInit => LateInv
  BY DEF TimerInit, Init, LateInv, LateTimerAddsNothing
<1>2. TimerInit => StopTimerInv
  BY DEF TimerInit, Init, StopTimerInv, StopTimerOf, NoCall, Over, Returned, StopOps
<1>3. LateInv /\ StopTimerInv => StopEndsTheTimer
  BY DEF StopTimerInv, StopTimerOf, StopEndsTheTimer, Over, Returned, TimerGone, At
<1> QED
  BY <1>1, <1>2, <1>3, PoolInvariance, NextKeepsLateInv, NextKeepsStopTimerInv, PTL DEF TimerSpec

-----------------------------------------------------------------------------
(* The workers are CancelableThreads, with the timer as without            *)

LEMMA TimerStepIsThreadStep == PoolInv /\ [TimerNext]_allVars => [Thread!Next]_(Thread!vars)
<1> SUFFICES ASSUME PoolInv, [TimerNext]_allVars
             PROVE  [Thread!Next]_(Thread!vars)
  OBVIOUS
<1>1. CASE [Next]_vars
  BY <1>1, StepIsThreadStep DEF PoolInv
<1>2. CASE UNCHANGED workerVars \/ RunCancelled \/ AddPushes
  BY <1>2 DEF workerVars, threadVars, RunCancelled, AddPushes, Thread!vars
<1> QED
  BY <1>1, <1>2, StepKinds

LEMMA CancelableInvarianceWithTimer == TimerSpec => []Cancelable!IInv
<1>1. TimerInit => Thread!Init
  BY DEF TimerInit, Init, WorkerInit
<1> QED
  BY <1>1, PoolInvariance, TimerStepIsThreadStep, ThreadsAreCancelable, PTL DEF TimerSpec

(* The StopNow() of a pool with a timer is woken too, and by a worker that *)
(* is past its work (CancelableThread.cpp:53-59, 130-158).                 *)
THEOREM StopNowIsWokenWithTimer ==
  TimerSpec => [](Thread!NoLostFinishWakeup /\ Thread!CancelledIsPastTheWork)
<1>1. Cancelable!IInv => Thread!NoLostFinishWakeup /\ Thread!CancelledIsPastTheWork
  BY DEF Cancelable!IInv, Cancelable!NoLostFinishWakeup, Thread!NoLostFinishWakeup,
     Cancelable!CancelledIsPastTheWork, Thread!CancelledIsPastTheWork
<1> QED
  BY <1>1, CancelableInvarianceWithTimer, PTL

-----------------------------------------------------------------------------
(* The tasks of a pool with a timer are run again and again, by the workers*)
(* and, if they are cancelled, by the timer thread: together these are the *)
(* runners of one TaskBase.                                                *)

Runners == Workers \cup {TimerThread}
AllRuns == [r \in Runners |-> IF r = TimerThread THEN timerRun[r] ELSE run[r]]

NoRunner == CHOOSE r : r \notin Runners

RunAgain == INSTANCE TaskProofs WITH
  Runners <- Runners, Cancellers <- Clients, Periodic <- Tasks, run <- AllRuns,
  m_state <- task_state, m_isRequestCancel <- task_isRequestCancel,
  m_cancelCondition <- task_condition, cancel <- task_cancel,
  Futures <- {}, Getters <- {}, Nobody <- NoRunner,
  m_isResultReturned <- <<>>, m_resultCondition <- <<>>, resultMutex <- <<>>, get <- <<>>

LEMMA WorkerRuns ==
  ASSUME PoolInv, UNCHANGED timerRun, NEW w \in Workers
  PROVE  /\ AllRuns[w] = run[w]
         /\ \A x : run' = [run EXCEPT ![w] = x] => AllRuns' = [AllRuns EXCEPT ![w] = x]
         /\ \A p : run' = [run EXCEPT ![w].at = p] => AllRuns' = [AllRuns EXCEPT ![w].at = p]
BY TimerAssumption DEF AllRuns, Runners, PoolInv, IInv, TypeOK, Task!TypeOK

LEMMA TimerThreadRuns ==
  ASSUME PoolInv, UNCHANGED run
  PROVE  /\ AllRuns[TimerThread] = timerRun[TimerThread]
         /\ \A x : timerRun' = [timerRun EXCEPT ![TimerThread] = x]
                     => AllRuns' = [AllRuns EXCEPT ![TimerThread] = x]
         /\ \A p : timerRun' = [timerRun EXCEPT ![TimerThread].at = p]
                     => AllRuns' = [AllRuns EXCEPT ![TimerThread].at = p]
BY TimerAssumption DEF AllRuns, Runners, PoolInv, TimerTypeOK

LEMMA WorkersRunAgain ==
  ASSUME PoolInv, UNCHANGED timerRun, NEW w \in Workers
  PROVE  /\ Task!RunStep(w) => RunAgain!RunStep(w)
         /\ Task!DoRunThrows(w) => RunAgain!DoRunThrows(w)
         /\ \A k \in Tasks : Task!Run(w, k) => RunAgain!Run(w, k)
<1>1. /\ AllRuns[w] = run[w]
      /\ \A x : run' = [run EXCEPT ![w] = x] => AllRuns' = [AllRuns EXCEPT ![w] = x]
      /\ \A p : run' = [run EXCEPT ![w].at = p] => AllRuns' = [AllRuns EXCEPT ![w].at = p]
  BY WorkerRuns
<1>2. Task!RunStep(w) => RunAgain!RunStep(w)
  BY <1>1 DEF Task!RunStep, RunAgain!RunStep, Task!CheckCancellation, RunAgain!CheckCancellation,
     Task!SetRunning, RunAgain!SetRunning, Task!DoRunReturns, RunAgain!DoRunReturns,
     Task!DoRunIsCancelled, RunAgain!DoRunIsCancelled, Task!SetFinished, RunAgain!SetFinished,
     Task!SetCancelled, RunAgain!SetCancelled, Task!OnCancel, RunAgain!OnCancel,
     Task!NotifyCancellers, RunAgain!NotifyCancellers, Task!MoveTo, RunAgain!MoveTo,
     Task!SetState, RunAgain!SetState, Task!Idle, RunAgain!Idle, Task!NotifyAllIf,
     RunAgain!NotifyAllIf
<1>3. Task!DoRunThrows(w) => RunAgain!DoRunThrows(w)
  BY <1>1 DEF Task!DoRunThrows, RunAgain!DoRunThrows, Task!Idle, RunAgain!Idle
<1>4. \A k \in Tasks : Task!Run(w, k) => RunAgain!Run(w, k)
  BY <1>1 DEF Task!Run, RunAgain!Run, Task!Idle, RunAgain!Idle
<1> QED
  BY <1>2, <1>3, <1>4

LEMMA TimerThreadRunsAgain ==
  ASSUME PoolInv, UNCHANGED <<run, task_cancel>>, TimerTask!RunStep(TimerThread)
  PROVE  RunAgain!RunStep(TimerThread)
<1>1. /\ AllRuns[TimerThread] = timerRun[TimerThread]
      /\ \A x : timerRun' = [timerRun EXCEPT ![TimerThread] = x]
                  => AllRuns' = [AllRuns EXCEPT ![TimerThread] = x]
      /\ \A p : timerRun' = [timerRun EXCEPT ![TimerThread].at = p]
                  => AllRuns' = [AllRuns EXCEPT ![TimerThread].at = p]
  BY TimerThreadRuns
<1> QED
  BY <1>1 DEF TimerTask!RunStep, RunAgain!RunStep, TimerTask!CheckCancellation,
     RunAgain!CheckCancellation, TimerTask!SetRunning, RunAgain!SetRunning,
     TimerTask!DoRunReturns, RunAgain!DoRunReturns, TimerTask!DoRunIsCancelled,
     RunAgain!DoRunIsCancelled, TimerTask!SetFinished, RunAgain!SetFinished,
     TimerTask!SetCancelled, RunAgain!SetCancelled, TimerTask!OnCancel, RunAgain!OnCancel,
     TimerTask!NotifyCancellers, RunAgain!NotifyCancellers, TimerTask!MoveTo, RunAgain!MoveTo,
     TimerTask!SetState, RunAgain!SetState, TimerTask!Idle, RunAgain!Idle,
     TimerTask!NotifyAllIf, RunAgain!NotifyAllIf

(* A client's steps leave every run alone.                                 *)
LEMMA CancelsRunAgain ==
  ASSUME UNCHANGED timerRun, NEW c \in Clients
  PROVE  /\ Task!CancelStep(c) => RunAgain!CancelStep(c)
         /\ Task!WakeSpuriously(c) => RunAgain!WakeSpuriously(c)
         /\ \A k \in Tasks : Task!Cancel(c, k) => RunAgain!Cancel(c, k)
         /\ \A k \in Tasks : Task!CancelAsync(k) => RunAgain!CancelAsync(k)
<1>1. UNCHANGED run => UNCHANGED AllRuns
  BY DEF AllRuns
<1>2. Task!CancelStep(c) => RunAgain!CancelStep(c)
  BY <1>1 DEF Task!CancelStep, RunAgain!CancelStep, Task!CancelBlocks, RunAgain!CancelBlocks,
     Task!CancelReturns, RunAgain!CancelReturns, Task!IsStopState, RunAgain!IsStopState,
     Task!Wait, RunAgain!Wait
<1>3. Task!WakeSpuriously(c) => RunAgain!WakeSpuriously(c)
  BY <1>1 DEF Task!WakeSpuriously, RunAgain!WakeSpuriously, Task!SpuriousWakeup,
     RunAgain!SpuriousWakeup
<1>4. /\ \A k \in Tasks : Task!Cancel(c, k) => RunAgain!Cancel(c, k)
      /\ \A k \in Tasks : Task!CancelAsync(k) => RunAgain!CancelAsync(k)
  BY <1>1 DEF Task!Cancel, RunAgain!Cancel, Task!CancelAsync, RunAgain!CancelAsync
<1> QED
  BY <1>2, <1>3, <1>4

(* The timer thread is in a Run() only where TestCancelled() took it there.*)
IdleElsewhere == timerAt # "run" => timerRun[TimerThread] = Task!Idle

LEMMA NextKeepsIdleElsewhere ==
  LateInv /\ IdleElsewhere /\ [TimerNext]_allVars => IdleElsewhere'
<1> SUFFICES ASSUME LateInv, IdleElsewhere, [TimerNext]_allVars
             PROVE  IdleElsewhere'
  OBVIOUS
<1>1. ASSUME UNCHANGED timerRun, timerAt = "run" => timerAt' = "run"
      PROVE  IdleElsewhere'
  BY <1>1 DEF IdleElsewhere
<1>2. CASE TestCancelled
  BY <1>2 DEF TestCancelled, IdleElsewhere
<1>3. CASE RunCancelled
  BY <1>3 DEF RunCancelled, IdleElsewhere
<1>4. CASE TimerExits \/ AddTested \/ AddPushes \/ \E k \in Tasks : Fire(k)
  BY <1>1, <1>4 DEF TimerExits, AddTested, AddPushes, Fire
<1>5. ASSUME NEW c \in Clients, MakeTimer(c)
      PROVE  IdleElsewhere'
  BY <1>5 DEF MakeTimer, LateInv, IdleElsewhere
<1>6. ASSUME NEW c \in Clients,
             \/ PoolStep(c) \/ TestTimer(c) \/ PutInTimer(c)
             \/ ReadTimer(c) \/ ClearTimer(c) \/ JoinTimer(c)
             \/ \E k \in Tasks, method \in DOMAIN Methods : CallAddTimerTask(c, method, k)
      PROVE  IdleElsewhere'
  BY <1>1, <1>6 DEF PoolStep, TestTimer, PutInTimer, ReadTimer, ClearTimer, JoinTimer,
     CallAddTimerTask
<1>7. CASE UNCHANGED timerVars
  BY <1>1, <1>7 DEF timerVars
<1> QED
  BY <1>2, <1>3, <1>4, <1>5, <1>6, <1>7 DEF TimerNext, TimerStep, PoolClientStep, allVars

LEMMA PoolWorkerRunsTasks ==
  ASSUME NEW w \in Workers, PoolWorkerStep(w)
  PROVE  \/ Task!RunStep(w)
         \/ Task!DoRunThrows(w)
         \/ \E k \in Tasks : Task!Run(w, k)
         \/ UNCHANGED taskVars
<1>1. CASE PerformTask(w) \/ RunTask(w) \/ TaskThrows(w)
  BY <1>1 DEF PerformTask, RunTask, TaskThrows
<1>2. CASE \/ ThreadFunction(w) \/ CheckRequest(w) \/ LockRunningTask(w) \/ PopBlocks(w)
           \/ PopTask(w) \/ DropTask(w) \/ PerformEndTask(w) \/ CountStopped(w)
           \/ SetPoolFinished(w)
  BY <1>2 DEF ThreadFunction, CheckRequest, LockRunningTask, PopBlocks, PopTask, DropTask,
     PerformEndTask, CountStopped, SetPoolFinished
<1> QED
  BY <1>1, <1>2 DEF PoolWorkerStep, WorkerStep

LEMMA TestCancelledRunsAgain ==
  ASSUME PoolInv, IdleElsewhere, TestCancelled
  PROVE  RunAgain!Run(TimerThread, fired) \/ UNCHANGED <<taskVars, timerRun>>
<1>1. UNCHANGED taskVars
  BY DEF TestCancelled, vars, workerVars
<1>2. CASE task_isRequestCancel[fired]
  <2>1. /\ timerRun[TimerThread] = Task!Idle
        /\ fired \in Tasks
        /\ timerRun' = [timerRun EXCEPT ![TimerThread] = [at |-> "check", task |-> fired]]
    BY <1>2 DEF TestCancelled, IdleElsewhere, PoolInv, TimerTypeOK
  <2>2. UNCHANGED run
    BY <1>1 DEF taskVars
  <2>3. /\ AllRuns[TimerThread] = Task!Idle
        /\ AllRuns' = [AllRuns EXCEPT ![TimerThread] = [at |-> "check", task |-> fired]]
    BY <2>1, <2>2, TimerThreadRuns
  <2> QED
    BY <1>1, <2>1, <2>3 DEF RunAgain!Run, RunAgain!Idle, Task!Idle, taskVars
<1>3. CASE ~ task_isRequestCancel[fired]
  BY <1>1, <1>3 DEF TestCancelled
<1> QED
  BY <1>2, <1>3

LEMMA TimerStepIsRunAgainStep ==
  PoolInv /\ IdleElsewhere /\ [TimerNext]_allVars => [RunAgain!Next]_(RunAgain!vars)
<1> SUFFICES ASSUME PoolInv, IdleElsewhere, [TimerNext]_allVars
             PROVE  [RunAgain!Next]_(RunAgain!vars)
  OBVIOUS
<1>1. UNCHANGED <<taskVars, timerRun>> => UNCHANGED RunAgain!vars
  BY DEF taskVars, RunAgain!vars, AllRuns
<1>2. ASSUME NEW w \in Workers, PoolWorkerStep(w), UNCHANGED timerVars
      PROVE  [RunAgain!Next]_(RunAgain!vars)
  <2>1. UNCHANGED timerRun
    BY <1>2 DEF timerVars
  <2>2. /\ Task!RunStep(w) => RunAgain!RunStep(w)
        /\ Task!DoRunThrows(w) => RunAgain!DoRunThrows(w)
        /\ \A k \in Tasks : Task!Run(w, k) => RunAgain!Run(w, k)
    BY <2>1, WorkersRunAgain
  <2>3. w \in Runners
    BY DEF Runners
  <2> QED
    BY <1>1, <1>2, <2>1, <2>2, <2>3, PoolWorkerRunsTasks DEF RunAgain!Next
<1>3. ASSUME NEW c \in Clients, ClientStep(c) \/ Call(c) \/ WakeClientSpuriously(c),
             UNCHANGED timerRun
      PROVE  [RunAgain!Next]_(RunAgain!vars)
  <2>1. \/ Task!CancelStep(c)
        \/ Task!WakeSpuriously(c)
        \/ \E k \in Tasks : Task!Cancel(c, k)
        \/ \E k \in Tasks : Task!CancelAsync(k) /\ UNCHANGED task_cancel
        \/ UNCHANGED taskVars
    BY <1>3, ClientStepIsTaskStep
  <2>2. /\ Task!CancelStep(c) => RunAgain!CancelStep(c)
        /\ Task!WakeSpuriously(c) => RunAgain!WakeSpuriously(c)
        /\ \A k \in Tasks : Task!Cancel(c, k) => RunAgain!Cancel(c, k)
        /\ \A k \in Tasks : Task!CancelAsync(k) => RunAgain!CancelAsync(k)
    BY <1>3, CancelsRunAgain
  <2> QED
    BY <1>1, <1>3, <2>1, <2>2 DEF RunAgain!Next
<1>4. CASE TestCancelled
  <2>1. TimerThread \in Runners
    BY DEF Runners
  <2>2. timerAt = "fired"
    BY <1>4 DEF TestCancelled
  <2>3. fired \in Tasks
    BY <2>2 DEF PoolInv, TimerTypeOK
  <2> QED
    BY <1>1, <1>4, <2>1, <2>3, TestCancelledRunsAgain DEF RunAgain!Next
<1>5. CASE RunCancelled
  <2>1. TimerThread \in Runners
    BY DEF Runners
  <2>2. RunAgain!RunStep(TimerThread)
    BY <1>5, TimerThreadRunsAgain DEF RunCancelled
  <2> QED
    BY <2>1, <2>2 DEF RunAgain!Next
<1>6. CASE TimerExits \/ AddTested \/ AddPushes \/ \E k \in Tasks : Fire(k)
  BY <1>1, <1>6 DEF TimerExits, AddTested, AddPushes, Fire, vars, workerVars
<1>7. ASSUME NEW c \in Clients,
             \/ MakeTimer(c) \/ TestTimer(c) \/ PutInTimer(c)
             \/ ReadTimer(c) \/ ClearTimer(c) \/ JoinTimer(c)
             \/ \E k \in Tasks, method \in DOMAIN Methods : CallAddTimerTask(c, method, k)
      PROVE  UNCHANGED <<taskVars, timerRun>>
  BY <1>7 DEF MakeTimer, TestTimer, PutInTimer, ReadTimer, ClearTimer, JoinTimer,
     CallAddTimerTask, vars, workerVars
<1>8. ASSUME NEW w \in Workers, WakeWorkerSpuriously(w), UNCHANGED timerVars
      PROVE  UNCHANGED <<taskVars, timerRun>>
  BY <1>8 DEF WakeWorkerSpuriously, timerVars
<1>9. ASSUME NEW c \in Clients, PoolStep(c)
      PROVE  ClientStep(c) /\ UNCHANGED timerRun
  BY <1>9 DEF PoolStep
<1>10. UNCHANGED timerVars => UNCHANGED timerRun
  BY DEF timerVars
<1>11. CASE UNCHANGED allVars
  BY <1>1, <1>11 DEF allVars, vars, workerVars, timerVars
<1> QED
  BY <1>1, <1>2, <1>3, <1>4, <1>5, <1>6, <1>7, <1>8, <1>9, <1>10, <1>11
  DEF TimerNext, TimerStep, PoolClientStep

LEMMA RunAgainAssumptions == RunAgain!TaskAssumption /\ RunAgain!FutureAssumption
<1>1. \E x : x \notin Runners
  BY NoSetContainsEverything
<1> QED
  BY <1>1, PoolAssumption DEF RunAgain!TaskAssumption, RunAgain!FutureAssumption, NoRunner

LEMMA RunAgainInvariance ==
  TimerSpec => RunAgain!Init /\ [][RunAgain!Next]_(RunAgain!vars) /\ []RunAgain!WakeupInv
<1>1. TimerInit => RunAgain!Init /\ IdleElsewhere
  <2> SUFFICES ASSUME TimerInit
               PROVE  RunAgain!Init /\ IdleElsewhere
    OBVIOUS
  <2>1. AllRuns = [r \in Runners |-> Task!Idle]
    BY DEF TimerInit, Init, WorkerInit, Task!Init, AllRuns, Runners
  <2> QED
    BY <2>1 DEF TimerInit, Init, WorkerInit, Task!Init, Task!Idle, RunAgain!Init,
       RunAgain!Idle, IdleElsewhere
<1>2. TimerSpec => []IdleElsewhere
  BY <1>1, InitLateInv, NextKeepsLateInv, NextKeepsIdleElsewhere, PTL DEF TimerSpec
<1>3. RunAgain!Init => RunAgain!WakeupInv
  BY RunAgainAssumptions, RunAgain!InitWakeupInv
<1>4. RunAgain!WakeupInv /\ [RunAgain!Next]_(RunAgain!vars) => RunAgain!WakeupInv'
  BY RunAgainAssumptions, RunAgain!NextKeepsWakeupInv
<1> QED
  BY <1>1, <1>2, <1>3, <1>4, PoolInvariance, TimerStepIsRunAgainStep, PTL DEF TimerSpec

(* The Cancel() of a task never sleeps through the end of the run that     *)
(* stopped the task, be it a worker's or the one that the timer thread     *)
(* makes of a cancelled task (TaskBase.cpp:45-67, FixedThreadPool.h:316-322).*)
THEOREM TaskCancelIsWokenWithTimer == TimerSpec => []RunAgain!NoLostCancelWakeup
<1>1. RunAgain!WakeupInv => RunAgain!NoLostCancelWakeup
  BY DEF RunAgain!WakeupInv
<1> QED
  BY <1>1, RunAgainInvariance, PTL

(* Once Cancel() or CancelAsync() of an interval task is called, no run    *)
(* that has not passed its check executes the task, however often the      *)
(* timer still hands it to the workers (TaskBase.cpp:41).                  *)
THEOREM CancelledIntervalTasksAreNotExecuted == TimerSpec => RunAgain!CancellationSticks
<1>1. RunAgain!TypeOK /\ [RunAgain!Next]_(RunAgain!vars) => [RunAgain!Sticks]_(RunAgain!vars)
  BY RunAgainAssumptions, RunAgain!StepSticks
<1>2. RunAgain!WakeupInv => RunAgain!TypeOK
  BY DEF RunAgain!WakeupInv
<1> QED
  BY <1>1, <1>2, RunAgainInvariance, PTL DEF RunAgain!CancellationSticks, RunAgain!Sticks
===============================================================================
