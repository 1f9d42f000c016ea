------------------------------ MODULE TaskBase ------------------------------
(***************************************************************************)
(* The tasks of src/TaskBase.cpp: threads that call Run() on them, threads *)
(* that call Cancel() or CancelAsync(), and the condition variable on      *)
(* which a Cancel() waits for the end of the run.                          *)
(*                                                                         *)
(* DoRun() is the user's: it returns, calls CheckCancellation(), or        *)
(* throws.  FixedThreadPool instantiates this module with its workers as   *)
(* Runners and the users of the pool as Cancellers.                        *)
(***************************************************************************)
EXTENDS ConditionVariable

CONSTANTS
  Tasks,
  Runners,      \* threads that call Run(), one call at a time each
  Cancellers,   \* threads that call Cancel() or CancelAsync()
  NoTask,
  Periodic,     \* the tasks that are run again, as the interval tasks are
  MayThrow      \* TRUE: DoRun() may let an exception of the user escape

ASSUME TaskAssumption == NoTask \notin Tasks /\ Periodic \subseteq Tasks /\ MayThrow \in BOOLEAN

VARIABLES
  m_state,             \* for each task
  m_isRequestCancel,   \* for each task
  m_cancelCondition,   \* for each task, the threads blocked in Cancel()
  run,                 \* for each runner, where it is in Run() of which task
  cancel               \* for each canceller, its pending or last Cancel()

vars == <<m_state, m_isRequestCancel, m_cancelCondition, run, cancel>>

State == {"INIT", "RUNNING", "FINISHED", "CANCELLED"}

Idle == [at |-> "idle", task |-> NoTask]

Init ==
  /\ m_state = [k \in Tasks |-> "INIT"]
  /\ m_isRequestCancel = [k \in Tasks |-> FALSE]
  /\ m_cancelCondition = [k \in Tasks |-> {}]
  /\ run = [r \in Runners |-> Idle]
  /\ cancel = [c \in Cancellers |-> [at |-> "out", task |-> NoTask]]

IsStopState(k) == m_state[k] \in {"FINISHED", "CANCELLED"}

Running(k, places) == \E r \in Runners : run[r].task = k /\ run[r].at \in places

-----------------------------------------------------------------------------
(* Run()                                                                   *)

MoveTo(r, place) == run' = [run EXCEPT ![r].at = place]

SetState(k, s) == m_state' = [m_state EXCEPT ![k] = s]

(* A thread calls Run().                                                   *)
Run(r, k) ==
  /\ run[r] = Idle
  /\ k \notin Periodic => m_state[k] = "INIT" /\ \A q \in Runners : run[q].task # k
  /\ run' = [run EXCEPT ![r] = [at |-> "check", task |-> k]]
  /\ UNCHANGED <<m_state, m_isRequestCancel, m_cancelCondition, cancel>>

(* Run() without the check before SetState(RUNNING).                       *)
CheckNothing(r) ==
  /\ run[r].at = "check"
  /\ MoveTo(r, "setRunning")
  /\ UNCHANGED <<m_state, m_isRequestCancel, m_cancelCondition, cancel>>

(* The CheckCancellation() before the run.                                 *)
CheckCancellation(r) ==
  /\ run[r].at = "check"
  /\ MoveTo(r, IF m_isRequestCancel[run[r].task] THEN "setCancelled" ELSE "setRunning")
  /\ UNCHANGED <<m_state, m_isRequestCancel, m_cancelCondition, cancel>>

SetRunning(r) ==
  /\ run[r].at = "setRunning"
  /\ SetState(run[r].task, "RUNNING")
  /\ MoveTo(r, "doRun")
  /\ UNCHANGED <<m_isRequestCancel, m_cancelCondition, cancel>>

DoRunReturns(r) ==
  /\ run[r].at = "doRun"
  /\ MoveTo(r, "setFinished")
  /\ UNCHANGED <<m_state, m_isRequestCancel, m_cancelCondition, cancel>>

(* A CheckCancellation() of the user's DoRun() throws.                     *)
DoRunIsCancelled(r) ==
  /\ run[r].at = "doRun"
  /\ m_isRequestCancel[run[r].task]
  /\ MoveTo(r, "setCancelled")
  /\ UNCHANGED <<m_state, m_isRequestCancel, m_cancelCondition, cancel>>

(* An exception of the user leaves Run() from DoRun(): neither SetState    *)
(* nor the notification is reached.                                        *)
DoRunThrows(r) ==
  /\ MayThrow
  /\ run[r].at = "doRun"
  /\ run' = [run EXCEPT ![r] = Idle]
  /\ UNCHANGED <<m_state, m_isRequestCancel, m_cancelCondition, cancel>>

(* Run() that returns without the notification.                            *)
FinishSilently(r) ==
  /\ run[r].at = "setFinished"
  /\ SetState(run[r].task, "FINISHED")
  /\ run' = [run EXCEPT ![r] = Idle]
  /\ UNCHANGED <<m_isRequestCancel, m_cancelCondition, cancel>>

SetFinished(r) ==
  /\ run[r].at = "setFinished"
  /\ SetState(run[r].task, "FINISHED")
  /\ MoveTo(r, "notify")
  /\ UNCHANGED <<m_isRequestCancel, m_cancelCondition, cancel>>

(* The handler of TaskCancelException.  OnCancel() is a hook that does     *)
(* nothing unless the user overrides it, and is taken to return: if it     *)
(* threw, the task would be CANCELLED and its cancellers not notified.     *)
SetCancelled(r) ==
  /\ run[r].at = "setCancelled"
  /\ SetState(run[r].task, "CANCELLED")
  /\ MoveTo(r, "onCancel")
  /\ UNCHANGED <<m_isRequestCancel, m_cancelCondition, cancel>>

OnCancel(r) ==
  /\ run[r].at = "onCancel"
  /\ MoveTo(r, "notify")
  /\ UNCHANGED <<m_state, m_isRequestCancel, m_cancelCondition, cancel>>

(* The notification at the end of Run().                                   *)
NotifyCancellers(r) ==
  LET k == run[r].task IN
  /\ run[r].at = "notify"
  /\ m_cancelCondition' = [m_cancelCondition EXCEPT ![k] =
                             NotifyAllIf(m_cancelCondition[k], m_isRequestCancel[k])]
  /\ run' = [run EXCEPT ![r] = Idle]
  /\ UNCHANGED <<m_state, m_isRequestCancel, cancel>>

RunStep(r) ==
  \/ CheckCancellation(r)
  \/ SetRunning(r)
  \/ DoRunReturns(r)
  \/ DoRunIsCancelled(r)
  \/ SetFinished(r)
  \/ SetCancelled(r)
  \/ OnCancel(r)
  \/ NotifyCancellers(r)

-----------------------------------------------------------------------------
(* Cancel() and CancelAsync()                                              *)

(* OnCallCancel() is a hook of the user.                                   *)
CancelAsync(k) ==
  /\ m_isRequestCancel' = [m_isRequestCancel EXCEPT ![k] = TRUE]
  /\ UNCHANGED <<m_state, m_cancelCondition, run>>

(* Cancel() that waits without having requested anything.                  *)
CancelForgetsToRequest(c, k) ==
  /\ cancel[c].at = "out"
  /\ cancel' = [cancel EXCEPT ![c] = [at |-> "in", task |-> k]]
  /\ UNCHANGED <<m_state, m_isRequestCancel, m_cancelCondition, run>>

(* Cancel() up to its wait.                                                *)
Cancel(c, k) ==
  /\ cancel[c].at = "out"
  /\ cancel' = [cancel EXCEPT ![c] = [at |-> "in", task |-> k]]
  /\ CancelAsync(k)

(* Evaluating the wait condition: Cancel() blocks ...                      *)
CancelBlocks(c) ==
  LET k == cancel[c].task IN
  /\ cancel[c].at = "in"
  /\ c \notin m_cancelCondition[k]
  /\ ~ IsStopState(k)
  /\ m_cancelCondition' = [m_cancelCondition EXCEPT ![k] = Wait(@, c)]
  /\ UNCHANGED <<m_state, m_isRequestCancel, run, cancel>>

(* Cancel() that returns on any wakeup.                                    *)
CancelReturnsAnyhow(c) ==
  /\ cancel[c].at = "in"
  /\ c \notin m_cancelCondition[cancel[c].task]
  /\ cancel' = [cancel EXCEPT ![c].at = "out"]
  /\ UNCHANGED <<m_state, m_isRequestCancel, m_cancelCondition, run>>

(* ... or returns.                                                         *)
CancelReturns(c) ==
  /\ cancel[c].at = "in"
  /\ c \notin m_cancelCondition[cancel[c].task]
  /\ IsStopState(cancel[c].task)
  /\ cancel' = [cancel EXCEPT ![c].at = "out"]
  /\ UNCHANGED <<m_state, m_isRequestCancel, m_cancelCondition, run>>

WakeSpuriously(c) ==
  LET k == cancel[c].task IN
  /\ cancel[c].at = "in"
  /\ c \in m_cancelCondition[k]
  /\ m_cancelCondition' = [m_cancelCondition EXCEPT ![k] = SpuriousWakeup(@, c)]
  /\ UNCHANGED <<m_state, m_isRequestCancel, run, cancel>>

CancelStep(c) == CancelBlocks(c) \/ CancelReturns(c)

-----------------------------------------------------------------------------

Next ==
  \/ \E r \in Runners :
       \/ RunStep(r)
       \/ DoRunThrows(r)
       \/ \E k \in Tasks : Run(r, k)
  \/ \E c \in Cancellers :
       \/ CancelStep(c)
       \/ WakeSpuriously(c)
       \/ \E k \in Tasks : Cancel(c, k)
  \/ \E k \in Tasks : CancelAsync(k) /\ UNCHANGED cancel

(* Threads inside a method get scheduled and DoRun() ends; whoever owns a  *)
(* task runs it at least once, although runners may be busy now and then.  *)
Fairness ==
  /\ \A r \in Runners : WF_vars(RunStep(r) \/ DoRunThrows(r))
  /\ \A c \in Cancellers : WF_vars(CancelStep(c))
  /\ \A k \in Tasks : SF_vars(m_state[k] = "INIT" /\ \E r \in Runners : Run(r, k))

Spec == Init /\ [][Next]_vars /\ Fairness

-----------------------------------------------------------------------------

InRun == {"check", "setRunning", "doRun", "setFinished", "setCancelled", "onCancel", "notify"}

TypeOK ==
  /\ m_state \in [Tasks -> State]
  /\ m_isRequestCancel \in [Tasks -> BOOLEAN]
  /\ m_cancelCondition \in [Tasks -> SUBSET Cancellers]
  /\ run \in [Runners -> {Idle} \cup [at : InRun, task : Tasks]]
  /\ cancel \in [Cancellers -> [at : {"out"}, task : Tasks \cup {NoTask}]
                                 \cup [at : {"in"}, task : Tasks]]

(* A Cancel() that is blocked although its task has stopped is about to be *)
(* woken: the run that stopped the task has its notification still before  *)
(* it, and the flag that guards the notification is set                    *)
(* (TaskBase.cpp:45-56, 61-66).                                            *)
NoLostCancelWakeup ==
  \A k \in Tasks : \A c \in m_cancelCondition[k] :
    /\ m_isRequestCancel[k]
    /\ IsStopState(k) => Running(k, {"onCancel", "notify"})

(* Once the Cancel() of a task that is run once has returned, the task is  *)
(* not executing and never will be ("wait until the task is cancelled.",   *)
(* TaskBase.cpp:63).                                                       *)
OverWhenCancelReturns(k) ==
  \A c \in Cancellers :
    cancel[c] = [at |-> "out", task |-> k] => ~ Running(k, {"setRunning", "doRun"})
NoRunAfterCancelReturns == \A k \in Tasks \ Periodic : OverWhenCancelReturns(k)

(* The same of the tasks that are run again, which the counter of an       *)
(* interval task expects (testTimer.cpp:158-163).                          *)
NoPeriodicRunAfterCancelReturns == \A k \in Periodic : OverWhenCancelReturns(k)

(* A cancellation sticks: when it was requested and no run is past the     *)
(* check of Run(), the task is never executed again, not even a periodic   *)
(* one (TaskBase.cpp:41).                                                  *)
Past == {"setRunning", "doRun"}
CancellationSticks ==
  [][\A k \in Tasks : m_isRequestCancel[k] /\ ~ Running(k, Past) => ~ Running(k, Past)']_vars

(* Every Cancel() returns unless an exception of the user has left its task*)
(* RUNNING without a run (TaskBase.cpp:37-67).                             *)
Abandoned(k) == m_state[k] = "RUNNING" /\ ~ Running(k, InRun)
CancelReturnsUnlessAbandoned ==
  \A c \in Cancellers :
    cancel[c].at = "in" ~> cancel[c].at = "out" \/ Abandoned(cancel[c].task)

=============================================================================
