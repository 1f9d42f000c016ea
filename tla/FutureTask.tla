----------------------------- MODULE FutureTask -----------------------------
(***************************************************************************)
(* The tasks of include/FutureTask.h: a TaskBase whose DoRun() stores what *)
(* Call() returns, and the threads that wait for it in GetResult() or ask  *)
(* for it in TryGetResult().  Call() is the user's.                        *)
(*                                                                         *)
(* DoRun() notifies before it calls Call(), and holds the mutex of         *)
(* m_resultCondition until its end: the critical section is not one step,  *)
(* so the mutex has a variable of its own.                                 *)
(***************************************************************************)
EXTENDS TaskBase

CONSTANTS
  Futures,   \* the tasks that are FutureTasks
  Getters,   \* threads that call GetResult() or TryGetResult()
  Nobody

ASSUME FutureAssumption ==
  /\ Futures \subseteq Tasks \ Periodic   \* a result is computed once
  /\ Nobody \notin Runners \cup Getters

VARIABLES
  m_isResultReturned,   \* for each future
  m_resultCondition,    \* for each future, the threads blocked in GetResult()
  resultMutex,          \* for each future, who holds the mutex of m_resultCondition
  get                   \* for each getter, its pending or last call

futureVars == <<m_isResultReturned, m_resultCondition, resultMutex, get>>
allVars == <<vars, futureVars>>

FutureInit ==
  /\ Init
  /\ m_isResultReturned = [k \in Futures |-> FALSE]
  /\ m_resultCondition = [k \in Futures |-> {}]
  /\ resultMutex = [k \in Futures |-> Nobody]
  /\ get = [g \in Getters |-> [at |-> "out", task |-> NoTask]]

-----------------------------------------------------------------------------
(* DoRun()                                                                 *)

InDoRun(r) == run[r].at = "doRun" /\ run[r].task \in Futures

(* A locker whose condition has lost its not1().                           *)
LockWithoutNotification(r) ==
  LET k == run[r].task IN
  /\ InDoRun(r)
  /\ resultMutex[k] = Nobody
  /\ resultMutex' = [resultMutex EXCEPT ![k] = r]
  /\ m_resultCondition' = [m_resultCondition EXCEPT ![k] = NotifyAllIf(@, m_isResultReturned[k])]
  /\ UNCHANGED <<vars, m_isResultReturned, get>>

(* The ConditionNotifyAllLocker.                                           *)
LockAndNotify(r) ==
  LET k == run[r].task IN
  /\ InDoRun(r)
  /\ resultMutex[k] = Nobody
  /\ resultMutex' = [resultMutex EXCEPT ![k] = r]
  /\ m_resultCondition' = [m_resultCondition EXCEPT ![k] = NotifyAllIf(@, ~ m_isResultReturned[k])]
  /\ UNCHANGED <<vars, m_isResultReturned, get>>

(* The locker's destructor, which an exception runs too.                   *)
Unlock(r) ==
  /\ InDoRun(r)
  /\ resultMutex[run[r].task] = r
  /\ resultMutex' = [resultMutex EXCEPT ![run[r].task] = Nobody]

CallReturns(r) ==
  /\ Unlock(r)
  /\ m_isResultReturned' = [m_isResultReturned EXCEPT ![run[r].task] = TRUE]
  /\ DoRunReturns(r)
  /\ UNCHANGED <<m_resultCondition, get>>

(* Call() throws: the exception of a CheckCancellation(), or another.      *)
CallThrows(r) ==
  /\ Unlock(r)
  /\ DoRunIsCancelled(r) \/ DoRunThrows(r)
  /\ UNCHANGED <<m_isResultReturned, m_resultCondition, get>>

FutureRunStep(r) ==
  \/ ~ InDoRun(r) /\ (RunStep(r) \/ DoRunThrows(r)) /\ UNCHANGED futureVars
  \/ LockAndNotify(r)
  \/ CallReturns(r)
  \/ CallThrows(r)

-----------------------------------------------------------------------------
(* GetResult() and TryGetResult()                                          *)

Pending == {"GetResult", "TryGetResult"}

CallOf(g, k, method) ==
  /\ get[g].at \notin Pending
  /\ get' = [get EXCEPT ![g] = [at |-> method, task |-> k]]
  /\ UNCHANGED <<vars, m_isResultReturned, m_resultCondition, resultMutex>>

(* The thread is not blocked in Wait() and has got the mutex.              *)
Enters(g, method) ==
  /\ get[g].at = method
  /\ g \notin m_resultCondition[get[g].task]
  /\ resultMutex[get[g].task] = Nobody

(* GetResult() that blocks with the mutex.                                 *)
BlocksWithMutex(g) ==
  LET k == get[g].task IN
  /\ Enters(g, "GetResult")
  /\ ~ m_isResultReturned[k]
  /\ m_resultCondition' = [m_resultCondition EXCEPT ![k] = Wait(@, g)]
  /\ resultMutex' = [resultMutex EXCEPT ![k] = g]
  /\ UNCHANGED <<vars, m_isResultReturned, get>>

(* GetResult() that blocks without having taken the mutex.                 *)
BlocksWithoutMutex(g) ==
  LET k == get[g].task IN
  /\ get[g].at = "GetResult"
  /\ g \notin m_resultCondition[k]
  /\ ~ m_isResultReturned[k]
  /\ m_resultCondition' = [m_resultCondition EXCEPT ![k] = Wait(@, g)]
  /\ UNCHANGED <<vars, m_isResultReturned, resultMutex, get>>

GetResultBlocks(g) ==
  LET k == get[g].task IN
  /\ Enters(g, "GetResult")
  /\ ~ m_isResultReturned[k]
  /\ m_resultCondition' = [m_resultCondition EXCEPT ![k] = Wait(@, g)]
  /\ UNCHANGED <<vars, m_isResultReturned, resultMutex, get>>

GetResultReturns(g) ==
  /\ Enters(g, "GetResult")
  /\ m_isResultReturned[get[g].task]
  /\ get' = [get EXCEPT ![g].at = "result"]
  /\ UNCHANGED <<vars, m_isResultReturned, m_resultCondition, resultMutex>>

(* It returns the result or throws ResultNotReadyException.                *)
TryGetResult(g) ==
  /\ Enters(g, "TryGetResult")
  /\ get' = [get EXCEPT ![g].at = IF m_isResultReturned[get[g].task] THEN "result" ELSE "notReady"]
  /\ UNCHANGED <<vars, m_isResultReturned, m_resultCondition, resultMutex>>

GetSpuriously(g) ==
  LET k == get[g].task IN
  /\ get[g].at = "GetResult"
  /\ g \in m_resultCondition[k]
  /\ m_resultCondition' = [m_resultCondition EXCEPT ![k] = SpuriousWakeup(@, g)]
  /\ UNCHANGED <<vars, m_isResultReturned, resultMutex, get>>

GetStep(g) == GetResultBlocks(g) \/ GetResultReturns(g) \/ TryGetResult(g)

-----------------------------------------------------------------------------

FutureNext ==
  \/ \E r \in Runners :
       \/ FutureRunStep(r)
       \/ \E k \in Tasks : Run(r, k) /\ UNCHANGED futureVars
  \/ \E c \in Cancellers :
       \/ CancelStep(c) /\ UNCHANGED futureVars
       \/ WakeSpuriously(c) /\ UNCHANGED futureVars
       \/ \E k \in Tasks : Cancel(c, k) /\ UNCHANGED futureVars
  \/ \E k \in Tasks : CancelAsync(k) /\ UNCHANGED <<cancel, futureVars>>
  \/ \E g \in Getters :
       \/ GetStep(g)
       \/ GetSpuriously(g)
       \/ \E k \in Futures, method \in Pending : CallOf(g, k, method)

(* As in TaskBase; Call() ends, and a thread that waits for a mutex gets   *)
(* it: a future is run once, so nobody takes this one again and again but  *)
(* the getters, whose critical sections are short.                         *)
FutureFairness ==
  /\ \A r \in Runners : WF_allVars(FutureRunStep(r))
  /\ \A c \in Cancellers : WF_allVars(CancelStep(c) /\ UNCHANGED futureVars)
  /\ \A k \in Tasks :
       SF_allVars(m_state[k] = "INIT" /\ \E r \in Runners : Run(r, k) /\ UNCHANGED futureVars)
  /\ \A g \in Getters : WF_allVars(GetStep(g))

FutureSpec == FutureInit /\ [][FutureNext]_allVars /\ FutureFairness

-----------------------------------------------------------------------------

FutureTypeOK ==
  /\ TypeOK
  /\ m_isResultReturned \in [Futures -> BOOLEAN]
  /\ m_resultCondition \in [Futures -> SUBSET Getters]
  /\ resultMutex \in [Futures -> Runners \cup {Nobody}]
  /\ get \in [Getters -> {[at |-> "out", task |-> NoTask]}
                \cup [at : Pending \cup {"result", "notReady"}, task : Futures]]

(* A FutureTask is a TaskBase: whatever its getters do, it starts, ends and*)
(* can be cancelled as TaskBase says, and they cannot keep a run from      *)
(* ending (FutureTask.h:18, the mutex of lines 75-79).                     *)
ImplementsTaskBase == Spec

(* A thread blocked in GetResult() has not missed its notification: the    *)
(* result is not there yet, although the only notification is sent before  *)
(* Call() starts (FutureTask.h:75-79).                                     *)
NoLostResultWakeup ==
  \A k \in Futures : \A g \in m_resultCondition[k] : ~ m_isResultReturned[k]

(* GetResult() returns unless the run ended without a result: the task was *)
(* cancelled, or an exception of the user left it RUNNING.  A getter of    *)
(* such a task waits for ever (FutureTask.h:62).                           *)
WithoutResult(k) ==
  ~ m_isResultReturned[k] /\ (m_state[k] = "CANCELLED" \/ Abandoned(k))
GetResultReturnsUnlessNone ==
  \A g \in Getters :
    get[g].at = "GetResult" ~> get[g].at # "GetResult" \/ WithoutResult(get[g].task)

=============================================================================
