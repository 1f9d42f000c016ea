----------------------------- MODULE TaskProofs -----------------------------
(***************************************************************************)
(* What is proved of TaskBase and of FutureTask, which extends it.         *)
(*                                                                         *)
(* Of TaskBase, for every set of tasks, runners and cancellers: the types, *)
(* that no Cancel() loses its wakeup, that a cancellation sticks and, of   *)
(* tasks that are run once, that Cancel() returns only when the task will  *)
(* never execute again.                                                    *)
(*                                                                         *)
(* Of FutureTask, for every set of futures and getters too: every step is  *)
(* one of TaskBase or leaves its variables alone, so that its invariants   *)
(* hold of futures, and no GetResult() loses its wakeup.                   *)
(***************************************************************************)
EXTENDS FutureTask, TLAPS

(* A pending Cancel() has made its request.                                *)
PendingRequested ==
  \A c \in Cancellers : cancel[c].at = "in" => m_isRequestCancel[cancel[c].task]

(* A canceller blocks on the condition of the task it cancels.             *)
WaitsForItsTask ==
  \A k \in Tasks : \A c \in m_cancelCondition[k] :
    cancel[c].at = "in" /\ cancel[c].task = k

WakeupInv == TypeOK /\ PendingRequested /\ WaitsForItsTask /\ NoLostCancelWakeup

LEMMA InitWakeupInv == Init => WakeupInv
BY DEF Init, Idle, State, WakeupInv, TypeOK, PendingRequested, WaitsForItsTask, NoLostCancelWakeup

(* Where a step of Run() may take a runner.                                *)
LEMMA RunStepType ==
  ASSUME TypeOK, NEW r \in Runners, RunStep(r) \/ DoRunThrows(r)
  PROVE  /\ run[r] \in [at : InRun, task : Tasks]
         /\ run' \in [Runners -> {Idle} \cup [at : InRun, task : Tasks]]
         /\ m_state' \in [Tasks -> State]
         /\ \A q \in Runners : q # r => run'[q] = run[q]
         /\ \A k \in Tasks : k # run[r].task => m_state'[k] = m_state[k]
         /\ UNCHANGED <<m_isRequestCancel, cancel>>
<1> USE DEF TypeOK, MoveTo, SetState, State, InRun
<1>1. run[r] # Idle
  BY DEF Idle, RunStep, CheckCancellation, SetRunning, DoRunReturns, DoRunIsCancelled,
         DoRunThrows, SetFinished, SetCancelled, OnCancel, NotifyCancellers
<1>2. run[r] \in [at : InRun, task : Tasks]
  BY <1>1
<1>3. CASE CheckCancellation(r)
  BY <1>2, <1>3 DEF CheckCancellation
<1>4. CASE SetRunning(r)
  BY <1>2, <1>4 DEF SetRunning
<1>5. CASE DoRunReturns(r)
  BY <1>2, <1>5 DEF DoRunReturns
<1>6. CASE DoRunIsCancelled(r)
  BY <1>2, <1>6 DEF DoRunIsCancelled
<1>7. CASE SetFinished(r)
  BY <1>2, <1>7 DEF SetFinished
<1>8. CASE SetCancelled(r)
  BY <1>2, <1>8 DEF SetCancelled
<1>9. CASE OnCancel(r)
  BY <1>2, <1>9 DEF OnCancel
<1>10. CASE NotifyCancellers(r)
  BY <1>2, <1>10 DEF NotifyCancellers
<1>11. CASE DoRunThrows(r)
  BY <1>2, <1>11 DEF DoRunThrows
<1> QED
  BY <1>3, <1>4, <1>5, <1>6, <1>7, <1>8, <1>9, <1>10, <1>11 DEF RunStep

LEMMA RunStepKeepsWakeupInv ==
  ASSUME WakeupInv, NEW r \in Runners, RunStep(r) \/ DoRunThrows(r)
  PROVE  WakeupInv'
<1> DEFINE k == run[r].task
<1> USE DEF WakeupInv
<1>1. /\ run[r] \in [at : InRun, task : Tasks]
      /\ run' \in [Runners -> {Idle} \cup [at : InRun, task : Tasks]]
      /\ m_state' \in [Tasks -> State]
      /\ \A q \in Runners : q # r => run'[q] = run[q]
      /\ \A j \in Tasks : j # k => m_state'[j] = m_state[j]
      /\ UNCHANGED <<m_isRequestCancel, cancel>>
  BY RunStepType
<1>2. /\ m_cancelCondition' \in [Tasks -> SUBSET Cancellers]
      /\ \A j \in Tasks : m_cancelCondition'[j] \subseteq m_cancelCondition[j]
      /\ \A j \in Tasks : j # k => m_cancelCondition'[j] = m_cancelCondition[j]
  <2>1. CASE NotifyCancellers(r)
    BY <1>1, <2>1 DEF NotifyCancellers, NotifyAllIf, TypeOK
  <2>2. CASE ~ NotifyCancellers(r)
    <3>1. UNCHANGED m_cancelCondition
      BY <2>2 DEF RunStep, DoRunThrows, CheckCancellation, SetRunning, DoRunReturns,
                  DoRunIsCancelled, SetFinished, SetCancelled, OnCancel
    <3> QED
      BY <3>1 DEF TypeOK
  <2> QED
    BY <2>1, <2>2
<1>3. TypeOK' /\ PendingRequested' /\ WaitsForItsTask'
  BY <1>1, <1>2 DEF TypeOK, PendingRequested, WaitsForItsTask
<1>4. NoLostCancelWakeup'
  <2> SUFFICES ASSUME NEW j \in Tasks, NEW c \in m_cancelCondition'[j], IsStopState(j)'
               PROVE  Running(j, {"onCancel", "notify"})'
    BY <1>1, <1>2 DEF NoLostCancelWakeup
  <2>1. CASE j # k
    <3>1. Running(j, {"onCancel", "notify"})
      BY <1>1, <1>2, <2>1 DEF NoLostCancelWakeup, IsStopState
    <3> QED
      BY <1>1, <2>1, <3>1 DEF Running
  <2>2. CASE j = k
    <3>0. c \in m_cancelCondition[k] /\ m_isRequestCancel[k]
      BY <1>2, <2>2 DEF NoLostCancelWakeup
    <3>1. CASE CheckCancellation(r) \/ DoRunReturns(r) \/ DoRunIsCancelled(r) \/ DoRunThrows(r)
      <4>1. run[r].at \in {"check", "doRun"} /\ UNCHANGED m_state
        BY <3>1 DEF CheckCancellation, DoRunReturns, DoRunIsCancelled, DoRunThrows
      <4>2. Running(k, {"onCancel", "notify"})
        BY <2>2, <3>0, <4>1 DEF NoLostCancelWakeup, IsStopState
      <4> QED
        BY <1>1, <2>2, <4>1, <4>2 DEF Running
    <3>2. CASE SetRunning(r)
      BY <1>1, <2>2, <3>2 DEF SetRunning, SetState, IsStopState, TypeOK
    <3>3. CASE SetFinished(r) \/ SetCancelled(r) \/ OnCancel(r)
      <4>1. run' = [run EXCEPT ![r].at = "notify"] \/ run' = [run EXCEPT ![r].at = "onCancel"]
        BY <3>3 DEF SetFinished, SetCancelled, OnCancel, MoveTo
      <4> QED
        BY <1>1, <2>2, <4>1 DEF Running, TypeOK
    <3>4. CASE NotifyCancellers(r)
      <4>1. m_cancelCondition'[k] = {}
        BY <1>1, <3>0, <3>4 DEF NotifyCancellers, NotifyAllIf, TypeOK
      <4> QED
        BY <2>2, <4>1
    <3> QED
      BY <3>1, <3>2, <3>3, <3>4 DEF RunStep
  <2> QED
    BY <2>1, <2>2
<1> QED
  BY <1>3, <1>4

LEMMA CancelKeepsWakeupInv ==
  ASSUME WakeupInv, NEW c \in Cancellers, NEW k \in Tasks, Cancel(c, k)
  PROVE  WakeupInv'
<1>1. /\ cancel[c].at = "out"
      /\ cancel' = [cancel EXCEPT ![c] = [at |-> "in", task |-> k]]
      /\ m_isRequestCancel' = [m_isRequestCancel EXCEPT ![k] = TRUE]
      /\ UNCHANGED <<m_state, m_cancelCondition, run>>
  BY DEF Cancel, CancelAsync
<1>2. TypeOK'
  BY <1>1 DEF WakeupInv, TypeOK
<1>3. PendingRequested'
  BY <1>1 DEF WakeupInv, TypeOK, PendingRequested
<1>4. WaitsForItsTask'
  BY <1>1 DEF WakeupInv, TypeOK, WaitsForItsTask
<1>5. NoLostCancelWakeup'
  BY <1>1 DEF WakeupInv, TypeOK, NoLostCancelWakeup, IsStopState, Running
<1> QED
  BY <1>2, <1>3, <1>4, <1>5 DEF WakeupInv

LEMMA CancelAsyncKeepsWakeupInv ==
  ASSUME WakeupInv, NEW k \in Tasks, CancelAsync(k), UNCHANGED cancel
  PROVE  WakeupInv'
BY DEF WakeupInv, TypeOK, PendingRequested, WaitsForItsTask, NoLostCancelWakeup,
       CancelAsync, IsStopState, Running

LEMMA WaitKeepsWakeupInv ==
  ASSUME WakeupInv, NEW c \in Cancellers, CancelStep(c) \/ WakeSpuriously(c)
  PROVE  WakeupInv'
<1> DEFINE k == cancel[c].task
<1> USE DEF WakeupInv
<1>1. cancel[c].at = "in" /\ k \in Tasks
  BY DEF CancelStep, CancelBlocks, CancelReturns, WakeSpuriously, TypeOK
<1>2. CASE CancelBlocks(c)
  <2>1. /\ ~ IsStopState(k)
        /\ m_cancelCondition' = [m_cancelCondition EXCEPT ![k] = @ \cup {c}]
        /\ UNCHANGED <<m_state, m_isRequestCancel, run, cancel>>
    BY <1>2 DEF CancelBlocks, Wait
  <2>2. TypeOK' /\ PendingRequested' /\ WaitsForItsTask'
    BY <1>1, <2>1 DEF TypeOK, PendingRequested, WaitsForItsTask
  <2>3. m_isRequestCancel[k]
    BY <1>1 DEF PendingRequested
  <2>4. NoLostCancelWakeup'
    BY <1>1, <2>1, <2>3 DEF TypeOK, NoLostCancelWakeup, IsStopState, Running
  <2> QED
    BY <2>2, <2>4
<1>3. CASE CancelReturns(c)
  <2>1. /\ c \notin m_cancelCondition[k]
        /\ cancel' = [cancel EXCEPT ![c].at = "out"]
        /\ UNCHANGED <<m_state, m_isRequestCancel, m_cancelCondition, run>>
    BY <1>3 DEF CancelReturns
  <2>2. TypeOK' /\ PendingRequested'
    BY <1>1, <2>1 DEF TypeOK, PendingRequested
  <2>3. WaitsForItsTask'
    BY <1>1, <2>1 DEF TypeOK, WaitsForItsTask
  <2>4. NoLostCancelWakeup'
    BY <2>1 DEF NoLostCancelWakeup, IsStopState, Running
  <2> QED
    BY <2>2, <2>3, <2>4
<1>4. CASE WakeSpuriously(c)
  <2>1. /\ m_cancelCondition' = [m_cancelCondition EXCEPT ![k] = @ \ {c}]
        /\ UNCHANGED <<m_state, m_isRequestCancel, run, cancel>>
    BY <1>4 DEF WakeSpuriously, SpuriousWakeup
  <2>2. TypeOK' /\ PendingRequested' /\ WaitsForItsTask'
    BY <1>1, <2>1 DEF TypeOK, PendingRequested, WaitsForItsTask
  <2>3. NoLostCancelWakeup'
    BY <1>1, <2>1 DEF TypeOK, NoLostCancelWakeup, IsStopState, Running
  <2> QED
    BY <2>2, <2>3
<1> QED
  BY <1>2, <1>3, <1>4 DEF CancelStep

LEMMA NextKeepsWakeupInv == WakeupInv /\ [Next]_vars => WakeupInv'
<1> SUFFICES ASSUME WakeupInv, [Next]_vars
             PROVE  WakeupInv'
  OBVIOUS
<1>1. ASSUME NEW r \in Runners, NEW k \in Tasks, Run(r, k)
      PROVE  WakeupInv'
  <2>1. /\ run[r] = Idle
        /\ run' = [run EXCEPT ![r] = [at |-> "check", task |-> k]]
        /\ UNCHANGED <<m_state, m_isRequestCancel, m_cancelCondition, cancel>>
    BY <1>1 DEF Run
  <2>2. TypeOK' /\ PendingRequested' /\ WaitsForItsTask'
    BY <2>1 DEF WakeupInv, TypeOK, InRun, PendingRequested, WaitsForItsTask
  <2>3. ASSUME NEW j \in Tasks, Running(j, {"onCancel", "notify"})
        PROVE  Running(j, {"onCancel", "notify"})'
    BY <2>1, <2>3 DEF WakeupInv, TypeOK, Running, Idle
  <2>4. NoLostCancelWakeup'
    BY <2>1, <2>3 DEF WakeupInv, NoLostCancelWakeup, IsStopState
  <2> QED
    BY <2>2, <2>4 DEF WakeupInv
<1>2. CASE UNCHANGED vars
  BY <1>2 DEF vars, WakeupInv, TypeOK, PendingRequested, WaitsForItsTask,
              NoLostCancelWakeup, IsStopState, Running
<1> QED
  BY <1>1, <1>2, RunStepKeepsWakeupInv, CancelKeepsWakeupInv, CancelAsyncKeepsWakeupInv,
     WaitKeepsWakeupInv DEF Next

(* The variables of the tasks, the runs and the cancels keep their types.  *)
THEOREM TypeCorrect == Spec => []TypeOK
<1>1. WakeupInv => TypeOK
  BY DEF WakeupInv
<1> QED
  BY <1>1, InitWakeupInv, NextKeepsWakeupInv, PTL DEF Spec

(* No Cancel() is left blocked on a task that has stopped without a run    *)
(* about to notify it, whether the task is run once or again and whatever  *)
(* DoRun() does (TaskBase.cpp:45-56, 61-66).                               *)
THEOREM NoCancelWakeupIsLost == Spec => []NoLostCancelWakeup
<1>1. WakeupInv => NoLostCancelWakeup
  BY DEF WakeupInv
<1> QED
  BY <1>1, InitWakeupInv, NextKeepsWakeupInv, PTL DEF Spec

(* What CancellationSticks forbids, of one step.                           *)
Sticks ==
  \A k \in Tasks : m_isRequestCancel[k] /\ ~ Running(k, Past) => ~ Running(k, Past)'

LEMMA StepSticks == TypeOK /\ [Next]_vars => [Sticks]_vars
<1> SUFFICES ASSUME TypeOK, Next, NEW k \in Tasks,
                    m_isRequestCancel[k], Running(k, Past)'
             PROVE  Running(k, Past)
  BY DEF Sticks, Running, Past, vars
<1>1. PICK q \in Runners : run'[q].task = k /\ run'[q].at \in Past
  BY DEF Running
<1>2. CASE run'[q] = run[q]
  BY <1>1, <1>2 DEF Running
<1>3. CASE run'[q] # run[q]
  <2>1. PICK r \in Runners : \/ RunStep(r)
                             \/ DoRunThrows(r)
                             \/ \E j \in Tasks : Run(r, j)
    BY <1>3 DEF Next, CancelStep, CancelBlocks, CancelReturns, WakeSpuriously, Cancel, CancelAsync
  <2>2. ~ \E j \in Tasks : Run(r, j)
    <3> SUFFICES ASSUME NEW j \in Tasks, Run(r, j)
                 PROVE  FALSE
      OBVIOUS
    <3>1. run' = [run EXCEPT ![r] = [at |-> "check", task |-> j]]
      BY DEF Run
    <3> QED
      BY <1>1, <1>3, <3>1 DEF TypeOK, Past
  <2>3. q = r /\ run[q] \in [at : InRun, task : Tasks]
    BY <1>3, <2>1, <2>2, RunStepType
  <2>4. CASE CheckCancellation(r)
    BY <1>1, <2>3, <2>4 DEF CheckCancellation, MoveTo, TypeOK, Past
  <2>5. CASE SetRunning(r)
    BY <1>1, <2>3, <2>5 DEF SetRunning, MoveTo, TypeOK, Past, Running
  <2>6. CASE ~ (CheckCancellation(r) \/ SetRunning(r))
    <3>1. \/ run' = [run EXCEPT ![r] = Idle]
          \/ \E p \in {"setFinished", "setCancelled", "onCancel", "notify"} :
               run' = [run EXCEPT ![r].at = p]
      BY <2>1, <2>2, <2>6 DEF RunStep, DoRunReturns, DoRunIsCancelled, DoRunThrows,
         SetFinished, SetCancelled, OnCancel, NotifyCancellers, MoveTo
    <3> QED
      BY <1>1, <2>3, <3>1 DEF TypeOK, Past, Idle
  <2> QED
    BY <2>4, <2>5, <2>6
<1> QED
  BY <1>2, <1>3

(* Once a cancellation is requested and no run is past its check, the task *)
(* never executes again (TaskBase.cpp:41).                                 *)
THEOREM CancellationsStick == Spec => CancellationSticks
BY StepSticks, TypeCorrect, PTL DEF Spec, CancellationSticks, Sticks

-----------------------------------------------------------------------------
(* The tasks that are run once: a task has at most one run, a run that is  *)
(* before its end has not stopped its task, and a task whose Cancel() has  *)
(* returned is in a stop state for good.                                   *)

Once == Tasks \ Periodic

OneRun ==
  \A q, r \in Runners : run[q].task \in Once /\ run[q].task = run[r].task => q = r

StopsAtTheEnd ==
  \A r \in Runners :
    run[r].task \in Once /\ IsStopState(run[r].task) => run[r].at \in {"onCancel", "notify"}

CancelledIsStopped ==
  \A c \in Cancellers :
    cancel[c].at = "out" /\ cancel[c].task \in Once => IsStopState(cancel[c].task)

OnceInv == TypeOK /\ OneRun /\ StopsAtTheEnd /\ CancelledIsStopped

(* A step of Run() moves its runner along or ends the run.                 *)
LEMMA RunStepMoves ==
  ASSUME NEW r \in Runners, RunStep(r) \/ DoRunThrows(r)
  PROVE  \/ run' = [run EXCEPT ![r] = Idle]
         \/ \E p \in InRun : run' = [run EXCEPT ![r].at = p]
BY DEF RunStep, CheckCancellation, SetRunning, DoRunReturns, DoRunIsCancelled, DoRunThrows,
       SetFinished, SetCancelled, OnCancel, NotifyCancellers, MoveTo, InRun

LEMMA RunStepKeepsOnceInv ==
  ASSUME OnceInv, NEW r \in Runners, RunStep(r) \/ DoRunThrows(r), TypeOK'
  PROVE  OnceInv'
<1> USE DEF OnceInv
<1>1. PICK k \in Tasks : k = run[r].task
  BY RunStepType
<1>2. /\ run[r] \in [at : InRun, task : Tasks]
      /\ \A q \in Runners : q # r => run'[q] = run[q]
      /\ \A j \in Tasks : j # k => m_state'[j] = m_state[j]
      /\ UNCHANGED <<m_isRequestCancel, cancel>>
  BY <1>1, RunStepType
<1>3. run'[r] = Idle \/ run'[r].task = k
  BY <1>1, <1>2, RunStepMoves DEF TypeOK
<1>4. OneRun'
  BY <1>1, <1>2, <1>3, TaskAssumption DEF OneRun, Idle, Once
<1>5. k \in Once /\ IsStopState(k) =>
        run[r].at \in {"onCancel", "notify"} /\ m_state'[k] = m_state[k]
  BY <1>1, <1>2 DEF RunStep, CheckCancellation, SetRunning, DoRunReturns, DoRunIsCancelled,
     DoRunThrows, SetFinished, SetCancelled, OnCancel, NotifyCancellers, StopsAtTheEnd
<1>6. k \in Once /\ m_state'[k] \in {"FINISHED", "CANCELLED"} =>
        run'[r] = Idle \/ run'[r].at \in {"onCancel", "notify"}
  <2>1. CASE SetFinished(r) \/ SetCancelled(r) \/ OnCancel(r) \/ NotifyCancellers(r)
    BY <1>2, <2>1 DEF SetFinished, SetCancelled, OnCancel, NotifyCancellers, MoveTo, TypeOK
  <2>2. CASE SetRunning(r)
    BY <1>1, <2>2 DEF SetRunning, SetState, TypeOK
  <2>3. CASE \/ CheckCancellation(r) \/ DoRunReturns(r) \/ DoRunIsCancelled(r)
             \/ DoRunThrows(r)
    BY <1>1, <1>2, <1>5, <2>3 DEF CheckCancellation, DoRunReturns, DoRunIsCancelled,
       DoRunThrows, IsStopState
  <2> QED
    BY <2>1, <2>2, <2>3 DEF RunStep
<1>7. StopsAtTheEnd'
  <2> SUFFICES ASSUME NEW q \in Runners, run'[q].task \in Once,
                      m_state'[run'[q].task] \in {"FINISHED", "CANCELLED"}
               PROVE  run'[q].at \in {"onCancel", "notify"}
    BY DEF StopsAtTheEnd, IsStopState
  <2>1. CASE q = r
    BY <1>3, <1>6, <2>1, TaskAssumption DEF Idle, Once
  <2>2. CASE q # r
    <3>1. run[q].task # k
      BY <1>1, <1>2, <2>2 DEF OneRun
    <3> QED
      BY <1>2, <2>2, <3>1 DEF StopsAtTheEnd, IsStopState, Once
  <2> QED
    BY <2>1, <2>2
<1>8. CancelledIsStopped'
  BY <1>2, <1>5 DEF CancelledIsStopped, IsStopState, Once
<1> QED
  BY <1>4, <1>7, <1>8

LEMMA NextKeepsOnceInv == OnceInv /\ TypeOK' /\ [Next]_vars => OnceInv'
<1> SUFFICES ASSUME OnceInv, TypeOK', [Next]_vars
             PROVE  OnceInv'
  OBVIOUS
<1>1. ASSUME NEW r \in Runners, NEW k \in Tasks, Run(r, k)
      PROVE  OnceInv'
  <2>1. /\ k \in Once => m_state[k] = "INIT" /\ \A q \in Runners : run[q].task # k
        /\ run' = [run EXCEPT ![r] = [at |-> "check", task |-> k]]
        /\ UNCHANGED <<m_state, m_isRequestCancel, m_cancelCondition, cancel>>
    BY <1>1 DEF Run, Once
  <2>2. /\ run'[r].task = k
        /\ \A q \in Runners : q # r => run'[q] = run[q]
    BY <2>1 DEF OnceInv, TypeOK
  <2>3. OneRun' /\ StopsAtTheEnd'
    BY <2>1, <2>2 DEF OnceInv, OneRun, StopsAtTheEnd, IsStopState
  <2> QED
    BY <2>1, <2>3 DEF OnceInv, CancelledIsStopped, IsStopState
<1>2. ASSUME NEW c \in Cancellers, NEW k \in Tasks, Cancel(c, k)
      PROVE  OnceInv'
  BY <1>2 DEF Cancel, CancelAsync, OnceInv, TypeOK, OneRun, StopsAtTheEnd,
              CancelledIsStopped, IsStopState
<1>3. ASSUME NEW c \in Cancellers, CancelReturns(c)
      PROVE  OnceInv'
  BY <1>3 DEF CancelReturns, OnceInv, TypeOK, OneRun, StopsAtTheEnd,
              CancelledIsStopped, IsStopState
<1>4. CASE UNCHANGED <<m_state, run, cancel>>
  BY <1>4 DEF OnceInv, OneRun, StopsAtTheEnd, CancelledIsStopped, IsStopState
<1>5. ASSUME NEW c \in Cancellers, CancelBlocks(c) \/ WakeSpuriously(c)
      PROVE  UNCHANGED <<m_state, run, cancel>>
  BY <1>5 DEF CancelBlocks, WakeSpuriously
<1>6. ASSUME NEW k \in Tasks, CancelAsync(k), UNCHANGED cancel
      PROVE  UNCHANGED <<m_state, run, cancel>>
  BY <1>6 DEF CancelAsync
<1> QED
  BY <1>1, <1>2, <1>3, <1>4, <1>5, <1>6, RunStepKeepsOnceInv DEF Next, CancelStep, vars

LEMMA InitOnceInv == Init => OnceInv
BY InitWakeupInv, TaskAssumption
DEF WakeupInv, Init, Idle, OnceInv, OneRun, StopsAtTheEnd, CancelledIsStopped, Once

LEMMA CancelledIsOver == OnceInv => NoRunAfterCancelReturns
<1> SUFFICES ASSUME OnceInv, NEW k \in Once, NEW c \in Cancellers, NEW r \in Runners,
                    cancel[c] = [at |-> "out", task |-> k], run[r].task = k,
                    run[r].at \in {"setRunning", "doRun"}
             PROVE  FALSE
  BY DEF NoRunAfterCancelReturns, OverWhenCancelReturns, Running, Once
<1> QED
  BY DEF OnceInv, CancelledIsStopped, StopsAtTheEnd

(* When Cancel() of a task that is run once has returned, the task is not  *)
(* executing (TaskBase.cpp:59-67).                                         *)
THEOREM CancelEndsTheRun == Spec => []NoRunAfterCancelReturns
BY InitOnceInv, NextKeepsOnceInv, CancelledIsOver, TypeCorrect, PTL DEF Spec

-----------------------------------------------------------------------------
(* Futures                                                                 *)

(* Every step of a system with futures is a step of TaskBase or a stutter. *)
LEMMA StepRefines == [FutureNext]_allVars => [Next]_vars
<1> SUFFICES ASSUME [FutureNext]_allVars
             PROVE  [Next]_vars
  OBVIOUS
<1>1. ASSUME NEW r \in Runners, FutureRunStep(r)
      PROVE  RunStep(r) \/ DoRunThrows(r) \/ UNCHANGED vars
  BY <1>1 DEF FutureRunStep, LockAndNotify, CallReturns, CallThrows, RunStep
<1>2. ASSUME NEW g \in Getters,
             \/ GetStep(g)
             \/ GetSpuriously(g)
             \/ \E k \in Futures, method \in Pending : CallOf(g, k, method)
      PROVE  UNCHANGED vars
  BY <1>2 DEF GetStep, GetResultBlocks, GetResultReturns, TryGetResult, GetSpuriously, CallOf
<1>3. UNCHANGED allVars => UNCHANGED vars
  BY DEF allVars
<1> QED
  BY <1>1, <1>2, <1>3 DEF FutureNext, Next

(* FutureTask implements TaskBase, its safety part (FutureTask.h:18).      *)
THEOREM FutureIsATask == FutureSpec => Init /\ [][Next]_vars
<1>1. FutureInit => Init
  BY DEF FutureInit
<1> QED
  BY <1>1, StepRefines, PTL DEF FutureSpec

(* The Cancel() of a future loses no wakeup either (TaskBase.cpp:45-56).   *)
THEOREM NoCancelOfAFutureIsLost == FutureSpec => []NoLostCancelWakeup
<1>1. WakeupInv => NoLostCancelWakeup
  BY DEF WakeupInv
<1> QED
  BY <1>1, InitWakeupInv, NextKeepsWakeupInv, FutureIsATask, PTL

-----------------------------------------------------------------------------
(* The getters.  The inductive invariant says why the one notification,    *)
(* sent before Call() starts, is enough: while the mutex is held nobody is *)
(* blocked, and only the holder makes the result available.                *)

HeldMeansNobodyBlocked ==
  \A k \in Futures : resultMutex[k] # Nobody => m_resultCondition[k] = {}

FutureInv == FutureTypeOK /\ HeldMeansNobodyBlocked /\ NoLostResultWakeup

LEMMA RunStepKeepsFutureInv ==
  ASSUME FutureInv, TypeOK', NEW r \in Runners, FutureRunStep(r)
  PROVE  FutureInv'
<1> DEFINE k == run[r].task
<1> USE DEF FutureInv, FutureTypeOK
<1>1. CASE UNCHANGED futureVars
  BY <1>1 DEF futureVars, HeldMeansNobodyBlocked, NoLostResultWakeup
<1>2. CASE LockAndNotify(r)
  <2>1. /\ k \in Futures
        /\ resultMutex' = [resultMutex EXCEPT ![k] = r]
        /\ m_resultCondition' =
             [m_resultCondition EXCEPT ![k] = NotifyAllIf(@, ~ m_isResultReturned[k])]
        /\ UNCHANGED <<m_isResultReturned, get>>
    BY <1>2 DEF LockAndNotify, InDoRun
  <2>2. NotifyAllIf(m_resultCondition[k], ~ m_isResultReturned[k]) = {}
    BY <2>1 DEF NotifyAllIf, NoLostResultWakeup
  <2>3. m_resultCondition' = [m_resultCondition EXCEPT ![k] = {}]
    BY <2>1, <2>2
  <2>4. FutureTypeOK'
    BY <2>1, <2>3
  <2>5. HeldMeansNobodyBlocked' /\ NoLostResultWakeup'
    BY <2>1, <2>3 DEF HeldMeansNobodyBlocked, NoLostResultWakeup
  <2> QED
    BY <2>4, <2>5
<1>3. CASE CallReturns(r) \/ CallThrows(r)
  <2>1. /\ k \in Futures
        /\ resultMutex[k] = r
        /\ resultMutex' = [resultMutex EXCEPT ![k] = Nobody]
        /\ \/ m_isResultReturned' = [m_isResultReturned EXCEPT ![k] = TRUE]
           \/ UNCHANGED m_isResultReturned
        /\ UNCHANGED <<m_resultCondition, get>>
    BY <1>3 DEF CallReturns, CallThrows, Unlock, InDoRun
  <2>2. FutureTypeOK'
    BY <2>1
  <2>3. m_resultCondition[k] = {}
    BY <2>1, FutureAssumption DEF HeldMeansNobodyBlocked
  <2>4. HeldMeansNobodyBlocked' /\ NoLostResultWakeup'
    BY <2>1, <2>3 DEF HeldMeansNobodyBlocked, NoLostResultWakeup
  <2> QED
    BY <2>2, <2>4
<1> QED
  BY <1>1, <1>2, <1>3 DEF FutureRunStep

LEMMA GetKeepsFutureInv ==
  ASSUME FutureInv, TypeOK', NEW g \in Getters,
         \/ GetStep(g)
         \/ GetSpuriously(g)
         \/ \E k \in Futures, method \in Pending : CallOf(g, k, method)
  PROVE  FutureInv'
<1> DEFINE k == get[g].task
<1> USE DEF FutureInv, FutureTypeOK
<1>1. CASE GetResultBlocks(g)
  <2>1. /\ k \in Futures
        /\ resultMutex[k] = Nobody
        /\ ~ m_isResultReturned[k]
        /\ m_resultCondition' = [m_resultCondition EXCEPT ![k] = @ \cup {g}]
        /\ UNCHANGED <<m_isResultReturned, resultMutex, get>>
    BY <1>1 DEF GetResultBlocks, Enters, Wait, Pending
  <2> QED
    BY <2>1 DEF HeldMeansNobodyBlocked, NoLostResultWakeup
<1>2. CASE GetSpuriously(g)
  <2>1. /\ k \in Futures
        /\ m_resultCondition' = [m_resultCondition EXCEPT ![k] = @ \ {g}]
        /\ UNCHANGED <<m_isResultReturned, resultMutex, get>>
    BY <1>2 DEF GetSpuriously, SpuriousWakeup, Pending
  <2> QED
    BY <2>1 DEF HeldMeansNobodyBlocked, NoLostResultWakeup
<1>3. CASE \/ GetResultReturns(g)
           \/ TryGetResult(g)
           \/ \E j \in Futures, method \in Pending : CallOf(g, j, method)
  <2>1. UNCHANGED <<m_isResultReturned, m_resultCondition, resultMutex>>
    BY <1>3 DEF GetResultReturns, TryGetResult, CallOf
  <2>2. get' \in [Getters -> {[at |-> "out", task |-> NoTask]}
                    \cup [at : Pending \cup {"result", "notReady"}, task : Futures]]
    BY <1>3 DEF GetResultReturns, TryGetResult, CallOf, Enters, Pending
  <2> QED
    BY <2>1, <2>2 DEF HeldMeansNobodyBlocked, NoLostResultWakeup
<1> QED
  BY <1>1, <1>2, <1>3 DEF GetStep

LEMMA NextKeepsFutureInv == FutureInv /\ TypeOK' /\ [FutureNext]_allVars => FutureInv'
<1> SUFFICES ASSUME FutureInv, TypeOK', [FutureNext]_allVars
             PROVE  FutureInv'
  OBVIOUS
<1>1. CASE UNCHANGED futureVars
  BY <1>1 DEF futureVars, FutureInv, FutureTypeOK, HeldMeansNobodyBlocked, NoLostResultWakeup
<1> QED
  BY <1>1, RunStepKeepsFutureInv, GetKeepsFutureInv DEF FutureNext, allVars

LEMMA FutureInvariant == FutureSpec => []FutureInv
<1>1. FutureInit => FutureInv
  BY InitWakeupInv DEF FutureInit, FutureInv, FutureTypeOK, WakeupInv, HeldMeansNobodyBlocked,
                       NoLostResultWakeup
<1>2. WakeupInv => TypeOK
  BY DEF WakeupInv
<1> QED
  BY <1>1, <1>2, InitWakeupInv, NextKeepsWakeupInv, NextKeepsFutureInv, FutureIsATask, PTL
     DEF FutureSpec

(* The variables of the futures and of their getters keep their types.     *)
THEOREM FutureTypeCorrect == FutureSpec => []FutureTypeOK
<1>1. FutureInv => FutureTypeOK
  BY DEF FutureInv
<1> QED
  BY <1>1, FutureInvariant, PTL

(* A thread blocked in GetResult() never waits for a result that is there, *)
(* although DoRun() notifies before it calls Call() (FutureTask.h:75-79).  *)
THEOREM NoResultWakeupIsLost == FutureSpec => []NoLostResultWakeup
<1>1. FutureInv => NoLostResultWakeup
  BY DEF FutureInv
<1> QED
  BY <1>1, FutureInvariant, PTL

=============================================================================
