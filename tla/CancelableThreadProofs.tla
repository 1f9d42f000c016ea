----------------------- MODULE CancelableThreadProofs -----------------------
(***************************************************************************)
(* What is proved of CancelableThread for every set of threads and         *)
(* cancellers: the types, that no wakeup of a Cancel() is lost, and that   *)
(* Cancel() returns only when the thread is past its work.                 *)
(***************************************************************************)
EXTENDS CancelableThread, TLAPS

(* The state is FINISHED exactly when NotifyFinished() has been executed.  *)
FinishedIsExited == \A t \in Threads : m_state[t] = "FINISHED" <=> at[t] = "exited"

(* A pending Cancel() has made its request.                                *)
PendingRequested ==
  \A c \in Cancellers : cancel[c].at = "in" => m_isRequestCancel[cancel[c].thread]

IInv == /\ TypeOK
        /\ FinishedIsExited
        /\ PendingRequested
        /\ NoLostFinishWakeup
        /\ CancelledIsPastTheWork

LEMMA InitIInv == Init => IInv
BY DEF Init, State, Places, IInv, TypeOK, FinishedIsExited, PendingRequested,
       NoLostFinishWakeup, CancelledIsPastTheWork

LEMMA ThreadStepKeepsIInv ==
  ASSUME IInv, NEW t \in Threads, ThreadStep(t)
  PROVE  IInv'
<1> USE DEF IInv, TypeOK, State, Places
<1>1. CASE NotifyFinished(t)
  <2>1. /\ at[t] = "notifyFinished" /\ at' = [at EXCEPT ![t] = "exited"]
        /\ m_state' = [m_state EXCEPT ![t] = "FINISHED"]
        /\ m_stateGuard' = [m_stateGuard EXCEPT ![t] =
                              IF m_isRequestCancel[t] THEN {} ELSE @]
        /\ UNCHANGED <<m_isRequestCancel, cancel>>
    BY <1>1 DEF NotifyFinished, Go, NotifyAllIf
  <2>2. TypeOK' /\ FinishedIsExited' /\ PendingRequested'
    BY <2>1 DEF FinishedIsExited, PendingRequested
  <2>3. NoLostFinishWakeup'
    BY <2>1 DEF NoLostFinishWakeup
  <2>4. CancelledIsPastTheWork'
    BY <2>1 DEF CancelledIsPastTheWork
  <2> QED
    BY <2>2, <2>3, <2>4
<1>2. CASE SetRunning(t)
  BY <1>2 DEF SetRunning, Go, FinishedIsExited, PendingRequested,
              NoLostFinishWakeup, CancelledIsPastTheWork
<1>3. CASE CheckCancellation(t) \/ WorkPolls(t) \/ WorkEnds(t) \/ FinishAction(t)
  <2>1. /\ at[t] # "exited"
        /\ \E p \in Places \ {"exited"} : at' = [at EXCEPT ![t] = p]
        /\ UNCHANGED <<m_state, m_isRequestCancel, m_stateGuard, cancel>>
    BY <1>3 DEF CheckCancellation, WorkPolls, WorkEnds, FinishAction, Go
  <2> QED
    BY <2>1 DEF FinishedIsExited, PendingRequested, NoLostFinishWakeup, CancelledIsPastTheWork
<1> QED
  BY <1>1, <1>2, <1>3 DEF ThreadStep

LEMMA CancelKeepsIInv ==
  ASSUME IInv, NEW c \in Cancellers,
         CancelStep(c) \/ WakeSpuriously(c) \/ \E t \in Threads : Cancel(c, t)
  PROVE  IInv'
<1> USE DEF IInv, TypeOK, State, Places
<1>1. ASSUME NEW t \in Threads, Cancel(c, t)
      PROVE  IInv'
  BY <1>1 DEF Cancel, CancelAsync, FinishedIsExited, PendingRequested,
              NoLostFinishWakeup, CancelledIsPastTheWork
<1>2. ASSUME NEW t \in Threads, t = cancel[c].thread, CancelBlocks(c)
      PROVE  IInv'
  <2>1. /\ m_state[t] # "FINISHED" /\ m_isRequestCancel[t]
        /\ m_stateGuard' = [m_stateGuard EXCEPT ![t] = @ \cup {c}]
        /\ UNCHANGED <<m_state, m_isRequestCancel, at, cancel>>
    BY <1>2 DEF CancelBlocks, Wait, PendingRequested
  <2> QED
    BY <2>1 DEF FinishedIsExited, PendingRequested, NoLostFinishWakeup, CancelledIsPastTheWork
<1>3. CASE CancelReturns(c)
  BY <1>3 DEF CancelReturns, FinishedIsExited, PendingRequested,
              NoLostFinishWakeup, CancelledIsPastTheWork
<1>4. ASSUME NEW t \in Threads, t = cancel[c].thread, WakeSpuriously(c)
      PROVE  IInv'
  <2>1. /\ m_stateGuard' = [m_stateGuard EXCEPT ![t] = @ \ {c}]
        /\ UNCHANGED <<m_state, m_isRequestCancel, at, cancel>>
    BY <1>4 DEF WakeSpuriously, SpuriousWakeup
  <2> QED
    BY <2>1 DEF FinishedIsExited, PendingRequested, NoLostFinishWakeup, CancelledIsPastTheWork
<1>5. CancelBlocks(c) \/ WakeSpuriously(c) => cancel[c].thread \in Threads
  BY DEF CancelBlocks, WakeSpuriously
<1> QED
  BY <1>1, <1>2, <1>3, <1>4, <1>5 DEF CancelStep

LEMMA NextKeepsIInv == IInv /\ [Next]_vars => IInv'
<1> SUFFICES ASSUME IInv, [Next]_vars
             PROVE  IInv'
  OBVIOUS
<1>1. ASSUME NEW t \in Threads, CancelAsync(t), UNCHANGED cancel
      PROVE  IInv'
  BY <1>1 DEF CancelAsync, IInv, TypeOK, FinishedIsExited, PendingRequested,
              NoLostFinishWakeup, CancelledIsPastTheWork
<1>2. CASE UNCHANGED vars
  BY <1>2 DEF vars, IInv, TypeOK, FinishedIsExited, PendingRequested,
              NoLostFinishWakeup, CancelledIsPastTheWork
<1> QED
  BY <1>1, <1>2, ThreadStepKeepsIInv, CancelKeepsIInv DEF Next

(* The variables of the threads and of the cancels keep their types.       *)
THEOREM TypeCorrect == Spec => []TypeOK
<1>1. IInv => TypeOK
  BY DEF IInv
<1> QED
  BY <1>1, InitIInv, NextKeepsIInv, PTL DEF Spec

(* Nobody stays blocked on a finished thread (CancelableThread.cpp:130-135)*)
THEOREM NoFinishWakeupIsLost == Spec => []NoLostFinishWakeup
<1>1. IInv => NoLostFinishWakeup
  BY DEF IInv
<1> QED
  BY <1>1, InitIInv, NextKeepsIInv, PTL DEF Spec

(* Cancel() returns only when the thread is past its work function and its *)
(* finish action (CancelableThread.cpp:137-158).                           *)
THEOREM CancelOutlastsTheWork == Spec => []CancelledIsPastTheWork
<1>1. IInv => CancelledIsPastTheWork
  BY DEF IInv
<1> QED
  BY <1>1, InitIInv, NextKeepsIInv, PTL DEF Spec

=============================================================================
