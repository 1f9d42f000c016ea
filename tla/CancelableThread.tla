-------------------------- MODULE CancelableThread --------------------------
(***************************************************************************)
(* The threads of src/CancelableThread.cpp.  A thread runs a work function *)
(* that may poll for a cancel request, then a finish action, then wakes    *)
(* the threads blocked in Cancel().                                        *)
(*                                                                         *)
(* The work function and the finish action are parameters of the class.    *)
(* Here a work function ends when it likes; FixedThreadPool conjoins the   *)
(* actions WorkPolls, WorkEnds and FinishAction with those of its workers. *)
(***************************************************************************)
EXTENDS ConditionVariable

CONSTANTS
  Threads,
  Cancellers,   \* threads that call Cancel() or CancelAsync()
  NoThread

ASSUME ThreadAssumption == NoThread \notin Threads

VARIABLES
  m_state,             \* for each thread
  m_isRequestCancel,   \* for each thread
  m_stateGuard,        \* for each thread, the threads blocked in its Cancel()
  at,                  \* for each thread, where it is in ThreadFunction()
  cancel               \* for each canceller, its pending or last Cancel()

vars == <<m_state, m_isRequestCancel, m_stateGuard, at, cancel>>

State == {"INIT", "RUNNING", "FINISHED"}

(* After the constructor the new thread is about to enter ThreadFunction.  *)
Init ==
  /\ m_state = [t \in Threads |-> "INIT"]
  /\ m_isRequestCancel = [t \in Threads |-> FALSE]
  /\ m_stateGuard = [t \in Threads |-> {}]
  /\ at = [t \in Threads |-> "start"]
  /\ cancel = [c \in Cancellers |-> [at |-> "out", thread |-> NoThread]]

-----------------------------------------------------------------------------
(* ThreadFunction()                                                        *)

Go(t, from, to) ==
  /\ at[t] = from
  /\ at' = [at EXCEPT ![t] = to]

SetRunning(t) ==
  /\ Go(t, "start", "check")
  /\ m_state' = [m_state EXCEPT ![t] = "RUNNING"]
  /\ UNCHANGED <<m_isRequestCancel, m_stateGuard, cancel>>

CheckCancellation(t) ==
  /\ Go(t, "check", IF m_isRequestCancel[t] THEN "finishAction" ELSE "work")
  /\ UNCHANGED <<m_state, m_isRequestCancel, m_stateGuard, cancel>>

(* The work function calls the CheckCancellation it was given: it throws   *)
(* when a cancel was requested.                                            *)
WorkPolls(t) ==
  /\ at[t] = "work"
  /\ at' = [at EXCEPT ![t] = IF m_isRequestCancel[t] THEN "finishAction" ELSE "work"]
  /\ UNCHANGED <<m_state, m_isRequestCancel, m_stateGuard, cancel>>

(* The work function returns, or throws: catch (...).                      *)
WorkEnds(t) ==
  /\ Go(t, "work", "finishAction")
  /\ UNCHANGED <<m_state, m_isRequestCancel, m_stateGuard, cancel>>

FinishAction(t) ==
  /\ Go(t, "finishAction", "notifyFinished")
  /\ UNCHANGED <<m_state, m_isRequestCancel, m_stateGuard, cancel>>

(* NotifyFinished() without the notification.                              *)
FinishSilently(t) ==
  /\ Go(t, "notifyFinished", "exited")
  /\ m_state' = [m_state EXCEPT ![t] = "FINISHED"]
  /\ UNCHANGED <<m_isRequestCancel, m_stateGuard, cancel>>

(* The waiters are notified before m_state is set, in one critical section.*)
NotifyFinished(t) ==
  /\ Go(t, "notifyFinished", "exited")
  /\ m_stateGuard' = [m_stateGuard EXCEPT ![t] = NotifyAllIf(@, m_isRequestCancel[t])]
  /\ m_state' = [m_state EXCEPT ![t] = "FINISHED"]
  /\ UNCHANGED <<m_isRequestCancel, cancel>>

ThreadStep(t) ==
  \/ SetRunning(t)
  \/ CheckCancellation(t)
  \/ WorkPolls(t)
  \/ WorkEnds(t)
  \/ FinishAction(t)
  \/ NotifyFinished(t)

-----------------------------------------------------------------------------
(* Cancel() and CancelAsync()                                              *)

CancelAsync(t) ==
  /\ m_isRequestCancel' = [m_isRequestCancel EXCEPT ![t] = TRUE]
  /\ UNCHANGED <<m_state, m_stateGuard, at>>

(* Cancel() up to its wait.                                                *)
Cancel(c, t) ==
  /\ cancel[c].at = "out"
  /\ cancel' = [cancel EXCEPT ![c] = [at |-> "in", thread |-> t]]
  /\ CancelAsync(t)

(* Evaluating the wait condition: Cancel() blocks ...                      *)
CancelBlocks(c) ==
  LET t == cancel[c].thread IN
  /\ cancel[c].at = "in"
  /\ c \notin m_stateGuard[t]
  /\ m_state[t] # "FINISHED"
  /\ m_stateGuard' = [m_stateGuard EXCEPT ![t] = Wait(@, c)]
  /\ UNCHANGED <<m_state, m_isRequestCancel, at, cancel>>

(* Cancel() that returns on any wakeup.                                    *)
CancelReturnsAnyhow(c) ==
  /\ cancel[c].at = "in"
  /\ c \notin m_stateGuard[cancel[c].thread]
  /\ cancel' = [cancel EXCEPT ![c].at = "out"]
  /\ UNCHANGED <<m_state, m_isRequestCancel, m_stateGuard, at>>

(* ... or returns.                                                         *)
CancelReturns(c) ==
  /\ cancel[c].at = "in"
  /\ c \notin m_stateGuard[cancel[c].thread]
  /\ m_state[cancel[c].thread] = "FINISHED"
  /\ cancel' = [cancel EXCEPT ![c].at = "out"]
  /\ UNCHANGED <<m_state, m_isRequestCancel, m_stateGuard, at>>

WakeSpuriously(c) ==
  LET t == cancel[c].thread IN
  /\ cancel[c].at = "in"
  /\ c \in m_stateGuard[t]
  /\ m_stateGuard' = [m_stateGuard EXCEPT ![t] = SpuriousWakeup(@, c)]
  /\ UNCHANGED <<m_state, m_isRequestCancel, at, cancel>>

CancelStep(c) == CancelBlocks(c) \/ CancelReturns(c)

-----------------------------------------------------------------------------

Next ==
  \/ \E t \in Threads : ThreadStep(t)
  \/ \E c \in Cancellers :
       \/ CancelStep(c)
       \/ WakeSpuriously(c)
       \/ \E t \in Threads : Cancel(c, t)
  \/ \E t \in Threads : CancelAsync(t) /\ UNCHANGED cancel

(* Runnable threads are scheduled.  The work function need not end, but it *)
(* keeps polling: that is what Cancel() asks of it.                        *)
Fairness ==
  /\ \A t \in Threads :
       /\ WF_vars(at[t] # "work" /\ ThreadStep(t))
       /\ WF_vars(WorkPolls(t))
  /\ \A c \in Cancellers : WF_vars(CancelStep(c))

Spec == Init /\ [][Next]_vars /\ Fairness

-----------------------------------------------------------------------------

Places == {"start", "check", "work", "finishAction", "notifyFinished", "exited"}

TypeOK ==
  /\ m_state \in [Threads -> State]
  /\ m_isRequestCancel \in [Threads -> BOOLEAN]
  /\ m_stateGuard \in [Threads -> SUBSET Cancellers]
  /\ at \in [Threads -> Places]
  /\ cancel \in [Cancellers -> [at : {"out"}, thread : Threads \cup {NoThread}]
                                 \cup [at : {"in"}, thread : Threads]]

(* Nobody stays blocked on a thread that has finished, although the        *)
(* notification is skipped when no cancel was requested                    *)
(* (CancelableThread.cpp:53-59, 130-135).                                  *)
NoLostFinishWakeup ==
  \A t \in Threads : m_stateGuard[t] # {} => m_isRequestCancel[t] /\ m_state[t] # "FINISHED"

(* When Cancel() has returned, the thread is past its work function and    *)
(* past its finish action (CancelableThread.cpp:137-158).                  *)
CancelledIsPastTheWork ==
  \A c \in Cancellers :
    cancel[c].at = "out" /\ cancel[c].thread # NoThread => at[cancel[c].thread] = "exited"

(* Every Cancel() returns when the work function polls.                    *)
EveryCancelReturns == \A c \in Cancellers : cancel[c].at = "in" ~> cancel[c].at = "out"

=============================================================================
