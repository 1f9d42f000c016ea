--------------------------- MODULE BlockingQueue ---------------------------
(***************************************************************************)
(* The monitor of include/BlockingQueue.h: an std::queue guarded by one    *)
(* MutexConditionVariable.  LinearTaskQueue is the same object, its        *)
(* methods delegate to the queue's.                                        *)
(*                                                                         *)
(* This module is the object: its two variables and one action per outcome *)
(* of a method, with no program counter.  BlockingQueueClients gives the   *)
(* object threads of its own; FixedThreadPool instantiates it as the task  *)
(* queue of the pool.                                                      *)
(***************************************************************************)
EXTENDS Sequences, ConditionVariable

VARIABLES
  m_queue,      \* the elements, the oldest first
  m_mutexCond   \* the threads blocked on the condition variable

queueVars == <<m_queue, m_mutexCond>>

QueueInit ==
  /\ m_queue = <<>>
  /\ m_mutexCond = {}

(* Push with the test of ConditionNotifyAllLocker inverted.                *)
PushNotifiesWhenNonEmpty(e) ==
  /\ m_queue' = Append(m_queue, e)
  /\ m_mutexCond' = NotifyAllIf(m_mutexCond, m_queue # <<>>)

(* Push that wakes a single thread, as pthread_cond_signal would.          *)
PushSignalsOne(e) ==
  /\ m_queue' = Append(m_queue, e)
  /\ \/ m_queue # <<>> /\ UNCHANGED m_mutexCond
     \/ m_mutexCond = {} /\ UNCHANGED m_mutexCond
     \/ /\ m_queue = <<>>
        /\ \E t \in m_mutexCond : m_mutexCond' = m_mutexCond \ {t}

(* void Push(const ElemType&): the waiters are notified only when the      *)
(* queue was empty, and before the element is in it.                       *)
Push(e) ==
  /\ m_queue' = Append(m_queue, e)
  /\ m_mutexCond' = NotifyAllIf(m_mutexCond, m_queue = <<>>)

(* Pop and Front on an empty queue: the thread blocks.                     *)
WaitWhileEmpty(t) ==
  /\ t \notin m_mutexCond
  /\ m_queue = <<>>
  /\ m_mutexCond' = Wait(m_mutexCond, t)
  /\ UNCHANGED m_queue

(* Both overloads of Pop, and NonblockingPop, on a non-empty queue: the    *)
(* thread takes Head(m_queue).                                             *)
TakeHead(t) ==
  /\ t \notin m_mutexCond
  /\ m_queue # <<>>
  /\ m_queue' = Tail(m_queue)
  /\ UNCHANGED m_mutexCond

WakeSpuriously(t) ==
  /\ t \in m_mutexCond
  /\ m_mutexCond' = SpuriousWakeup(m_mutexCond, t)
  /\ UNCHANGED m_queue

=============================================================================
