------------------------ MODULE BoundedBlockingQueue ------------------------
(***************************************************************************)
(* The monitor of include/BoundedBlockingQueue.h, with two condition       *)
(* variables on one mutex, and threads that call its methods.  As in       *)
(* BlockingQueueClients a call is "in" from the invocation until the       *)
(* critical section that decides the result, "out" otherwise.              *)
(***************************************************************************)
EXTENDS Naturals, Sequences, ConditionVariable

CONSTANTS
  Threads,
  Elems,
  NoElem,
  MaxSizes   \* the arguments of the constructor

(* assert(max_size > 0)                                                    *)
ASSUME BoundAssumption == MaxSizes \subseteq Nat \ {0} /\ NoElem \notin Elems

VARIABLES
  m_max_size,
  m_queue,              \* the elements, the oldest first
  m_queue_empty_cond,   \* the threads blocked in Pop or Front
  m_queue_full_cond,    \* the threads blocked in Push
  call

conds == <<m_queue_empty_cond, m_queue_full_cond>>
vars == <<m_max_size, m_queue, conds, call>>

Fifo == INSTANCE BoundedFifoQueue WITH bound <- m_max_size, items <- m_queue

Init ==
  /\ Fifo!Init
  /\ m_queue_empty_cond = {}
  /\ m_queue_full_cond = {}

(* IsFullWithLockHeld() that looks one element too late.                   *)
IsOverfull == Len(m_queue) = m_max_size + 1

IsFull == Len(m_queue) = m_max_size

IsEmpty == m_queue = <<>>

(* Push and NonblockingPush: notify the readers, then push.                *)
DoPush(t) ==
  /\ call[t].op \in {"Push", "NonblockingPush"}
  /\ ~ IsFull /\ t \notin m_queue_full_cond
  /\ m_queue_empty_cond' = NotifyAllIf(m_queue_empty_cond, IsEmpty)
  /\ m_queue' = Append(m_queue, call[t].val)
  /\ Fifo!Return(t, call[t].val)
  /\ UNCHANGED m_queue_full_cond

BlockWhileFull(t) ==
  /\ call[t].op = "Push"
  /\ IsFull /\ t \notin m_queue_full_cond
  /\ m_queue_full_cond' = Wait(m_queue_full_cond, t)
  /\ UNCHANGED <<m_queue, m_queue_empty_cond, call>>

(* A DoPop that tests for room after the removal.                          *)
PopThenTest(t) ==
  /\ call[t].op \in {"Pop", "NonblockingPop"}
  /\ ~ IsEmpty /\ t \notin m_queue_empty_cond
  /\ m_queue' = Tail(m_queue)
  /\ m_queue_full_cond' = NotifyAllIf(m_queue_full_cond, Len(m_queue') = m_max_size)
  /\ Fifo!Return(t, Head(m_queue))
  /\ UNCHANGED m_queue_empty_cond

(* Both overloads of Pop, and NonblockingPop: notify the writers, then     *)
(* take the head.                                                          *)
DoPop(t) ==
  /\ call[t].op \in {"Pop", "NonblockingPop"}
  /\ ~ IsEmpty /\ t \notin m_queue_empty_cond
  /\ m_queue_full_cond' = NotifyAllIf(m_queue_full_cond, IsFull)
  /\ m_queue' = Tail(m_queue)
  /\ Fifo!Return(t, Head(m_queue))
  /\ UNCHANGED m_queue_empty_cond

(* Both overloads of Front, and NonblockingFront, copy the head.           *)
DoFront(t) ==
  /\ call[t].op \in {"Front", "NonblockingFront"}
  /\ ~ IsEmpty /\ t \notin m_queue_empty_cond
  /\ Fifo!Return(t, Head(m_queue))
  /\ UNCHANGED <<m_queue, conds>>

BlockWhileEmpty(t) ==
  /\ call[t].op \in {"Pop", "Front"}
  /\ IsEmpty /\ t \notin m_queue_empty_cond
  /\ m_queue_empty_cond' = Wait(m_queue_empty_cond, t)
  /\ UNCHANGED <<m_queue, m_queue_full_cond, call>>

(* The non-blocking methods return false.                                  *)
DoFail(t) ==
  /\ \/ call[t].op = "NonblockingPush" /\ IsFull
     \/ call[t].op \in {"NonblockingPop", "NonblockingFront"} /\ IsEmpty
  /\ Fifo!Return(t, NoElem)
  /\ UNCHANGED <<m_queue, conds>>

(* The critical section of the pending call of t.                          *)
Enter(t) ==
  /\ call[t].at = "in"
  /\ \/ DoPush(t)
     \/ BlockWhileFull(t)
     \/ DoPop(t)
     \/ DoFront(t)
     \/ BlockWhileEmpty(t)
     \/ DoFail(t)
  /\ UNCHANGED m_max_size

WakeSpuriously(t) ==
  /\ t \in m_queue_empty_cond \cup m_queue_full_cond
  /\ m_queue_empty_cond' = SpuriousWakeup(m_queue_empty_cond, t)
  /\ m_queue_full_cond' = SpuriousWakeup(m_queue_full_cond, t)
  /\ UNCHANGED <<m_max_size, m_queue, call>>

Invoke(t, op, e) == Fifo!Invoke(t, op, e) /\ UNCHANGED conds

Next ==
  \E t \in Threads :
    \/ \E op \in Fifo!Ops, e \in Elems \cup {NoElem} : Invoke(t, op, e)
    \/ Enter(t)
    \/ WakeSpuriously(t)

(* A thread that is runnable runs: the scheduler is fair to each thread.   *)
Fairness == \A t \in Threads : WF_vars(Enter(t))

Spec == Init /\ [][Next]_vars /\ Fairness

-----------------------------------------------------------------------------

TypeOK ==
  /\ m_max_size \in MaxSizes
  /\ m_queue \in Seq(Elems) /\ Len(m_queue) <= m_max_size
  /\ call \in [Threads -> Fifo!Calls]
  /\ \A t \in Threads : call[t].at = "in" /\ call[t].op \in Fifo!Pushes => call[t].val \in Elems
  /\ m_queue_empty_cond \in SUBSET Threads
  /\ \A t \in m_queue_empty_cond : call[t].at = "in" /\ call[t].op \in {"Pop", "Front"}
  /\ m_queue_full_cond \in SUBSET Threads
  /\ \A t \in m_queue_full_cond : call[t].at = "in" /\ call[t].op = "Push"

(* No wakeup is lost: no thread is left blocked in Pop or Front beside an  *)
(* element, or in Push beside a free place, although the notifications are *)
(* made on the transitions from empty and from full only                   *)
(* (BoundedBlockingQueue.h:52-55, 88-91); readers and writers never wait   *)
(* for each other at the same time.                                        *)
NoLostWakeup ==
  /\ ~ IsEmpty => m_queue_empty_cond = {}
  /\ ~ IsFull => m_queue_full_cond = {}

(* The queue is a bounded linearizable FIFO whose enabled calls complete.  *)
ImplementsBoundedFifo == Fifo!Spec

=============================================================================
