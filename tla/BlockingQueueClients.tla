------------------------ MODULE BlockingQueueClients ------------------------
(***************************************************************************)
(* Threads that call the methods of one BlockingQueue concurrently.  The   *)
(* state of a thread is its call: "in" from the invocation until the       *)
(* critical section that decides the result, "out" otherwise.              *)
(***************************************************************************)
EXTENDS BlockingQueue, FiniteSets, Naturals

CONSTANTS
  Threads,
  Elems,
  NoElem,
  QueueBound   \* bound of the model: the callers stop pushing at this length

ASSUME QueueAssumption == QueueBound \in Nat \ {0} /\ NoElem \notin Elems

VARIABLE call

vars == <<m_queue, m_mutexCond, call>>

Fifo == INSTANCE FifoQueue WITH items <- m_queue

Init == QueueInit /\ Fifo!Init

Pushing == {t \in Threads : call[t].at = "in" /\ call[t].op = "Push"}

Invoke(t, op, e) ==
  /\ op = "Push" => Len(m_queue) + Cardinality(Pushing) < QueueBound
  /\ Fifo!Invoke(t, op, e)
  /\ UNCHANGED m_mutexCond

DoPush(t) ==
  /\ call[t].op = "Push"
  /\ Push(call[t].val)
  /\ Fifo!Return(t, NoElem)

DoPop(t) ==
  /\ call[t].op \in {"Pop", "NonblockingPop"}
  /\ TakeHead(t)
  /\ Fifo!Return(t, Head(m_queue))

(* Both overloads of Front, and NonblockingFront, copy the head.           *)
DoFront(t) ==
  /\ call[t].op \in {"Front", "NonblockingFront"}
  /\ t \notin m_mutexCond
  /\ m_queue # <<>>
  /\ Fifo!Return(t, Head(m_queue))
  /\ UNCHANGED queueVars

DoBlock(t) ==
  /\ call[t].op \in {"Pop", "Front"}
  /\ WaitWhileEmpty(t)
  /\ UNCHANGED call

(* The non-blocking methods return false on an empty queue.                *)
DoFail(t) ==
  /\ call[t].op \in {"NonblockingPop", "NonblockingFront"}
  /\ m_queue = <<>>
  /\ Fifo!Return(t, NoElem)
  /\ UNCHANGED queueVars

(* The critical section of the pending call of t.                          *)
Enter(t) ==
  /\ call[t].at = "in"
  /\ \/ DoPush(t)
     \/ DoPop(t)
     \/ DoFront(t)
     \/ DoBlock(t)
     \/ DoFail(t)

Next ==
  \E t \in Threads :
    \/ \E op \in Fifo!Ops, e \in Elems \cup {NoElem} : Invoke(t, op, e)
    \/ Enter(t)
    \/ WakeSpuriously(t) /\ UNCHANGED call

(* A thread that is runnable runs: the scheduler is fair to each thread.   *)
Fairness == \A t \in Threads : WF_vars(Enter(t))

Spec == Init /\ [][Next]_vars /\ Fairness

-----------------------------------------------------------------------------

TypeOK ==
  /\ m_queue \in Seq(Elems)
  /\ m_mutexCond \in SUBSET Threads
  /\ call \in [Threads -> Fifo!Calls]
  /\ \A t \in Pushing : call[t].val \in Elems
  /\ \A t \in m_mutexCond : call[t].at = "in" /\ call[t].op \in {"Pop", "Front"}

(* No wakeup is lost: while the queue holds an element no thread is left   *)
(* blocked in Pop or Front, although Push notifies only on the transition  *)
(* from empty (BlockingQueue.h:35-37).                                     *)
NoLostWakeup == m_queue # <<>> => m_mutexCond = {}

(* The queue is a linearizable FIFO whose enabled calls complete.          *)
ImplementsFifo == Fifo!Spec

=============================================================================
