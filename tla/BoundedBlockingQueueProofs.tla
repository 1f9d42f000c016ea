---------------------- MODULE BoundedBlockingQueueProofs ----------------------
(***************************************************************************)
(* What is proved of BoundedBlockingQueue for every set of threads, values *)
(* and bounds: its type, which includes that the bound is kept, that no    *)
(* wakeup is lost, and that it implements the safety part of               *)
(* BoundedFifoQueue.                                                       *)
(***************************************************************************)
EXTENDS BoundedBlockingQueue, TLAPS

(* A call that returns leaves the calls well typed, the other calls as     *)
(* they were and the blocked threads, which it is not one of, in place.    *)
LEMMA ReturnKeepsCalls ==
  ASSUME TypeOK, NEW t \in Threads, NEW v \in Elems \cup {NoElem},
         Fifo!Return(t, v),
         t \notin m_queue_empty_cond \cup m_queue_full_cond
  PROVE  /\ call' \in [Threads -> Fifo!Calls]
         /\ \A u \in Threads :
              call'[u].at = "in" /\ call'[u].op \in Fifo!Pushes => call'[u].val \in Elems
         /\ \A u \in m_queue_empty_cond :
              call'[u].at = "in" /\ call'[u].op \in {"Pop", "Front"}
         /\ \A u \in m_queue_full_cond : call'[u].at = "in" /\ call'[u].op = "Push"
<1>1. call' = [call EXCEPT ![t].at = "out", ![t].val = v]
  BY DEF Fifo!Return
<1> call \in [Threads -> Fifo!Calls]
  BY DEF TypeOK
<1>2. call' \in [Threads -> Fifo!Calls]
  BY <1>1 DEF Fifo!Calls
<1>3. \A u \in Threads \ {t} : call'[u] = call[u]
  BY <1>1
<1>4. call'[t].at = "out"
  BY <1>1 DEF Fifo!Calls
<1> QED
  BY <1>2, <1>3, <1>4 DEF TypeOK

(* A pending call of a thread that is not in the wait set of its own       *)
(* method is in no wait set.                                               *)
LEMMA RunningThread ==
  ASSUME TypeOK, NEW t \in Threads,
         \/ call[t].op \in Fifo!Pushes /\ t \notin m_queue_full_cond
         \/ call[t].op \notin Fifo!Pushes /\ t \notin m_queue_empty_cond
  PROVE  t \notin m_queue_empty_cond \cup m_queue_full_cond
BY DEF TypeOK, Fifo!Pushes

LEMMA EnterKeepsType ==
  ASSUME TypeOK, NEW t \in Threads, Enter(t)
  PROVE  TypeOK'
<1>1. m_max_size' = m_max_size /\ m_max_size \in Nat /\ call[t].at = "in"
  BY BoundAssumption DEF Enter, TypeOK
<1>2. CASE DoPush(t)
  <2>1. call[t].val \in Elems /\ call[t].op \in Fifo!Pushes
    BY <1>1, <1>2 DEF DoPush, TypeOK, Fifo!Pushes
  <2>2. t \notin m_queue_empty_cond \cup m_queue_full_cond
    BY <1>2, <2>1, RunningThread DEF DoPush
  <2>3. m_queue' \in Seq(Elems) /\ Len(m_queue') <= m_max_size
    BY <1>1, <1>2, <2>1 DEF DoPush, TypeOK, IsFull
  <2>4. m_queue_empty_cond' \subseteq m_queue_empty_cond /\ m_queue_full_cond' = m_queue_full_cond
    BY <1>2 DEF DoPush, NotifyAllIf
  <2>5. Fifo!Return(t, call[t].val)
    BY <1>2 DEF DoPush
  <2> QED
    BY <1>1, <2>1, <2>2, <2>3, <2>4, <2>5, ReturnKeepsCalls DEF TypeOK
<1>3. CASE BlockWhileFull(t)
  BY <1>1, <1>3 DEF BlockWhileFull, Wait, TypeOK
<1>4. CASE DoPop(t)
  <2>1. m_queue # <<>> /\ Head(m_queue) \in Elems
    BY <1>4 DEF DoPop, IsEmpty, TypeOK
  <2>2. t \notin m_queue_empty_cond \cup m_queue_full_cond
    BY <1>4, RunningThread DEF DoPop, Fifo!Pushes
  <2>3. m_queue' \in Seq(Elems) /\ Len(m_queue') <= m_max_size
    BY <1>1, <1>4, <2>1 DEF DoPop, TypeOK
  <2>4. m_queue_full_cond' \subseteq m_queue_full_cond /\ m_queue_empty_cond' = m_queue_empty_cond
    BY <1>4 DEF DoPop, NotifyAllIf
  <2>5. Fifo!Return(t, Head(m_queue))
    BY <1>4 DEF DoPop
  <2> QED
    BY <1>1, <2>1, <2>2, <2>3, <2>4, <2>5, ReturnKeepsCalls DEF TypeOK
<1>5. CASE DoFront(t)
  <2>1. Head(m_queue) \in Elems
    BY <1>5 DEF DoFront, IsEmpty, TypeOK
  <2>2. t \notin m_queue_empty_cond \cup m_queue_full_cond
    BY <1>5, RunningThread DEF DoFront, Fifo!Pushes
  <2>3. Fifo!Return(t, Head(m_queue)) /\ UNCHANGED <<m_queue, m_queue_empty_cond, m_queue_full_cond>>
    BY <1>5 DEF DoFront, conds
  <2> QED
    BY <1>1, <2>1, <2>2, <2>3, ReturnKeepsCalls DEF TypeOK
<1>6. CASE BlockWhileEmpty(t)
  BY <1>1, <1>6 DEF BlockWhileEmpty, Wait, TypeOK
<1>7. CASE DoFail(t)
  <2>1. t \notin m_queue_empty_cond \cup m_queue_full_cond
    BY <1>7 DEF DoFail, TypeOK
  <2>2. Fifo!Return(t, NoElem) /\ UNCHANGED <<m_queue, m_queue_empty_cond, m_queue_full_cond>>
    BY <1>7 DEF DoFail, conds
  <2> QED
    BY <1>1, <2>1, <2>2, ReturnKeepsCalls DEF TypeOK
<1> QED
  BY <1>2, <1>3, <1>4, <1>5, <1>6, <1>7 DEF Enter

(* The queue keeps its bound, the calls their types, and only a Pop, Front *)
(* or Push that is pending is ever blocked (BoundedBlockingQueue.h:48-130).*)
THEOREM TypeCorrect == Spec => []TypeOK
<1>1. Init => TypeOK
  BY BoundAssumption DEF Init, Fifo!Init, TypeOK, Fifo!Calls, Fifo!Ops, Fifo!Pushes
<1>2. TypeOK /\ [Next]_vars => TypeOK'
  <2> SUFFICES ASSUME TypeOK, [Next]_vars
               PROVE  TypeOK'
    OBVIOUS
  <2>1. ASSUME NEW t \in Threads, NEW op \in Fifo!Ops, NEW e \in Elems \cup {NoElem},
               Invoke(t, op, e)
        PROVE  TypeOK'
    <3>1. /\ call[t].at = "out"
          /\ op \in Fifo!Pushes <=> e \in Elems
          /\ call' = [call EXCEPT ![t] = [op |-> op, at |-> "in", val |-> e]]
          /\ UNCHANGED <<m_max_size, m_queue, m_queue_empty_cond, m_queue_full_cond>>
      BY <2>1 DEF Invoke, Fifo!Invoke, conds
    <3>2. call' \in [Threads -> Fifo!Calls]
      BY <3>1 DEF TypeOK, Fifo!Calls
    <3>3. call'[t] = [op |-> op, at |-> "in", val |-> e] /\ \A u \in Threads \ {t} : call'[u] = call[u]
      BY <3>1 DEF TypeOK
    <3>4. t \notin m_queue_empty_cond \cup m_queue_full_cond
      BY <3>1 DEF TypeOK
    <3> QED
      BY <3>1, <3>2, <3>3, <3>4 DEF TypeOK
  <2>2. ASSUME NEW t \in Threads, WakeSpuriously(t)
        PROVE  TypeOK'
    BY <2>2 DEF WakeSpuriously, SpuriousWakeup, TypeOK
  <2>3. CASE UNCHANGED vars
    BY <2>3 DEF vars, conds, TypeOK
  <2> QED
    BY <2>1, <2>2, <2>3, EnterKeepsType DEF Next
<1> QED
  BY <1>1, <1>2, PTL DEF Spec

(* Nobody is left blocked beside an element or a free place, although the  *)
(* notifications are made on the transitions from empty and from full only *)
(* (BoundedBlockingQueue.h:52-55, 88-91).  The invariant is inductive: the *)
(* step that makes its premise true wakes every thread it speaks of.       *)
THEOREM NoWakeupIsLost == Spec => []NoLostWakeup
<1>1. Init => NoLostWakeup
  BY DEF Init, NoLostWakeup
<1>2. TypeOK /\ NoLostWakeup /\ [Next]_vars => NoLostWakeup'
  <2> SUFFICES ASSUME TypeOK, NoLostWakeup, [Next]_vars
               PROVE  NoLostWakeup'
    OBVIOUS
  <2> USE DEF NoLostWakeup, IsFull, IsEmpty
  <2>1. ASSUME NEW t \in Threads, Enter(t), DoPush(t)
        PROVE  NoLostWakeup'
    <3>1. m_queue_empty_cond' = {}
      BY <2>1 DEF DoPush, NotifyAllIf
    <3>2. m_queue_full_cond' = {}
      BY <2>1 DEF DoPush
    <3> QED
      BY <3>1, <3>2
  <2>2. ASSUME NEW t \in Threads, Enter(t), DoPop(t)
        PROVE  NoLostWakeup'
    <3>1. m_queue_empty_cond' = {}
      BY <2>2 DEF DoPop
    <3>2. m_queue_full_cond' = {}
      BY <2>2 DEF DoPop, NotifyAllIf
    <3> QED
      BY <3>1, <3>2
  <2>3. ASSUME NEW t \in Threads, Enter(t), BlockWhileFull(t) \/ BlockWhileEmpty(t)
        PROVE  NoLostWakeup'
    BY <2>3 DEF Enter, BlockWhileFull, BlockWhileEmpty
  <2>4. ASSUME NEW t \in Threads, Enter(t), DoFront(t) \/ DoFail(t)
        PROVE  NoLostWakeup'
    BY <2>4 DEF Enter, DoFront, DoFail, conds
  <2>5. ASSUME NEW t \in Threads, NEW op, NEW e, Invoke(t, op, e)
        PROVE  NoLostWakeup'
    BY <2>5 DEF Invoke, Fifo!Invoke, conds
  <2>6. ASSUME NEW t \in Threads, WakeSpuriously(t)
        PROVE  NoLostWakeup'
    BY <2>6 DEF WakeSpuriously, SpuriousWakeup
  <2>7. CASE UNCHANGED vars
    BY <2>7 DEF vars, conds
  <2> QED
    BY <2>1, <2>2, <2>3, <2>4, <2>5, <2>6, <2>7 DEF Next, Enter
<1> QED
  BY <1>1, <1>2, TypeCorrect, PTL DEF Spec

(* The monitor implements the bounded linearizable FIFO: every critical    *)
(* section is one atomic operation of BoundedFifoQueue on the contents, or *)
(* leaves them alone.  That a push finds room needs the bound of TypeOK.   *)
THEOREM QueueIsBoundedFifo == Spec => Fifo!SafeSpec
<1>1. Init => Fifo!Init
  BY DEF Init
<1>2. TypeOK /\ [Next]_vars => [Fifo!Next]_(Fifo!vars)
  <2> SUFFICES ASSUME TypeOK, [Next]_vars
               PROVE  [Fifo!Next]_(Fifo!vars)
    OBVIOUS
  <2>1. ASSUME NEW t \in Threads, NEW op \in Fifo!Ops, NEW e \in Elems \cup {NoElem},
               Invoke(t, op, e)
        PROVE  Fifo!Next
    BY <2>1 DEF Invoke, Fifo!Next
  <2>2. ASSUME NEW t \in Threads, Enter(t)
        PROVE  Fifo!Next \/ UNCHANGED Fifo!vars
    <3>1. DoPush(t) => Fifo!DoPush(t)
      <4>1. m_max_size \in Nat /\ Len(m_queue) \in Nat /\ Len(m_queue) <= m_max_size
        BY BoundAssumption DEF TypeOK
      <4> QED
        BY <4>1 DEF DoPush, Fifo!DoPush, Fifo!Pushes, IsFull
    <3>2. DoPop(t) => Fifo!DoPop(t)
      BY DEF DoPop, Fifo!DoPop, IsEmpty
    <3>3. DoFront(t) => Fifo!DoFront(t)
      BY DEF DoFront, Fifo!DoFront, IsEmpty
    <3>4. DoFail(t) => Fifo!DoFail(t)
      BY DEF DoFail, Fifo!DoFail, IsEmpty, IsFull
    <3>5. Enter(t) /\ (BlockWhileFull(t) \/ BlockWhileEmpty(t)) => UNCHANGED Fifo!vars
      BY DEF Enter, BlockWhileFull, BlockWhileEmpty, Fifo!vars
    <3> QED
      BY <2>2, <3>1, <3>2, <3>3, <3>4, <3>5 DEF Enter, Fifo!Perform, Fifo!Next
  <2>3. ASSUME NEW t \in Threads, WakeSpuriously(t)
        PROVE  UNCHANGED Fifo!vars
    BY <2>3 DEF WakeSpuriously, Fifo!vars
  <2>4. CASE UNCHANGED vars
    BY <2>4 DEF vars, Fifo!vars
  <2> QED
    BY <2>1, <2>2, <2>3, <2>4 DEF Next
<1> QED
  BY <1>1, <1>2, TypeCorrect, PTL DEF Spec, Fifo!SafeSpec

=============================================================================
