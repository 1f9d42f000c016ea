------------------------- MODULE BlockingQueueProofs -------------------------
(***************************************************************************)
(* What is proved of BlockingQueue for every set of threads and values and *)
(* every bound: its type, that no wakeup is lost, and that it implements   *)
(* the safety part of FifoQueue.                                           *)
(***************************************************************************)
EXTENDS BlockingQueueClients, TLAPS

LEMMA InvokeKeepsType ==
  ASSUME TypeOK, NEW t \in Threads, NEW op \in Fifo!Ops, NEW e \in Elems \cup {NoElem},
         Invoke(t, op, e)
  PROVE  TypeOK'
<1>1. /\ call[t].at = "out"
      /\ op = "Push" <=> e \in Elems
      /\ call' = [call EXCEPT ![t] = [op |-> op, at |-> "in", val |-> e]]
      /\ UNCHANGED <<m_queue, m_mutexCond>>
  BY DEF Invoke, Fifo!Invoke
<1>2. call' \in [Threads -> Fifo!Calls]
  BY <1>1 DEF TypeOK, Fifo!Calls
<1>3. \A u \in Pushing' : call'[u].val \in Elems
  BY <1>1 DEF TypeOK, Pushing, Fifo!Calls
<1>4. \A u \in m_mutexCond' : call'[u].at = "in" /\ call'[u].op \in {"Pop", "Front"}
  BY <1>1 DEF TypeOK, Fifo!Calls
<1> QED
  BY <1>1, <1>2, <1>3, <1>4 DEF TypeOK

(* A call that returns stays a call.                                       *)
LEMMA ReturnKeepsCalls ==
  ASSUME call \in [Threads -> Fifo!Calls], NEW t \in Threads,
         NEW v \in Elems \cup {NoElem}, Fifo!Return(t, v)
  PROVE  call' \in [Threads -> Fifo!Calls]
<1> DEFINE new == [call[t] EXCEPT !.at = "out", !.val = v]
<1>1. call[t] \in Fifo!Calls
  OBVIOUS
<1>2. new \in Fifo!Calls
  BY <1>1 DEF Fifo!Calls
<1>3. call' = [call EXCEPT ![t] = new]
  BY DEF Fifo!Return
<1> HIDE DEF new
<1> QED
  BY <1>2, <1>3

LEMMA EnterKeepsType ==
  ASSUME TypeOK, NEW t \in Threads, Enter(t)
  PROVE  TypeOK'
<1> USE DEF TypeOK
<1>1. CASE DoPush(t)
  <2>1. call[t].val \in Elems
    BY <1>1 DEF DoPush, Enter, Pushing
  <2>2. m_queue' = Append(m_queue, call[t].val) /\ m_queue' \in Seq(Elems)
    BY <1>1, <2>1 DEF DoPush, Push
  <2>3. m_mutexCond' \subseteq m_mutexCond
    BY <1>1 DEF DoPush, Push, NotifyAllIf
  <2>4. call' = [call EXCEPT ![t].at = "out", ![t].val = NoElem]
    BY <1>1 DEF DoPush, Fifo!Return
  <2>5. t \notin m_mutexCond
    BY <1>1 DEF DoPush
  <2>6. call' \in [Threads -> Fifo!Calls]
    BY <1>1, ReturnKeepsCalls DEF DoPush
  <2>7. \A u \in Pushing' : call'[u].val \in Elems
    <3> SUFFICES ASSUME NEW u \in Pushing' PROVE call'[u].val \in Elems
      OBVIOUS
    <3>1. u \in Threads /\ call'[u].at = "in"
      BY DEF Pushing
    <3>2. call'[t].at = "out"
      BY <2>4 DEF Fifo!Calls
    <3>3. call'[u] = call[u]
      BY <2>4, <3>1, <3>2
    <3> QED
      BY <3>1, <3>3 DEF Pushing
  <2>8. \A u \in m_mutexCond' : call'[u] = call[u]
    BY <2>3, <2>4, <2>5
  <2> QED
    BY <2>2, <2>3, <2>6, <2>7, <2>8
<1>2. CASE DoPop(t)
  <2>1. /\ m_queue # <<>>
        /\ m_queue' = Tail(m_queue)
        /\ m_mutexCond' = m_mutexCond
        /\ t \notin m_mutexCond
        /\ call' = [call EXCEPT ![t].at = "out", ![t].val = Head(m_queue)]
    BY <1>2 DEF DoPop, TakeHead, Fifo!Return
  <2>2. m_queue' \in Seq(Elems) /\ Head(m_queue) \in Elems
    BY <2>1
  <2>3. call' \in [Threads -> Fifo!Calls]
    BY <1>2, <2>2, ReturnKeepsCalls DEF DoPop
  <2>4. \A u \in Pushing' : call'[u].val \in Elems
    BY <2>1, <2>2 DEF Pushing, Fifo!Calls
  <2> QED
    BY <2>1, <2>2, <2>3, <2>4 DEF Fifo!Calls
<1>3. CASE DoFront(t)
  <2>1. /\ m_queue # <<>>
        /\ m_queue' = m_queue
        /\ m_mutexCond' = m_mutexCond
        /\ t \notin m_mutexCond
        /\ call' = [call EXCEPT ![t].at = "out", ![t].val = Head(m_queue)]
    BY <1>3 DEF DoFront, queueVars, Fifo!Return
  <2>2. Head(m_queue) \in Elems
    BY <2>1
  <2>3. call' \in [Threads -> Fifo!Calls]
    BY <1>3, <2>2, ReturnKeepsCalls DEF DoFront
  <2>4. \A u \in Pushing' : call'[u].val \in Elems
    BY <2>1, <2>2 DEF Pushing, Fifo!Calls
  <2> QED
    BY <2>1, <2>2, <2>3, <2>4 DEF Fifo!Calls
<1>4. CASE DoBlock(t)
  <2>1. m_mutexCond' = m_mutexCond \cup {t} /\ UNCHANGED <<m_queue, call>>
    BY <1>4 DEF DoBlock, WaitWhileEmpty, Wait
  <2>2. call[t].at = "in" /\ call[t].op \in {"Pop", "Front"}
    BY <1>4 DEF DoBlock, Enter
  <2> QED
    BY <2>1, <2>2 DEF Pushing
<1>5. CASE DoFail(t)
  <2>1. /\ UNCHANGED <<m_queue, m_mutexCond>>
        /\ call' = [call EXCEPT ![t].at = "out", ![t].val = NoElem]
    BY <1>5 DEF DoFail, queueVars, Fifo!Return
  <2>2. call' \in [Threads -> Fifo!Calls]
    BY <1>5, ReturnKeepsCalls DEF DoFail
  <2>3. \A u \in Pushing' : call'[u].val \in Elems
    BY <2>1 DEF Pushing, Fifo!Calls
  <2>4. call[t].op \in {"NonblockingPop", "NonblockingFront"}
    BY <1>5 DEF DoFail
  <2>5. t \notin m_mutexCond
    BY <2>4
  <2> QED
    BY <2>1, <2>2, <2>3, <2>5 DEF Fifo!Calls
<1> QED
  BY <1>1, <1>2, <1>3, <1>4, <1>5 DEF Enter

(* The queue, the waiters and the calls keep their types, and only threads *)
(* inside a blocking Pop or Front are ever blocked.                        *)
THEOREM TypeCorrect == Spec => []TypeOK
<1>1. Init => TypeOK
  BY DEF Init, QueueInit, Fifo!Init, TypeOK, Pushing, Fifo!Calls, Fifo!Ops
<1>2. TypeOK /\ [Next]_vars => TypeOK'
  <2> SUFFICES ASSUME TypeOK, [Next]_vars
               PROVE  TypeOK'
    OBVIOUS
  <2>1. ASSUME NEW t \in Threads, WakeSpuriously(t), UNCHANGED call
        PROVE  TypeOK'
    BY <2>1 DEF WakeSpuriously, SpuriousWakeup, TypeOK, Pushing
  <2>2. CASE UNCHANGED vars
    BY <2>2 DEF vars, TypeOK, Pushing
  <2> QED
    BY <2>1, <2>2, InvokeKeepsType, EnterKeepsType DEF Next
<1> QED
  BY <1>1, <1>2, PTL DEF Spec

(* No wakeup is lost, although Push notifies only when the queue was empty *)
(* (BlockingQueue.h:35-37).  The invariant is inductive by itself: a thread*)
(* blocks on an empty queue only, and the Push that makes the queue        *)
(* non-empty wakes every thread.                                           *)
THEOREM NoWakeupIsLost == Spec => []NoLostWakeup
<1>1. Init => NoLostWakeup
  BY DEF Init, QueueInit, NoLostWakeup
<1>2. TypeOK /\ NoLostWakeup /\ [Next]_vars => NoLostWakeup'
  <2> SUFFICES ASSUME TypeOK, NoLostWakeup, [Next]_vars
               PROVE  NoLostWakeup'
    OBVIOUS
  <2> USE DEF NoLostWakeup
  <2>1. ASSUME NEW t \in Threads, DoPush(t)
        PROVE  NoLostWakeup'
    <3>1. CASE m_queue = <<>>
      BY <2>1, <3>1 DEF DoPush, Push, NotifyAllIf
    <3>2. CASE m_queue # <<>>
      BY <2>1, <3>2 DEF DoPush, Push, NotifyAllIf
    <3> QED
      BY <3>1, <3>2
  <2>2. ASSUME NEW t \in Threads, DoPop(t)
        PROVE  NoLostWakeup'
    BY <2>2 DEF DoPop, TakeHead
  <2>3. ASSUME NEW t \in Threads, DoBlock(t)
        PROVE  NoLostWakeup'
    BY <2>3 DEF DoBlock, WaitWhileEmpty
  <2>4. ASSUME NEW t \in Threads, DoFront(t) \/ DoFail(t)
        PROVE  NoLostWakeup'
    BY <2>4 DEF DoFront, DoFail, queueVars
  <2>5. ASSUME NEW t \in Threads, NEW op, NEW e, Invoke(t, op, e)
        PROVE  NoLostWakeup'
    BY <2>5 DEF Invoke, Fifo!Invoke
  <2>6. ASSUME NEW t \in Threads, WakeSpuriously(t)
        PROVE  NoLostWakeup'
    BY <2>6 DEF WakeSpuriously, SpuriousWakeup
  <2>7. CASE UNCHANGED vars
    BY <2>7 DEF vars
  <2> QED
    BY <2>1, <2>2, <2>3, <2>4, <2>5, <2>6, <2>7 DEF Next, Enter
<1> QED
  BY <1>1, <1>2, TypeCorrect, PTL DEF Spec

(* The monitor implements the linearizable FIFO: every critical section is *)
(* one atomic operation of FifoQueue on the contents, or leaves them alone.*)
THEOREM QueueIsFifo == Spec => Fifo!SafeSpec
<1>1. Init => Fifo!Init
  BY DEF Init, Fifo!Init
<1>2. [Next]_vars => [Fifo!Next]_(Fifo!vars)
  <2> SUFFICES ASSUME [Next]_vars
               PROVE  [Fifo!Next]_(Fifo!vars)
    OBVIOUS
  <2>1. ASSUME NEW t \in Threads, NEW op \in Fifo!Ops, NEW e \in Elems \cup {NoElem},
               Invoke(t, op, e)
        PROVE  Fifo!Next
    BY <2>1 DEF Invoke, Fifo!Next
  <2>2. ASSUME NEW t \in Threads, Enter(t)
        PROVE  Fifo!Next \/ UNCHANGED Fifo!vars
    <3>1. DoPush(t) => Fifo!DoPush(t)
      BY DEF DoPush, Push, Fifo!DoPush
    <3>2. DoPop(t) => Fifo!DoPop(t)
      BY DEF DoPop, TakeHead, Fifo!DoPop
    <3>3. DoFront(t) => Fifo!DoFront(t)
      BY DEF DoFront, queueVars, Fifo!DoFront
    <3>4. DoFail(t) => Fifo!DoFail(t)
      BY DEF DoFail, queueVars, Fifo!DoFail
    <3>5. DoBlock(t) => UNCHANGED Fifo!vars
      BY DEF DoBlock, WaitWhileEmpty, Fifo!vars
    <3> QED
      BY <2>2, <3>1, <3>2, <3>3, <3>4, <3>5 DEF Enter, Fifo!Perform, Fifo!Next
  <2>3. ASSUME NEW t \in Threads, WakeSpuriously(t), UNCHANGED call
        PROVE  UNCHANGED Fifo!vars
    BY <2>3 DEF WakeSpuriously, Fifo!vars
  <2>4. CASE UNCHANGED vars
    BY <2>4 DEF vars, Fifo!vars
  <2> QED
    BY <2>1, <2>2, <2>3, <2>4 DEF Next
<1> QED
  BY <1>1, <1>2, PTL DEF Spec, Fifo!SafeSpec

=============================================================================
