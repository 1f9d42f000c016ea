----------------------------- MODULE SyncProofs -----------------------------
(***************************************************************************)
(* What is proved of the barrier and the latch for any threads, parties    *)
(* and counts: the types, among them that the barrier counts the threads   *)
(* that have arrived; that no wakeup is lost; and that a Wait() of the     *)
(* barrier which returns 0 has met all parties of its round.               *)
(***************************************************************************)
EXTENDS SyncClients, FiniteSetTheorems, TLAPS

InBarrier(t) == Pending(t, "BarrierWait", "waiting")

(* The threads that have arrived are in Wait(), in the round that is on.   *)
ArrivedWait ==
  /\ IsFiniteSet(arrived)
  /\ \A t \in arrived : InBarrier(t) /\ current[t] = Barrier!Index

(* The indexes that a Wait() has found are those of its round, and not of  *)
(* a round to come.                                                        *)
RoundsStarted ==
  \A t \in Threads : InBarrier(t) =>
    /\ round[t] = current[t]
    /\ current[t][1] <= barrier_index
    /\ current[t][2] <= reset_index

(* A round that is over without a reset is full: what a Wait() that is slow*)
(* to wake concludes from the two indexes (CyclicBarrier.h:40-46).         *)
EndedRoundsAreFull ==
  \A t \in Threads :
    InBarrier(t) /\ current[t] # Barrier!Index /\ current[t][2] = reset_index
      => current[t] \in full

IInv ==
  /\ TypeOK
  /\ ArrivedWait
  /\ RoundsStarted
  /\ EndedRoundsAreFull
  /\ NoLostWakeup
  /\ ZeroMeansAllArrived

LEMMA InitIInv == Init => IInv
BY FS_EmptySet, SyncAssumption
   DEF Init, Barrier!BarrierInit, Latch!LatchInit, IInv, TypeOK, Ops, Pending, InBarrier,
       ArrivedWait, RoundsStarted, EndedRoundsAreFull, NoLostWakeup, ZeroMeansAllArrived

CallType == [Threads -> [op : Ops, at : {"out", "in", "waiting"}, ret : {0, 1}]]

(* What a return makes of the calls.                                       *)
LEMMA ReturnsType ==
  ASSUME call \in CallType, NEW t \in Threads, NEW ret \in {0, 1}, Returns(t, ret)
  PROVE  /\ call' \in CallType
         /\ call'[t].op = call[t].op /\ call'[t].at = "out" /\ call'[t].ret = ret
         /\ \A u \in Threads : u # t => call'[u] = call[u]
<1> DEFINE new == [call[t] EXCEPT !.at = "out", !.ret = ret]
<1>1. call' = [call EXCEPT ![t] = new]
  BY DEF Returns
<1>2. /\ new \in [op : Ops, at : {"out", "in", "waiting"}, ret : {0, 1}]
      /\ new.op = call[t].op /\ new.at = "out" /\ new.ret = ret
  BY DEF CallType
<1> HIDE DEF new
<1>3. call' \in CallType /\ call'[t] = new /\ \A u \in Threads : u # t => call'[u] = call[u]
  BY <1>1, <1>2 DEF CallType
<1> QED
  BY <1>2, <1>3

(* A thread whose call is in another place than those of a set of threads  *)
(* leaves their calls as they are.                                         *)
LEMMA OthersPending ==
  ASSUME NEW S \in SUBSET Threads, NEW op, NEW place, NEW t,
         \A u \in S : Pending(u, op, place),
         ~ Pending(t, op, place),
         \A u \in Threads : u # t => call'[u] = call[u]
  PROVE  \A u \in S : Pending(u, op, place)'
BY DEF Pending

LEMMA InvokeKeepsIInv ==
  ASSUME IInv, NEW t \in Threads, NEW op \in Ops, Invoke(t, op)
  PROVE  IInv'
<1>1. /\ call[t].at = "out"
      /\ call' = [call EXCEPT ![t] = [op |-> op, at |-> "in", ret |-> 0]]
      /\ UNCHANGED <<barrierVars, latchVars, history>>
  BY DEF Invoke
<1> USE <1>1 DEF IInv, barrierVars, latchVars, history
<1>2. TypeOK'
  BY DEF TypeOK, Pending
<1>3. ArrivedWait' /\ RoundsStarted' /\ EndedRoundsAreFull'
  BY DEF TypeOK, ArrivedWait, RoundsStarted, EndedRoundsAreFull, InBarrier, Pending, Barrier!Index
<1>4. NoLostWakeup' /\ ZeroMeansAllArrived'
  BY DEF TypeOK, NoLostWakeup, ZeroMeansAllArrived, Pending, Barrier!Index
<1> QED
  BY <1>2, <1>3, <1>4

LEMMA ArriveKeepsIInv ==
  ASSUME IInv, NEW t \in Threads, BarrierArrive(t)
  PROVE  IInv'
<1>1. /\ Pending(t, "BarrierWait", "in")
      /\ barrier_count # 1
      /\ barrier_count' = barrier_count - 1
      /\ current' = [current EXCEPT ![t] = Barrier!Index]
      /\ barrier_guard' = barrier_guard \cup {t}
      /\ call' = [call EXCEPT ![t].at = "waiting"]
      /\ arrived' = arrived \cup {t}
      /\ round' = [round EXCEPT ![t] = Barrier!Index]
      /\ UNCHANGED <<barrier_index, reset_index, latchVars, full>>
  BY DEF BarrierArrive, Barrier!Arrive, Barrier!Wait
<1>2. t \notin arrived /\ t \notin latch_guard
  BY <1>1 DEF IInv, TypeOK, ArrivedWait, InBarrier, Pending
<1>3. IsFiniteSet(arrived') /\ Cardinality(arrived') = Cardinality(arrived) + 1
  BY <1>1, <1>2, FS_AddElement DEF IInv, ArrivedWait
<1>4. Cardinality(arrived) \in Nat
  BY FS_CardinalityType DEF IInv, ArrivedWait
<1>5. Barrier!Index \in Nat \X Nat /\ Barrier!Index' = Barrier!Index
  BY <1>1 DEF IInv, TypeOK, Barrier!Index
<1> USE <1>1 DEF IInv, latchVars
<1>6. TypeOK'
  <2>1. call' \in CallType /\ \A u \in Threads : u # t => call'[u] = call[u]
    BY DEF TypeOK, CallType
  <2>2. current' \in [Threads -> Nat \X Nat] /\ round' \in [Threads -> Nat \X Nat]
    BY <1>5 DEF TypeOK
  <2>3. barrier_count' \in 1 .. Parties /\ barrier_count' = Parties - Cardinality(arrived')
    BY <1>3, <1>4, SyncAssumption DEF TypeOK
  <2>4. \A u \in barrier_guard' : Pending(u, "BarrierWait", "waiting")'
    BY DEF TypeOK, Pending
  <2>5. \A u \in latch_guard : Pending(u, "LatchWait", "in")'
    BY <2>1, OthersPending DEF TypeOK, Pending
  <2> QED
    BY <2>1, <2>2, <2>3, <2>4, <2>5 DEF TypeOK, CallType
<1>7. ArrivedWait' /\ RoundsStarted' /\ EndedRoundsAreFull'
  BY <1>3, <1>5 DEF TypeOK, ArrivedWait, RoundsStarted, EndedRoundsAreFull, InBarrier, Pending,
                    Barrier!Index
<1>8. NoLostWakeup' /\ ZeroMeansAllArrived'
  BY <1>5 DEF TypeOK, NoLostWakeup, ZeroMeansAllArrived, Pending
<1> QED
  BY <1>6, <1>7, <1>8

(* The last party makes the round full.                                    *)
LEMMA TripKeepsIInv ==
  ASSUME IInv, NEW t \in Threads, BarrierTrip(t)
  PROVE  IInv'
<1>1. /\ Pending(t, "BarrierWait", "in")
      /\ barrier_count = 1
      /\ barrier_count' = Parties
      /\ barrier_guard' = {}
      /\ barrier_index' = barrier_index + 1
      /\ Returns(t, 0)
      /\ arrived' = {}
      /\ round' = [round EXCEPT ![t] = Barrier!Index]
      /\ UNCHANGED <<reset_index, current, latchVars>>
  BY DEF BarrierTrip, Barrier!Trip
<1>2. t \notin arrived /\ t \notin latch_guard
  BY <1>1 DEF IInv, TypeOK, ArrivedWait, InBarrier, Pending
<1>3. full' = full \cup {Barrier!Index}
  <2>1. Cardinality(arrived \cup {t}) = Cardinality(arrived) + 1
    BY <1>2, FS_AddElement DEF IInv, ArrivedWait
  <2>2. Cardinality(arrived) \in Nat
    BY FS_CardinalityType DEF IInv, ArrivedWait
  <2>3. Cardinality(arrived \cup {t}) = Parties
    BY <1>1, <2>1, <2>2, SyncAssumption DEF IInv, TypeOK
  <2> QED
    BY <2>3 DEF BarrierTrip
<1>4. Barrier!Index \in Nat \X Nat
  BY DEF IInv, TypeOK, Barrier!Index
<1>5. call' \in CallType /\ call'[t].at = "out" /\ \A u \in Threads : u # t => call'[u] = call[u]
  BY <1>1, ReturnsType DEF IInv, TypeOK, CallType
<1> USE <1>1 DEF IInv, latchVars
<1>6. TypeOK'
  <2>1. full' \in SUBSET (Nat \X Nat) /\ round' \in [Threads -> Nat \X Nat]
    BY <1>3, <1>4 DEF TypeOK
  <2>2. barrier_count' \in 1 .. Parties /\ barrier_count' = Parties - Cardinality(arrived')
    BY SyncAssumption, FS_EmptySet
  <2>3. \A u \in latch_guard : Pending(u, "LatchWait", "in")'
    BY <1>2, <1>5, OthersPending DEF TypeOK, Pending
  <2> QED
    BY <1>5, <2>1, <2>2, <2>3 DEF TypeOK, CallType
<1>7. ArrivedWait' /\ RoundsStarted'
  BY <1>5, FS_EmptySet DEF TypeOK, ArrivedWait, RoundsStarted, InBarrier, Pending
<1>8. EndedRoundsAreFull'
  BY <1>3, <1>5 DEF TypeOK, EndedRoundsAreFull, InBarrier, Pending
<1>9. NoLostWakeup' /\ ZeroMeansAllArrived'
  BY <1>3, <1>5 DEF TypeOK, NoLostWakeup, ZeroMeansAllArrived, Pending
<1> QED
  BY <1>6, <1>7, <1>8, <1>9

(* A Wait() that returns 0 has found its round over without a reset.       *)
LEMMA LeaveKeepsIInv ==
  ASSUME IInv, NEW t \in Threads, BarrierLeave(t)
  PROVE  IInv'
<1>1. PICK ret \in {0, 1} :
        /\ t \notin barrier_guard
        /\ current[t] # Barrier!Index
        /\ ret = IF current[t][2] # reset_index THEN 1 ELSE 0
        /\ Returns(t, ret)
        /\ UNCHANGED barrierVars
  BY DEF BarrierLeave, Barrier!Leave, barrierVars
<1>2. Pending(t, "BarrierWait", "waiting") /\ UNCHANGED <<latchVars, history>>
  BY DEF BarrierLeave
<1>3. t \notin arrived /\ t \notin latch_guard
  BY <1>1, <1>2 DEF IInv, TypeOK, ArrivedWait, Pending
<1>4. ret = 0 => round[t] \in full
  BY <1>1, <1>2 DEF IInv, EndedRoundsAreFull, RoundsStarted, InBarrier
<1>5. /\ call' \in CallType /\ call'[t].at = "out" /\ call'[t].ret = ret
      /\ \A u \in Threads : u # t => call'[u] = call[u]
  BY <1>1, ReturnsType DEF IInv, TypeOK, CallType
<1> USE <1>1, <1>2 DEF IInv, barrierVars, latchVars, history
<1>6. TypeOK'
  <2>1. \A u \in barrier_guard : Pending(u, "BarrierWait", "waiting")'
    BY <1>5 DEF TypeOK, Pending
  <2>2. \A u \in latch_guard : Pending(u, "LatchWait", "in")'
    BY <1>3, <1>5 DEF TypeOK, Pending
  <2> QED
    BY <1>5, <2>1, <2>2 DEF TypeOK, CallType
<1>7. ArrivedWait' /\ RoundsStarted' /\ EndedRoundsAreFull'
  BY <1>3, <1>5 DEF TypeOK, ArrivedWait, RoundsStarted, EndedRoundsAreFull, InBarrier, Pending,
                    Barrier!Index
<1>8. NoLostWakeup' /\ ZeroMeansAllArrived'
  BY <1>4, <1>5 DEF TypeOK, NoLostWakeup, ZeroMeansAllArrived, Pending, Barrier!Index
<1> QED
  BY <1>6, <1>7, <1>8

(* After a reset no Wait() of an earlier round looks at the barrier index. *)
LEMMA ResetKeepsIInv ==
  ASSUME IInv, NEW t \in Threads, BarrierReset(t)
  PROVE  IInv'
<1>1. /\ Pending(t, "Reset", "in")
      /\ barrier_guard' = {}
      /\ barrier_count' = Parties
      /\ reset_index' = reset_index + 1
      /\ Returns(t, 0)
      /\ arrived' = {}
      /\ UNCHANGED <<barrier_index, current, latchVars, round, full>>
  BY DEF BarrierReset, Barrier!Reset
<1>2. t \notin latch_guard
  BY <1>1 DEF IInv, TypeOK, Pending
<1>3. /\ call' \in CallType /\ call'[t].op = "Reset" /\ call'[t].at = "out"
      /\ \A u \in Threads : u # t => call'[u] = call[u]
  BY <1>1, ReturnsType DEF IInv, TypeOK, CallType, Pending
<1> USE <1>1 DEF IInv, latchVars
<1>4. TypeOK'
  <2>1. barrier_count' \in 1 .. Parties /\ barrier_count' = Parties - Cardinality(arrived')
    BY SyncAssumption, FS_EmptySet
  <2>2. \A u \in latch_guard : Pending(u, "LatchWait", "in")'
    BY <1>2, <1>3, OthersPending DEF TypeOK, Pending
  <2> QED
    BY <1>3, <2>1, <2>2 DEF TypeOK, CallType
<1>5. ArrivedWait' /\ RoundsStarted' /\ EndedRoundsAreFull'
  <2>1. \A u \in Threads : InBarrier(u)' => InBarrier(u)
    BY <1>3 DEF InBarrier, Pending
  <2>2. \A u \in Threads : InBarrier(u) => current[u][2] < reset_index'
    BY DEF TypeOK, RoundsStarted
  <2>3. ArrivedWait' /\ RoundsStarted'
    BY <2>1, FS_EmptySet DEF TypeOK, ArrivedWait, RoundsStarted
  <2> QED
    BY <2>1, <2>2, <2>3 DEF EndedRoundsAreFull, TypeOK
<1>6. NoLostWakeup' /\ ZeroMeansAllArrived'
  BY <1>3 DEF TypeOK, NoLostWakeup, ZeroMeansAllArrived, Pending
<1> QED
  BY <1>4, <1>5, <1>6

(* Blocking again and waking up concern the waiters only.                  *)
LEMMA BarrierGuardKeepsIInv ==
  ASSUME IInv, NEW t \in Threads,
         BarrierWaitAgain(t) \/ (Barrier!WakeSpuriously(t) /\ UNCHANGED <<latchVars, call, history>>)
  PROVE  IInv'
<1>1. /\ UNCHANGED <<barrier_count, barrier_index, reset_index, current, latchVars, call, history>>
      /\ \/ barrier_guard' = barrier_guard \ {t}
         \/ /\ barrier_guard' = barrier_guard \cup {t}
            /\ Pending(t, "BarrierWait", "waiting")
            /\ current[t] = Barrier!Index
  BY DEF BarrierWaitAgain, Barrier!WaitAgain, Barrier!Wait, Barrier!WakeSpuriously,
         Barrier!SpuriousWakeup
<1> USE <1>1 DEF IInv, latchVars, history
<1>2. TypeOK'
  BY DEF TypeOK, Pending
<1>3. ArrivedWait' /\ RoundsStarted' /\ EndedRoundsAreFull'
  BY DEF ArrivedWait, RoundsStarted, EndedRoundsAreFull, InBarrier, Pending, Barrier!Index
<1>4. NoLostWakeup' /\ ZeroMeansAllArrived'
  BY DEF NoLostWakeup, ZeroMeansAllArrived, Pending, Barrier!Index
<1> QED
  BY <1>2, <1>3, <1>4

LEMMA LatchKeepsIInv ==
  ASSUME IInv, NEW t \in Threads,
         \/ LatchBlock(t) \/ LatchPass(t) \/ LatchCountDown(t)
         \/ Latch!WakeSpuriously(t) /\ UNCHANGED <<barrierVars, call, history>>
  PROVE  IInv'
<1>1. UNCHANGED <<barrierVars, history>>
  BY DEF LatchBlock, LatchPass, LatchCountDown
<1>2. /\ call' \in CallType
      /\ \A u \in Threads : u # t => call'[u] = call[u]
      /\ \/ UNCHANGED call
         \/ call'[t].op \in {"LatchWait", "CountDown"} /\ call'[t].at = "out" /\ t \notin latch_guard
      /\ call[t].op = "BarrierWait" => UNCHANGED call
  <2>1. CASE LatchPass(t) \/ LatchCountDown(t)
    <3>1. /\ Returns(t, 0)
          /\ call[t].op \in {"LatchWait", "CountDown"}
          /\ t \notin latch_guard
      BY <2>1 DEF LatchPass, LatchCountDown, Latch!Pass, Pending, IInv, TypeOK
    <3> QED
      BY <3>1, ReturnsType DEF IInv, TypeOK, CallType
  <2>2. CASE ~ (LatchPass(t) \/ LatchCountDown(t))
    BY <2>2 DEF LatchBlock, IInv, TypeOK, CallType
  <2> QED
    BY <2>1, <2>2
<1>3. /\ latch_count' \in Int
      /\ latch_count' <= 0 => latch_guard' = {}
      /\ \A u \in latch_guard' :
           u \in latch_guard \/ (u = t /\ Pending(u, "LatchWait", "in") /\ UNCHANGED call)
  <2> USE DEF IInv, TypeOK, NoLostWakeup
  <2>1. CASE LatchBlock(t)
    BY <2>1 DEF LatchBlock, Latch!Block, Latch!Wait
  <2>2. CASE LatchPass(t)
    BY <2>2 DEF LatchPass, Latch!Pass
  <2>3. CASE LatchCountDown(t)
    BY <2>3 DEF LatchCountDown, Latch!CountDown, Latch!NotifyAllIf
  <2>4. CASE Latch!WakeSpuriously(t)
    BY <2>4 DEF Latch!WakeSpuriously, Latch!SpuriousWakeup
  <2> QED
    BY <2>1, <2>2, <2>3, <2>4
<1> USE <1>1 DEF IInv, barrierVars, history
<1>4. \A u \in Threads : call[u].op = "BarrierWait" \/ call'[u].op = "BarrierWait" => call'[u] = call[u]
  BY <1>2 DEF TypeOK
<1>5. TypeOK'
  <2>1. \A u \in barrier_guard : Pending(u, "BarrierWait", "waiting")'
    BY <1>4 DEF TypeOK, Pending
  <2>2. \A u \in latch_guard' : u \in Threads /\ Pending(u, "LatchWait", "in")'
    BY <1>2, <1>3 DEF TypeOK, Pending
  <2> QED
    BY <1>2, <1>3, <2>1, <2>2 DEF TypeOK, CallType
<1>6. ArrivedWait' /\ RoundsStarted' /\ EndedRoundsAreFull'
  BY <1>4 DEF TypeOK, ArrivedWait, RoundsStarted, EndedRoundsAreFull, InBarrier, Pending,
              Barrier!Index
<1>7. NoLostWakeup' /\ ZeroMeansAllArrived'
  BY <1>3, <1>4 DEF TypeOK, NoLostWakeup, ZeroMeansAllArrived, Pending, Barrier!Index
<1> QED
  BY <1>5, <1>6, <1>7

LEMMA NextKeepsIInv == IInv /\ [Next]_vars => IInv'
<1> SUFFICES ASSUME IInv, [Next]_vars
             PROVE  IInv'
  OBVIOUS
<1>1. CASE UNCHANGED vars
  BY <1>1 DEF vars, barrierVars, latchVars, history, IInv, TypeOK, ArrivedWait, RoundsStarted,
              EndedRoundsAreFull, NoLostWakeup, ZeroMeansAllArrived, InBarrier, Pending, Barrier!Index
<1>2. ASSUME NEW t \in Threads, Enter(t) \/ WakeSpuriously(t)
      PROVE  IInv'
  BY <1>2, ArriveKeepsIInv, TripKeepsIInv, LeaveKeepsIInv, ResetKeepsIInv, BarrierGuardKeepsIInv,
     LatchKeepsIInv
     DEF Enter, WakeSpuriously
<1> QED
  BY <1>1, <1>2, InvokeKeepsIInv DEF Next

LEMMA Invariant == Spec => []IInv
BY InitIInv, NextKeepsIInv, PTL DEF Spec

-----------------------------------------------------------------------------

(* The types; the count of the barrier is the number of parties that have  *)
(* yet to arrive, whatever was reset (CyclicBarrier.h:27-36, 53-56).       *)
THEOREM TypeCorrect == Spec => []TypeOK
<1>1. IInv => TypeOK
  BY DEF IInv
<1> QED
  BY <1>1, Invariant, PTL

(* Nobody stays blocked in a round that is over or at an open latch        *)
(* (CyclicBarrier.h:27-32, 55; CountDownLatch.h:33-36).                    *)
THEOREM NoWakeupIsLost == Spec => []NoLostWakeup
<1>1. IInv => NoLostWakeup
  BY DEF IInv
<1> QED
  BY <1>1, Invariant, PTL

(* Wait() of the barrier returns 0 only when all parties were waiting in   *)
(* its round, for any threads, parties and resets (CyclicBarrier.h:25-47). *)
THEOREM ZeroMeansFull == Spec => []ZeroMeansAllArrived
<1>1. IInv => ZeroMeansAllArrived
  BY DEF IInv
<1> QED
  BY <1>1, Invariant, PTL

=============================================================================
