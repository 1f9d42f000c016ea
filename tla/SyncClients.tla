----------------------------- MODULE SyncClients -----------------------------
(***************************************************************************)
(* Threads that synchronize by one CyclicBarrier and one CountDownLatch:   *)
(* each makes one call at a time, of any method of the two.  "in" is a     *)
(* call that has not reached its critical section, "waiting" one that has  *)
(* been blocked in it.                                                     *)
(***************************************************************************)
EXTENDS Integers, FiniteSets

CONSTANTS
  Threads,
  Parties,
  Count,
  MaxRounds,   \* bound of the model: rounds of the barrier
  MaxBelow     \* bound of the model: CountDown()s after the last needed one

(* assert(count > 0) in both constructors.                                 *)
ASSUME SyncAssumption ==
  Parties \in Nat \ {0} /\ Count \in Nat \ {0} /\ MaxRounds \in Nat /\ MaxBelow \in Nat

VARIABLES
  barrier_count, barrier_index, reset_index, barrier_guard, current,
  latch_count, latch_guard,
  call,
  arrived,   \* history: the threads that have arrived in this round
  round,     \* history: for each thread, the round of its last barrier Wait()
  full       \* history: the rounds in which all parties arrived

barrierVars == <<barrier_count, barrier_index, reset_index, barrier_guard, current>>
latchVars == <<latch_count, latch_guard>>
history == <<arrived, round, full>>
vars == <<barrierVars, latchVars, call, history>>

Barrier == INSTANCE CyclicBarrier WITH
  m_count <- barrier_count, m_barrier_index <- barrier_index,
  m_reset_index <- reset_index, m_count_guard <- barrier_guard

Latch == INSTANCE CountDownLatch WITH m_count <- latch_count, m_count_guard <- latch_guard

Ops == {"BarrierWait", "Reset", "LatchWait", "CountDown"}

Init ==
  /\ Barrier!BarrierInit
  /\ Latch!LatchInit
  /\ call = [t \in Threads |-> [op |-> "Reset", at |-> "out", ret |-> 0]]
  /\ arrived = {}
  /\ round = [t \in Threads |-> <<0, 0>>]
  /\ full = {}

Returns(t, ret) == call' = [call EXCEPT ![t].at = "out", ![t].ret = ret]

Pending(t, op, place) == call[t].op = op /\ call[t].at = place

Invoke(t, op) ==
  /\ call[t].at = "out"
  /\ op \in {"BarrierWait", "Reset"} => barrier_index + reset_index < MaxRounds
  /\ op = "CountDown" => latch_count > - MaxBelow
  /\ call' = [call EXCEPT ![t] = [op |-> op, at |-> "in", ret |-> 0]]
  /\ UNCHANGED <<barrierVars, latchVars, history>>

BarrierArrive(t) ==
  /\ Pending(t, "BarrierWait", "in")
  /\ Barrier!Arrive(t)
  /\ call' = [call EXCEPT ![t].at = "waiting"]
  /\ arrived' = arrived \cup {t}
  /\ round' = [round EXCEPT ![t] = Barrier!Index]
  /\ UNCHANGED <<latchVars, full>>

BarrierTrip(t) ==
  /\ Pending(t, "BarrierWait", "in")
  /\ Barrier!Trip(t)
  /\ Returns(t, 0)
  /\ arrived' = {}
  /\ round' = [round EXCEPT ![t] = Barrier!Index]
  /\ full' = IF Cardinality(arrived \cup {t}) = Parties THEN full \cup {Barrier!Index} ELSE full
  /\ UNCHANGED latchVars

BarrierLeave(t) ==
  /\ Pending(t, "BarrierWait", "waiting")
  /\ \E ret \in {0, 1} : Barrier!Leave(t, ret) /\ Returns(t, ret)
  /\ UNCHANGED <<latchVars, history>>

BarrierWaitAgain(t) ==
  /\ Pending(t, "BarrierWait", "waiting")
  /\ Barrier!WaitAgain(t)
  /\ UNCHANGED <<latchVars, call, history>>

BarrierReset(t) ==
  /\ Pending(t, "Reset", "in")
  /\ Barrier!Reset
  /\ Returns(t, 0)
  /\ arrived' = {}
  /\ UNCHANGED <<latchVars, round, full>>

LatchBlock(t) ==
  /\ Pending(t, "LatchWait", "in")
  /\ Latch!Block(t)
  /\ UNCHANGED <<barrierVars, call, history>>

LatchPass(t) ==
  /\ Pending(t, "LatchWait", "in")
  /\ Latch!Pass(t)
  /\ Returns(t, 0)
  /\ UNCHANGED <<barrierVars, history>>

LatchCountDown(t) ==
  /\ Pending(t, "CountDown", "in")
  /\ Latch!CountDown
  /\ Returns(t, 0)
  /\ UNCHANGED <<barrierVars, history>>

Enter(t) ==
  \/ BarrierArrive(t)
  \/ BarrierTrip(t)
  \/ BarrierLeave(t)
  \/ BarrierWaitAgain(t)
  \/ BarrierReset(t)
  \/ LatchBlock(t)
  \/ LatchPass(t)
  \/ LatchCountDown(t)

WakeSpuriously(t) ==
  /\ \/ Barrier!WakeSpuriously(t) /\ UNCHANGED latchVars
     \/ Latch!WakeSpuriously(t) /\ UNCHANGED barrierVars
  /\ UNCHANGED <<call, history>>

Next ==
  \E t \in Threads :
    \/ \E op \in Ops : Invoke(t, op)
    \/ Enter(t)
    \/ WakeSpuriously(t)

(* The scheduler is fair to each thread that can run.                      *)
Fairness == \A t \in Threads : WF_vars(Enter(t))

Spec == Init /\ [][Next]_vars /\ Fairness

-----------------------------------------------------------------------------

TypeOK ==
  /\ barrier_count \in 1 .. Parties
  /\ barrier_count = Parties - Cardinality(arrived)
  /\ barrier_index \in Nat /\ reset_index \in Nat
  /\ barrier_guard \in SUBSET Threads
  /\ \A t \in barrier_guard : Pending(t, "BarrierWait", "waiting")
  /\ current \in [Threads -> Nat \X Nat]
  /\ latch_count \in Int
  /\ latch_guard \in SUBSET Threads
  /\ \A t \in latch_guard : Pending(t, "LatchWait", "in")
  /\ call \in [Threads -> [op : Ops, at : {"out", "in", "waiting"}, ret : {0, 1}]]
  /\ arrived \in SUBSET Threads
  /\ round \in [Threads -> Nat \X Nat]
  /\ full \in SUBSET (Nat \X Nat)

(* Nobody is left blocked in a round of the barrier that is over, or at a  *)
(* latch that is open (CyclicBarrier.h:27-32, 55; CountDownLatch.h:33-36). *)
NoLostWakeup ==
  /\ \A t \in barrier_guard : current[t] = Barrier!Index
  /\ latch_count <= 0 => latch_guard = {}

(* Wait() of the barrier returns 0 only when all parties were waiting in   *)
(* its round: neither a reset nor a party of an earlier round counts for   *)
(* it, however late it wakes (CyclicBarrier.h:25-47).                      *)
ZeroMeansAllArrived ==
  \A t \in Threads :
    Pending(t, "BarrierWait", "out") /\ call[t].ret = 0 => round[t] \in full

(* A Wait() whose round is full returns, although others may go on to the  *)
(* next round before it wakes; so does one at an open latch                *)
(* (CyclicBarrier.h:37-41, CountDownLatch.h:24-27).                        *)
ReleasedWaitsReturn ==
  \A t \in Threads :
    /\ Pending(t, "BarrierWait", "waiting") /\ round[t] \in full ~> call[t].at = "out"
    /\ Pending(t, "LatchWait", "in") /\ latch_count <= 0 ~> call[t].at = "out"

=============================================================================
