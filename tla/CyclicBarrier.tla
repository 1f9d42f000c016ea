---------------------------- MODULE CyclicBarrier ----------------------------
(***************************************************************************)
(* The barrier of include/CyclicBarrier.h as an object: its fields, the    *)
(* indexes that a Wait() remembers, and one action per outcome of a        *)
(* critical section.  SyncClients gives it threads.                        *)
(***************************************************************************)
EXTENDS Naturals, ConditionVariable

CONSTANTS
  Threads,
  Parties   \* m_max_count

VARIABLES
  m_count,
  m_barrier_index,
  m_reset_index,
  m_count_guard,   \* the threads blocked in Wait()
  current          \* for each thread, the indexes its Wait() has found

Index == <<m_barrier_index, m_reset_index>>

BarrierInit ==
  /\ m_count = Parties
  /\ m_barrier_index = 0
  /\ m_reset_index = 0
  /\ m_count_guard = {}
  /\ current = [t \in Threads |-> <<0, 0>>]

(* Wait() of any thread but the last blocks ...                            *)
Arrive(t) ==
  /\ m_count # 1
  /\ m_count' = m_count - 1
  /\ current' = [current EXCEPT ![t] = Index]
  /\ m_count_guard' = Wait(m_count_guard, t)
  /\ UNCHANGED <<m_barrier_index, m_reset_index>>

(* Trip that does not begin a new round.                                   *)
TripOnly(t) ==
  /\ m_count = 1
  /\ m_count' = Parties
  /\ m_count_guard' = {}
  /\ UNCHANGED <<m_barrier_index, m_reset_index, current>>

(* ... and the last releases them and begins a new round.                  *)
Trip(t) ==
  /\ m_count = 1
  /\ m_count' = Parties
  /\ m_count_guard' = {}
  /\ m_barrier_index' = m_barrier_index + 1
  /\ UNCHANGED <<m_reset_index, current>>

(* A thread that is awake sees another round than its own and returns ...  *)
Leave(t, ret) ==
  /\ t \notin m_count_guard
  /\ current[t] # Index
  /\ ret = IF current[t][2] # m_reset_index THEN 1 ELSE 0
  /\ UNCHANGED <<m_count, m_barrier_index, m_reset_index, m_count_guard, current>>

(* ... or blocks again.                                                    *)
WaitAgain(t) ==
  /\ t \notin m_count_guard
  /\ current[t] = Index
  /\ m_count_guard' = Wait(m_count_guard, t)
  /\ UNCHANGED <<m_count, m_barrier_index, m_reset_index, current>>

(* Reset that forgets the threads that had arrived.                        *)
ResetIndexOnly ==
  /\ m_count_guard' = {}
  /\ m_reset_index' = m_reset_index + 1
  /\ UNCHANGED <<m_count, m_barrier_index, current>>

Reset ==
  /\ m_count_guard' = {}
  /\ m_count' = Parties
  /\ m_reset_index' = m_reset_index + 1
  /\ UNCHANGED <<m_barrier_index, current>>

WakeSpuriously(t) ==
  /\ t \in m_count_guard
  /\ m_count_guard' = SpuriousWakeup(m_count_guard, t)
  /\ UNCHANGED <<m_count, m_barrier_index, m_reset_index, current>>

=============================================================================
