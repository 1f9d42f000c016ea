--------------------------- MODULE CountDownLatch ---------------------------
(***************************************************************************)
(* The latch of include/CountDownLatch.h as an object.  Its count goes     *)
(* below zero when CountDown() is called too often.                        *)
(***************************************************************************)
EXTENDS Integers, ConditionVariable

CONSTANT Count   \* the argument of the constructor

VARIABLES
  m_count,
  m_count_guard   \* the threads blocked in Wait()

LatchInit == m_count = Count /\ m_count_guard = {}

Block(t) ==
  /\ t \notin m_count_guard
  /\ m_count > 0
  /\ m_count_guard' = Wait(m_count_guard, t)
  /\ UNCHANGED m_count

Pass(t) ==
  /\ t \notin m_count_guard
  /\ m_count <= 0
  /\ UNCHANGED <<m_count, m_count_guard>>

(* CountDown that tests before the decrement.                              *)
TestAndCountDown ==
  /\ m_count' = m_count - 1
  /\ m_count_guard' = NotifyAllIf(m_count_guard, m_count = 0)

CountDown ==
  /\ m_count' = m_count - 1
  /\ m_count_guard' = NotifyAllIf(m_count_guard, m_count' = 0)

WakeSpuriously(t) ==
  /\ t \in m_count_guard
  /\ m_count_guard' = SpuriousWakeup(m_count_guard, t)
  /\ UNCHANGED m_count

=============================================================================
