------------------------- MODULE ConditionVariable -------------------------
(***************************************************************************)
(* The condition variables of include/ConditionVariable.h, a wrapper of    *)
(* pthread_cond_t, and the RAII lockers built on them.                     *)
(*                                                                         *)
(* A condition variable is the set of threads blocked in Wait().  Every    *)
(* critical section of the library either runs to its end without blocking *)
(* or ends in Wait(), so it is one atomic step of the modules that use     *)
(* these operators and the mutex needs no variable of its own: a thread    *)
(* that is not in the set is running, or contending for the mutex in order *)
(* to evaluate its wait condition again.                                   *)
(***************************************************************************)

(* ConditionWaitLocker: Lock(); while (f()) Wait();  The thread evaluated  *)
(* f() to true and blocks, releasing the mutex.                            *)
Wait(waiters, t) == waiters \cup {t}

(* ConditionNotifyAllLocker: Lock(); if (f()) NotifyAll();                 *)
NotifyAllIf(waiters, f) == IF f THEN {} ELSE waiters

(* Notify(): what it may leave of the waiters; it wakes one if there is one*)
NotifyOne(waiters) == IF waiters = {} THEN {{}} ELSE {waiters \ {t} : t \in waiters}

(* POSIX lets pthread_cond_wait return although nobody notified it; the    *)
(* loop of ConditionWaitLocker is written for that.                        *)
SpuriousWakeup(waiters, t) == waiters \ {t}

=============================================================================
