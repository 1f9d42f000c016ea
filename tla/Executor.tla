------------------------------ MODULE Executor ------------------------------
(***************************************************************************)
(* What a task pool promises to the threads that add tasks to it: a task   *)
(* is executed at most once, by one worker, and only if it was accepted;   *)
(* tasks are rejected only once the pool is closed; the pool retires when  *)
(* nothing is executing, with every task that was accepted before the      *)
(* close executed, unless the pool was forced.                             *)
(*                                                                         *)
(* There is no queue here, no EndTask, no counter of the stopped workers   *)
(* and no notification: FixedThreadPool is shown to implement this module. *)
(***************************************************************************)
CONSTANTS
  Workers,
  Tasks,
  NoTask,
  MayThrow    \* TRUE: an execution may end by an exception of the user

VARIABLES
  status,     \* for each task, how far it is
  current,    \* for each worker, the task it executes or NoTask
  closed,     \* a stop has been requested
  forced,     \* a worker may leave without what it should still execute
  retired     \* the workers are done

vars == <<status, current, closed, forced, retired>>

Init ==
  /\ status = [k \in Tasks |-> "new"]
  /\ current = [w \in Workers |-> NoTask]
  /\ closed = FALSE
  /\ forced = FALSE
  /\ retired = FALSE

SetStatus(k, from, to) ==
  /\ status[k] \in from
  /\ status' = [status EXCEPT ![k] = to]

(* A task is accepted early or late: before or after the close.            *)
Accept(k) ==
  /\ SetStatus(k, {"new"}, IF closed THEN "late" ELSE "early")
  /\ UNCHANGED <<current, closed, forced, retired>>

Reject(k) ==
  /\ closed
  /\ SetStatus(k, {"new"}, "rejected")
  /\ UNCHANGED <<current, closed, forced, retired>>

Start(w, k) ==
  /\ ~ retired
  /\ current[w] = NoTask
  /\ SetStatus(k, {"early", "late"}, "started")
  /\ current' = [current EXCEPT ![w] = k]
  /\ UNCHANGED <<closed, forced, retired>>

End(w) ==
  /\ current[w] # NoTask
  /\ current' = [current EXCEPT ![w] = NoTask]
  /\ UNCHANGED <<status, closed, forced, retired>>

(* An exception takes the worker away.                                     *)
Throw(w) ==
  /\ MayThrow
  /\ current[w] # NoTask
  /\ current' = [current EXCEPT ![w] = NoTask]
  /\ forced' = TRUE
  /\ UNCHANGED <<status, closed, retired>>

Close ==
  /\ closed' = TRUE
  /\ UNCHANGED <<status, current, forced, retired>>

(* Only a closed pool is forced.                                           *)
Force ==
  /\ closed
  /\ forced' = TRUE
  /\ UNCHANGED <<status, current, closed, retired>>

Retire ==
  /\ \A w \in Workers : current[w] = NoTask
  /\ forced \/ (closed /\ \A k \in Tasks : status[k] # "early")
  /\ retired' = TRUE
  /\ UNCHANGED <<status, current, closed, forced>>

Next ==
  \/ \E k \in Tasks : Accept(k) \/ Reject(k)
  \/ \E w \in Workers : End(w) \/ Throw(w) \/ \E k \in Tasks : Start(w, k)
  \/ Close
  \/ Force
  \/ Retire

SafeSpec == Init /\ [][Next]_vars

=============================================================================
