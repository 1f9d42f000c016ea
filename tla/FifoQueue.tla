----------------------------- MODULE FifoQueue -----------------------------
(***************************************************************************)
(* What a task queue promises to the threads that call it (the interface   *)
(* of include/TaskQueueBase.h, with the operations of BlockingQueue): each *)
(* call takes effect at one instant between its invocation and its return, *)
(* in first-in first-out order, and a call that can take effect does.      *)
(*                                                                         *)
(* There are no waiters, wakeups or notifications here: BlockingQueue is   *)
(* shown to implement this module, its fairness included.                  *)
(***************************************************************************)
EXTENDS Sequences

CONSTANTS
  Threads,   \* the threads that call the queue
  Elems,     \* the values they push
  NoElem     \* the reply of a call that returns no element

VARIABLES
  items,     \* the contents
  call       \* for each thread, its pending or last call

vars == <<items, call>>

Ops == {"Push", "Pop", "Front", "NonblockingPop", "NonblockingFront"}

Calls == [op : Ops, at : {"out", "in"}, val : Elems \cup {NoElem}]

Init ==
  /\ items = <<>>
  /\ call \in [Threads -> {[op |-> "Pop", at |-> "out", val |-> NoElem]}]

(* Thread t invokes a method; val is the argument of a Push.               *)
Invoke(t, op, e) ==
  /\ call[t].at = "out"
  /\ op = "Push" <=> e \in Elems
  /\ call' = [call EXCEPT ![t] = [op |-> op, at |-> "in", val |-> e]]
  /\ UNCHANGED items

(* The call of t takes effect and returns val.                             *)
Return(t, val) ==
  call' = [call EXCEPT ![t].at = "out", ![t].val = val]

DoPush(t) ==
  /\ call[t].op = "Push"
  /\ items' = Append(items, call[t].val)
  /\ Return(t, NoElem)

DoPop(t) ==
  /\ call[t].op \in {"Pop", "NonblockingPop"}
  /\ items # <<>>
  /\ items' = Tail(items)
  /\ Return(t, Head(items))

DoFront(t) ==
  /\ call[t].op \in {"Front", "NonblockingFront"}
  /\ items # <<>>
  /\ Return(t, Head(items))
  /\ UNCHANGED items

DoFail(t) ==
  /\ call[t].op \in {"NonblockingPop", "NonblockingFront"}
  /\ items = <<>>
  /\ Return(t, NoElem)
  /\ UNCHANGED items

Perform(t) ==
  /\ call[t].at = "in"
  /\ \/ DoPush(t)
     \/ DoPop(t)
     \/ DoFront(t)
     \/ DoFail(t)

Next ==
  \E t \in Threads :
    \/ \E op \in Ops, e \in Elems \cup {NoElem} : Invoke(t, op, e)
    \/ Perform(t)

SafeSpec == Init /\ [][Next]_vars

(* A call that stays able to take effect does.                             *)
Spec == SafeSpec /\ \A t \in Threads : WF_vars(Perform(t))

=============================================================================
