-------------------------- MODULE BoundedFifoQueue --------------------------
(***************************************************************************)
(* What a bounded task queue promises to the threads that call it: the     *)
(* FIFO of FifoQueue, with a bound that Push waits for and NonblockingPush *)
(* fails at.                                                               *)
(***************************************************************************)
EXTENDS Naturals, Sequences

CONSTANTS
  Threads,   \* the threads that call the queue
  Elems,     \* the values they push
  NoElem,    \* the reply of a call that returns nothing, or false
  MaxSizes   \* the bounds that queues are made with

VARIABLES
  bound,
  items,     \* the contents
  call       \* for each thread, its pending or last call

vars == <<bound, items, call>>

Pushes == {"Push", "NonblockingPush"}
Ops == Pushes \cup {"Pop", "Front", "NonblockingPop", "NonblockingFront"}

Calls == [op : Ops, at : {"out", "in"}, val : Elems \cup {NoElem}]

Init ==
  /\ bound \in MaxSizes
  /\ items = <<>>
  /\ call \in [Threads -> {[op |-> "Pop", at |-> "out", val |-> NoElem]}]

Invoke(t, op, e) ==
  /\ call[t].at = "out"
  /\ op \in Pushes <=> e \in Elems
  /\ call' = [call EXCEPT ![t] = [op |-> op, at |-> "in", val |-> e]]
  /\ UNCHANGED <<bound, items>>

Return(t, val) == call' = [call EXCEPT ![t].at = "out", ![t].val = val]

(* The reply to a push that succeeds is its argument.                      *)
DoPush(t) ==
  /\ call[t].op \in Pushes
  /\ Len(items) < bound
  /\ items' = Append(items, call[t].val)
  /\ Return(t, call[t].val)

DoPop(t) ==
  /\ call[t].op \in {"Pop", "NonblockingPop"}
  /\ items # <<>>
  /\ items' = Tail(items)
  /\ Return(t, Head(items))

DoFront(t) ==
  /\ call[t].op \in {"Front", "NonblockingFront"}
  /\ items # <<>>
  /\ Return(t, Head(items))
  /\ UNCHANGED items

DoFail(t) ==
  /\ \/ call[t].op = "NonblockingPush" /\ Len(items) = bound
     \/ call[t].op \in {"NonblockingPop", "NonblockingFront"} /\ items = <<>>
  /\ Return(t, NoElem)
  /\ UNCHANGED items

Perform(t) ==
  /\ call[t].at = "in"
  /\ DoPush(t) \/ DoPop(t) \/ DoFront(t) \/ DoFail(t)
  /\ UNCHANGED bound

Next ==
  \E t \in Threads :
    \/ \E op \in Ops, e \in Elems \cup {NoElem} : Invoke(t, op, e)
    \/ Perform(t)

SafeSpec == Init /\ [][Next]_vars

(* A call that stays able to take effect does.                             *)
Spec == SafeSpec /\ \A t \in Threads : WF_vars(Perform(t))

=============================================================================
