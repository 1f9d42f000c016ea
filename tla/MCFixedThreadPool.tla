------------------------- MODULE MCFixedThreadPool -------------------------
(* Which client calls what, in the runs of FixedThreadPool.                *)
EXTENDS FixedThreadPool, TLC

CONSTANTS adder, stopper, other

(* One client adds tasks and requests a stop, while another cancels tasks  *)
(* and stops the pool in every way.                                        *)
StopperOps ==
  adder :> {"AddTask", "StopAsync"}
  @@ stopper :> {"Cancel", "Stop", "StopNow", "Destroy"}

(* One client adds a task and stops the pool at once, one cancels it.      *)
DropOps == adder :> {"AddTask", "StopNow"} @@ other :> {"Cancel"}

(* No operator of the pool tells one task from another.                    *)
TaskSymmetry == Permutations(Tasks)

=============================================================================
