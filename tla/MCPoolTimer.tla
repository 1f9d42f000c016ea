----------------------------- MODULE MCPoolTimer -----------------------------
(* One client hands a task to the timer, once or again and again, and      *)
(* cancels it; the other stops the pool in every way.                      *)
EXTENDS PoolTimer, TLC

CONSTANTS adder, stopper

ServeOps ==
  adder :> {"Cancel"} @@ stopper :> {"Stop", "StopNow", "Destroy"}

AdderOps == adder :> {"AddTimerTask", "AddIntervalTask"} @@ stopper :> {}

=============================================================================
