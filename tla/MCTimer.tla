------------------------------ MODULE MCTimer ------------------------------
(* Which client calls what, in the runs of Timer.                          *)
EXTENDS Timer, TLC

CONSTANTS putter, other, k1, k2

(* One client puts an interval task and cancels it, one puts another task  *)
(* and stops the timer.                                                    *)
OwnOps ==
  putter :> {"RunEvery", "Cancel"} @@ other :> {"RunLater", "StopAsync", "Stop"}
OwnTasks == putter :> {k1} @@ other :> {k2}

(* Two clients put the same task.                                          *)
SharedOps == putter :> {"RunLater"} @@ other :> {"RunLater"}
SharedTasks == putter :> {k1} @@ other :> {k1}

=============================================================================
