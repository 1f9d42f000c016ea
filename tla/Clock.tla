-------------------------------- MODULE Clock --------------------------------
(***************************************************************************)
(* The conversions of time of the timer: GetCurrentTime(), which rounds    *)
(* down to milliseconds, and the absolute timeout that TimedWait() makes   *)
(* of a delay.  Timer relies on them in its action TimedOut.               *)
(***************************************************************************)
EXTENDS Integers

Micro == 1000000
Nano == 1000000000

(* What gettimeofday() returns.                                            *)
TimeVals == {tv \in [tv_sec : Nat, tv_usec : Nat] : tv.tv_usec < Micro}

GetCurrentTime(now) == now.tv_sec * 1000 + now.tv_usec \div 1000

(* TimedWait(delay_in_ms): tv_nsec is in microseconds until the last line. *)
Timeout(now, delay_in_ms) ==
  LET usec == now.tv_usec + (delay_in_ms % 1000) * 1000
      sec  == now.tv_sec + delay_in_ms \div 1000
  IN  IF usec >= Micro
        THEN [tv_sec |-> sec + 1, tv_nsec |-> (usec % Micro) * 1000]
        ELSE [tv_sec |-> sec, tv_nsec |-> usec * 1000]

=============================================================================
