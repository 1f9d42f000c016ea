---------------------------- MODULE MCFutureTask ----------------------------
(* A future that is run once and a plain task that is run again and again, *)
(* by two threads, with one thread that cancels and one that asks for the  *)
(* result.                                                                 *)
EXTENDS FutureTask
=============================================================================
