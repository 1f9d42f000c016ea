------------------------ MODULE MCCancelableThread ------------------------
(* Two threads and two cancellers.                                         *)
EXTENDS CancelableThread
=============================================================================
