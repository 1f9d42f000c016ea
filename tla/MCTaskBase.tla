---------------------------- MODULE MCTaskBase ----------------------------
(* Two tasks, run by two threads and cancelled by two others.              *)
EXTENDS TaskBase
=============================================================================
