---------------------------- MODULE MCSyncClients ----------------------------
(* Three threads at a barrier of two parties and a latch.                  *)
EXTENDS SyncClients
=============================================================================
