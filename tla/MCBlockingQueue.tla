-------------------------- MODULE MCBlockingQueue --------------------------
(* Three threads, two values and a queue of at most two elements.          *)
EXTENDS BlockingQueueClients
=============================================================================
