----------------------- MODULE MCBoundedBlockingQueue -----------------------
(* Three threads, two values, queues of one and of two elements.           *)
EXTENDS BoundedBlockingQueue
=============================================================================
