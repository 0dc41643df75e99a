---------------------------- MODULE MCWorkerPool ----------------------------
(* The instance of WorkerPool for TLC: one connection and two threads stand  *)
(* for ten and forty; three requests are enough for everyone to wait for the *)
(* loop, and for everyone to wait for a thread.                              *)
EXTENDS WorkerPool
=============================================================================
