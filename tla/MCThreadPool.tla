---------------------------- MODULE MCThreadPool ----------------------------
(* Two callers, two workers and two requests, with room for two requests   *)
(* in the queue: enough for two threads to meet at every step, for the     *)
(* queue to be full and for append to be refused.                          *)
EXTENDS ThreadPool
=============================================================================
