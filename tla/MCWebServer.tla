---------------------------- MODULE MCWebServer ----------------------------
(* Small numbers of connections, workers and chunks.  The event loop and   *)
(* one worker can be on different connections at once, a connection can be *)
(* closed and its number used again, and the queue of the pool can be full.*)
EXTENDS WebServer, TLC

(* Workers, and addresses of timers, are interchangeable. *)
Symmetry == Permutations(Workers) \cup Permutations(Timers)
=============================================================================
