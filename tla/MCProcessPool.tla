--------------------------- MODULE MCProcessPool ---------------------------
(* Two children and two clients: one child can die while the other works,  *)
(* both can die at once, and two clients can come in one edge.             *)
EXTENDS ProcessPool
=============================================================================
