------------------------------ MODULE MCLogger ------------------------------
(* Two callers, two workers and a buffer smaller than the lines in flight. *)
EXTENDS Logger
=============================================================================
