---------------------------- MODULE MCIdleCloser ----------------------------
(* Three descriptors, so that a timer can go between two others; clients    *)
(* that can have one portion of unread data; closing after one silent slot. *)
EXTENDS IdleCloser
=============================================================================
