---------------------------- MODULE MCTimeWheel ----------------------------
(* A wheel of three slots and three timers: lists of every length up to    *)
(* three in one slot, delays below, at and above a lap.                    *)
EXTENDS TimeWheel
=============================================================================
