---------------------------- MODULE MCChatRoomShm ----------------------------
(* Three clients and room for two: one is refused, or comes when another    *)
(* has left, and takes the place and the slot of one who is still there.    *)
EXTENDS ChatRoomShm

Symmetry == Permutations(Pids)
=============================================================================
