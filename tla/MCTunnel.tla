------------------------------ MODULE MCTunnel ------------------------------
(* Two slots, so that one session follows another whose send task is still  *)
(* there; a queue of one frame, so that it is full as soon as it is used.   *)
EXTENDS Tunnel
=============================================================================
