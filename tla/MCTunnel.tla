----------------------------- MODULE MCTunnel -----------------------------
(* One build session with a few chunks in each direction. *)
EXTENDS Tunnel
=============================================================================
