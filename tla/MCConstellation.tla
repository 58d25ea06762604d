-------------------------- MODULE MCConstellation --------------------------
(* The constellation with one satellite and one mission control. *)
EXTENDS Constellation
=============================================================================
