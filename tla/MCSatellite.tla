---------------------------- MODULE MCSatellite ----------------------------
(* The satellite process on small sets of peers, given in the cfg files. *)
EXTENDS Satellite
=============================================================================
