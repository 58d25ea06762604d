--------------------------- MODULE MCEventStream ---------------------------
(* Either command on a short stream of events of every kind. *)
EXTENDS EventStream
=============================================================================
