---------------------------- MODULE MCKeyStore ----------------------------
(* Three commands on one data directory. *)
EXTENDS KeyStore, TLC

CONSTANTS p1, p2, p3, k1, k2, k3, k4

Symmetry == Permutations(Process) \cup Permutations(Key)
=============================================================================
