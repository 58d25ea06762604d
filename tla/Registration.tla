---------------------------- MODULE Registration ----------------------------
(***************************************************************************)
(* What a satellite promises the document about its own entry: the part of *)
(* run_satellite_join that the rest of the constellation can see.          *)
(*                                                                         *)
(* A run writes under an author of its own, first "idle".  It rewrites     *)
(* "idle" as long as it lives, writes "offline" at most once, on its way   *)
(* out, and after its end its entry stays as it is: nobody else can write  *)
(* under that author.  Satellite shows one process in detail and           *)
(* Constellation several of them at once; both implement this.             *)
(***************************************************************************)
EXTENDS Naturals

VARIABLES
  phase,            \* "down", "up", "stopping"
  run,              \* authors created so far; the last one is current
  entry             \* status under that author: "none", "idle", "offline"

vars == <<phase, run, entry>>

Init == phase = "down" /\ run = 0 /\ entry = "none"

NewAuthor ==
  /\ phase = "down"
  /\ run' = run + 1
  /\ entry' = "none"
  /\ UNCHANGED phase

(* A run registers once, under an author that has written nothing: one it  *)
(* created before, or creates in the same step.                            *)
Join ==
  /\ phase = "down"
  /\ \/ run > 0 /\ entry = "none" /\ run' = run
     \/ run' = run + 1
  /\ phase' = "up"
  /\ entry' = "idle"

Heartbeat ==
  /\ phase \in {"up", "stopping"}
  /\ entry' = "idle"
  /\ UNCHANGED <<phase, run>>

(* The farewell may fail, and a heartbeat may still follow it. *)
GoOffline ==
  /\ phase = "up"
  /\ phase' = "stopping"
  /\ entry' \in {entry, "offline"}
  /\ UNCHANGED run

(* The process returns or crashes. *)
End ==
  /\ phase \in {"up", "stopping"}
  /\ phase' = "down"
  /\ UNCHANGED <<run, entry>>

Next == NewAuthor \/ Join \/ Heartbeat \/ GoOffline \/ End

Spec == Init /\ [][Next]_vars
=============================================================================
