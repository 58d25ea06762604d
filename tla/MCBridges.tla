----------------------------- MODULE MCBridges -----------------------------
(* Mission controls of one machine, on a few platforms. *)
EXTENDS Bridges, TLC

CONSTANTS c1, c2

amd64 == "linux/amd64"
arm64 == "linux/arm64"
arm64v8 == "linux/arm64/v8"

MCPlatforms == {amd64, arm64, arm64v8}

MCArch ==
  [p \in MCPlatforms |-> IF p = amd64 THEN "amd64"
                         ELSE IF p = arm64 THEN "arm64" ELSE "v8"]

(* Two processes without a path in common, one of them with two platforms. *)
DisjointPlans == c1 :> {<<arm64, amd64>>} @@ c2 :> {<<arm64v8>>}

(* One process restarts beside the other. *)
Restart == c1 :> 2 @@ c2 :> 1
=============================================================================
