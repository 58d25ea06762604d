------------------------------ MODULE MCLaunch ------------------------------
(* A mission control under link or a job, and one started by hand. *)
EXTENDS Launch, TLC

CONSTANTS c1, c2

amd64 == "linux/amd64"
arm64 == "linux/arm64"

MCPlatforms == {amd64, arm64}

MCArch == amd64 :> "amd64" @@ arm64 :> "arm64"

MCWanted == [c \in Launched |-> IF c = c1 THEN <<arm64, amd64>> ELSE <<amd64>>]

(* The first may find a satellite for one of its platforms only. *)
MCPlans ==
  [c \in Controls |-> IF c = c1 THEN {<<arm64, amd64>>, <<amd64>>} ELSE {<<amd64>>}]

OneRun == [c \in Controls |-> 1]
=============================================================================
