---------------------------- MODULE MCSelection ----------------------------
(* The selection on all short arguments and documents over a few items. *)
EXTENDS Selection

CONSTANTS MaxItems, MaxEntries, MaxTime

Amd64 == <<"linux", "amd64">>
Arm64 == <<"linux", "arm64">>

(* Valid platforms, the empty item, and the two ways to fail the check. *)
MCPlatforms ==
  {Amd64, Arm64, <<"">>, <<"linux">>, <<"windows", "amd64">>}

MCArchs == {"amd64", "arm64"}

SeqsUpTo(n, S) == UNION {[1 .. m -> S] : m \in 0 .. n}

MCRequests == SeqsUpTo(MaxItems, MCPlatforms)

(* Entries as a satellite writes them: with or without the other platform  *)
(* emulated, idle or offline.                                              *)
MCEntries ==
  {[native_arch |-> a, platforms |-> Advertised(a, x), status |-> s,
    registered_at |-> t] :
       a \in MCArchs, x \in {{}, {Amd64, Arm64}}, s \in {"idle", "offline"},
       t \in 0 .. MaxTime}

MCDocuments == SeqsUpTo(MaxEntries, MCEntries)
=============================================================================
