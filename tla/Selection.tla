----------------------------- MODULE Selection -----------------------------
(***************************************************************************)
(* How mission control turns its --platforms argument and the satellite    *)
(* entries it discovered into bridges: parse_platforms, then for every     *)
(* requested platform the two passes of select_satellite_for_platform, a   *)
(* filter and a max_by_key each, then the bail when nothing was bridged.   *)
(*                                                                         *)
(* A platform string is the sequence of its '/'-separated components, so   *)
(* the empty item is <<"">> and "linux/arm64" is <<"linux", "arm64">>.     *)
(***************************************************************************)
EXTENDS Naturals, Sequences

CONSTANTS
  Platforms,        \* the items a --platforms argument may hold, trimmed
  Archs,            \* native architectures of satellites
  Requests,         \* the arguments considered: sequences of Platforms
  Documents         \* the discovery results considered: sequences of Entry

Status == {"idle", "busy", "offline"}

(* A SatelliteEntry, less its address: platforms is used for membership    *)
(* only, so the list is a set.                                             *)
Entry == [native_arch : Archs, platforms : SUBSET Platforms, status : Status,
          registered_at : Nat]

ASSUME SelectionInputs ==
  /\ \A p \in Platforms : p \in Seq(STRING) /\ Len(p) >= 1
  /\ Requests \subseteq Seq(Platforms)
  /\ Documents \subseteq Seq(Entry)

VARIABLES
  items,            \* the --platforms argument, split at commas
  entries,          \* what discover_satellites returned, in document order
  pc,               \* where the computation stands
  platforms,        \* config.platforms: the parsed argument
  k,                \* position in items, then in platforms
  i,                \* position in entries
  best,             \* index of the running maximum, 0 for None
  bridges           \* entry index of the bridge of each platform, 0 for none

vars == <<items, entries, pc, platforms, k, i, best, bridges>>

-----------------------------------------------------------------------------
(* String helpers.                                                         *)

(* Mutant: starts_with("linux"), without the slash. *)
LinuxNoSlash(p) == p[1] = "linux"

(* platform.starts_with("linux/") *)
Linux(p) == Len(p) >= 2 /\ p[1] = "linux"

NonEmpty(p) == p # <<"">>

(* Everything after the last '/'. *)
PlatformToArch(p) == p[Len(p)]

(* "linux/<arch>", which a satellite lists before its extra platforms. *)
NativePlatform(arch) == <<"linux", arch>>

(* The platforms a satellite advertises for a list of extras. *)
Advertised(arch, extra) == {NativePlatform(arch)} \cup extra

-----------------------------------------------------------------------------
(* Filters and the running maximum.                                        *)

IsNative(e, p) == e.status = "idle" /\ e.native_arch = PlatformToArch(p)

Emulates(e, p) == e.status = "idle" /\ p \in e.platforms

(* Indices of the entries that each filter keeps. *)
Native(p)    == {j \in 1 .. Len(entries) : IsNative(entries[j], p)}
Emulating(p) == {j \in 1 .. Len(entries) : Emulates(entries[j], p)}

(* Mutant: the first of several equal maxima is kept. *)
BetterStrict(j) ==
  best = 0 \/ entries[j].registered_at > entries[best].registered_at

(* max_by_key keeps the last of several equal maxima. *)
Better(j) ==
  best = 0 \/ entries[j].registered_at >= entries[best].registered_at

-----------------------------------------------------------------------------
Init ==
  /\ items \in Requests
  /\ entries \in Documents
  /\ pc = "parse"
  /\ platforms = <<>>
  /\ k = 1
  /\ i = 1
  /\ best = 0
  /\ bridges = [p \in Platforms |-> 0]

(* split(',').map(trim).filter(not empty).collect() *)
ParseItem ==
  /\ pc = "parse"
  /\ k <= Len(items)
  /\ platforms' = IF NonEmpty(items[k]) THEN Append(platforms, items[k])
                                       ELSE platforms
  /\ k' = k + 1
  /\ UNCHANGED <<items, entries, pc, i, best, bridges>>

(* The two ensure! checks; an error ends the command before any network. *)
ParseEnd ==
  /\ pc = "parse"
  /\ k > Len(items)
  /\ pc' = IF /\ platforms # <<>>
              /\ \A j \in 1 .. Len(platforms) : Linux(platforms[j])
             THEN "native"
             ELSE "rejected"
  /\ k' = 1
  /\ UNCHANGED <<items, entries, platforms, i, best, bridges>>

(* Mutant: the iterator runs past the last entry. *)
ScanPastEnd(filtered) ==
  /\ k <= Len(platforms)
  /\ i <= Len(entries) + 1
  /\ best' = IF i \in filtered /\ Better(i) THEN i ELSE best
  /\ i' = i + 1
  /\ UNCHANGED <<items, entries, pc, platforms, k, bridges>>

(* One entry of the filter and of max_by_key. *)
Scan(filtered) ==
  /\ k <= Len(platforms)
  /\ i <= Len(entries)
  /\ best' = IF i \in filtered /\ Better(i) THEN i ELSE best
  /\ i' = i + 1
  /\ UNCHANGED <<items, entries, pc, platforms, k, bridges>>

ScanNative == pc = "native" /\ Scan(Native(platforms[k]))

ScanEmulated == pc = "emulated" /\ Scan(Emulating(platforms[k]))

(* Bridge::new and add_bridge: the manager's map is keyed by platform. *)
AddBridge ==
  /\ pc \in {"native", "emulated"}
  /\ k <= Len(platforms)
  /\ i > Len(entries)
  /\ best # 0
  /\ bridges' = [bridges EXCEPT ![platforms[k]] = best]
  /\ pc' = "native"
  /\ k' = k + 1
  /\ i' = 1
  /\ best' = 0
  /\ UNCHANGED <<items, entries, platforms>>

(* No idle native satellite: fall back to emulation. *)
FallBack ==
  /\ pc = "native"
  /\ k <= Len(platforms)
  /\ i > Len(entries)
  /\ best = 0
  /\ pc' = "emulated"
  /\ i' = 1
  /\ UNCHANGED <<items, entries, platforms, k, best, bridges>>

(* Mutant: the first platform without a satellite ends the loop. *)
SkipAll ==
  /\ pc = "emulated"
  /\ i > Len(entries)
  /\ best = 0
  /\ pc' = "native"
  /\ k' = Len(platforms) + 1
  /\ i' = 1
  /\ UNCHANGED <<items, entries, platforms, best, bridges>>

(* No idle satellite at all: warn and go on with the next platform. *)
SkipPlatform ==
  /\ pc = "emulated"
  /\ i > Len(entries)
  /\ best = 0
  /\ pc' = "native"
  /\ k' = k + 1
  /\ i' = 1
  /\ UNCHANGED <<items, entries, platforms, best, bridges>>

(* bail! if the manager holds no bridge. *)
Finish ==
  /\ pc = "native"
  /\ k > Len(platforms)
  /\ pc' = IF \E p \in Platforms : bridges[p] # 0 THEN "bridged" ELSE "bailed"
  /\ UNCHANGED <<items, entries, platforms, k, i, best, bridges>>

Next ==
  \/ ParseItem \/ ParseEnd
  \/ ScanNative \/ ScanEmulated \/ AddBridge \/ FallBack \/ SkipPlatform
  \/ Finish

Spec == Init /\ [][Next]_vars

-----------------------------------------------------------------------------
(* Properties.                                                             *)

(* Every variable has its type; in particular an index is within range     *)
(* where the code holds a reference.                                       *)
TypeOK ==
  /\ items \in Seq(Platforms)
  /\ entries \in Seq(Entry)
  /\ pc \in {"parse", "rejected", "native", "emulated", "bridged", "bailed"}
  /\ platforms \in Seq(Platforms)
  /\ k \in Nat \ {0}
  /\ i \in 1 .. Len(entries) + 1
  /\ best \in 0 .. Len(entries)
  /\ bridges \in [Platforms -> 0 .. Len(entries)]

(* The index of the entry that has the greatest registered_at of a set,    *)
(* the later one of a tie.                                                 *)
IsBest(j, S) ==
  /\ j \in S
  /\ \A m \in S : \/ entries[m].registered_at < entries[j].registered_at
                  \/ /\ entries[m].registered_at = entries[j].registered_at
                     /\ m <= j

(* The satellites a request for p may be served by, in order of preference.*)
Candidates(p) == IF Native(p) # {} THEN Native(p) ELSE Emulating(p)

Planned == pc \in {"bridged", "bailed"}

(* platform_to_arch panics on a string without '/': what parse_platforms   *)
(* lets through never makes it panic.                                      *)
NoPanic ==
  pc \in {"native", "emulated"} =>
    \A j \in 1 .. Len(platforms) : Len(platforms[j]) >= 2

(* Doc comment of select_satellite_for_platform: a bridge leads to an idle *)
(* satellite for its platform, a native one if there is any, and among     *)
(* those to the most recently registered.                                  *)
BestSatellite ==
  \A p \in Platforms : bridges[p] # 0 => IsBest(bridges[p], Candidates(p))

(* Every requested platform that some idle satellite can build gets a      *)
(* bridge, whatever the others did, and mission control gives up only when *)
(* it can serve none of them.                                              *)
ServedWhenPossible ==
  Planned =>
    /\ \A j \in 1 .. Len(platforms) :
         Candidates(platforms[j]) # {} => bridges[platforms[j]] # 0
    /\ pc = "bailed" =>
         \A j \in 1 .. Len(platforms) : Candidates(platforms[j]) = {}
=============================================================================
