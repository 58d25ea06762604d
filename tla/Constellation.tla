--------------------------- MODULE Constellation ---------------------------
(***************************************************************************)
(* The constellation around one document: satellites that write their      *)
(* entries and go up and down, the station that seeds the document, and a  *)
(* mission control that joins, waits for a sync and its content, discovers *)
(* the entries and picks a satellite for one platform.                     *)
(*                                                                         *)
(* Every run of a satellite writes under a new author, and iroh-docs keeps *)
(* the last entry per author and key.  A replica is therefore how many     *)
(* writes of each author a node has seen; the metadata of an entry and its *)
(* content travel separately.  Replication, gossip and downloads are       *)
(* external; the network may drop, delay or fail any of them, and any node *)
(* may pass on what it has.                                                *)
(*                                                                         *)
(* The document is that of one beacon, and of one run of the station: all  *)
(* stores are in memory, and the next run creates another document under   *)
(* the same node id, at which a sync of this one fails.                    *)
(*                                                                         *)
(* The clock is one for all nodes and never goes back, and a satellite     *)
(* offers the same platforms in all its runs.                              *)
(***************************************************************************)
EXTENDS Naturals, Sequences

CONSTANTS
  Native,           \* satellites whose native arch is the wanted platform's
  Emulated,         \* satellites that advertise it among their extras
  MaxRuns,          \* bound: runs of a satellite
  MaxWrites,        \* bound: writes of one run
  MaxClock          \* bound: clock, in heartbeat intervals

Satellites == Native \cup Emulated
Authors    == Satellites \X (1 .. MaxRuns)
Nodes      == Satellites \cup {"station", "mc"}
Values     == [status : {"idle", "offline"}, registered_at : 0 .. MaxClock]
None       == [status |-> "none", registered_at |-> 0]

ASSUME Kinds == Native \cap Emulated = {} /\ {"station", "mc"} \cap Satellites = {}

ASSUME Bounds == MaxRuns \in Nat /\ MaxWrites \in Nat /\ MaxClock \in Nat

VARIABLES
  clock,            \* chrono_now_secs, in heartbeat intervals
  state,            \* each satellite process: "down", "up", "stopping"
  run,              \* its current or last run
  graceful,         \* its last run returned from run_satellite_join
  log,              \* what each author has written, in order
  seed,             \* the station still has the document
  known,            \* per node, the number of writes of each author that the
                    \* others have told it of
  content,          \* of the entry mc has of each author: "missing", "here" or
                    \* "failed" (no peer has it, or the download failed)
  mc,               \* where run_mission_control stands
  sync,             \* the station has synced with mc while mc waited
  atStart,          \* the authors the station knew when mc started
  late,             \* the authors updated at mc since PendingContentReady
  found,            \* the entry mc read of each author, or None
  target            \* the author mc bridged to, <<>> for none

sats    == <<state, run, graceful, log>>
copies  == <<seed, known, content, late>>
control == <<mc, sync, atStart, found, target>>
vars    == <<clock, sats, copies, control>>

Current(s) == <<s, run[s]>>
Written(a) == Len(log[a])
Empty      == [a \in Authors |-> 0]

-----------------------------------------------------------------------------
Init ==
  /\ clock = 0
  /\ state = [s \in Satellites |-> "down"]
  /\ run = [s \in Satellites |-> 0]
  /\ graceful = [s \in Satellites |-> FALSE]
  /\ log = [a \in Authors |-> <<>>]
  /\ seed = TRUE
  /\ known = [n \in Nodes |-> Empty]
  /\ content = [a \in Authors |-> "missing"]
  /\ late = {}
  /\ mc = "down"
  /\ sync = FALSE
  /\ atStart = {}
  /\ found = [a \in Authors |-> None]
  /\ target = <<>>

Tick ==
  /\ clock < MaxClock
  /\ clock' = clock + 1
  /\ UNCHANGED <<sats, copies, control>>

-----------------------------------------------------------------------------
(* Satellites.                                                             *)

SetBytes(a, status) ==
  /\ Len(log[a]) < MaxWrites
  /\ log' = [log EXCEPT ![a] =
               Append(@, [status |-> status, registered_at |-> clock])]

(* Mutant: a restarted satellite goes on under its last author. *)
JoinAgain(s) ==
  /\ state[s] = "down"
  /\ run[s] < MaxRuns
  /\ state' = [state EXCEPT ![s] = "up"]
  /\ run' = [run EXCEPT ![s] = IF @ = 0 THEN 1 ELSE @]
  /\ graceful' = [graceful EXCEPT ![s] = FALSE]
  /\ SetBytes(<<s, run'[s]>>, "idle")
  /\ UNCHANGED <<clock, copies, control>>

(* A run starts: new author, self-registration as idle. *)
Join(s) ==
  /\ state[s] = "down"
  /\ run[s] < MaxRuns
  /\ state' = [state EXCEPT ![s] = "up"]
  /\ run' = [run EXCEPT ![s] = run[s] + 1]
  /\ graceful' = [graceful EXCEPT ![s] = FALSE]
  /\ SetBytes(<<s, run[s] + 1>>, "idle")
  /\ UNCHANGED <<clock, copies, control>>

(* The task is aborted only after the offline entry has been written. *)
Heartbeat(s) ==
  /\ state[s] \in {"up", "stopping"}
  /\ SetBytes(Current(s), "idle")
  /\ UNCHANGED <<clock, state, run, graceful, copies, control>>

(* Mutant: the reserved status is written instead of "offline". *)
GoOfflineBusy(s) ==
  /\ state[s] = "up"
  /\ state' = [state EXCEPT ![s] = "stopping"]
  /\ SetBytes(Current(s), "busy")
  /\ UNCHANGED <<clock, run, graceful, copies, control>>

(* Shutdown begins: the offline entry is written under this run's author,  *)
(* or the write fails and is ignored.                                      *)
GoOffline(s) ==
  /\ state[s] = "up"
  /\ state' = [state EXCEPT ![s] = "stopping"]
  /\ SetBytes(Current(s), "offline") \/ UNCHANGED log
  /\ UNCHANGED <<clock, run, graceful, copies, control>>

(* The process is gone, and its replica with it. *)
Exit(s) ==
  /\ state' = [state EXCEPT ![s] = "down"]
  /\ known' = [known EXCEPT ![s] = Empty]
  /\ UNCHANGED <<clock, run, log, seed, content, late, control>>

Stop(s) ==
  /\ state[s] = "stopping"
  /\ graceful' = [graceful EXCEPT ![s] = TRUE]
  /\ Exit(s)

Crash(s) ==
  /\ state[s] \in {"up", "stopping"}
  /\ UNCHANGED graceful
  /\ Exit(s)

-----------------------------------------------------------------------------
(* The station.                                                            *)

(* Mutant: its next run has the same document, with nothing in it. *)
StationForgets ==
  /\ seed
  /\ known' = [known EXCEPT !["station"] = Empty]
  /\ UNCHANGED <<clock, sats, seed, content, late, control>>

(* Ctrl-c or a crash of run_station_init; its replica is gone for good. *)
StationStops ==
  /\ seed
  /\ seed' = FALSE
  /\ known' = [known EXCEPT !["station"] = Empty]
  /\ UNCHANGED <<clock, sats, content, late, control>>

-----------------------------------------------------------------------------
(* Replication (external).                                                 *)

(* Discover is the last to read the replica of mission control, but for    *)
(* the log of the subscription task: the model forgets it then.            *)
Followed == mc \in {"waiting", "fetching", "ready", "cutoff"}

Online(n) ==
  \/ n \in Satellites /\ state[n] # "down"
  \/ n = "station" /\ seed
  \/ n = "mc" /\ Followed

(* The number of writes of an author that a node has: a running satellite  *)
(* has all of its own.                                                     *)
Has(n, a) ==
  IF n \in Satellites /\ a = Current(n) THEN Written(a) ELSE known[n][a]

(* The latest entry of an author at one node reaches another. *)
Pass(n, m, a) ==
  /\ Online(n) /\ Online(m)
  /\ Has(m, a) < Has(n, a)
  /\ known' = [known EXCEPT ![m][a] = Has(n, a)]
  /\ IF m = "mc"
       THEN /\ content' = [content EXCEPT ![a] = "missing"]
            /\ late' = IF mc = "ready" THEN late \cup {a} ELSE late
       ELSE UNCHANGED <<content, late>>
  /\ UNCHANGED <<clock, sats, seed, control>>

Pending(a) == known["mc"][a] > 0 /\ content[a] = "missing"

(* The content of an entry that mission control has is downloaded or not. *)
Download(a) ==
  /\ Followed
  /\ Pending(a)
  /\ \E c \in {"here", "failed"} : content' = [content EXCEPT ![a] = c]
  /\ UNCHANGED <<clock, sats, seed, known, late, control>>

-----------------------------------------------------------------------------
(* Mission control.                                                        *)

(* Import and subscribe; the replica is empty. *)
MCStart ==
  /\ mc = "down"
  /\ mc' = "waiting"
  /\ atStart' = {a \in Authors : known["station"][a] > 0}
  /\ UNCHANGED <<clock, sats, copies, sync, found, target>>

(* A sync with some node ends before the wait does.  wait_for_sync goes by *)
(* the event alone: not by the node, nor by whether the sync succeeded; at *)
(* the station it fails if the document is gone.                           *)
SyncFinished(n) ==
  /\ mc \in {"waiting", "fetching"}
  /\ n # "mc"
  /\ mc' = "fetching"
  /\ \/ LET newer(a) == known["mc"][a] < Has(n, a) IN
          /\ Online(n)
          /\ sync' = (sync \/ n = "station")
          /\ known' = [known EXCEPT !["mc"] =
               [a \in Authors |-> IF newer(a) THEN Has(n, a) ELSE @[a]]]
          /\ content' = [a \in Authors |-> IF newer(a) THEN "missing"
                                                       ELSE content[a]]
     \/ UNCHANGED <<sync, known, content>>
  /\ UNCHANGED <<clock, sats, seed, late, atStart, found, target>>

(* Mutant: a sync is taken to bring the content along. *)
ReadyBeforeContent ==
  /\ mc = "fetching"
  /\ mc' = "ready"
  /\ UNCHANGED <<clock, sats, copies, sync, atStart, found, target>>

(* After a sync, the event is emitted when no download is pending. It is   *)
(* consumed, and the wait over, at any time before Discover.               *)
PendingContentReady ==
  /\ mc = "fetching"
  /\ \A a \in Authors : ~Pending(a)
  /\ mc' = "ready"
  /\ UNCHANGED <<clock, sats, copies, sync, atStart, found, target>>

(* The None arm: the event stream ends, and wait_for_sync gives up. *)
StreamEnds ==
  /\ mc \in {"waiting", "fetching"}
  /\ mc' = "cutoff"
  /\ UNCHANGED <<clock, sats, copies, sync, atStart, found, target>>

(* What a node reads of an author: the last entry, if its content is here. *)
Readable(a) == known["mc"][a] > 0 /\ content[a] = "here"

(* wait_for_sync has returned, however it ended; discover_satellites skips *)
(* an entry whose content cannot be read.  What follows depends on found   *)
(* alone, so the replica and the history of the wait are forgotten.        *)
Discover ==
  /\ mc \in {"ready", "cutoff"}
  /\ mc' = "discovered"
  /\ found' = [a \in Authors |-> IF Readable(a) THEN log[a][known["mc"][a]]
                                                ELSE None]
  /\ known' = [known EXCEPT !["mc"] = Empty]
  /\ content' = [a \in Authors |-> "missing"]
  /\ late' = {} /\ sync' = FALSE /\ atStart' = {}
  /\ UNCHANGED <<clock, sats, seed, target>>

IdleOf(kind) == {a \in Authors : a[1] \in kind /\ found[a].status = "idle"}

Eligible == IF IdleOf(Native) # {} THEN IdleOf(Native) ELSE IdleOf(Emulated)

(* Mutant: the oldest registration wins. *)
OldestFirst(a) ==
  \A b \in Eligible : found[a].registered_at <= found[b].registered_at

MostRecent(a) ==
  \A b \in Eligible : found[b].registered_at <= found[a].registered_at

(* select_satellite_for_platform; equal timestamps fall back to document   *)
(* order, which is by author and so arbitrary.                             *)
Select ==
  /\ mc = "discovered"
  /\ \/ \E a \in Eligible : MostRecent(a) /\ target' = a /\ mc' = "bridged"
     \/ Eligible = {} /\ target' = <<>> /\ mc' = "bailed"
  /\ UNCHANGED <<clock, sats, copies, sync, atStart, found>>

-----------------------------------------------------------------------------
MissionControl ==
  \/ MCStart
  \/ \E n \in Nodes : SyncFinished(n)
  \/ PendingContentReady
  \/ StreamEnds
  \/ Discover
  \/ Select

Replication ==
  \/ \E n, m \in Nodes, a \in Authors : Pass(n, m, a)
  \/ \E a \in Authors : Download(a)

SatelliteStep ==
  \E s \in Satellites :
    Join(s) \/ Heartbeat(s) \/ GoOffline(s) \/ Stop(s) \/ Crash(s)

Next == Tick \/ StationStops \/ SatelliteStep \/ Replication \/ MissionControl

Spec == Init /\ [][Next]_vars

-----------------------------------------------------------------------------
(* Properties.                                                             *)

(* The types of the document, the replicas and mission control. *)
TypeOK ==
  /\ clock \in 0 .. MaxClock
  /\ state \in [Satellites -> {"down", "up", "stopping"}]
  /\ run \in [Satellites -> 0 .. MaxRuns]
  /\ \A s \in Satellites : state[s] # "down" => run[s] > 0
  /\ graceful \in [Satellites -> BOOLEAN]
  /\ log \in [Authors -> Seq(Values)]
  /\ \A a \in Authors : Len(log[a]) <= MaxWrites
  /\ seed \in BOOLEAN
  /\ known \in [Nodes -> [Authors -> 0 .. MaxWrites]]
  /\ \A n \in Nodes, a \in Authors : known[n][a] <= Written(a)
  /\ content \in [Authors -> {"missing", "here", "failed"}]
  /\ late \subseteq Authors
  /\ mc \in {"down", "waiting", "fetching", "ready", "cutoff", "discovered",
             "bridged", "bailed"}
  /\ sync \in BOOLEAN
  /\ atStart \subseteq Authors
  /\ found \in [Authors -> Values \cup {None}]
  /\ target \in Authors \cup {<<>>}

(* wait_for_sync: when the station has synced before the wait is over, in  *)
(* whatever order other nodes did, every satellite that it knew when       *)
(* mission control started is discovered, unless its download failed or a  *)
(* newer entry of it came in after PendingContentReady.  A wait that ends  *)
(* on the sync of another node, on a failed one or with the stream         *)
(* promises nothing.                                                       *)
DiscoveryComplete ==
  [][mc = "ready" /\ mc' = "discovered" /\ sync =>
       \A a \in atStart :
         found'[a] # None \/ a \in late \/ content[a] = "failed"]_vars

(* A satellite that restarted supersedes the entry its crashed run left:   *)
(* the older author is picked only if both registered in the same instant. *)
RestartSupersedes ==
  target # <<>> =>
    \A r \in 1 .. MaxRuns :
      r > target[2] /\ found[<<target[1], r>>].status = "idle" =>
        found[<<target[1], r>>].registered_at = found[target].registered_at

(* The latest entry of a satellite's current author, at the satellite. *)
LastStatus(s) == IF run[s] = 0 THEN "none"
                 ELSE log[Current(s)][Written(Current(s))].status

Entry(s) == INSTANCE Registration WITH
              phase <- state[s], run <- run[s], entry <- LastStatus(s)

(* Each satellite of the constellation does with its entry what one        *)
(* satellite process promises, whatever the others and the network do.     *)
AllKeepTheirWord ==
  /\ \A s \in Satellites : Entry(s)!Init
  /\ [][\A s \in Satellites : [Entry(s)!Next]_(Entry(s)!vars)]_vars

(* ARCH.md, "On shutdown: set status to offline": once a stopped           *)
(* satellite's offline entry is at the station, the station lists no idle  *)
(* entry of it.                                                            *)
NoGhostAfterStop ==
  \A s \in Satellites :
    LET a == Current(s) IN
      /\ state[s] = "down" /\ graceful[s]
      /\ known["station"][a] = Written(a)
      /\ log[a][Written(a)].status = "offline"
      => \A r \in 1 .. MaxRuns :
           known["station"][<<s, r>>] > 0 =>
             log[<<s, r>>][known["station"][<<s, r>>]].status # "idle"
=============================================================================
