----------------------------- MODULE Satellite -----------------------------
(***************************************************************************)
(* One `satellite join` process, over several runs of it: the main task of *)
(* run_satellite_join, the document-event task and the heartbeat task it   *)
(* spawns, and the AccessLimit closure that the router calls for every     *)
(* incoming build connection.                                              *)
(*                                                                         *)
(* The tasks share the allowed_peers set behind a read-write lock.  The    *)
(* closure never waits for the lock: a contested lock is a refusal.        *)
(* iroh-docs is external: it delivers InsertRemote, NeighborUp and         *)
(* NeighborDown events in order, from the moment of import on.  Neither    *)
(* the scan nor the stream of events yields an Err: the code skips one and *)
(* changes nothing, so that the peer it hides waits for its next event.    *)
(***************************************************************************)
EXTENDS Naturals, Sequences

CONSTANTS
  Satellites,       \* other members, which write a satellite/<id> key
  Controls,         \* members that write no key: station, mission control
  Strangers,        \* endpoints that hold no beacon
  MaxQueue,         \* bound: undelivered document events
  MaxRuns           \* bound: how often the process is started

Members == Satellites \cup Controls
Peers   == Members \cup Strangers

ASSUME PeerSets ==
  /\ Satellites \cap Controls = {}
  /\ Members \cap Strangers = {}
ASSUME Bounds == MaxQueue \in Nat /\ MaxRuns \in Nat

VARIABLES
  main,             \* where run_satellite_join stands
  runs,             \* starts of the process so far
  lock,             \* write holder of allowed_peers: "free", "main", "events"
  allowed,          \* the allowed_peers set
  snapshot,         \* entries the populate query has still to yield
  queue,            \* document events not yet taken from the subscription
  events,           \* the event task: "off", "next", "acquire", "insert"
  inHand,           \* the peers the event task is about to insert (at most one)
  heartbeat,        \* the heartbeat task: "off", "tick", "write"
  docKeys,          \* ids under satellite/ in the local replica
  neighbors,        \* gossip neighbours of this run
  met,              \* every peer that has been a neighbour in this run
  entry,            \* status under this run's author: "none", "idle", "offline"
  farewell,         \* the offline entry was written
  gate              \* the last answer each peer got from AccessLimit in this run

tasks  == <<events, inHand, heartbeat>>
swarm  == <<queue, docKeys, neighbors, met>>
own    == <<entry, farewell>>
vars   == <<main, runs, lock, allowed, snapshot, tasks, swarm, own, gate>>

MainStates == {"down", "spawned", "imported", "queried", "populating",
               "populated", "running", "interrupted", "offlined", "aborted",
               "stopped"}

Event == [kind : {"InsertRemote"}, peer : Satellites]
           \cup [kind : {"NeighborUp", "NeighborDown"}, peer : Members]

(* The router accepts build connections from spawn to router.shutdown. *)
Accepting == main \notin {"down", "stopped"}

(* The document engine replicates from import to router.shutdown. *)
Replicating ==
  main \in {"imported", "queried", "populating", "populated", "running",
            "interrupted", "offlined", "aborted"}

(* Mutant: subscribing only once the event task is spawned. *)
SubscribedLate ==
  main \in {"running", "interrupted", "offlined"}

(* The event stream exists from import_and_subscribe until the event task, *)
(* which owns it, is aborted.                                              *)
Subscribed ==
  main \in {"imported", "queried", "populating", "populated", "running",
            "interrupted", "offlined"}

-----------------------------------------------------------------------------
(* Main task.                                                              *)

Init ==
  /\ main = "down"
  /\ runs = 0
  /\ lock = "free"
  /\ allowed = {}
  /\ snapshot = {}
  /\ queue = <<>>
  /\ events = "off"
  /\ inHand = {}
  /\ heartbeat = "off"
  /\ docKeys = {}
  /\ neighbors = {}
  /\ met = {}
  /\ entry = "none"
  /\ farewell = FALSE
  /\ gate = [p \in Peers |-> "none"]

(* An empty allowed set, the gated BuildProxy and a running router.  All   *)
(* stores are in memory, so a new run starts from an empty replica.        *)
Spawn ==
  /\ main \in {"down", "stopped"}
  /\ runs < MaxRuns
  /\ main' = "spawned"
  /\ runs' = runs + 1
  /\ lock' = "free"
  /\ allowed' = {}
  /\ snapshot' = {}
  /\ queue' = <<>>
  /\ events' = "off"
  /\ inHand' = {}
  /\ heartbeat' = "off"
  /\ docKeys' = {}
  /\ neighbors' = {}
  /\ met' = {}
  /\ entry' = "none"
  /\ farewell' = FALSE
  /\ gate' = [p \in Peers |-> "none"]

(* import_and_subscribe and author_create: this run writes under a new     *)
(* author.                                                                 *)
Import ==
  /\ main = "spawned"
  /\ main' = "imported"
  /\ UNCHANGED <<runs, lock, allowed, snapshot, tasks, swarm, own, gate>>

(* doc.get_many(satellite/): the entries present now will be yielded. *)
QueryExisting ==
  /\ main = "imported"
  /\ main' = "queried"
  /\ snapshot' = docKeys
  /\ UNCHANGED <<runs, lock, allowed, tasks, swarm, own, gate>>

(* The write lock is taken after the query and held across its awaits. *)
PopulateLock ==
  /\ main = "queried"
  /\ lock = "free"
  /\ main' = "populating"
  /\ lock' = "main"
  /\ UNCHANGED <<runs, allowed, snapshot, tasks, swarm, own, gate>>

PopulateInsert ==
  /\ main = "populating"
  /\ \E p \in snapshot :
       /\ allowed' = allowed \cup {p}
       /\ snapshot' = snapshot \ {p}
  /\ UNCHANGED <<main, runs, lock, tasks, swarm, own, gate>>

(* Mutant: the guard is not dropped at the end of the block. *)
PopulateKeepsLock ==
  /\ main = "populating"
  /\ snapshot = {}
  /\ main' = "populated"
  /\ UNCHANGED <<runs, lock, allowed, snapshot, tasks, swarm, own, gate>>

PopulateUnlock ==
  /\ main = "populating"
  /\ snapshot = {}
  /\ main' = "populated"
  /\ lock' = "free"
  /\ UNCHANGED <<runs, allowed, snapshot, tasks, swarm, own, gate>>

(* Self-registration as idle, then both tasks are spawned. *)
Register ==
  /\ main = "populated"
  /\ main' = "running"
  /\ entry' = "idle"
  /\ events' = "next"
  /\ heartbeat' = "tick"
  /\ UNCHANGED <<runs, lock, allowed, snapshot, inHand, swarm, farewell, gate>>

CtrlC ==
  /\ main = "running"
  /\ main' = "interrupted"
  /\ UNCHANGED <<runs, lock, allowed, snapshot, tasks, swarm, own, gate>>

(* The result of the write is ignored: shutdown goes on if it fails. *)
WriteOffline ==
  /\ main = "interrupted"
  /\ main' = "offlined"
  /\ \E ok \in BOOLEAN :
       /\ farewell' = ok
       /\ entry' = IF ok THEN "offline" ELSE entry
  /\ UNCHANGED <<runs, lock, allowed, snapshot, tasks, swarm, gate>>

(* abort() ends a task at its next suspension point.  The event task has   *)
(* none while it holds the lock; a heartbeat write that has already been   *)
(* handed to the document store may still be applied.                      *)
AbortTasks ==
  /\ main = "offlined"
  /\ events # "insert"
  /\ main' = "aborted"
  /\ events' = "off"
  /\ inHand' = {}
  /\ heartbeat' \in {"off"} \cup ({heartbeat} \cap {"write"})
  /\ queue' = <<>>
  /\ UNCHANGED <<runs, lock, allowed, snapshot, docKeys, neighbors, met, own,
                 gate>>

(* Mutant: nothing ends a heartbeat write that is under way. *)
ShutdownLeavesHeartbeat ==
  /\ main = "aborted"
  /\ main' = "stopped"
  /\ neighbors' = {}
  /\ UNCHANGED <<runs, lock, allowed, snapshot, tasks, queue, docKeys, met, own,
                 gate>>

RouterShutdown ==
  /\ main = "aborted"
  /\ main' = "stopped"
  /\ heartbeat' = "off"
  /\ neighbors' = {}
  /\ UNCHANGED <<runs, lock, allowed, snapshot, events, inHand, queue, docKeys,
                 met, own, gate>>

(* A crash, or an error returned by one of the `?` of the main task: no    *)
(* offline entry is written.                                               *)
Crash ==
  /\ Accepting
  /\ main' = "down"
  /\ lock' = "free"
  /\ allowed' = {}
  /\ snapshot' = {}
  /\ queue' = <<>>
  /\ events' = "off"
  /\ inHand' = {}
  /\ heartbeat' = "off"
  /\ docKeys' = {}
  /\ neighbors' = {}
  /\ met' = {}
  /\ UNCHANGED <<runs, own, gate>>

-----------------------------------------------------------------------------
(* Document engine (external): what it stores and which events it emits.   *)

Notify(kind, p) ==
  /\ Len(queue) < MaxQueue
  /\ queue' = IF Subscribed
                THEN Append(queue, [kind |-> kind, peer |-> p])
                ELSE queue

(* A registration or heartbeat of another satellite arrives. *)
RemoteInsert(p) ==
  /\ Replicating
  /\ Notify("InsertRemote", p)
  /\ docKeys' = docKeys \cup {p}
  /\ UNCHANGED <<main, runs, lock, allowed, snapshot, tasks, neighbors, met,
                 own, gate>>

NeighborUp(p) ==
  /\ Replicating
  /\ p \notin neighbors
  /\ Notify("NeighborUp", p)
  /\ neighbors' = neighbors \cup {p}
  /\ met' = met \cup {p}
  /\ UNCHANGED <<main, runs, lock, allowed, snapshot, tasks, docKeys, own,
                 gate>>

NeighborDown(p) ==
  /\ Replicating
  /\ p \in neighbors
  /\ Notify("NeighborDown", p)
  /\ neighbors' = neighbors \ {p}
  /\ UNCHANGED <<main, runs, lock, allowed, snapshot, tasks, docKeys, met, own,
                 gate>>

-----------------------------------------------------------------------------
(* Event task.                                                             *)

(* Mutant: a neighbour that goes down is removed. *)
TakeEventDropsNeighbor ==
  /\ events = "next"
  /\ queue # <<>>
  /\ queue' = Tail(queue)
  /\ LET e == Head(queue) IN
       IF e.kind = "NeighborDown"
         THEN /\ allowed' = allowed \ {e.peer}
              /\ UNCHANGED <<events, inHand>>
         ELSE /\ events' = "acquire"
              /\ inHand' = {e.peer}
              /\ UNCHANGED allowed
  /\ UNCHANGED <<main, runs, lock, snapshot, heartbeat, docKeys, neighbors, met,
                 own, gate>>

(* NeighborDown is logged and nothing is removed. *)
TakeEvent ==
  /\ events = "next"
  /\ queue # <<>>
  /\ queue' = Tail(queue)
  /\ IF Head(queue).kind = "NeighborDown"
       THEN UNCHANGED <<events, inHand>>
       ELSE /\ events' = "acquire"
            /\ inHand' = {Head(queue).peer}
  /\ UNCHANGED <<main, runs, lock, allowed, snapshot, heartbeat, docKeys,
                 neighbors, met, own, gate>>

EventLock ==
  /\ events = "acquire"
  /\ lock = "free"
  /\ events' = "insert"
  /\ lock' = "events"
  /\ UNCHANGED <<main, runs, allowed, snapshot, inHand, heartbeat, swarm, own,
                 gate>>

EventInsert ==
  /\ events = "insert"
  /\ events' = "next"
  /\ lock' = "free"
  /\ allowed' = allowed \cup inHand
  /\ inHand' = {}
  /\ UNCHANGED <<main, runs, snapshot, heartbeat, swarm, own, gate>>

-----------------------------------------------------------------------------
(* Heartbeat task and access gate.                                         *)

HeartbeatTick ==
  /\ heartbeat = "tick"
  /\ heartbeat' = "write"
  /\ UNCHANGED <<main, runs, lock, allowed, snapshot, events, inHand, swarm,
                 own, gate>>

(* Mutant: the heartbeat reports the reserved status "busy". *)
HeartbeatWritesBusy ==
  /\ heartbeat = "write"
  /\ heartbeat' = IF main = "aborted" THEN "off" ELSE "tick"
  /\ entry' \in {entry, "busy"}
  /\ UNCHANGED <<main, runs, lock, allowed, snapshot, events, inHand, swarm,
                 farewell, gate>>

(* A failed write is logged; the loop goes on unless it was aborted. *)
HeartbeatWrite ==
  /\ heartbeat = "write"
  /\ heartbeat' = IF main = "aborted" THEN "off" ELSE "tick"
  /\ entry' \in {entry, "idle"}
  /\ UNCHANGED <<main, runs, lock, allowed, snapshot, events, inHand, swarm,
                 farewell, gate>>

(* Mutant: a contested lock lets the peer in. *)
AdmitsFailOpen(p) == lock # "free" \/ p \in allowed

(* The AccessLimit closure: try_read, and deny if the lock is contested. *)
Admits(p) == lock = "free" /\ p \in allowed

Connect(p) ==
  /\ Accepting
  /\ gate' = [gate EXCEPT ![p] = IF Admits(p) THEN "accepted" ELSE "denied"]
  /\ UNCHANGED <<main, runs, lock, allowed, snapshot, tasks, swarm, own>>

-----------------------------------------------------------------------------
MainStep ==
  \/ Import \/ QueryExisting \/ PopulateLock \/ PopulateInsert
  \/ PopulateUnlock \/ Register
  \/ WriteOffline \/ AbortTasks \/ RouterShutdown

EventTask == TakeEvent \/ EventLock \/ EventInsert

Heartbeat == HeartbeatTick \/ HeartbeatWrite

DocEngine ==
  \/ \E p \in Satellites : RemoteInsert(p)
  \/ \E p \in Members : NeighborUp(p) \/ NeighborDown(p)

Next ==
  \/ Spawn \/ CtrlC \/ Crash
  \/ MainStep \/ EventTask \/ Heartbeat \/ DocEngine
  \/ \E p \in Peers : Connect(p)

Spec == Init /\ [][Next]_vars

(* The runtime polls every task that can move; nobody owes us a signal, a  *)
(* crash, a restart, an incoming event or a connection.                    *)
FairSpec ==
  /\ Spec
  /\ WF_vars(MainStep)
  /\ WF_vars(EventTask)
  /\ WF_vars(Heartbeat)

-----------------------------------------------------------------------------
(* Properties.                                                             *)

(* Every variable of the process holds a value its Rust type allows. *)
TypeOK ==
  /\ main \in MainStates
  /\ runs \in 0 .. MaxRuns
  /\ lock \in {"free", "main", "events"}
  /\ allowed \subseteq Members
  /\ snapshot \subseteq Satellites
  /\ queue \in Seq(Event)
  /\ events \in {"off", "next", "acquire", "insert"}
  /\ inHand \subseteq Members
  /\ heartbeat \in {"off", "tick", "write"}
  /\ docKeys \subseteq Satellites
  /\ neighbors \subseteq Members
  /\ met \subseteq Members
  /\ entry \in {"none", "idle", "offline"}
  /\ farewell \in BOOLEAN
  /\ gate \in [Peers -> {"none", "accepted", "denied"}]

(* The peers that a queue of events will add to allowed_peers. *)
Inserting(q) == {q[i].peer : i \in {j \in 1 .. Len(q) :
                                     q[j].kind # "NeighborDown"}}

(* The subscription is opened before the populate query and the event task *)
(* starts after it: no peer the document or the swarm ever showed this run *)
(* falls between the two, it is allowed or still on its way to be.         *)
NoLostPeer ==
  Subscribed =>
    docKeys \cup met \subseteq allowed \cup snapshot \cup Inserting(queue) \cup inHand

(* The AccessLimit closure lets in only endpoints that the document or the *)
(* gossip swarm has shown to this run: never a stranger, not even while    *)
(* the lock is contested.                                                  *)
GateSound ==
  Accepting =>
    \A p \in Peers : gate[p] = "accepted" => p \in docKeys \cup met

(* A peer once let in is refused later in the same run only because the    *)
(* lock is contested at that moment, never because it was forgotten (for   *)
(* example after NeighborDown).                                            *)
OnceIn ==
  [][\A p \in Peers :
       gate[p] = "accepted" /\ gate'[p] = "denied" => lock # "free"]_vars

(* A satellite whose entry has reached this replica is admitted in the end,*)
(* whatever order the populate scan and the events run in.                 *)
EntryAdmitted ==
  \A p \in Satellites :
    p \in docKeys ~> (p \in allowed \/ ~Subscribed)

(* A process as the document sees it. *)
Phase == CASE main \in {"running", "interrupted"} -> "up"
           [] main \in {"offlined", "aborted"} -> "stopping"
           [] OTHER -> "down"

Entry == INSTANCE Registration WITH phase <- Phase, run <- runs

(* Whatever its tasks do meanwhile, an aborted heartbeat and a farewell    *)
(* that fails included, a run registers once, says "offline" only on its   *)
(* way out, and leaves its entry alone once it has returned or crashed.    *)
KeepsItsWord == Entry!Spec

(* Doc comment of run_satellite_join, "On shutdown: set status to          *)
(* offline": a satellite that wrote its offline entry and stopped is not   *)
(* listed as idle.                                                         *)
OfflineAtExit == main = "stopped" /\ farewell => entry = "offline"
=============================================================================
